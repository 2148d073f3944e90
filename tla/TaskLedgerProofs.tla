-------------------------- MODULE TaskLedgerProofs --------------------------
(***************************************************************************)
(* Proofs about TaskLedger: its inductive invariant, the safety            *)
(* properties that follow from it, and that it implements TaskLifecycle.   *)
(***************************************************************************)
EXTENDS TaskLedger, TLAPS

Changes == [to: States, reopen: BOOLEAN, expected: Nat, count: Nat, binding: Places]

-----------------------------------------------------------------------------
(* Lemmas about the operators.                                               *)

(* A terminal state has no plain move out, and a move joins two states.      *)
LEMMA TerminalIsFinal ==
  ASSUME NEW s, NEW t, CanMoveTo(s, t)
  PROVE  ~IsTerminal(s) /\ s \in States /\ t \in States
BY DEF CanMoveTo, IsTerminal, TerminalStates, ActiveStates, States, OpenStates

(* The row a change leaves behind is a row again, with the new version.      *)
LEMMA MovedIsRow ==
  ASSUME NEW r \in Row, NEW at \in Nat, NEW c \in Changes
  PROVE  /\ Moved(r, c, at) \in Row
         /\ Moved(r, c, at).state = c.to
         /\ Moved(r, c, at).seq = at
         /\ Moved(r, c, at).created = r.created
         /\ c.binding = Unbound => Moved(r, c, at).binding = r.binding
         /\ c.reopen /\ (c.count = 0 \/ c.count > r.reopens)
              => Moved(r, c, at).reopens > r.reopens
BY DEF Moved, Changes, Row, Places

(* A change keeps the parts it was made of.                                  *)
LEMMA ChangeParts ==
  ASSUME NEW to \in States, NEW reopen \in BOOLEAN, NEW expected \in Nat, NEW count \in Nat,
         NEW place \in Places
  PROVE  /\ Change(to, reopen, expected, count, place) \in Changes
         /\ Change(to, reopen, expected, count, place).to = to
         /\ Change(to, reopen, expected, count, place).reopen = reopen
         /\ Change(to, reopen, expected, count, place).expected = expected
         /\ Change(to, reopen, expected, count, place).count = count
         /\ Change(to, reopen, expected, count, place).binding = place
BY DEF Change, Changes

(* Reopening leads to working, and what it starts from is a state.           *)
LEMMA AcceptedFrom ==
  ASSUME TypeOK, NEW t \in Tasks, NEW c \in Changes, Accepts(t, c)
  PROVE  t \in live /\ row[t] \in Row /\ row[t].state # "cancelled"
BY TerminalIsFinal DEF Accepts, Reopens, IsTerminal, TerminalStates, TypeOK, CanMoveTo, ActiveStates

(* The three ways a row is written are transitions with a well-formed change. *)
LEMMA MoveIsTransition ==
  ASSUME NEW t \in Tasks, NEW s \in States, NEW b \in Places, Move(t, s, b)
  PROVE  /\ Change(s, FALSE, 0, 0, b) \in Changes
         /\ Transition(t, Change(s, FALSE, 0, 0, b))
BY ChangeParts DEF Move

(* What an observer that read a task holds is a row of that task.             *)
LEMMA SnapshotTask ==
  ASSUME TypeOK, NEW o \in Observers, NEW c, Transition(seen[o].task, c)
  PROVE  seen[o].task \in Tasks /\ seen[o].task \in live /\ seen[o].row \in Row /\ seen[o].row.seq \in Nat
<1>1. seen[o] \in Snapshot
  BY DEF TypeOK
<1>2. seen[o].task \in live
  BY DEF Transition, Accepts
<1>. QED BY <1>1, <1>2 DEF TypeOK, Snapshot, Row

(* TaskService::reopen of an old read is such a transition.                   *)
LEMMA ReopenSeenIsTransition ==
  ASSUME TypeOK, NEW o \in Observers, ReopenSeen(o)
  PROVE  LET c == Change("working", TRUE, seen[o].row.seq, 0, Unbound) IN
           c \in Changes /\ Transition(seen[o].task, c) /\ seen[o].task \in Tasks
<1>. DEFINE c == Change("working", TRUE, seen[o].row.seq, 0, Unbound)
<1>1. Transition(seen[o].task, c)
  BY DEF ReopenSeen
<1>2. seen[o].task \in Tasks /\ seen[o].row.seq \in Nat
  BY <1>1, SnapshotTask
<1>3. "working" \in States /\ Unbound \in Places
  BY DEF States, OpenStates, Places
<1>. QED BY <1>1, <1>2, <1>3, ChangeParts

(* So is the reopening of a mirror by a later remote generation.              *)
LEMMA ReopenRemoteIsTransition ==
  ASSUME TypeOK, NEW o \in Observers, NEW n \in 1..MaxReopens, ReopenRemote(o, n)
  PROVE  LET c == Change("working", TRUE, seen[o].row.seq, n, Unbound) IN
           c \in Changes /\ Transition(seen[o].task, c) /\ seen[o].task \in Tasks
<1>. DEFINE c == Change("working", TRUE, seen[o].row.seq, n, Unbound)
<1>1. Transition(seen[o].task, c)
  BY DEF ReopenRemote
<1>2. seen[o].task \in Tasks /\ seen[o].row.seq \in Nat
  BY <1>1, SnapshotTask
<1>3. "working" \in States /\ Unbound \in Places /\ n \in Nat
  BY DEF States, OpenStates, Places
<1>. QED BY <1>1, <1>2, <1>3, ChangeParts

-----------------------------------------------------------------------------
(* The inductive invariant, action by action.                                *)

LEMMA InitIInv == Init => IInv
<1>. SUFFICES ASSUME Init PROVE IInv
  OBVIOUS
<1>1. BlankRow \in Row /\ NeverTold \in Told /\ NeverTold.seq = 0
  BY DEF BlankRow, Row, Kinds, Places, NeverTold, Told, States, OpenStates
<1>2. NoSnapshot \in Snapshot /\ NoSnapshot.task = NoTask
  BY <1>1 DEF NoSnapshot, Snapshot
<1>3. TypeOK
  BY <1>1, <1>2 DEF Init, TypeOK
<1>4. SeenIsPast
  BY <1>2, LedgerAssumption DEF Init, SeenIsPast
<1>5. ToldIsPast
  BY <1>1 DEF Init, ToldIsPast
<1>6. VersionsNameWrites /\ LogTellsRow
  BY DEF Init, VersionsNameWrites, LogTellsRow
<1>. QED BY <1>3, <1>4, <1>5, <1>6 DEF IInv

(* A transition writes one row with a version nobody has seen yet.            *)
LEMMA TransitionKeepsIInv ==
  ASSUME IInv, NEW t \in Tasks, NEW c \in Changes, Transition(t, c)
  PROVE  IInv'
<1>. USE DEF IInv
<1>1. t \in live /\ row[t] \in Row
  BY AcceptedFrom DEF Transition
<1>2. seq \in Nat /\ seq' = seq + 1 /\ seq' \in Nat
  BY DEF TypeOK, Transition
<1>3. /\ row' = [row EXCEPT ![t] = Moved(row[t], c, seq')]
      /\ log' = log \union {EventOf(t, seq', row[t].state, c.to)}
      /\ UNCHANGED <<used, live, noticed, told, seen>>
  BY DEF Transition
<1>4. /\ row'[t] \in Row /\ row'[t].seq = seq' /\ row'[t].state = c.to
      /\ \A u \in Tasks : u # t => row'[u] = row[u]
  BY <1>1, <1>2, <1>3, MovedIsRow DEF TypeOK
<1>5. EventOf(t, seq', row[t].state, c.to) \in Event
  BY <1>1, <1>2 DEF EventOf, Event, Row, Changes
<1>6. TypeOK'
  BY <1>2, <1>3, <1>4, <1>5 DEF TypeOK
<1>7. VersionsNameWrites'
  BY <1>1, <1>2, <1>3, <1>4 DEF VersionsNameWrites, TypeOK
<1>8. SeenIsPast'
  <2>. SUFFICES ASSUME NEW o \in Observers, seen[o].task \in Tasks
       PROVE  /\ seen[o].row.seq \in 1..seq'
              /\ seen[o].task \in live /\ seen[o].row.seq = row'[seen[o].task].seq
                   => seen[o].row = row'[seen[o].task]
    BY <1>3 DEF SeenIsPast
  <2>1. seen[o].row.seq \in 1..seq
    BY DEF SeenIsPast
  <2>2. CASE seen[o].task = t
    BY <1>2, <1>4, <2>1, <2>2
  <2>3. CASE seen[o].task # t
    BY <1>2, <1>4, <2>1, <2>3 DEF SeenIsPast
  <2>. QED BY <2>2, <2>3
<1>9. ToldIsPast'
  <2>. SUFFICES ASSUME NEW u \in Tasks
       PROVE  /\ told[u].seq <= seq'
              /\ u \in live /\ told[u].seq = row'[u].seq => told[u].state = row'[u].state
    BY <1>3 DEF ToldIsPast
  <2>1. told[u].seq <= seq /\ told[u].seq \in Nat
    BY DEF ToldIsPast, TypeOK, Told
  <2>2. CASE u = t
    BY <1>2, <1>4, <2>1, <2>2
  <2>3. CASE u # t
    BY <1>2, <1>4, <2>1, <2>3 DEF ToldIsPast
  <2>. QED BY <2>2, <2>3
<1>10. LogTellsRow'
  <2>. SUFFICES ASSUME NEW u \in live
       PROVE  /\ \E e \in log' : e.task = u /\ e.seq = row'[u].seq /\ e.to = row'[u].state
              /\ \A e \in log' : e.task = u => e.seq <= row'[u].seq
    <3>1. \A e \in log' : e.task \in live'
      BY <1>1, <1>3 DEF LogTellsRow, EventOf
    <3>. QED BY <1>3, <3>1 DEF LogTellsRow
  <2>0. u \in Tasks
    BY DEF TypeOK
  <2>. DEFINE new == EventOf(t, seq', row[t].state, c.to)
  <2>1. new.task = t /\ new.seq = seq' /\ new.to = c.to /\ new \in log'
    BY <1>3 DEF EventOf
  <2>2. CASE u = t
    <3>1. \A e \in log : e.task = t => e.seq <= row[t].seq
      BY <1>1 DEF LogTellsRow
    <3>2. row[t].seq \in 1..seq
      BY <1>1 DEF VersionsNameWrites
    <3>3. \A e \in log : e.seq \in Nat
      BY DEF TypeOK, Event
    <3>. QED BY <1>2, <1>3, <1>4, <2>1, <2>2, <3>1, <3>2, <3>3
  <2>3. CASE u # t
    <3>1. row'[u] = row[u]
      BY <1>4, <2>0, <2>3
    <3>. QED BY <1>3, <2>1, <2>3, <3>1 DEF LogTellsRow
  <2>. QED BY <2>2, <2>3
<1>. QED BY <1>6, <1>7, <1>8, <1>9, <1>10

(* A new row starts its own history: nothing read or told can be about it.    *)
LEMMA InsertKeepsIInv ==
  ASSUME IInv, NEW t \in Tasks, NEW kind \in Kinds, NEW place \in Places,
         NEW parent \in used \union {NoTask}, Insert(t, kind, place, parent)
  PROVE  IInv'
<1>. USE DEF IInv
<1>1. seq \in Nat /\ seq' = seq + 1 /\ seq' \in Nat /\ t \notin live /\ t \notin used
  BY DEF TypeOK, Insert
<1>2. /\ used' = used \union {t} /\ live' = live \union {t}
      /\ log' = log \union {EventOf(t, seq', "none", "queued")}
      /\ UNCHANGED <<noticed, told, seen>>
  BY DEF Insert
<1>3. /\ row'[t] \in Row /\ row'[t].seq = seq' /\ row'[t].state = "queued"
      /\ row' \in [Tasks -> Row]
      /\ \A u \in Tasks : u # t => row'[u] = row[u]
  <2>. DEFINE new == [state |-> "queued", seq |-> seq', kind |-> kind, binding |-> place,
                      parent |-> parent, created |-> seq', reopens |-> 0]
  <2>1. new \in Row /\ new.seq = seq' /\ new.state = "queued"
    BY <1>1 DEF Row, States, OpenStates, TypeOK
  <2>2. row' = [row EXCEPT ![t] = new]
    BY DEF Insert
  <2>. HIDE DEF new
  <2>. QED BY <2>1, <2>2 DEF TypeOK
<1>4. LET e == EventOf(t, seq', "none", "queued") IN
        e \in Event /\ e.task = t /\ e.seq = seq' /\ e.to = "queued"
  BY <1>1 DEF EventOf, Event, States, OpenStates
<1>5. TypeOK'
  BY <1>1, <1>2, <1>3, <1>4 DEF TypeOK
<1>6. VersionsNameWrites'
  BY <1>1, <1>2, <1>3 DEF VersionsNameWrites, TypeOK
<1>7. SeenIsPast'
  <2>. SUFFICES ASSUME NEW o \in Observers, seen[o].task \in Tasks
       PROVE  /\ seen[o].row.seq \in 1..seq'
              /\ seen[o].task \in live' /\ seen[o].row.seq = row'[seen[o].task].seq
                   => seen[o].row = row'[seen[o].task]
    BY <1>2 DEF SeenIsPast
  <2>1. seen[o].row.seq \in 1..seq
    BY DEF SeenIsPast
  <2>2. CASE seen[o].task = t
    BY <1>1, <1>3, <2>1, <2>2
  <2>3. CASE seen[o].task # t
    BY <1>1, <1>2, <1>3, <2>1, <2>3 DEF SeenIsPast
  <2>. QED BY <2>2, <2>3
<1>8. ToldIsPast'
  <2>. SUFFICES ASSUME NEW u \in Tasks
       PROVE  /\ told[u].seq <= seq'
              /\ u \in live' /\ told[u].seq = row'[u].seq => told[u].state = row'[u].state
    BY <1>2 DEF ToldIsPast
  <2>1. told[u].seq <= seq /\ told[u].seq \in Nat
    BY DEF ToldIsPast, TypeOK, Told
  <2>2. CASE u = t
    BY <1>1, <1>3, <2>1, <2>2
  <2>3. CASE u # t
    BY <1>1, <1>2, <1>3, <2>1, <2>3 DEF ToldIsPast
  <2>. QED BY <2>2, <2>3
<1>9. LogTellsRow'
  <2>1. \A e \in log' : e.task \in live'
    BY <1>2, <1>4 DEF LogTellsRow
  <2>. SUFFICES ASSUME NEW u \in live'
       PROVE  /\ \E e \in log' : e.task = u /\ e.seq = row'[u].seq /\ e.to = row'[u].state
              /\ \A e \in log' : e.task = u => e.seq <= row'[u].seq
    BY <2>1 DEF LogTellsRow
  <2>2. CASE u = t
    <3>1. \A e \in log : e.task # t
      BY <1>1 DEF LogTellsRow
    <3>. QED BY <1>1, <1>2, <1>3, <1>4, <2>2, <3>1
  <2>3. CASE u # t
    <3>1. u \in live /\ row'[u] = row[u]
      BY <1>2, <1>3, <2>3 DEF TypeOK
    <3>. QED BY <1>2, <1>4, <2>3, <3>1 DEF LogTellsRow
  <2>. QED BY <2>2, <2>3
<1>. QED BY <1>5, <1>6, <1>7, <1>8, <1>9

(* Forgetting only takes away: rows, events and notices of the same tasks.    *)
LEMMA ForgetKeepsIInv ==
  ASSUME IInv, NEW gone, Forget(gone), seq' \in Nat, seq <= seq'
  PROVE  IInv'
<1>. USE DEF IInv
<1>1. /\ live' = live \ gone /\ used' = used /\ seen' = seen
      /\ log' = {e \in log : e.task \notin gone}
      /\ noticed' \subseteq noticed
  BY DEF Forget
<1>2. /\ row' = [u \in Tasks |-> IF u \in live' THEN row[u] ELSE BlankRow]
      /\ told' = [u \in Tasks |-> IF u \in live' THEN told[u] ELSE NeverTold]
  BY DEF Forget
<1>3. BlankRow \in Row /\ NeverTold \in Told /\ NeverTold.seq = 0
  BY DEF BlankRow, Row, Kinds, Places, NeverTold, Told, States, OpenStates
<1>4. seq \in Nat /\ live \subseteq Tasks
  BY DEF TypeOK
<1>5. TypeOK'
  BY <1>1, <1>2, <1>3 DEF TypeOK
<1>. DEFINE stays(u) == u \in live /\ row'[u] = row[u] /\ u \notin gone
<1>10. \A u \in live' : stays(u)
  BY <1>1, <1>2, <1>4
<1>6. VersionsNameWrites'
  <2>. SUFFICES ASSUME NEW u \in live'
       PROVE  row'[u].seq \in 1..seq' /\ \A v \in live' : u # v => row'[u].seq # row'[v].seq
    BY DEF VersionsNameWrites
  <2>1. row[u].seq \in 1..seq /\ \A v \in live : u # v => row[u].seq # row[v].seq
    BY <1>10 DEF VersionsNameWrites
  <2>. QED BY <1>4, <1>10, <2>1
<1>7. SeenIsPast'
  <2>. SUFFICES ASSUME NEW p \in Observers, seen[p].task \in Tasks
       PROVE  /\ seen[p].row.seq \in 1..seq'
              /\ seen[p].task \in live' /\ seen[p].row.seq = row'[seen[p].task].seq
                   => seen[p].row = row'[seen[p].task]
    BY <1>1 DEF SeenIsPast
  <2>1. /\ seen[p].row.seq \in 1..seq
        /\ seen[p].task \in live /\ seen[p].row.seq = row[seen[p].task].seq
             => seen[p].row = row[seen[p].task]
    BY DEF SeenIsPast
  <2>. QED BY <1>4, <1>10, <2>1
<1>8. ToldIsPast'
  <2>. SUFFICES ASSUME NEW u \in Tasks
       PROVE  /\ told'[u].seq <= seq'
              /\ u \in live' /\ told'[u].seq = row'[u].seq => told'[u].state = row'[u].state
    BY DEF ToldIsPast
  <2>1. told[u].seq <= seq /\ told[u].seq \in Nat
    BY DEF ToldIsPast, TypeOK, Told
  <2>2. CASE u \in live'
    BY <1>1, <1>2, <1>4, <2>1, <2>2 DEF ToldIsPast
  <2>3. CASE u \notin live'
    BY <1>2, <1>3, <2>3
  <2>. QED BY <2>2, <2>3
<1>9. LogTellsRow'
  <2>1. ASSUME NEW e \in log' PROVE e.task \in live'
    <3>1. e \in log /\ e.task \notin gone
      BY <1>1
    <3>. QED BY <1>1, <3>1 DEF LogTellsRow
  <2>2. ASSUME NEW u \in live'
        PROVE  /\ \E e \in log' : e.task = u /\ e.seq = row'[u].seq /\ e.to = row'[u].state
               /\ \A e \in log' : e.task = u => e.seq <= row'[u].seq
    <3>1. stays(u)
      BY <1>10
    <3>2. PICK e \in log : e.task = u /\ e.seq = row[u].seq /\ e.to = row[u].state
      BY <3>1 DEF LogTellsRow
    <3>3. e \in log'
      BY <1>1, <3>1, <3>2
    <3>4. \A f \in log : f.task = u => f.seq <= row[u].seq
      BY <3>1 DEF LogTellsRow
    <3>5. \A f \in log' : f \in log
      BY <1>1
    <3>. QED BY <3>1, <3>2, <3>3, <3>4, <3>5
  <2>. QED BY <2>1, <2>2 DEF LogTellsRow
<1>. QED BY <1>5, <1>6, <1>7, <1>8, <1>9

(* Reading takes the row as it stands; telling records what was read.         *)
LEMMA ObserveKeepsIInv ==
  ASSUME IInv, NEW o \in Observers, NEW t \in Tasks, Observe(o, t)
  PROVE  IInv'
<1>. USE DEF IInv
<1>1. t \in live /\ row[t] \in Row /\ row[t].seq \in 1..seq
  BY DEF Observe, TypeOK, VersionsNameWrites
<1>2. /\ seen' = [seen EXCEPT ![o] = [task |-> t, row |-> row[t]]]
      /\ UNCHANGED <<used, live, row, log, noticed, told, seq>>
  BY DEF Observe
<1>3. [task |-> t, row |-> row[t]] \in Snapshot
  BY <1>1 DEF Snapshot
<1>4. TypeOK'
  BY <1>2, <1>3 DEF TypeOK
<1>5. SeenIsPast'
  <2>. SUFFICES ASSUME NEW p \in Observers, seen'[p].task \in Tasks
       PROVE  /\ seen'[p].row.seq \in 1..seq
              /\ seen'[p].task \in live /\ seen'[p].row.seq = row[seen'[p].task].seq
                   => seen'[p].row = row[seen'[p].task]
    BY <1>2 DEF SeenIsPast
  <2>1. CASE p = o
    <3>1. seen'[o] = [task |-> t, row |-> row[t]]
      BY <1>2 DEF TypeOK
    <3>. QED BY <1>1, <2>1, <3>1
  <2>2. CASE p # o
    <3>1. seen'[p] = seen[p]
      BY <1>2, <2>2 DEF TypeOK
    <3>. QED BY <3>1 DEF SeenIsPast
  <2>. QED BY <2>1, <2>2
<1>6. (VersionsNameWrites /\ ToldIsPast /\ LogTellsRow)'
  BY <1>2 DEF VersionsNameWrites, ToldIsPast, LogTellsRow
<1>. QED BY <1>4, <1>5, <1>6

(* What is told is what was read, so the past stays past.                     *)
LEMMA MarkToldKeepsIInv ==
  ASSUME IInv, NEW o \in Observers, MarkTold(o)
  PROVE  IInv'
<1>. USE DEF IInv
<1>. DEFINE t == seen[o].task
            now == [state |-> seen[o].row.state, seq |-> seen[o].row.seq]
<1>1. seen[o] \in Snapshot /\ t \in Tasks
  BY DEF MarkTold, TypeOK
<1>2. /\ told' = [told EXCEPT ![t] = now]
      /\ UNCHANGED <<used, live, row, log, noticed, seen, seq>>
  BY DEF MarkTold
<1>3. now \in Told /\ now.seq = seen[o].row.seq /\ now.state = seen[o].row.state
  BY <1>1 DEF Told, Snapshot, Row
<1>4. now.seq <= seq /\ (t \in live /\ now.seq = row[t].seq => now.state = row[t].state)
  BY <1>1, <1>3 DEF SeenIsPast, TypeOK
<1>. HIDE DEF now
<1>5. told'[t] = now /\ told' \in [Tasks -> Told] /\ \A u \in Tasks : u # t => told'[u] = told[u]
  BY <1>1, <1>2, <1>3 DEF TypeOK
<1>6. TypeOK'
  BY <1>2, <1>5 DEF TypeOK
<1>7. ToldIsPast'
  BY <1>2, <1>4, <1>5 DEF ToldIsPast
<1>8. (VersionsNameWrites /\ SeenIsPast /\ LogTellsRow)'
  BY <1>2 DEF VersionsNameWrites, SeenIsPast, LogTellsRow
<1>. QED BY <1>6, <1>7, <1>8

(* Every action of the ledger, and stuttering, keeps the invariant.           *)
LEMMA StepKeepsIInv == IInv /\ [Next]_vars => IInv'
<1>. SUFFICES ASSUME IInv, [Next]_vars PROVE IInv'
  OBVIOUS
<1>. USE DEF IInv
<1>1. CASE \E t \in Tasks, k \in Kinds, b \in Places, p \in used \union {NoTask} : Insert(t, k, b, p)
  BY <1>1, InsertKeepsIInv
<1>2. CASE \E t \in Tasks, s \in States, b \in Places : Move(t, s, b)
  BY <1>2, MoveIsTransition, TransitionKeepsIInv
<1>3. CASE \E o \in Observers, t \in Tasks : Observe(o, t)
  BY <1>3, ObserveKeepsIInv
<1>4. CASE \E o \in Observers : ReopenSeen(o)
  BY <1>4, ReopenSeenIsTransition, TransitionKeepsIInv
<1>5. CASE \E o \in Observers, n \in 1..MaxReopens : ReopenRemote(o, n)
  BY <1>5, ReopenRemoteIsTransition, TransitionKeepsIInv
<1>6. CASE \E t \in Tasks : SetNotice(t)
  BY <1>6 DEF SetNotice, TypeOK, VersionsNameWrites, SeenIsPast, ToldIsPast, LogTellsRow
<1>7. CASE \E o \in Observers : MarkTold(o)
  BY <1>7, MarkToldKeepsIInv
<1>8. CASE \E before \in 1..(MaxSeq + 1) : PurgeEnded(before)
  BY <1>8, ForgetKeepsIInv DEF PurgeEnded, TypeOK
<1>9. CASE \E t \in Tasks : DeleteEnded(t)
  BY <1>9, ForgetKeepsIInv DEF DeleteEnded, TypeOK
<1>10. CASE UNCHANGED vars
  BY <1>10 DEF vars, TypeOK, VersionsNameWrites, SeenIsPast, ToldIsPast, LogTellsRow
<1>. QED BY <1>1, <1>2, <1>3, <1>4, <1>5, <1>6, <1>7, <1>8, <1>9, <1>10 DEF Next

(* The inductive invariant holds of every reachable state of the ledger.      *)
THEOREM LedgerInvariant == Spec => []IInv
BY InitIInv, StepKeepsIInv, PTL DEF Spec

(* The ledger's rows, events, notices and snapshots are always well formed.   *)
THEOREM LedgerTypes == Spec => []TypeOK
BY LedgerInvariant, PTL DEF IInv

(* Versions name writes: the comparison every expected_seq and told_seq makes. *)
THEOREM VersionsAlwaysNameWrites == Spec => []VersionsNameWrites
BY LedgerInvariant, PTL DEF IInv

(* The newest event of a task is always the row it has.                        *)
THEOREM LogAlwaysTellsRow == Spec => []LogTellsRow
BY LedgerInvariant, PTL DEF IInv

(* A parent counts as told only of the very state that stands.                 *)
THEOREM ToldAlwaysWhatStands == Spec => []ToldIsWhatStands
<1>1. IInv => ToldIsWhatStands
  BY DEF IInv, TypeOK, ToldIsPast, ToldIsWhatStands
<1>. QED BY <1>1, LedgerInvariant, PTL

-----------------------------------------------------------------------------
(* What no step does.                                                        *)

(* A row that stands before and after a step and changed was written by one    *)
(* accepted change; a reopening names the newest generation known of it.       *)
LEMMA RowsMoveByTransition ==
  ASSUME IInv, [Next]_vars, NEW t \in live, t \in live', row'[t] # row[t]
  PROVE  \/ \E s \in States, b \in Places : Move(t, s, b)
         \/ \E o \in Observers : seen[o].task = t /\ ReopenSeen(o)
         \/ \E o \in Observers, n \in 1..MaxReopens : seen[o].task = t /\ ReopenRemote(o, n)
<1>0. TypeOK /\ t \in Tasks
  BY DEF IInv, TypeOK
<1>1. ASSUME NEW u \in Tasks, NEW c, Transition(u, c) PROVE u = t
  BY <1>0, <1>1 DEF Transition, TypeOK
<1>2. ASSUME NEW gone, Forget(gone) PROVE FALSE
  BY <1>0, <1>2 DEF Forget
<1>3. CASE \E u \in Tasks, k \in Kinds, b \in Places, p \in used \union {NoTask} : Insert(u, k, b, p)
  BY <1>0, <1>3 DEF Insert, TypeOK
<1>4. CASE \E u \in Tasks, s \in States, b \in Places : Move(u, s, b)
  BY <1>1, <1>4 DEF Move
<1>5. CASE \E o \in Observers, u \in Tasks : Observe(o, u)
  BY <1>5 DEF Observe
<1>6. CASE \E o \in Observers : ReopenSeen(o)
  BY <1>0, <1>1, <1>6, ReopenSeenIsTransition
<1>7. CASE \E o \in Observers, n \in 1..MaxReopens : ReopenRemote(o, n)
  BY <1>0, <1>1, <1>7, ReopenRemoteIsTransition
<1>8. CASE \E u \in Tasks : SetNotice(u)
  BY <1>8 DEF SetNotice
<1>9. CASE \E o \in Observers : MarkTold(o)
  BY <1>9 DEF MarkTold
<1>10. CASE \E before \in 1..(MaxSeq + 1) : PurgeEnded(before)
  BY <1>2, <1>10 DEF PurgeEnded
<1>11. CASE \E u \in Tasks : DeleteEnded(u)
  BY <1>2, <1>11 DEF DeleteEnded
<1>12. CASE UNCHANGED vars
  BY <1>12 DEF vars
<1>. QED BY <1>3, <1>4, <1>5, <1>6, <1>7, <1>8, <1>9, <1>10, <1>11, <1>12 DEF Next

(* Read the other way: what must have held for a row to have changed.         *)
LEMMA WhatWritesARow ==
  ASSUME IInv, [Next]_vars, NEW t \in live, t \in live', row'[t] # row[t]
  PROVE  \E c \in Changes : /\ Transition(t, c)
                            /\ c.reopen => /\ c.to = "working" /\ c.binding = Unbound
                                           /\ c.count = 0 \/ c.count > row[t].reopens
<1>0. TypeOK /\ t \in Tasks
  BY DEF IInv, TypeOK
<1>1. CASE \E s \in States, b \in Places : Move(t, s, b)
  <2>1. PICK s \in States, b \in Places : Move(t, s, b)
    BY <1>1
  <2>2. Change(s, FALSE, 0, 0, b).reopen = FALSE
    BY DEF Change
  <2>. QED BY <1>0, <2>1, <2>2, MoveIsTransition
<1>2. CASE \E o \in Observers : seen[o].task = t /\ ReopenSeen(o)
  <2>1. PICK o \in Observers : seen[o].task = t /\ ReopenSeen(o)
    BY <1>2
  <2>. DEFINE c == Change("working", TRUE, seen[o].row.seq, 0, Unbound)
  <2>2. c.to = "working" /\ c.binding = Unbound /\ c.count = 0
    BY DEF Change
  <2>3. c \in Changes /\ Transition(t, c)
    BY <1>0, <2>1, ReopenSeenIsTransition
  <2>. QED BY <2>2, <2>3
<1>3. CASE \E o \in Observers, n \in 1..MaxReopens : seen[o].task = t /\ ReopenRemote(o, n)
  <2>1. PICK o \in Observers, n \in 1..MaxReopens : seen[o].task = t /\ ReopenRemote(o, n)
    BY <1>3
  <2>. DEFINE c == Change("working", TRUE, seen[o].row.seq, n, Unbound)
  <2>2. c.to = "working" /\ c.binding = Unbound /\ c.count = n /\ c.expected = seen[o].row.seq
    BY DEF Change
  <2>3. c \in Changes /\ Transition(t, c)
    BY <1>0, <2>1, ReopenRemoteIsTransition
  <2>4. seen[o].row.seq \in 1..seq
    BY <1>0, <2>1 DEF IInv, SeenIsPast
  <2>5. seen[o].row.seq = row[t].seq
    <3>1. c.expected \in {0, row[t].seq}
      BY <2>3 DEF Transition, Accepts
    <3>. HIDE DEF c
    <3>. QED BY <2>2, <2>4, <3>1 DEF IInv, TypeOK
  <2>6. seen[o].row = row[t]
    BY <1>0, <2>1, <2>5 DEF IInv, SeenIsPast
  <2>7. c.count > row[t].reopens
    BY <2>1, <2>2, <2>6 DEF ReopenRemote
  <2>. HIDE DEF c
  <2>. QED BY <2>2, <2>3, <2>7
<1>. QED BY <1>1, <1>2, <1>3, RowsMoveByTransition

(* A cancelled task is never written again, whatever an observer still does.   *)
THEOREM CancelledStaysCancelled == Spec => CancelIsFinal
<1>1. ASSUME IInv, [Next]_vars, NEW t \in live \intersect live', row[t].state = "cancelled"
      PROVE  row'[t] = row[t]
  <2>1. t \in Tasks /\ TypeOK
    BY <1>1 DEF IInv, TypeOK
  <2>. QED BY <1>1, <2>1, WhatWritesARow, AcceptedFrom DEF Transition
<1>2. IInv /\ [Next]_vars =>
        [\A t \in live \intersect live' : row[t].state = "cancelled" => row'[t] = row[t]]_vars
  BY <1>1
<1>. QED BY <1>2, LedgerInvariant, PTL DEF Spec, CancelIsFinal

(* An ended task is revived only as a new generation, and only while it is the *)
(* newest assignment of its place, although who revives it acts on an old read. *)
THEOREM RevivalIsOfTheNewest == Spec => RevivesOnlyNewest
<1>. DEFINE Revival(t) ==
       IsTerminal(row[t].state) /\ row'[t] # row[t] =>
         /\ row'[t].state = "working"
         /\ row'[t].reopens > row[t].reopens
         /\ \A u \in live' : row'[u].binding = row'[t].binding => row'[u].created <= row'[t].created
<1>1. ASSUME IInv, [Next]_vars, NEW t \in live \intersect live' PROVE Revival(t)
  <2>. SUFFICES ASSUME IsTerminal(row[t].state), row'[t] # row[t] PROVE Revival(t)
    OBVIOUS
  <2>1. t \in Tasks /\ TypeOK /\ row[t] \in Row /\ seq \in Nat
    BY <1>1 DEF IInv, TypeOK
  <2>2. PICK c \in Changes : /\ Transition(t, c)
                             /\ c.reopen => /\ c.to = "working" /\ c.binding = Unbound
                                            /\ c.count = 0 \/ c.count > row[t].reopens
    BY <1>1, WhatWritesARow
  <2>3. c.reopen
    BY <2>2, TerminalIsFinal DEF Transition, Accepts
  <2>4. seq' = seq + 1 /\ live' = live /\ row' = [row EXCEPT ![t] = Moved(row[t], c, seq')]
    BY <2>2 DEF Transition
  <2>5. /\ row'[t].state = "working" /\ row'[t].reopens > row[t].reopens
        /\ row'[t].binding = row[t].binding /\ row'[t].created = row[t].created
    BY <2>1, <2>2, <2>3, <2>4, MovedIsRow DEF TypeOK
  <2>6. ~Superseded(t)
    BY <2>2, <2>3 DEF Transition, Accepts
  <2>7. \A u \in live' : row'[u].binding = row'[t].binding => row'[u].created <= row'[t].created
    <3>. SUFFICES ASSUME NEW u \in live, row'[u].binding = row'[t].binding
         PROVE  row'[u].created <= row'[t].created
      BY <2>4
    <3>1. u \in Tasks /\ row[u].created \in Nat /\ row[t].created \in Nat
      BY <2>1 DEF TypeOK, Row
    <3>2. CASE u = t
      BY <3>1, <3>2, <2>5
    <3>3. CASE u # t
      <4>1. row'[u] = row[u]
        BY <2>1, <2>4, <3>1, <3>3 DEF TypeOK
      <4>. QED BY <2>5, <2>6, <3>1, <4>1 DEF Superseded
    <3>. QED BY <3>2, <3>3
  <2>. QED BY <2>5, <2>7
<1>2. IInv /\ [Next]_vars => [\A t \in live \intersect live' : Revival(t)]_vars
  BY <1>1
<1>. QED BY <1>2, LedgerInvariant, PTL DEF Spec, RevivesOnlyNewest

(* A reopen carries the version its observer read, and a version still the      *)
(* row's is the whole row (SeenIsPast): what is revived is what was read.       *)
THEOREM RevivalIsAsRead == Spec => RevivesOnlyAsRead
<1>. DEFINE AsRead(t) ==
       IsTerminal(row[t].state) /\ row'[t].state = "working" =>
         \E o \in Observers : seen[o] = [task |-> t, row |-> row[t]]
<1>1. ASSUME IInv, [Next]_vars, NEW t \in live \intersect live' PROVE AsRead(t)
  <2>. SUFFICES ASSUME IsTerminal(row[t].state), row'[t].state = "working"
       PROVE  \E o \in Observers : seen[o] = [task |-> t, row |-> row[t]]
    OBVIOUS
  <2>1. TypeOK /\ t \in Tasks /\ row'[t] # row[t] /\ row[t] \in Row
    BY <1>1 DEF IInv, TypeOK, IsTerminal, TerminalStates
  <2>2. ASSUME NEW s \in States, NEW b \in Places, Move(t, s, b) PROVE FALSE
    <3>. DEFINE c == Change(s, FALSE, 0, 0, b)
    <3>1. c.reopen = FALSE
      BY DEF Change
    <3>2. c \in Changes /\ Transition(t, c)
      BY <2>1, <2>2, MoveIsTransition
    <3>. HIDE DEF c
    <3>. QED BY <2>1, <3>1, <3>2, TerminalIsFinal DEF Transition, Accepts
  <2>3. ASSUME NEW o \in Observers, seen[o].task = t, NEW c \in Changes,
               c.expected = seen[o].row.seq, Transition(t, c)
        PROVE  seen[o] = [task |-> t, row |-> row[t]]
    <3>1. seen[o].row.seq \in 1..seq /\ seen[o] \in Snapshot
      BY <1>1, <2>1, <2>3 DEF IInv, SeenIsPast, TypeOK
    <3>2. seen[o].row.seq = row[t].seq
      BY <2>1, <2>3, <3>1 DEF Transition, Accepts, TypeOK
    <3>3. seen[o].row = row[t]
      BY <1>1, <2>1, <2>3, <3>2 DEF IInv, SeenIsPast
    <3>. QED BY <2>3, <3>1, <3>3 DEF Snapshot
  <2>4. ASSUME NEW o \in Observers, seen[o].task = t, ReopenSeen(o)
        PROVE  seen[o] = [task |-> t, row |-> row[t]]
    <3>. DEFINE c == Change("working", TRUE, seen[o].row.seq, 0, Unbound)
    <3>1. c \in Changes /\ Transition(t, c) /\ c.expected = seen[o].row.seq
      BY <2>1, <2>4, ReopenSeenIsTransition DEF Change
    <3>. HIDE DEF c
    <3>. QED BY <2>3, <2>4, <3>1
  <2>5. ASSUME NEW o \in Observers, NEW n \in 1..MaxReopens, seen[o].task = t, ReopenRemote(o, n)
        PROVE  seen[o] = [task |-> t, row |-> row[t]]
    <3>. DEFINE c == Change("working", TRUE, seen[o].row.seq, n, Unbound)
    <3>1. c \in Changes /\ Transition(t, c) /\ c.expected = seen[o].row.seq
      BY <2>1, <2>5, ReopenRemoteIsTransition DEF Change
    <3>. HIDE DEF c
    <3>. QED BY <2>3, <2>5, <3>1
  <2>. QED BY <1>1, <2>1, <2>2, <2>4, <2>5, RowsMoveByTransition
<1>2. IInv /\ [Next]_vars => [\A t \in live \intersect live' : AsRead(t)]_vars
  BY <1>1
<1>. QED BY <1>2, LedgerInvariant, PTL DEF Spec, RevivesOnlyAsRead

-----------------------------------------------------------------------------
(* The log as a history, and the ledger as an implementation of TaskLifecycle. *)

(* A new event starts where the newest one ended: LogTellsRow says where.     *)
LEMMA StepKeepsLogUnbroken ==
  ASSUME IInv, LogIsUnbroken, [Next]_vars
  PROVE  LogIsUnbroken'
<1>. USE DEF IInv
<1>. DEFINE Follows(e, l) == e.from # "none" =>
              \E d \in l : /\ d.task = e.task /\ d.seq < e.seq /\ d.to = e.from
                          /\ ~\E m \in l : m.task = e.task /\ m.seq > d.seq /\ m.seq < e.seq
<1>0. \A e \in log : e.seq \in Nat /\ e.seq <= seq /\ e.task \in live
  BY DEF LogTellsRow, VersionsNameWrites, TypeOK, Event
<1>1. CASE UNCHANGED log
  BY <1>1 DEF LogIsUnbroken
<1>2. CASE \E gone : Forget(gone)
  <2>1. PICK gone : log' = {e \in log : e.task \notin gone}
    BY <1>2 DEF Forget
  <2>. QED BY <2>1 DEF LogIsUnbroken
<1>3. ASSUME NEW t \in Tasks, NEW from, NEW to,
             log' = log \union {EventOf(t, seq', from, to)}, seq' = seq + 1, seq \in Nat,
             from = "none" \/ (t \in live /\ from = row[t].state)
      PROVE  LogIsUnbroken'
  <2>. DEFINE new == EventOf(t, seq', from, to)
  <2>1. new.task = t /\ new.seq = seq' /\ new.from = from
    BY DEF EventOf
  <2>. HIDE DEF new
  <2>2. ASSUME NEW e \in log PROVE Follows(e, log')
    <3>. SUFFICES ASSUME e.from # "none" PROVE Follows(e, log')
      OBVIOUS
    <3>1. PICK d \in log : /\ d.task = e.task /\ d.seq < e.seq /\ d.to = e.from
                           /\ ~\E m \in log : m.task = e.task /\ m.seq > d.seq /\ m.seq < e.seq
      BY DEF LogIsUnbroken
    <3>2. ~(new.seq < e.seq)
      BY <1>0, <1>3, <2>1
    <3>. QED BY <1>3, <3>1, <3>2 DEF new
  <2>3. Follows(new, log')
    <3>. SUFFICES ASSUME t \in live, from = row[t].state PROVE Follows(new, log')
      BY <1>3, <2>1
    <3>1. PICK d \in log : d.task = t /\ d.seq = row[t].seq /\ d.to = row[t].state
      BY DEF LogTellsRow
    <3>2. \A m \in log : m.task = t => m.seq <= d.seq
      BY <3>1 DEF LogTellsRow
    <3>3. d.seq < new.seq /\ ~(new.seq < new.seq)
      BY <1>0, <1>3, <2>1, <3>1
    <3>4. \A m \in log' : m.task = t => ~(m.seq > d.seq /\ m.seq < new.seq)
      BY <1>0, <1>3, <3>2, <3>3 DEF new
    <3>. QED BY <1>3, <2>1, <3>1, <3>3, <3>4
  <2>. QED BY <1>3, <2>2, <2>3 DEF LogIsUnbroken, new
<1>4. CASE \E t \in Tasks, k \in Kinds, b \in Places, p \in used \union {NoTask} : Insert(t, k, b, p)
  BY <1>3, <1>4 DEF Insert, TypeOK
<1>5. ASSUME NEW t \in Tasks, NEW c, Transition(t, c) PROVE LogIsUnbroken'
  BY <1>3, <1>5 DEF Transition, Accepts, TypeOK
<1>6. CASE \/ \E t \in Tasks, s \in States, b \in Places : Move(t, s, b)
           \/ \E o \in Observers : ReopenSeen(o)
           \/ \E o \in Observers, n \in 1..MaxReopens : ReopenRemote(o, n)
  BY <1>5, <1>6, ReopenSeenIsTransition, ReopenRemoteIsTransition DEF Move
<1>. QED BY <1>1, <1>2, <1>4, <1>6 DEF Next, vars, Observe, SetNotice, MarkTold, PurgeEnded, DeleteEnded

(* Every event starts where the one before it of the same task ended.          *)
THEOREM LogAlwaysUnbroken == Spec => []LogIsUnbroken
<1>1. Init => LogIsUnbroken
  BY DEF Init, LogIsUnbroken
<1>2. IInv /\ LogIsUnbroken /\ [Next]_vars => LogIsUnbroken'
  BY StepKeepsLogUnbroken
<1>. QED BY <1>1, <1>2, LedgerInvariant, PTL DEF Spec

StatusMap == [t \in Tasks |-> StatusOf(t)]

(* An accepted change is a step of a task's life.                             *)
LEMMA TransitionIsLife ==
  ASSUME IInv, NEW t \in Tasks, NEW c \in Changes, Transition(t, c), c.reopen => c.to = "working"
  PROVE  Life!Advance(t, c.to) \/ Life!Resume(t)
<1>1. TypeOK /\ t \in live /\ live' = live /\ used' = used /\ row[t] \in Row
  BY AcceptedFrom DEF IInv, Transition
<1>2. row'[t].state = c.to /\ \A u \in Tasks : u # t => row'[u] = row[u]
  BY <1>1, MovedIsRow DEF Transition, TypeOK
<1>3. StatusMap' = [StatusMap EXCEPT ![t] = c.to]
  BY <1>1, <1>2 DEF StatusMap, StatusOf
<1>4. StatusMap[t] = row[t].state
  BY <1>1 DEF StatusMap, StatusOf
<1>5. CASE ~c.reopen
  <2>1. CanMoveTo(row[t].state, c.to)
    BY <1>5 DEF Transition, Accepts
  <2>. QED BY <1>3, <1>4, <2>1 DEF Life!Advance, Life!Become, Life!CanMoveTo, CanMoveTo, Life!States,
              States, Life!ActiveStates, ActiveStates, Life!OpenStates, OpenStates,
              Life!TerminalStates, TerminalStates, StatusMap
<1>6. CASE c.reopen
  <2>1. row[t].state \in OpenStates \union {"done", "failed"}
    BY <1>1, <1>6 DEF Transition, Accepts, Reopens, Row, States, IsTerminal, TerminalStates
  <2>. QED BY <1>3, <1>4, <1>6, <2>1 DEF Life!Resume, Life!Become, Life!OpenStates, OpenStates, StatusMap
<1>. QED BY <1>5, <1>6

(* So is forgetting ended tasks, none of which is at work.                    *)
LEMMA ForgetIsLife ==
  ASSUME IInv, NEW gone \in SUBSET live, Forget(gone), \A t \in gone : Ended(row[t].state)
  PROVE  Life!Forget(gone)
<1>1. /\ TypeOK /\ gone \subseteq Tasks /\ live \subseteq used
      /\ live' = live \ gone /\ used' = used
  BY DEF IInv, TypeOK, Forget
<1>2. \A t \in Tasks : t \in live' => row'[t] = row[t]
  BY DEF Forget
<1>3. \A t \in gone : StatusMap[t] = row[t].state /\ row[t].state \in States
  BY <1>1 DEF StatusMap, StatusOf, TypeOK, Row
<1>4. StatusMap' = [t \in Tasks |-> IF t \in gone THEN "forgotten" ELSE StatusMap[t]]
  BY <1>1, <1>2 DEF StatusMap, StatusOf
<1>. QED BY <1>3, <1>4 DEF Life!Forget, Life!Ended, Ended, Life!IsTerminal, IsTerminal,
          Life!States, States, Life!OpenStates, OpenStates, Life!TerminalStates, TerminalStates, StatusMap

(* Every step of the ledger is a step of the lives of its tasks, or none.     *)
LEMMA StepIsLife == IInv /\ [Next]_vars => [Life!Next]_StatusMap
<1>. SUFFICES ASSUME IInv, [Next]_vars PROVE Life!Next \/ StatusMap' = StatusMap
  OBVIOUS
<1>0. TypeOK
  BY DEF IInv
<1>1. CASE \E t \in Tasks, k \in Kinds, b \in Places, p \in used \union {NoTask} : Insert(t, k, b, p)
  <2>1. PICK t \in Tasks, k \in Kinds, b \in Places, p \in used \union {NoTask} : Insert(t, k, b, p)
    BY <1>1
  <2>2. t \notin live /\ t \notin used /\ live' = live \union {t} /\ used' = used \union {t}
    BY <1>0, <2>1 DEF Insert, TypeOK
  <2>3. row'[t].state = "queued" /\ \A u \in Tasks : u # t => row'[u] = row[u]
    BY <1>0, <2>1 DEF Insert, TypeOK
  <2>4. StatusMap[t] = "unknown" /\ StatusMap' = [StatusMap EXCEPT ![t] = "queued"]
    BY <2>2, <2>3 DEF StatusMap, StatusOf
  <2>. QED BY <2>4 DEF Life!Next, Life!Create, Life!Become, StatusMap
<1>2. ASSUME NEW t \in Tasks, NEW c \in Changes, Transition(t, c), c.reopen => c.to = "working"
      PROVE  Life!Next
  <2>1. c.to \in Life!States
    BY DEF Changes, Life!States, States, Life!OpenStates, OpenStates, Life!TerminalStates, TerminalStates
  <2>. QED BY <1>2, <2>1, TransitionIsLife DEF Life!Next
<1>3. CASE \E t \in Tasks, s \in States, b \in Places : Move(t, s, b)
  <2>1. PICK t \in Tasks, s \in States, b \in Places : Move(t, s, b)
    BY <1>3
  <2>2. Change(s, FALSE, 0, 0, b).reopen = FALSE
    BY DEF Change
  <2>. QED BY <1>2, <2>1, <2>2, MoveIsTransition
<1>4. CASE \E o \in Observers : ReopenSeen(o)
  <2>1. PICK o \in Observers : ReopenSeen(o)
    BY <1>4
  <2>2. Change("working", TRUE, seen[o].row.seq, 0, Unbound).to = "working"
    BY DEF Change
  <2>. QED BY <1>0, <1>2, <2>1, <2>2, ReopenSeenIsTransition
<1>5. CASE \E o \in Observers, n \in 1..MaxReopens : ReopenRemote(o, n)
  <2>1. PICK o \in Observers, n \in 1..MaxReopens : ReopenRemote(o, n)
    BY <1>5
  <2>2. Change("working", TRUE, seen[o].row.seq, n, Unbound).to = "working"
    BY DEF Change
  <2>. QED BY <1>0, <1>2, <2>1, <2>2, ReopenRemoteIsTransition
<1>6. CASE \E before \in 1..(MaxSeq + 1) : PurgeEnded(before)
  <2>1. PICK before \in 1..(MaxSeq + 1) : PurgeEnded(before)
    BY <1>6
  <2>2. Life!Forget({t \in live : Purgeable(t, before)})
    BY <2>1, ForgetIsLife DEF PurgeEnded, Purgeable, Ended
  <2>. QED BY <1>0, <2>2 DEF Life!Next, TypeOK
<1>7. CASE \E t \in Tasks : DeleteEnded(t)
  <2>1. PICK t \in Tasks : DeleteEnded(t)
    BY <1>7
  <2>2. Life!Forget({t})
    BY <2>1, ForgetIsLife DEF DeleteEnded
  <2>. QED BY <2>2 DEF Life!Next
<1>8. CASE UNCHANGED <<used, live, row>>
  BY <1>8 DEF StatusMap, StatusOf
<1>. QED BY <1>1, <1>3, <1>4, <1>5, <1>6, <1>7, <1>8 DEF Next, vars, Observe, SetNotice, MarkTold

(* The ledger implements the life every reader relies on: initial states map to *)
(* initial states, every step to a step of it or to none.                       *)
THEOREM LedgerImplementsLifecycle == Spec => KeepsLifecycle
<1>1. Init => Life!Init
  BY DEF Init, Life!Init, StatusOf
<1>2. [Life!Next]_StatusMap => [Life!Next]_([t \in Tasks |-> StatusOf(t)])
  BY DEF StatusMap
<1>. QED BY <1>1, <1>2, StepIsLife, LedgerInvariant, PTL DEF Spec, KeepsLifecycle, Life!Spec
=============================================================================
