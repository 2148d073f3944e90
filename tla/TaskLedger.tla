----------------------------- MODULE TaskLedger -----------------------------
(***************************************************************************)
(* The task ledger (tasks/store_sqlite.rs): the rows, the event log, the   *)
(* notice rows and the one global sequence. Every operation is one SQLite  *)
(* transaction on a single worker, so one action each; a refusal changes   *)
(* nothing and is no action. What interleaves is the observers: whoever    *)
(* reads a row, acts on it later, and by then acts on an old one.          *)
(*                                                                         *)
(* A time of the ledger is the sequence number written with it: created_ms *)
(* is the sequence of the insertion, updated_ms that of the last write.    *)
(***************************************************************************)
EXTENDS TaskStates, FiniteSets

CONSTANTS
  Tasks,        \* task ids; an id is random, so never used twice
  LocalPlaces,  \* agent sessions and panes a task can be bound to
  PeerPlaces,   \* remote tasks a mirror can be bound to
  Unbound,      \* TaskBinding::None
  NoTask,       \* no parent; no snapshot
  Observers,    \* readers that act on what they read: followers, the driver, mirrors, notices
  MaxSeq,       \* bound: writes
  MaxReopens    \* bound: generations of a remote task

ASSUME LedgerAssumption ==
  /\ MaxSeq \in Nat
  /\ MaxReopens \in Nat
  /\ NoTask \notin Tasks
  /\ Unbound \notin LocalPlaces \union PeerPlaces
  /\ LocalPlaces \intersect PeerPlaces = {}

VARIABLES
  used,     \* ids ever inserted
  live,     \* ids with a row
  row,      \* their rows
  log,      \* task_events: kept for the rows that remain
  noticed,  \* tasks with a task_notices row
  told,     \* its told_state and told_seq, 0 for NULL
  seen,     \* what each observer last read
  seq       \* the global sequence

vars == <<used, live, row, log, noticed, told, seen, seq>>

Places == LocalPlaces \union PeerPlaces \union {Unbound}
Kinds == {"delegation", "command"}

Row == [state: States, seq: Nat, kind: Kinds, binding: Places,
        parent: Tasks \union {NoTask}, created: Nat, reopens: Nat]

BlankRow == [state |-> "queued", seq |-> 0, kind |-> "command", binding |-> Unbound,
             parent |-> NoTask, created |-> 0, reopens |-> 0]

Event == [task: Tasks, seq: Nat, from: States \union {"none"}, to: States]

Snapshot == [task: Tasks \union {NoTask}, row: Row]
NoSnapshot == [task |-> NoTask, row |-> BlankRow]

Told == [state: States, seq: Nat]
NeverTold == [state |-> "queued", seq |-> 0]

TypeOK ==
  /\ used \subseteq Tasks
  /\ live \subseteq used
  /\ row \in [Tasks -> Row]
  /\ log \subseteq Event
  /\ noticed \subseteq used
  /\ told \in [Tasks -> Told]
  /\ seen \in [Observers -> Snapshot]
  /\ seq \in Nat

Init ==
  /\ used = {} /\ live = {} /\ log = {} /\ noticed = {}
  /\ row = [t \in Tasks |-> BlankRow]
  /\ told = [t \in Tasks |-> NeverTold]
  /\ seen = [o \in Observers |-> NoSnapshot]
  /\ seq = 0

-----------------------------------------------------------------------------
(* A change: its target, whether it reopens, the version it was judged on   *)
(* (0 for none), the remote generation (0 for none) and the binding it sets *)
(* (Unbound for none).                                                      *)
Change(to, reopen, expected, count, binding) ==
  [to |-> to, reopen |-> reopen, expected |-> expected, count |-> count, binding |-> binding]

Reopens(r, c) ==
  /\ c.reopen /\ c.to = "working"
  /\ \/ r.state \in {"done", "failed"}
     \/ r.binding \in PeerPlaces /\ ~IsTerminal(r.state) /\ c.count > r.reopens
  /\ r.kind = "delegation"
  /\ r.binding # Unbound

(* Only the newest assignment owns a live binding.                          *)
Superseded(t) ==
  \E u \in live : row[u].binding = row[t].binding /\ row[u].created > row[t].created

(* Mutant of Accepts: a reopen is not held to the version it was judged on.  *)
AcceptsOldReads(t, c) ==
  /\ t \in live
  /\ IF c.reopen THEN Reopens(row[t], c) /\ ~Superseded(t)
                 ELSE CanMoveTo(row[t].state, c.to)

Accepts(t, c) ==
  /\ t \in live
  /\ c.expected \in {0, row[t].seq}
  /\ IF c.reopen THEN Reopens(row[t], c) /\ ~Superseded(t)
                 ELSE CanMoveTo(row[t].state, c.to)

(* Mutant of Moved: the row keeps its old version.                           *)
MovedUnversioned(r, c, at) == [r EXCEPT !.state = c.to]

Moved(r, c, at) ==
  [state |-> c.to, seq |-> at, kind |-> r.kind, parent |-> r.parent, created |-> r.created,
   binding |-> IF c.binding = Unbound THEN r.binding ELSE c.binding,
   reopens |-> IF ~c.reopen THEN r.reopens ELSE IF c.count = 0 THEN r.reopens + 1 ELSE c.count]

(* Mutant of EventOf: from and to swapped.                                   *)
EventSwapped(t, at, from, to) == [task |-> t, seq |-> at, from |-> to, to |-> from]

EventOf(t, at, from, to) == [task |-> t, seq |-> at, from |-> from, to |-> to]

Transition(t, c) ==
  /\ Accepts(t, c)
  /\ seq < MaxSeq
  /\ seq' = seq + 1
  /\ row' = [row EXCEPT ![t] = Moved(@, c, seq')]
  /\ log' = log \union {EventOf(t, seq', row[t].state, c.to)}
  /\ UNCHANGED <<used, live, noticed, told, seen>>

(* A task is stored queued; only a command is bound at once. Its parent was  *)
(* looked up before and may be gone by now.                                  *)
Insert(t, kind, place, parent) ==
  /\ t \notin used
  /\ seq < MaxSeq
  /\ place # Unbound => kind = "command" /\ place \in LocalPlaces
  /\ seq' = seq + 1
  /\ used' = used \union {t}
  /\ live' = live \union {t}
  /\ row' = [row EXCEPT ![t] = [state |-> "queued", seq |-> seq', kind |-> kind,
                                binding |-> place, parent |-> parent,
                                created |-> seq', reopens |-> 0]]
  /\ log' = log \union {EventOf(t, seq', "none", "queued")}
  /\ UNCHANGED <<noticed, told, seen>>

(* A state move: no version is checked. A task is bound as it is dispatched; *)
(* a mirror whose create got no answer is bound anew when it is adopted.     *)
Move(t, to, place) ==
  /\ \/ place = Unbound
     \/ to = "dispatching"
     \/ place \in PeerPlaces /\ row[t].binding \in PeerPlaces \ {place}
  /\ Transition(t, Change(to, FALSE, 0, 0, place))

Observe(o, t) ==
  /\ t \in live
  /\ seen' = [seen EXCEPT ![o] = [task |-> t, row |-> row[t]]]
  /\ UNCHANGED <<used, live, row, log, noticed, told, seq>>

(* An observer saw a new user turn of the task it read: TaskService::reopen. *)
ReopenSeen(o) ==
  /\ seen[o].row.state \in {"done", "failed"}
  /\ seen[o].row.binding \in LocalPlaces
  /\ Transition(seen[o].task, Change("working", TRUE, seen[o].row.seq, 0, Unbound))

(* A mirror read a later generation of its remote task: fleet::mirror::apply. *)
ReopenRemote(o, n) ==
  LET snap == seen[o] IN
  /\ snap.row.kind = "delegation" /\ snap.row.state # "cancelled"
  /\ snap.row.binding \in PeerPlaces
  /\ n > snap.row.reopens
  /\ Transition(snap.task, Change("working", TRUE, snap.row.seq, n, Unbound))

-----------------------------------------------------------------------------
(* Notices: where the parent is told, and the version it was told.           *)

SetNotice(t) ==
  /\ t \in used
  /\ noticed' = noticed \union {t}
  /\ UNCHANGED <<used, live, row, log, told, seen, seq>>

(* Mutant of MarkTold: the version is read when the telling is recorded.     *)
MarkToldNow(o) ==
  LET snap == seen[o] IN
  /\ snap.task \in noticed
  /\ snap.row.state \in ReportedStates
  /\ told' = [told EXCEPT ![snap.task] = [state |-> snap.row.state, seq |-> row[snap.task].seq]]
  /\ UNCHANGED <<used, live, row, log, noticed, seen, seq>>

(* mark_told: the version the teller read, which may be an old one by now.   *)
MarkTold(o) ==
  LET snap == seen[o] IN
  /\ snap.task \in noticed
  /\ snap.row.state \in ReportedStates
  /\ told' = [told EXCEPT ![snap.task] = [state |-> snap.row.state, seq |-> snap.row.seq]]
  /\ UNCHANGED <<used, live, row, log, noticed, seen, seq>>

-----------------------------------------------------------------------------
(* Forgetting.                                                               *)

OpenChild(t) == \E u \in live : row[u].parent = t /\ ~IsTerminal(row[u].state)

(* Mutant of Forget: the id of a forgotten task is free again.               *)
ForgetFreesId(gone) ==
  /\ live' = live \ gone
  /\ used' = used \ gone
  /\ log' = {e \in log : e.task \notin gone}
  /\ noticed' = noticed \intersect live'
  /\ told' = [t \in Tasks |-> IF t \in live' THEN told[t] ELSE NeverTold]
  /\ row' = [t \in Tasks |-> IF t \in live' THEN row[t] ELSE BlankRow]
  /\ UNCHANGED seen

(* delete_tasks: the rows, their events, and every notice without a row.     *)
Forget(gone) ==
  /\ live' = live \ gone
  /\ log' = {e \in log : e.task \notin gone}
  /\ noticed' = noticed \intersect live'
  /\ told' = [t \in Tasks |-> IF t \in live' THEN told[t] ELSE NeverTold]
  /\ row' = [t \in Tasks |-> IF t \in live' THEN row[t] ELSE BlankRow]
  /\ UNCHANGED <<used, seen>>

Purgeable(t, before) == IsTerminal(row[t].state) /\ row[t].seq < before /\ ~OpenChild(t)

PurgeEnded(before) ==
  /\ \E t \in live : Purgeable(t, before)
  /\ Forget({t \in live : Purgeable(t, before)})
  /\ UNCHANGED seq

DeleteEnded(t) ==
  /\ t \in live
  /\ Ended(row[t].state)
  /\ ~OpenChild(t)
  /\ seq < MaxSeq
  /\ Forget({t})
  /\ seq' = seq + 1

-----------------------------------------------------------------------------
Next ==
  \/ \E t \in Tasks, k \in Kinds, b \in Places, p \in used \union {NoTask} : Insert(t, k, b, p)
  \/ \E t \in Tasks, s \in States, b \in Places : Move(t, s, b)
  \/ \E o \in Observers, t \in Tasks : Observe(o, t)
  \/ \E o \in Observers : ReopenSeen(o)
  \/ \E o \in Observers, n \in 1..MaxReopens : ReopenRemote(o, n)
  \/ \E t \in Tasks : SetNotice(t)
  \/ \E o \in Observers : MarkTold(o)
  \/ \E before \in 1..(MaxSeq + 1) : PurgeEnded(before)
  \/ \E t \in Tasks : DeleteEnded(t)

Spec == Init /\ [][Next]_vars

-----------------------------------------------------------------------------
(* PROPERTIES *)

(* A version names one write: no two rows carry the same one, none is ahead  *)
(* of the global sequence. expected_seq and told_seq rest on it: a reader    *)
(* that compares versions compares states (store_sqlite.rs transition).      *)
VersionsNameWrites ==
  \A t \in live :
    /\ row[t].seq \in 1..seq
    /\ \A u \in live : t # u => row[t].seq # row[u].seq

(* The event log and the rows never tell different stories: the newest event *)
(* of a task is the row it has (blocked_at reads the state's cause there), and *)
(* no event outlives its row.                                                 *)
LogTellsRow ==
  /\ \A e \in log : e.task \in live
  /\ \A t \in live :
       /\ \E e \in log : e.task = t /\ e.seq = row[t].seq /\ e.to = row[t].state
       /\ \A e \in log : e.task = t => e.seq <= row[t].seq

(* The history is unbroken: each event starts where the one before it ended. *)
LogIsUnbroken ==
  \A e \in log : e.from # "none" =>
    \E d \in log : /\ d.task = e.task /\ d.seq < e.seq /\ d.to = e.from
                   /\ ~\E m \in log : m.task = e.task /\ m.seq > d.seq /\ m.seq < e.seq

(* A notice counts as told only for the very state that was told: a move made *)
(* while the line was on its way is still to be told (service.rs told_task).  *)
ToldIsWhatStands ==
  \A t \in live \intersect noticed :
    told[t].seq = row[t].seq => told[t].state = row[t].state

(* What an observer holds, and what a parent was told, is the past: a version   *)
(* already written, and the row exactly as it stands if nothing was written     *)
(* since. This is what makes acting on an old read safe, and the strengthening   *)
(* the proofs need.                                                             *)
SeenIsPast ==
  \A o \in Observers : seen[o].task \in Tasks =>
    /\ seen[o].row.seq \in 1..seq
    /\ seen[o].task \in live /\ seen[o].row.seq = row[seen[o].task].seq
         => seen[o].row = row[seen[o].task]

ToldIsPast ==
  \A t \in Tasks :
    /\ told[t].seq <= seq
    /\ t \in live /\ told[t].seq = row[t].seq => told[t].state = row[t].state

IInv == TypeOK /\ VersionsNameWrites /\ SeenIsPast /\ ToldIsPast /\ LogTellsRow

(* What the user cancelled stays cancelled, whatever an observer that read it *)
(* before the cancel still does (service.rs reopen).                          *)
CancelIsFinal ==
  [][\A t \in live \intersect live' : row[t].state = "cancelled" => row'[t] = row[t]]_vars

(* An ended task works again only as a new generation of the newest assignment *)
(* of its place: reconciliation never revives an older one.                    *)
RevivesOnlyNewest ==
  [][\A t \in live \intersect live' :
       IsTerminal(row[t].state) /\ row'[t] # row[t] =>
         /\ row'[t].state = "working"
         /\ row'[t].reopens > row[t].reopens
         /\ \A u \in live' : row'[u].binding = row'[t].binding => row'[u].created <= row'[t].created
    ]_vars

(* Who takes up an ended task again had read it as it ended this time: an      *)
(* observer that read an earlier end of it, before a turn came and ended in    *)
(* between, revives nothing. expected_seq compares numbers; that they stand    *)
(* for the whole row is what the versions are for (service.rs reopen,          *)
(* fleet/mirror.rs apply, store_sqlite.rs transition).                         *)
RevivesOnlyAsRead ==
  [][\A t \in live \intersect live' :
       IsTerminal(row[t].state) /\ row'[t].state = "working" =>
         \E o \in Observers : seen[o] = [task |-> t, row |-> row[t]]]_vars

(* The ledger implements the life every reader of a task relies on.            *)
StatusOf(t) == IF t \in live THEN row[t].state
               ELSE IF t \in used THEN "forgotten" ELSE "unknown"

Life == INSTANCE TaskLifecycle WITH status <- [t \in Tasks |-> StatusOf(t)]

KeepsLifecycle == Life!Spec
=============================================================================
