------------------------ MODULE SessionDelegationProofs ------------------------
(***************************************************************************)
(* SessionDelegation proved for every number of turns, asks, calls, waits, *)
(* cancels, faults and restarts and every length of the event channel:     *)
(* types, what done and working presuppose, what reopens (IInv), that a    *)
(* block outlasts its turn (BInv), and that the row lives as TaskLifecycle *)
(* says.                                                                   *)
(***************************************************************************)
EXTENDS SessionDelegation, SequenceTheorems, TLAPS

-----------------------------------------------------------------------------
(* THE WALKS: what a move that is not direct passes.                          *)

(* The moves a walk of each length makes.                                     *)
WalkIs(from, to, n, w) ==
  /\ w \in [1..n -> OpenStates] /\ w \in Seq(OpenStates) /\ Len(w) = n
  /\ n = 0 => CanMoveTo(from, to)
  /\ n = 1 => CanMoveTo(from, w[1]) /\ CanMoveTo(w[1], to) /\ from # w[1]
  /\ n = 2 => /\ CanMoveTo(from, w[1]) /\ CanMoveTo(w[1], w[2]) /\ CanMoveTo(w[2], to)
              /\ w[1] # from /\ w[2] # from /\ w[1] # w[2]

LEMMA WalkMoves ==
  ASSUME NEW from \in States, NEW to \in States, NEW n \in 0..2, NEW w \in Walks(from, to, n)
  PROVE  WalkIs(from, to, n, w)
<1> DEFINE path == <<from>> \o w \o <<to>>
<1>1. w \in [1..n -> OpenStates] /\ w \in Seq(OpenStates) /\ Len(w) = n
  BY DEF Walks
<1>2. path[1] = from /\ path[n + 2] = to /\ \A i \in 1..n : path[i + 1] = w[i]
  BY <1>1 DEF States
<1>3. /\ \A i \in 1..(n + 1) : CanMoveTo(path[i], path[i + 1])
      /\ \A i, j \in 1..(n + 1) : i # j => path[i] # path[j]
  BY DEF Walks
<1> HIDE DEF path
<1>4. CASE n = 0
  BY <1>1, <1>2, <1>3, <1>4 DEF WalkIs
<1>5. CASE n = 1
  <2>1. path[2] = w[1] /\ path[3] = to
    BY <1>2, <1>5
  <2>2. CanMoveTo(path[1], path[2]) /\ CanMoveTo(path[2], path[3]) /\ path[1] # path[2]
    BY <1>3, <1>5
  <2> QED BY <1>1, <1>2, <1>5, <2>1, <2>2 DEF WalkIs
<1>6. CASE n = 2
  <2>1. path[2] = w[1] /\ path[3] = w[2] /\ path[4] = to
    BY <1>2, <1>6
  <2>2. /\ CanMoveTo(path[1], path[2]) /\ CanMoveTo(path[2], path[3]) /\ CanMoveTo(path[3], path[4])
        /\ path[1] # path[2] /\ path[1] # path[3] /\ path[2] # path[3]
    BY <1>3, <1>6
  <2> QED BY <1>1, <1>2, <1>6, <2>1, <2>2 DEF WalkIs
<1> QED BY <1>4, <1>5, <1>6

(* The walks of none and of one state there are.                              *)
LEMMA DirectWalk ==
  ASSUME NEW from \in States, NEW to \in States, CanMoveTo(from, to)
  PROVE  Walks(from, to, 0) # {}
<1> DEFINE w == [i \in 1..0 |-> "queued"]
           path == <<from>> \o w \o <<to>>
<1>1. w \in [1..0 -> OpenStates] /\ w \in Seq(OpenStates) /\ Len(w) = 0
  OBVIOUS
<1>2. path[1] = from /\ path[2] = to
  BY <1>1 DEF States
<1>3. w \in Walks(from, to, 0)
  BY <1>1, <1>2 DEF Walks
<1> QED BY <1>3

LEMMA WalkOfOne ==
  ASSUME NEW from \in States, NEW to \in States, NEW m \in OpenStates, m # from,
         CanMoveTo(from, m), CanMoveTo(m, to)
  PROVE  Walks(from, to, 1) # {}
<1> DEFINE w == [i \in 1..1 |-> m]
           path == <<from>> \o w \o <<to>>
<1>1. w \in [1..1 -> OpenStates] /\ w \in Seq(OpenStates) /\ Len(w) = 1 /\ w[1] = m
  OBVIOUS
<1>2. path[1] = from /\ path[2] = m /\ path[3] = to
  BY <1>1 DEF States
<1> HIDE DEF w, path
<1>3. \A i \in 1..(1 + 1) : CanMoveTo(path[i], path[i + 1])
  <2>1. CanMoveTo(path[1], path[1 + 1]) /\ CanMoveTo(path[2], path[2 + 1])
    BY <1>2
  <2>2. 1..(1 + 1) = {1, 2}
    OBVIOUS
  <2> QED BY <2>1, <2>2
<1>4. \A i, j \in 1..(1 + 1) : i # j => path[i] # path[j]
  BY <1>2
<1>5. w \in Walks(from, to, 1)
  BY ONLY <1>1, <1>3, <1>4 DEF Walks, path
<1> QED BY <1>5

LEMMA Ranks == Rank("working") = 3 /\ Rank("waiting") = 4 /\ Rank("idle_unconfirmed") = 5
<1>1. Len(OpenOrder) = 5 /\ OpenOrder[1] = "queued" /\ OpenOrder[2] = "dispatching" /\ OpenOrder[3] = "working"
      /\ OpenOrder[4] = "waiting" /\ OpenOrder[5] = "idle_unconfirmed"
  BY DEF OpenOrder
<1>2. 1..5 = {1, 2, 3, 4, 5}
  OBVIOUS
<1>3. \A k \in 1..5 : \A s : OpenOrder[k] = s /\ (\A i \in 1..5 : OpenOrder[i] = s => i = k) => Rank(s) = k
  BY <1>1 DEF Rank
<1> QED BY <1>1, <1>2, <1>3

(* A shortest walk is the only one of its length, but for a move of a working  *)
(* or a pausing task back to where it is.                                     *)
LEMMA ShortestWalks ==
  ASSUME NEW from \in States, NEW to \in States, NEW n \in 0..2,
         \A m \in 0..2 : Walks(from, to, m) # {} => n <= m,
         NEW w \in Walks(from, to, n)
  PROVE  /\ n = 0 => w = <<>>
         /\ n = 1 => \/ from = "queued" /\ w = <<"dispatching">>
                     \/ from = "dispatching" /\ to \notin {"failed", "cancelled"} /\ w = <<"working">>
                     \/ from = "working" /\ to = "working" /\ w \in {<<"waiting">>, <<"idle_unconfirmed">>}
                     \/ from = "idle_unconfirmed" /\ to = from /\ w \in {<<"working">>, <<"waiting">>}
         /\ n = 2 => from = "queued" /\ to \notin {"failed", "cancelled"} /\ w = <<"dispatching", "working">>
<1>w. WalkIs(from, to, n, w)
  BY WalkMoves
<1>0. /\ w \in [1..n -> OpenStates] /\ w \in Seq(OpenStates) /\ Len(w) = n
      /\ n = 0 => CanMoveTo(from, to)
      /\ n = 1 => CanMoveTo(from, w[1]) /\ CanMoveTo(w[1], to) /\ from # w[1]
      /\ n = 2 => /\ CanMoveTo(from, w[1]) /\ CanMoveTo(w[1], w[2]) /\ CanMoveTo(w[2], to)
                  /\ w[1] # from /\ w[2] # from /\ w[1] # w[2]
  BY <1>w DEF WalkIs
<1>1. n # 0 => ~CanMoveTo(from, to)
  BY DirectWalk
<1>2. n = 2 => \A m \in OpenStates : m # from /\ CanMoveTo(from, m) => ~CanMoveTo(m, to)
  BY WalkOfOne
<1>3. CASE n = 0
  BY <1>0, <1>3
<1>4. CASE n = 1
  <2>1. w = <<w[1]>> /\ w[1] \in OpenStates
    BY <1>0, <1>4
  <2>2. \/ from = "queued" /\ w[1] = "dispatching"
        \/ from = "dispatching" /\ to \notin {"failed", "cancelled"} /\ w[1] = "working"
        \/ from = "working" /\ to = "working" /\ w[1] \in {"waiting", "idle_unconfirmed"}
        \/ from = "idle_unconfirmed" /\ to = from /\ w[1] \in {"working", "waiting"}
    BY <1>0, <1>1, <1>4, <2>1 DEF CanMoveTo, States, OpenStates, TerminalStates, ActiveStates
  <2> QED BY <1>4, <2>1, <2>2
<1>5. CASE n = 2
  <2>1. w = <<w[1], w[2]>> /\ w[1] \in OpenStates /\ w[2] \in OpenStates
    BY <1>0, <1>5
  <2>2. ~CanMoveTo(w[1], to)
    BY <1>0, <1>2, <1>5, <2>1
  <2>3. from \notin ActiveStates
    <3>1. ASSUME from \in ActiveStates PROVE FALSE
      <4>1. to = from \/ to \in {"queued", "dispatching"}
        BY <1>1, <1>5, <3>1 DEF CanMoveTo, States
      <4>2. to # from
        BY <1>0, <1>5, <2>2, <3>1, <2>1 DEF CanMoveTo, ActiveStates, States, OpenStates
      <4> QED BY <1>0, <1>5, <2>1, <3>1, <4>1, <4>2 DEF CanMoveTo, ActiveStates, OpenStates
    <3> QED BY <3>1
  <2>4. from = "queued" /\ w[1] = "dispatching" /\ w[2] = "working"
    <3>1. from \in {"queued", "dispatching"}
      BY <1>0, <1>5, <2>3 DEF CanMoveTo, States, OpenStates, TerminalStates, ActiveStates
    <3>2. from # "dispatching"
      BY <1>0, <1>1, <1>5, <2>1, <2>2 DEF CanMoveTo, States, OpenStates, TerminalStates, ActiveStates
    <3> QED BY <1>0, <1>5, <2>1, <2>2, <3>1, <3>2 DEF CanMoveTo, OpenStates, ActiveStates
  <2> QED BY <1>5, <2>1, <2>2, <2>4 DEF CanMoveTo
<1> QED BY <1>3, <1>4, <1>5

(* What a move passes: open states; and none but dispatching before the task   *)
(* worked, unless the move leads to more; and none back through a wait.        *)
LEMMA MovePasses ==
  ASSUME NEW from \in States, NEW to \in States
  PROVE  /\ StepsBetween[from][to] \in Seq(OpenStates)
         /\ from \notin ActiveStates /\ to \in {"failed", "cancelled"} =>
              \A i \in DOMAIN StepsBetween[from][to] : StepsBetween[from][to][i] = "dispatching"
         /\ to = "waiting" =>
              \A i \in DOMAIN StepsBetween[from][to] : StepsBetween[from][to][i] # "waiting"
<1> DEFINE p == Passed(from, to)
           lengths == {n \in 0..MaxPassed : Walks(from, to, n) # {}}
<1>0. StepsBetween[from][to] = p
  BY DEF StepsBetween
<1>1. CASE lengths = {}
  <2>1. p = <<>>
    BY <1>1 DEF Passed
  <2> QED BY <1>0, <2>1
<1>2. CASE lengths # {}
  <2> DEFINE n == CHOOSE n \in lengths : \A m \in lengths : n <= m
  <2>0. lengths \subseteq {0, 1, 2}
    BY DEF MaxPassed
  <2>1. \E k \in lengths : \A m \in lengths : k <= m
    <3> HIDE DEF lengths
    <3>1. CASE 0 \in lengths
      BY <2>0, <3>1
    <3>2. CASE 0 \notin lengths /\ 1 \in lengths
      BY <2>0, <3>2
    <3>3. CASE 0 \notin lengths /\ 1 \notin lengths
      <4>1. PICK k \in lengths : TRUE
        BY <1>2
      <4>2. \A m \in lengths : m = 2
        BY <2>0, <3>3
      <4> QED BY <4>1, <4>2
    <3> QED BY <3>1, <3>2, <3>3
  <2>2. n \in lengths /\ \A m \in lengths : n <= m
    <3> HIDE DEF lengths
    <3> QED BY <2>1
  <2> HIDE DEF n
  <2> DEFINE ws == Walks(from, to, n)
  <2>3. n \in 0..2 /\ ws # {} /\ \A m \in 0..2 : Walks(from, to, m) # {} => n <= m
    BY <2>2 DEF MaxPassed
  <2>4. \A w \in ws :
          /\ n = 0 => w = <<>>
          /\ n = 1 => \/ from = "queued" /\ w = <<"dispatching">>
                      \/ from = "dispatching" /\ to \notin {"failed", "cancelled"} /\ w = <<"working">>
                      \/ from = "working" /\ to = "working" /\ w \in {<<"waiting">>, <<"idle_unconfirmed">>}
                      \/ from = "idle_unconfirmed" /\ to = from /\ w \in {<<"working">>, <<"waiting">>}
          /\ n = 2 => from = "queued" /\ to \notin {"failed", "cancelled"} /\ w = <<"dispatching", "working">>
    BY <2>3, ShortestWalks
  <2>5. \A w \in ws : w \in Seq(OpenStates)
    BY <2>3, WalkMoves DEF WalkIs
  <2> HIDE DEF ws
  <2>6. \E v \in ws : \A w \in ws : FoundFirst(v, w)
    <3>1. PICK x \in ws : TRUE
      BY <2>3 DEF ws
    <3>2. CASE \A v, w \in ws : v = w
      BY <3>1, <3>2 DEF FoundFirst
    <3>3. CASE \E v, w \in ws : v # w
      <4>1. n = 1
        BY <2>3, <2>4, <3>3
      <4>2. \A a, b : Rank(a) < Rank(b) => FoundFirst(<<a>>, <<b>>)
        <5> SUFFICES ASSUME NEW a, NEW b, Rank(a) < Rank(b) PROVE FoundFirst(<<a>>, <<b>>)
          OBVIOUS
        <5>1. 1 \in DOMAIN <<a>> /\ <<a>>[1] = a /\ <<b>>[1] = b /\ 1..(1 - 1) = {}
          OBVIOUS
        <5> QED BY <5>1 DEF FoundFirst
      <4>3. \/ ws = {<<"waiting">>, <<"idle_unconfirmed">>}
            \/ ws = {<<"working">>, <<"waiting">>}
        BY <2>4, <3>3, <4>1
      <4>4. FoundFirst(<<"waiting">>, <<"idle_unconfirmed">>) /\ FoundFirst(<<"working">>, <<"waiting">>)
        BY <4>2, Ranks
      <4>5. \A v : FoundFirst(v, v)
        BY DEF FoundFirst
      <4> QED BY <4>3, <4>4, <4>5
    <3> QED BY <3>2, <3>3
  <2>7. p = CHOOSE v \in ws : \A w \in ws : FoundFirst(v, w)
    BY <1>2 DEF Passed, n, ws
  <2>8. p \in ws
    <3> HIDE DEF p
    <3> QED BY <2>6, <2>7
  <2> HIDE DEF p
  <2>9. p \in Seq(OpenStates)
    BY <2>5, <2>8
  <2>10. ASSUME from \notin ActiveStates, to \in {"failed", "cancelled"}, NEW i \in DOMAIN p
         PROVE  p[i] = "dispatching"
    <3>1. p = <<>> \/ p = <<"dispatching">>
      BY <2>3, <2>4, <2>8, <2>10 DEF ActiveStates
    <3> QED BY <2>10, <3>1
  <2>11. ASSUME to = "waiting", NEW i \in DOMAIN p PROVE p[i] # "waiting"
    <3>1. p \in {<<>>, <<"dispatching">>, <<"working">>, <<"dispatching", "working">>}
      BY <2>3, <2>4, <2>8, <2>11
    <3> HIDE DEF p
    <3> QED BY <2>11, <3>1
  <2> QED BY <1>0, <2>9, <2>10, <2>11
<1> QED BY <1>1, <1>2
-----------------------------------------------------------------------------
(* THE STRENGTHENING                                                          *)

Snaps == [state: States, reason: Turns, updated: Times, reopened: Times, bound: BOOLEAN, old: BOOLEAN]
Events == [kind: EventKinds, at: Times]
Looked == [kind: EventKinds \union Statuses, at: Times]
JobSet == [pc: Pcs, snap: Snaps, at: Times, ch: Changes, path: Seq(States), busy: BOOLEAN, todo: Seq(Looked)]

(* Where a task is, or a walk leads, that has not reached its agent.           *)
Unstarted == {"queued", "dispatching", "failed", "cancelled"}

(* What an actor is in the middle of before the session ran.                   *)
Unsent(job) ==
  /\ job.pc \in {"hold", "walk", "step"} => job.ch.to \in {"failed", "cancelled"}
  /\ job.pc = "step" => \A i \in DOMAIN job.path : job.path[i] \in Unstarted
  /\ job.pc \notin {"work", "judge", "reopen"}
  /\ job.snap.state \in Unstarted
  /\ ~job.busy /\ \A i \in DOMAIN job.todo : job.todo[i].kind = "idle"

(* Of a's job in turn t, of a task last written at u, said to be done or not    *)
(* (w); o are the actors a write has overtaken.                                *)
JobOK(a, job, t, u, w, o) ==
  /\ job \in JobSet
  /\ job.pc = "step" <=> job.path # <<>>
  /\ \A i \in DOMAIN job.path : job.path[i] \in OpenStates \union {job.ch.to}
  /\ job.ch.to = "done" => w
  /\ job.pc = "reopen" => job.at <= 2 * t - 1 /\ (a \notin o => job.at > u)
  /\ job.pc = "ask" => (a \notin o => job.snap.updated = u)
  /\ t = 0 => Unsent(job)

JobsOK ==
  /\ jobs \in [Actors -> JobSet]
  /\ \A a \in Actors : JobOK(a, jobs[a], sess.turn, row.updated, word, stale)

(* No event of a turn that is still to come; none before the first.            *)
QueueOK(q, t) ==
  /\ q \in Seq(Events) /\ Len(q) <= InboxCap + 1
  /\ \A i \in DOMAIN q : /\ q[i].kind = "lagged" => i = 1
                         /\ q[i].kind = "user" => q[i].at <= 2 * t - 1
  /\ t = 0 => q = <<>>

Rows == [state: States, bound: BOOLEAN, last: Sources, reason: Turns, updated: Times, reopened: Times,
         thisRun: BOOLEAN]

RowOK ==
  /\ row \in Rows
  /\ row.state = "done" => word
  /\ sess.turn = 0 => row.state \in Unstarted

SessOK(s, w) ==
  /\ s \in [status: Statuses, turn: Turns, idleAt: Times, said: Turns,
             mark: {"none", "done", "blocked"}, asking: BOOLEAN]
  /\ s.mark = "done" => w
  /\ s.turn = 0 => s.status \in {"none", "idle", "gone"} /\ s.idleAt = 0 /\ ~s.asking

FlagsOK == idled \in BOOLEAN /\ old \in BOOLEAN /\ word \in BOOLEAN /\ stale \subseteq Actors /\ blockedIn \in Turns

IInv ==
  /\ RowOK /\ SessOK(sess, word) /\ JobsOK /\ FlagsOK
  /\ QueueOK(inbox, sess.turn) /\ QueueOK(heard, sess.turn)

-----------------------------------------------------------------------------
(* What follows of time: no turn is past the last, and now is in one.          *)
LEMMA TimesAreNat == Turns \subseteq Nat /\ Times \subseteq Nat
BY DelegationAssumption DEF Turns, Times

LEMMA TimesAre ==
  /\ MaxTurns \in Nat /\ Turns \subseteq Nat /\ Times \subseteq Nat /\ 0 \in Turns /\ 0 \in Times
  /\ \A t \in Turns : 2 * t \in Times /\ (t < MaxTurns => 2 * t + 1 \in Times /\ t + 1 \in Turns)
BY DelegationAssumption DEF Turns, Times

LEMMA NowIsTime == ASSUME SessOK(sess, word) PROVE Now \in Times
<1>1. sess.turn \in Turns
  BY DEF SessOK
<1>2. Running => sess.turn # 0
  BY DEF SessOK, Running
<1> QED BY <1>1, <1>2, DelegationAssumption DEF Now, Running, Turns, Times

(* What holds of a job holds of it later, and when its actor is overtaken.      *)
LEMMA JobLater ==
  ASSUME NEW t \in Turns, NEW t2 \in Turns, t <= t2, NEW u, NEW w, NEW w2, w => w2, NEW o, NEW o2, NEW a, NEW job,
         JobOK(a, job, t, u, w, o), a \notin o2 => a \notin o \/ job.pc \notin {"ask", "reopen"}
  PROVE  JobOK(a, job, t2, u, w2, o2)
<1>1. t \in Nat /\ t2 \in Nat /\ (t2 = 0 => t = 0)
  BY TimesAreNat
<1>2. job.at \in Nat
  BY TimesAreNat DEF JobOK, JobSet
<1>3. job.pc = "reopen" => job.at <= 2 * t2 - 1
  BY <1>1, <1>2 DEF JobOK
<1> QED BY <1>1, <1>3 DEF JobOK

(* A job that is not about the row's version holds of any.                      *)
LEMMA JobOfAny ==
  ASSUME NEW t, NEW u, NEW u2, NEW w, NEW o, NEW o2, NEW a, NEW job,
         JobOK(a, job, t, u, w, o), job.pc \notin {"ask", "reopen"}
  PROVE  JobOK(a, job, t, u2, w, o2)
BY DEF JobOK

Forward == /\ sess.turn \in Turns /\ sess'.turn \in Turns /\ sess.turn <= sess'.turn
           /\ word => word'

Overtaken == stale' = {b \in stale : jobs'[b].pc \in {"ask", "reopen"}}

LEMMA SameTurn ==
  ASSUME Forward
  PROVE  sess'.turn \in Turns /\ sess'.turn <= sess'.turn
<1>1. sess'.turn \in Turns
  BY DEF Forward
<1>2. \A t \in Turns : t <= t
  BY TimesAreNat
<1> QED BY <1>1, <1>2

(* A step of one actor that leaves the row as it is.                           *)
LEMMA JobsStep ==
  ASSUME JobsOK, NEW a \in Actors, NEW job, Set(a, job), Forward, Overtaken,
         row'.updated = row.updated,
         JobOK(a, job, sess'.turn, row.updated, word', stale)
  PROVE  JobsOK'
<1>1. jobs' = [jobs EXCEPT ![a] = job] /\ job \in JobSet
  BY DEF Set, JobOK
<1>2. jobs' \in [Actors -> JobSet] /\ jobs'[a] = job /\ \A b \in Actors : b # a => jobs'[b] = jobs[b]
  BY <1>1 DEF JobsOK
<1>3. ASSUME NEW b \in Actors PROVE JobOK(b, jobs'[b], sess'.turn, row'.updated, word', stale')
  <2>1. b \notin stale' => b \notin stale \/ jobs'[b].pc \notin {"ask", "reopen"}
    BY DEF Overtaken
  <2>2. CASE b = a
    <3>1. JobOK(b, jobs'[b], sess'.turn, row.updated, word', stale)
      BY <1>2, <2>2
    <3> QED BY <2>1, <3>1, SameTurn, JobLater
  <2>3. CASE b # a
    <3>1. JobOK(b, jobs[b], sess.turn, row.updated, word, stale) /\ jobs'[b] = jobs[b]
      BY <1>2, <2>3 DEF JobsOK
    <3> QED BY <2>1, <3>1, JobLater DEF Forward
  <2> QED BY <2>2, <2>3
<1> QED BY <1>2, <1>3 DEF JobsOK

(* A step of one actor that writes the row overtakes the others.                *)
LEMMA JobsWrite ==
  ASSUME JobsOK, NEW a \in Actors, NEW job, Set(a, job), Forward,
         stale' = {b \in Actors : jobs'[b].pc \in {"ask", "reopen"}},
         NEW u, JobOK(a, job, sess'.turn, u, word', stale), job.pc \notin {"ask", "reopen"}
  PROVE  JobsOK'
<1>1. jobs' = [jobs EXCEPT ![a] = job] /\ job \in JobSet
  BY DEF Set, JobOK
<1>2. jobs' \in [Actors -> JobSet] /\ jobs'[a] = job /\ \A b \in Actors : b # a => jobs'[b] = jobs[b]
  BY <1>1 DEF JobsOK
<1>3. ASSUME NEW b \in Actors PROVE JobOK(b, jobs'[b], sess'.turn, row'.updated, word', stale')
  <2>2. CASE b = a
    BY <1>2, <2>2, JobOfAny
  <2>3. CASE b # a
    <3>1. JobOK(b, jobs[b], sess.turn, row.updated, word, stale) /\ jobs'[b] = jobs[b]
      BY <1>2, <2>3 DEF JobsOK
    <3>2. JobOK(b, jobs[b], sess'.turn, row.updated, word', Actors)
      BY <3>1, JobLater DEF Forward
    <3>3. CASE jobs[b].pc \in {"ask", "reopen"}
      <4>1. b \in stale'
        BY <3>1, <3>3
      <4> QED BY <3>1, <3>2, <4>1 DEF JobOK
    <3>4. CASE jobs[b].pc \notin {"ask", "reopen"}
      BY <3>1, <3>2, <3>4, JobOfAny
    <3> QED BY <3>3, <3>4
  <2> QED BY <2>2, <2>3
<1> QED BY <1>2, <1>3 DEF JobsOK

(* A step of the agent, its user or the clock.                                 *)
LEMMA JobsStay ==
  ASSUME JobsOK, UNCHANGED <<jobs, stale>>, row'.updated = row.updated, Forward
  PROVE  JobsOK'
<1>1. ASSUME NEW b \in Actors PROVE JobOK(b, jobs'[b], sess'.turn, row'.updated, word', stale')
  <2>1. JobOK(b, jobs[b], sess.turn, row.updated, word, stale)
    BY DEF JobsOK
  <2> QED BY <2>1, JobLater DEF Forward
<1> QED BY <1>1 DEF JobsOK
-----------------------------------------------------------------------------
(* THE CHANNEL                                                                *)

(* An event that is no gap, and of no turn that is still to come.              *)
Told(t) == {e \in Events : e.kind # "lagged" /\ (e.kind = "user" => e.at <= 2 * t - 1)}

LEMMA SeqOf ==
  ASSUME NEW S, NEW T, NEW q \in Seq(S), \A i \in 1..Len(q) : q[i] \in T
  PROVE  q \in Seq(T)
OBVIOUS

LEMMA LaggedIsEvent == Event("lagged") \in Events /\ Event("lagged").kind = "lagged"
BY TimesAre DEF Event, Events, EventKinds

LEMMA QueueOfTold ==
  ASSUME NEW t, t # 0, NEW q \in Seq(Told(t)), Len(q) <= InboxCap
  PROVE  QueueOK(q, t) /\ QueueOK(<<Event("lagged")>> \o q, t)
<1>1. q \in Seq(Events) /\ \A i \in DOMAIN q : q[i] \in Told(t)
  <2>1. Told(t) \subseteq Events
    BY DEF Told
  <2> QED BY <2>1, SeqMonotonic
<1>2. InboxCap \in Nat /\ Len(q) \in Nat
  BY DelegationAssumption
<1>3. QueueOK(q, t)
  BY <1>1, <1>2 DEF QueueOK, Told
<1> DEFINE l == <<Event("lagged")>> \o q
<1>4. /\ l \in Seq(Events) /\ Len(l) = Len(q) + 1 /\ l[1] = Event("lagged")
      /\ \A i \in DOMAIN l : i # 1 => i - 1 \in DOMAIN q /\ l[i] = q[i - 1]
  BY <1>1, LaggedIsEvent
<1> HIDE DEF l
<1>5. \A i \in DOMAIN l : /\ l[i].kind = "lagged" => i = 1
                          /\ l[i].kind = "user" => l[i].at <= 2 * t - 1
  <2> SUFFICES ASSUME NEW i \in DOMAIN l
               PROVE  (l[i].kind = "lagged" => i = 1) /\ (l[i].kind = "user" => l[i].at <= 2 * t - 1)
    OBVIOUS
  <2>1. CASE i = 1
    BY <1>4, <2>1, LaggedIsEvent
  <2>2. CASE i # 1
    BY <1>1, <1>4, <2>2 DEF Told
  <2> QED BY <2>1, <2>2
<1>6. Len(l) <= InboxCap + 1
  BY <1>2, <1>4
<1>7. QueueOK(l, t)
  BY <1>4, <1>5, <1>6 DEF QueueOK
<1> QED BY <1>3, <1>7 DEF l

(* What a channel has but for the gap.                                         *)
LEMMA QueueHasTold ==
  ASSUME NEW t, NEW q, QueueOK(q, t)
  PROVE  /\ q # <<>> /\ Head(q).kind = "lagged" => Tail(q) \in Seq(Told(t)) /\ Len(Tail(q)) <= InboxCap
         /\ ~(q # <<>> /\ Head(q).kind = "lagged") => q \in Seq(Told(t))
<1>1. /\ q \in Seq(Events) /\ Len(q) <= InboxCap + 1 /\ InboxCap \in Nat
      /\ \A i \in 1..Len(q) : /\ q[i] \in Events /\ (q[i].kind = "lagged" => i = 1)
                              /\ q[i].kind = "user" => q[i].at <= 2 * t - 1
  BY DelegationAssumption DEF QueueOK
<1>2. ASSUME NEW i \in 1..Len(q), i # 1 \/ q[1].kind # "lagged"
      PROVE  q[i] \in Told(t)
  BY <1>1, <1>2 DEF Told
<1>3. ASSUME q # <<>>, Head(q).kind = "lagged"
      PROVE  Tail(q) \in Seq(Told(t)) /\ Len(Tail(q)) <= InboxCap
  <2>1. /\ Tail(q) \in Seq(Events) /\ Len(Tail(q)) = Len(q) - 1 /\ Len(q) \in Nat
        /\ \A i \in 1..Len(Tail(q)) : i + 1 \in 1..Len(q) /\ i + 1 # 1 /\ Tail(q)[i] = q[i + 1]
    BY <1>1, <1>3
  <2>2. \A i \in 1..Len(Tail(q)) : Tail(q)[i] \in Told(t)
    BY <1>2, <2>1
  <2>3. Tail(q) \in Seq(Told(t))
    BY <2>1, <2>2, SeqOf
  <2> QED BY <1>1, <2>1, <2>3
<1>4. ASSUME ~(q # <<>> /\ Head(q).kind = "lagged")
      PROVE  q \in Seq(Told(t))
  <2>1. \A i \in 1..Len(q) : q[i] \in Told(t)
    BY <1>1, <1>2, <1>4
  <2> QED BY <1>1, <2>1, SeqOf
<1> QED BY <1>3, <1>4
LEMMA QueueKeeps ==
  ASSUME NEW t \in Turns, NEW t2 \in Turns, t <= t2, t2 # 0, NEW q, QueueOK(q, t),
         NEW es, es \in Seq(Told(t2))
  PROVE  QueueOK(Queue(q, es), t2)
<1> DEFINE told == q # <<>> /\ Head(q).kind = "lagged"
           base == IF told THEN Tail(q) ELSE q
           all == base \o es
           over == Len(all) - InboxCap
<1>1. base \in Seq(Told(t)) /\ (told => Len(base) <= InboxCap)
  BY QueueHasTold
<1>2. Told(t) \subseteq Told(t2)
  <2>1. t \in Nat /\ t2 \in Nat /\ \A e \in Events : e.at \in Nat
    BY TimesAreNat DEF Events
  <2> QED BY <2>1 DEF Told
<1> HIDE DEF base
<1>3. base \in Seq(Told(t2)) /\ all \in Seq(Told(t2))
  BY <1>1, <1>2, SeqMonotonic
<1>4. Queue(q, es) = IF Len(all) > InboxCap THEN <<Event("lagged")>> \o SubSeq(all, over + 1, Len(all))
                     ELSE IF told THEN <<Event("lagged")>> \o all ELSE all
  BY DEF Queue, base
<1> HIDE DEF all
<1>5. Len(all) \in Nat /\ InboxCap \in Nat
  BY <1>3, DelegationAssumption
<1>6. CASE Len(all) > InboxCap
  <2> DEFINE s == SubSeq(all, over + 1, Len(all))
  <2>1. over + 1 \in Int /\ Len(all) \in Int /\ \A i \in (over + 1)..Len(all) : all[i] \in Told(t2)
    BY <1>3, <1>5, <1>6
  <2>2. s \in Seq(Told(t2)) /\ Len(s) = IF over + 1 <= Len(all) THEN Len(all) - (over + 1) + 1 ELSE 0
    BY <2>1, SubSeqProperties
  <2>3. Len(s) <= InboxCap
    BY <1>5, <1>6, <2>2
  <2> HIDE DEF s
  <2>4. QueueOK(<<Event("lagged")>> \o s, t2)
    BY <2>2, <2>3, QueueOfTold
  <2> QED BY <1>4, <1>6, <2>4 DEF s
<1>7. CASE ~(Len(all) > InboxCap)
  BY <1>3, <1>4, <1>5, <1>7, QueueOfTold
<1> QED BY <1>6, <1>7

LEMMA QueueLater ==
  ASSUME NEW t \in Turns, NEW t2 \in Turns, t <= t2, NEW q, QueueOK(q, t)
  PROVE  QueueOK(q, t2)
<1>1. t \in Nat /\ t2 \in Nat
  BY TimesAreNat
<1>2. \A i \in DOMAIN q : q[i] \in Events
  BY DEF QueueOK
<1>3. \A e \in Events : e.at \in Nat
  BY TimesAreNat DEF Events
<1> QED BY <1>1, <1>2, <1>3 DEF QueueOK

LEMMA QueueEmpty == ASSUME NEW t PROVE QueueOK(<<>>, t)
BY DelegationAssumption DEF QueueOK

LEMMA QueueTail ==
  ASSUME NEW t, NEW q, QueueOK(q, t), q # <<>>
  PROVE  QueueOK(Tail(q), t)
<1>1. /\ Tail(q) \in Seq(Events) /\ Len(Tail(q)) = Len(q) - 1 /\ Len(q) \in Nat
      /\ \A i \in 1..Len(Tail(q)) : i + 1 \in 1..Len(q) /\ i + 1 # 1 /\ Tail(q)[i] = q[i + 1]
  BY DEF QueueOK
<1> QED BY <1>1, DelegationAssumption DEF QueueOK

(* The event that was not taken yet and is pushed out.                        *)
LEMMA QueuePushed ==
  ASSUME NEW t, NEW q, QueueOK(q, t)
  PROVE  QueueOK(Pushed(q), t)
<1>1. CASE q = <<>> \/ Head(q).kind = "lagged"
  BY <1>1 DEF Pushed
<1>2. CASE ~(q = <<>> \/ Head(q).kind = "lagged")
  <2>1. q \in Seq(Told(t)) /\ q # <<>> /\ t # 0 /\ Len(q) <= InboxCap + 1 /\ InboxCap \in Nat
    BY <1>2, QueueHasTold, DelegationAssumption DEF QueueOK
  <2>2. Tail(q) \in Seq(Told(t)) /\ Len(Tail(q)) <= InboxCap
    BY <2>1
  <2> QED BY <1>2, <2>1, <2>2, QueueOfTold DEF Pushed
<1> QED BY <1>1, <1>2
-----------------------------------------------------------------------------
(* THE PARTS OF A STEP                                                        *)

LEMMA SaidOnce ==
  ASSUME IInv
  PROVE  /\ sess.turn \in Turns /\ word \in BOOLEAN /\ RowOK /\ SessOK(sess, word) /\ JobsOK /\ FlagsOK
         /\ QueueOK(inbox, sess.turn) /\ QueueOK(heard, sess.turn)
         /\ row.updated \in Times /\ row.reopened \in Times /\ Now \in Times
         /\ \A a \in Actors : jobs[a] \in JobSet /\ JobOK(a, jobs[a], sess.turn, row.updated, word, stale)
BY NowIsTime DEF IInv, SessOK, FlagsOK, RowOK, Rows, JobsOK

LEMMA StillForward ==
  ASSUME IInv, sess'.turn = sess.turn, word => word'
  PROVE  Forward
<1>1. sess.turn \in Turns /\ sess.turn \in Nat
  BY SaidOnce, TimesAreNat
<1> QED BY <1>1 DEF Forward

LEMMA EmitKeeps ==
  ASSUME IInv, Forward, sess'.turn # 0, NEW es, es \in Seq(Told(sess'.turn)), Emit(es)
  PROVE  QueueOK(inbox', sess'.turn) /\ QueueOK(heard', sess'.turn)
<1>1. QueueOK(Queue(inbox, es), sess'.turn) /\ QueueOK(Queue(heard, es), sess'.turn)
  BY SaidOnce, QueueKeeps DEF Forward
<1>2. QueueOK(<<>>, sess'.turn)
  BY QueueEmpty
<1> QED BY <1>1, <1>2 DEF Emit

LEMMA NoEmitKeeps ==
  ASSUME IInv, NoEmit, Forward
  PROVE  QueueOK(inbox', sess'.turn) /\ QueueOK(heard', sess'.turn)
<1>1. QueueOK(inbox, sess'.turn) /\ QueueOK(heard, sess'.turn)
  BY SaidOnce, QueueLater DEF Forward
<1>2. QueueOK(<<>>, sess'.turn)
  BY QueueEmpty
<1> QED BY <1>1, <1>2 DEF NoEmit

(* A job that begins anew, and what it may be about to do.                     *)
LEMMA JobTypes ==
  /\ NoSnap \in Snaps /\ NoSnap.state \in Unstarted
  /\ \A pc \in Pcs : Job(pc) \in JobSet
  /\ \A to \in States : Plain(to) \in Changes /\ Plain(to).to = to
BY TimesAre DEF NoSnap, Snaps, Unstarted, Job, JobSet, Plain, Change, Changes, Sources, States, OpenStates
LEMMA FreshJob ==
  ASSUME NEW a, NEW t, NEW u, NEW w, NEW o, NEW pc \in {"rest", "create", "bind", "send", "stop", "work", "interrupt"},
         pc = "work" => t # 0
  PROVE  JobOK(a, Job(pc), t, u, w, o)
<1>1. Job(pc) \in JobSet /\ Job(pc).snap.state \in Unstarted
  BY JobTypes DEF Pcs, Job
<1> QED BY <1>1 DEF JobOK, Job, Plain, Change, Unsent

LEMMA RestOK == ASSUME NEW a, NEW t, NEW u, NEW w, NEW o PROVE JobOK(a, Resting, t, u, w, o)
BY FreshJob DEF Resting

(* A job that is to move the task.                                             *)
LEMMA HoldOK ==
  ASSUME NEW a, NEW t, NEW u, NEW w, NEW o, NEW job, JobOK(a, job, t, u, w, o), job.path = <<>>, NEW ch \in Changes,
         ch.to = "done" => w, t = 0 => ch.to \in {"failed", "cancelled"}
  PROVE  JobOK(a, ToHold(job, ch), t, u, w, o)
<1> DEFINE n == [job EXCEPT !.pc = "hold", !.ch = ch, !.snap = NoSnap]
<1>1. job \in JobSet
  BY DEF JobOK
<1>2. n \in JobSet
  BY <1>1, JobTypes DEF JobSet, Pcs
<1>3. n.pc = "hold" /\ n.ch = ch /\ n.snap = NoSnap /\ n.path = <<>> /\ n.busy = job.busy /\ n.todo = job.todo
  BY <1>1 DEF JobSet
<1> HIDE DEF n
<1>4. JobOK(a, n, t, u, w, o)
  BY <1>2, <1>3, JobTypes DEF JobOK, Unsent
<1> QED BY <1>4 DEF ToHold, n

LEMMA WalkOK ==
  ASSUME NEW a, NEW t, NEW u, NEW w, NEW o, NEW ch \in Changes,
         ch.to = "done" => w, t = 0 => ch.to \in {"failed", "cancelled"}
  PROVE  JobOK(a, ToWalk(ch), t, u, w, o)
<1> DEFINE n == [Resting EXCEPT !.pc = "walk", !.ch = ch]
<1>0. JobOK(a, Resting, t, u, w, o) /\ Resting \in JobSet
  BY RestOK DEF JobOK
<1>1. n \in JobSet
  BY <1>0 DEF JobSet, Pcs
<1>2. n.pc = "walk" /\ n.ch = ch /\ n.snap = Resting.snap /\ n.path = <<>> /\ n.busy = FALSE /\ n.todo = <<>>
  BY DEF Resting, Job
<1>3. Resting.snap.state \in Unstarted
  BY JobTypes DEF Resting, Job
<1> HIDE DEF n
<1>4. JobOK(a, n, t, u, w, o)
  BY <1>1, <1>2, <1>3 DEF JobOK, Unsent
<1> QED BY <1>4 DEF ToWalk, n

LEMMA PlannedOK ==
  ASSUME IInv, NEW a, NEW u, NEW job, JobOK(a, job, sess.turn, u, word, stale), job.pc \in {"hold", "walk"}
  PROVE  JobOK(a, Planned(job), sess.turn, u, word, stale)
<1> DEFINE between == StepsBetween[row.state][job.ch.to]
           path == Append(between, job.ch.to)
           n == [job EXCEPT !.pc = "step", !.path = path]
<1>1. job \in JobSet /\ job.ch.to \in States /\ row.state \in States
  BY SaidOnce DEF JobOK, JobSet, Changes, RowOK, Rows
<1>2. /\ between \in Seq(OpenStates)
      /\ row.state \notin ActiveStates /\ job.ch.to \in {"failed", "cancelled"} =>
           \A i \in DOMAIN between : between[i] = "dispatching"
  BY <1>1, MovePasses
<1> HIDE DEF between
<1>3. /\ path \in Seq(States) /\ path # <<>>
      /\ \A i \in DOMAIN path : (i \in DOMAIN between /\ path[i] = between[i]) \/ path[i] = job.ch.to
  <2>1. OpenStates \subseteq States /\ between \in Seq(States)
    <3>1. OpenStates \subseteq States
      BY DEF States
    <3> QED BY <1>2, <3>1, SeqMonotonic
  <2>2. /\ path \in Seq(States) /\ Len(path) = Len(between) + 1
        /\ \A i \in 1..Len(between) : path[i] = between[i]
        /\ path[Len(between) + 1] = job.ch.to
    BY <1>1, <2>1, AppendProperties
  <2> HIDE DEF path
  <2>3. Len(between) \in Nat /\ DOMAIN between = 1..Len(between) /\ DOMAIN path = 1..Len(path)
    BY <2>1, <2>2
  <2> QED BY <2>2, <2>3
<1> HIDE DEF path
<1>4. n \in JobSet /\ n.pc = "step" /\ n.path = path /\ n.ch = job.ch /\ n.snap = job.snap /\ n.busy = job.busy
      /\ n.todo = job.todo
  BY <1>1, <1>3 DEF JobSet, Pcs
<1>5. \A i \in DOMAIN path : path[i] \in OpenStates \union {job.ch.to}
  BY <1>2, <1>3
<1>6. sess.turn = 0 => \A i \in DOMAIN path : path[i] \in Unstarted
  <2> SUFFICES ASSUME sess.turn = 0, NEW i \in DOMAIN path PROVE path[i] \in Unstarted
    OBVIOUS
  <2>1. row.state \in Unstarted /\ job.ch.to \in {"failed", "cancelled"}
    BY SaidOnce DEF RowOK, JobOK, Unsent
  <2>2. row.state \notin ActiveStates
    BY <2>1 DEF Unstarted, ActiveStates
  <2> QED BY <1>2, <1>3, <2>1, <2>2 DEF Unstarted
<1> HIDE DEF n
<1>7. JobOK(a, n, sess.turn, u, word, stale)
  BY <1>4, <1>3, <1>5, <1>6 DEF JobOK, Unsent
<1> QED BY <1>7 DEF Planned, n, path, between

LEMMA SettledOK ==
  ASSUME NEW a \in Actors, NEW t, NEW u, NEW w, NEW o, JobOK(a, jobs[a], t, u, w, o), NEW r \in Rows,
         t = 0 => r.state \in Unstarted
  PROVE  JobOK(a, Settled(a, r), t, u, w, o) /\ Settled(a, r).pc \in {"listen", "rest"}
<1> DEFINE j == Judged(r.state, r.reason, r.reopened)
           n == [Job("listen") EXCEPT !.snap = j, !.busy = jobs[a].busy, !.todo = jobs[a].todo]
<1>1. j \in Snaps /\ j.state = r.state
  BY TimesAre DEF Judged, NoSnap, Snaps, Rows
<1>2. jobs[a].busy \in BOOLEAN /\ jobs[a].todo \in Seq(Looked)
      /\ (t = 0 => ~jobs[a].busy /\ \A i \in DOMAIN jobs[a].todo : jobs[a].todo[i].kind = "idle")
  BY DEF JobOK, JobSet, Unsent
<1>3. Job("listen") \in JobSet /\ Job("listen").path = <<>> /\ Job("listen").pc = "listen" /\ Job("listen").ch.to = "queued"
  BY JobTypes DEF Pcs, Job, Plain, Change
<1> HIDE DEF j
<1>4. /\ n \in JobSet /\ n.pc = "listen" /\ n.snap = j /\ n.path = <<>> /\ n.ch.to = "queued"
      /\ n.busy = jobs[a].busy /\ n.todo = jobs[a].todo
  BY <1>1, <1>2, <1>3 DEF JobSet
<1> HIDE DEF n
<1>5. JobOK(a, n, t, u, w, o)
  BY <1>1, <1>2, <1>4 DEF JobOK, Unsent
<1>6. Settled(a, r) \in {n, Resting} /\ Resting.pc = "rest"
  BY DEF Settled, n, j, Resting, Job
<1> QED BY <1>4, <1>5, <1>6, RestOK

(* What the last message says of a turn that ended; nothing before the first.  *)
LEMMA TurnEndSays ==
  ASSUME SessOK(sess, word), NEW snap
  PROVE  /\ TurnEnd(snap) \in Changes /\ TurnEnd(snap).to \in {"done", "waiting", "idle_unconfirmed"}
         /\ TurnEnd(snap).to = "done" => word
<1> DEFINE mark == IF sess.said # 0 /\ 2 * sess.said >= snap.reopened THEN sess.mark ELSE "none"
<1>1. mark \in {"none", "done", "blocked"} /\ (mark = "done" => word) /\ sess.said \in Turns
  BY DEF SessOK
<1>2. TurnEnd(snap) = CASE mark = "done"    -> Plain("done")
                        [] mark = "blocked" -> Change("waiting", "marker_blocked", sess.said)
                        [] mark = "none"    -> Plain("idle_unconfirmed")
  BY DEF TurnEnd
<1> HIDE DEF mark
<1>3. \/ mark = "done" /\ TurnEnd(snap) = Plain("done")
      \/ TurnEnd(snap) = Change("waiting", "marker_blocked", sess.said)
      \/ TurnEnd(snap) = Plain("idle_unconfirmed")
  BY <1>1, <1>2
<1>4. Change("waiting", "marker_blocked", sess.said) \in Changes
      /\ Change("waiting", "marker_blocked", sess.said).to = "waiting"
  BY <1>1 DEF Change, Changes, Sources, States, OpenStates
<1> QED BY <1>1, <1>3, <1>4, JobTypes DEF States, OpenStates, TerminalStates

LEMMA NothingFinishedYet ==
  ASSUME SessOK(sess, word), NEW since \in Times, FinishedSince(since)
  PROVE  sess.turn # 0
BY TimesAreNat DEF SessOK, FinishedSince

(* A step that leaves the row and the agent as they are.                       *)
LEMMA QuietStep ==
  ASSUME IInv, NEW a \in Actors, NEW job, Set(a, job), JobOK(a, job, sess.turn, row.updated, word', stale),
         Unwritten, NoAgent, idled' \in BOOLEAN, word' \in BOOLEAN, word => word', blockedIn' \in Turns
  PROVE  IInv'
<1>1. sess' = sess /\ row' = row /\ old' = old /\ NoEmit /\ Overtaken
  BY DEF NoAgent, Unwritten, Overtaken
<1>2. Forward
  BY <1>1, StillForward
<1>3. QueueOK(inbox', sess'.turn) /\ QueueOK(heard', sess'.turn)
  BY <1>1, <1>2, NoEmitKeeps
<1>4. JobsOK'
  BY <1>1, <1>2, JobsStep, SaidOnce
<1>5. RowOK' /\ SessOK(sess, word)' /\ FlagsOK'
  <2>1. stale' \subseteq Actors
    BY <1>1, SaidOnce DEF Overtaken, FlagsOK
  <2> QED BY <1>1, <2>1, SaidOnce DEF RowOK, SessOK, FlagsOK
<1> QED BY <1>3, <1>4, <1>5 DEF IInv

(* A step that writes the row.                                                 *)
LEMMA WriteStep ==
  ASSUME IInv, NEW a \in Actors, NEW job, Set(a, job), JobOK(a, job, sess.turn, row.updated, word, stale),
         job.pc \notin {"ask", "reopen"},
         row' \in Rows, row'.state = "done" => word, sess.turn = 0 => row'.state \in Unstarted,
         NEW seenIdle \in BOOLEAN, Overtakes(seenIdle), NoAgent, word' = word, blockedIn' \in Turns
  PROVE  IInv'
<1>1. sess' = sess /\ NoEmit /\ idled' = seenIdle /\ old' = FALSE
      /\ stale' = {b \in Actors : jobs'[b].pc \in {"ask", "reopen"}}
  BY DEF NoAgent, Overtakes
<1>2. Forward
  BY <1>1, StillForward
<1>3. QueueOK(inbox', sess'.turn) /\ QueueOK(heard', sess'.turn)
  BY <1>1, <1>2, NoEmitKeeps
<1>4. JobsOK'
  BY <1>1, <1>2, JobsWrite, SaidOnce
<1>5. RowOK' /\ SessOK(sess, word)' /\ FlagsOK'
  BY <1>1, SaidOnce DEF RowOK, SessOK, FlagsOK
<1> QED BY <1>3, <1>4, <1>5 DEF IInv

LEMMA WrittenIsRow ==
  ASSUME IInv, NEW to \in States, NEW ch \in Changes, NEW passing \in BOOLEAN
  PROVE  Written(to, ch, passing) \in Rows /\ Written(to, ch, passing).state = to
<1>1. row \in Rows /\ Now \in Times /\ ch.src \in Sources /\ ch.reason \in Turns /\ 0 \in Turns
  BY SaidOnce, TimesAre DEF RowOK, Changes
<1> DEFINE why == IF to = "waiting" /\ ~passing THEN ch.reason ELSE 0
<1>2. why \in Turns
  BY <1>1
<1>3. Written(to, ch, passing) = [row EXCEPT !.state = to, !.last = ch.src, !.updated = Now, !.thisRun = TRUE,
                                             !.reason = why]
  BY DEF Written
<1> HIDE DEF why
<1> QED BY <1>1, <1>2, <1>3 DEF Rows

-----------------------------------------------------------------------------
(* SETTLING: the steps all actors have in common.                             *)

LEMMA HoldKeeps == ASSUME IInv, NEW a \in Actors, Hold(a) PROVE IInv'
<1> DEFINE job == IF Holds(jobs[a].ch.to) THEN Settled(a, row) ELSE Planned(jobs[a])
<1>1. JobOK(a, jobs[a], sess.turn, row.updated, word, stale) /\ jobs[a].pc = "hold"
  BY SaidOnce DEF Hold, At
<1>2. JobOK(a, Settled(a, row), sess.turn, row.updated, word, stale)
  BY <1>1, SaidOnce, SettledOK DEF RowOK
<1>3. JobOK(a, Planned(jobs[a]), sess.turn, row.updated, word, stale)
  BY <1>1, PlannedOK
<1>4. JobOK(a, job, sess.turn, row.updated, word, stale)
  BY <1>2, <1>3
<1>5. Set(a, job) /\ Unwritten /\ NoAgent /\ idled' = idled /\ word' = word /\ blockedIn' = blockedIn
  BY DEF Hold, NoWrite, NoGhost
<1> HIDE DEF job
<1> QED BY <1>4, <1>5, SaidOnce, QuietStep DEF FlagsOK

LEMMA WalkKeeps == ASSUME IInv, NEW a \in Actors, Walk(a) PROVE IInv'
<1>1. JobOK(a, jobs[a], sess.turn, row.updated, word, stale) /\ jobs[a].pc = "walk"
  BY SaidOnce DEF Walk, At
<1>2. JobOK(a, Planned(jobs[a]), sess.turn, row.updated, word, stale)
  BY <1>1, PlannedOK
<1>3. Set(a, Planned(jobs[a])) /\ Unwritten /\ NoAgent /\ idled' = idled /\ word' = word /\ blockedIn' = blockedIn
  BY DEF Walk, NoWrite, NoGhost
<1> QED BY <1>2, <1>3, SaidOnce, QuietStep DEF FlagsOK

(* A step that only brings an actor to rest.                                   *)
LEMMA RestKeeps ==
  ASSUME IInv, NEW a \in Actors, Set(a, Resting), NoWrite, NoAgent, NoGhost
  PROVE  IInv'
<1>1. Unwritten /\ idled' = idled /\ word' = word /\ blockedIn' = blockedIn
  BY DEF NoWrite, NoGhost
<1> QED BY <1>1, RestOK, SaidOnce, QuietStep DEF FlagsOK

LEMMA RefusedKeeps == ASSUME IInv, NEW a \in Actors, Refused(a) PROVE IInv'
BY RestKeeps DEF Refused

(* Where the next step of a walk leads, and what is left of it.                *)
LEMMA PathOf ==
  ASSUME NEW a, NEW job, NEW t, NEW u, NEW w, NEW o, JobOK(a, job, t, u, w, o), job.pc = "step"
  PROVE  /\ Head(job.path) \in States /\ Tail(job.path) \in Seq(States) /\ job.ch \in Changes
         /\ Head(job.path) = "done" => w
         /\ t = 0 => Head(job.path) \in Unstarted
         /\ Tail(job.path) # <<>> => /\ JobOK(a, [job EXCEPT !.path = Tail(job.path)], t, u, w, o)
                                     /\ [job EXCEPT !.path = Tail(job.path)].pc = "step"
<1>1. job \in JobSet /\ job.path \in Seq(States) /\ job.path # <<>>
  BY DEF JobOK, JobSet
<1>2. Head(job.path) = job.path[1] /\ 1 \in DOMAIN job.path
  BY <1>1
<1> DEFINE rest == Tail(job.path)
           n == [job EXCEPT !.path = rest]
<1>3. rest \in Seq(States) /\ \A i \in DOMAIN rest : i + 1 \in DOMAIN job.path /\ rest[i] = job.path[i + 1]
  BY <1>1
<1> HIDE DEF rest
<1>4. n \in JobSet /\ n.path = rest /\ n.pc = "step" /\ n.ch = job.ch /\ n.snap = job.snap /\ n.busy = job.busy
      /\ n.todo = job.todo
  BY <1>1, <1>3 DEF JobSet
<1> HIDE DEF n
<1>5. rest # <<>> => JobOK(a, n, t, u, w, o)
  <2>1. \A i \in DOMAIN rest : rest[i] \in OpenStates \union {job.ch.to} /\ (t = 0 => rest[i] \in Unstarted)
    BY <1>3 DEF JobOK, Unsent
  <2> QED BY <1>4, <2>1 DEF JobOK, Unsent
<1>6. Head(job.path) \in OpenStates \union {job.ch.to} /\ (job.ch.to = "done" => w)
      /\ (t = 0 => Head(job.path) \in Unstarted)
  BY <1>2 DEF JobOK, Unsent
<1>7. Head(job.path) \in States /\ job.ch \in Changes /\ (Head(job.path) = "done" => w)
  BY <1>1, <1>2, <1>6 DEF JobSet, OpenStates
<1> QED BY <1>3, <1>4, <1>5, <1>6, <1>7 DEF n, rest

LEMMA StepKeeps == ASSUME IInv, NEW a \in Actors, Step(a) PROVE IInv'
<1> DEFINE to == Head(jobs[a].path)
           rest == Tail(jobs[a].path)
           passing == rest # <<>>
           r == Written(to, jobs[a].ch, passing)
           on == [jobs[a] EXCEPT !.path = rest]
           job == IF passing THEN on ELSE Settled(a, r)
           seenIdle == idled /\ ~IsTerminal(to)
<1>1. JobOK(a, jobs[a], sess.turn, row.updated, word, stale) /\ jobs[a].pc = "step"
  BY SaidOnce DEF Step, At
<1>2. /\ to \in States /\ jobs[a].ch \in Changes /\ (to = "done" => word) /\ (sess.turn = 0 => to \in Unstarted)
      /\ passing => JobOK(a, on, sess.turn, row.updated, word, stale) /\ on.pc = "step"
  <2>1. /\ Head(jobs[a].path) \in States /\ Tail(jobs[a].path) \in Seq(States) /\ jobs[a].ch \in Changes
        /\ Head(jobs[a].path) = "done" => word
        /\ sess.turn = 0 => Head(jobs[a].path) \in Unstarted
        /\ Tail(jobs[a].path) # <<>> =>
             /\ JobOK(a, [jobs[a] EXCEPT !.path = Tail(jobs[a].path)], sess.turn, row.updated, word, stale)
             /\ [jobs[a] EXCEPT !.path = Tail(jobs[a].path)].pc = "step"
    BY ONLY <1>1, PathOf, Zenon
  <2> QED BY <2>1
<1>3. Set(a, job) /\ row' = r /\ Overtakes(seenIdle) /\ NoAgent /\ word' = word
      /\ blockedIn' = IF a = "complete" /\ ~CaughtUp THEN 0 ELSE blockedIn
  BY DEF Step, Write
<1>4. seenIdle \in BOOLEAN /\ passing \in BOOLEAN /\ blockedIn' \in Turns
  <2>1. blockedIn \in Turns /\ 0 \in Turns
    BY SaidOnce, TimesAre DEF FlagsOK
  <2> HIDE DEF seenIdle, passing
  <2>2. blockedIn' \in Turns
    BY <1>3, <2>1
  <2> QED BY <2>2 DEF seenIdle, passing
<1> HIDE DEF to, rest, on, seenIdle, passing
<1>5. r \in Rows /\ r.state = to
  BY <1>2, <1>4, WrittenIsRow
<1> HIDE DEF r
<1>6. JobOK(a, job, sess.turn, row.updated, word, stale) /\ job.pc \notin {"ask", "reopen"}
  BY <1>1, <1>2, <1>5, SettledOK
<1> HIDE DEF job
<1> QED BY <1>2, <1>3, <1>4, <1>5, <1>6, WriteStep

(* What an ended turn makes of the task.                                       *)
LEMMA EndedTurnOK ==
  ASSUME IInv, NEW a, NEW snap \in Snaps, FinishedSince(snap.reopened)
  PROVE  JobOK(a, EndedTurn(snap), sess.turn, row.updated, word, stale)
<1>1. sess.turn # 0 /\ SessOK(sess, word)
  BY SaidOnce, NothingFinishedYet DEF Snaps
<1>2. TurnEnd(snap) \in Changes /\ (TurnEnd(snap).to = "done" => word)
  BY <1>1, TurnEndSays
<1>3. JobOK(a, Resting, sess.turn, row.updated, word, stale) /\ Resting.path = <<>>
  BY RestOK DEF Resting, Job
<1>4. JobOK(a, ToHold(Resting, TurnEnd(snap)), sess.turn, row.updated, word, stale)
  BY <1>1, <1>2, <1>3, HoldOK
<1> QED BY <1>3, <1>4 DEF EndedTurn

LEMMA JudgeKeeps == ASSUME IInv, NEW a \in Actors, Judge(a) PROVE IInv'
<1> DEFINE snap == jobs[a].snap
           job == IF FinishedSince(snap.reopened) THEN EndedTurn(snap) ELSE Resting
<1>1. snap \in Snaps
  BY SaidOnce DEF JobSet
<1>2. JobOK(a, job, sess.turn, row.updated, word, stale)
  BY <1>1, EndedTurnOK, RestOK
<1>3. Set(a, job) /\ Unwritten /\ NoAgent /\ idled' = idled /\ word' = word /\ blockedIn' = blockedIn
  BY DEF Judge, NoWrite, NoGhost
<1> HIDE DEF job
<1> QED BY <1>2, <1>3, SaidOnce, QuietStep DEF FlagsOK

LEMMA ReopenKeeps == ASSUME IInv, NEW a \in Actors, Reopen(a) PROVE IInv'
<1> DEFINE ch == Plain("working")
           w == Written("working", ch, FALSE)
           r == [w EXCEPT !.reopened = jobs[a].at]
<1>1. jobs[a].pc = "reopen" /\ jobs[a].at \in Times /\ sess.turn # 0 /\ jobs[a].at <= 2 * sess.turn - 1
  <2>1. jobs[a].pc = "reopen" /\ JobOK(a, jobs[a], sess.turn, row.updated, word, stale)
    BY SaidOnce DEF Reopen, Reopening, At
  <2> QED BY <2>1 DEF JobOK, JobSet, Unsent
<1>2. Set(a, Resting) /\ NoAgent /\ NoGhost /\ (NoWrite \/ (row' = r /\ Overtakes(FALSE)))
  BY DEF Reopen, Reopening
<1>3. CASE NoWrite
  BY <1>2, <1>3, RestKeeps
<1>4. CASE row' = r /\ Overtakes(FALSE)
  <2>1. w \in Rows /\ w.state = "working"
    <3>1. ch \in Changes /\ "working" \in States
      BY JobTypes DEF States, OpenStates
    <3> QED BY <3>1, WrittenIsRow
  <2> HIDE DEF w
  <2>2. r \in Rows /\ r.state = "working"
    BY <1>1, <2>1 DEF Rows
  <2> HIDE DEF r
  <2>3. JobOK(a, Resting, sess.turn, row.updated, word, stale) /\ Resting.pc \notin {"ask", "reopen"}
    BY RestOK DEF Resting, Job
  <2>4. word' = word /\ blockedIn' \in Turns
    BY <1>2, SaidOnce DEF NoGhost, FlagsOK
  <2> QED BY <1>1, <1>2, <1>4, <2>2, <2>3, <2>4, WriteStep
<1> QED BY <1>2, <1>3, <1>4

-----------------------------------------------------------------------------
(* THE AGENT                                                                  *)

LEMMA StillNoTurn == ASSUME Forward, sess'.turn = 0 PROVE sess.turn = 0
<1>1. sess.turn \in Turns /\ sess'.turn \in Turns /\ sess.turn <= sess'.turn
  BY Zenon DEF Forward
<1>2. sess.turn \in Nat
  BY <1>1, TimesAreNat
<1> QED BY <1>1, <1>2

(* A step of the agent while an actor goes on and the row stays.               *)
LEMMA AgentStep ==
  ASSUME IInv, NEW a \in Actors, NEW job, Set(a, job), Forward,
         JobOK(a, job, sess'.turn, row.updated, word', stale), Unwritten, idled' = idled, word' = word,
         blockedIn' = blockedIn, SessOK(sess', word), QueueOK(inbox', sess'.turn), QueueOK(heard', sess'.turn)
  PROVE  IInv'
<1>1. row' = row /\ old' = old /\ Overtaken
  BY DEF Unwritten, Overtaken
<1>2. JobsOK'
  BY <1>1, JobsStep, SaidOnce
<1>3. sess'.turn = 0 => sess.turn = 0
  BY StillNoTurn
<1>4. stale' \subseteq Actors
  BY <1>1, SaidOnce DEF Overtaken, FlagsOK
<1>5. RowOK' /\ SessOK(sess, word)' /\ FlagsOK'
  BY <1>1, <1>3, <1>4, SaidOnce DEF RowOK, SessOK, FlagsOK
<1> QED BY <1>2, <1>5 DEF IInv

(* A step of the agent, its user or the clock, alone.                          *)
LEMMA AsideStep ==
  ASSUME IInv, UNCHANGED <<row, idled, jobs, stale, old, blockedIn>>, Forward, word' \in BOOLEAN,
         SessOK(sess', word'), QueueOK(inbox', sess'.turn), QueueOK(heard', sess'.turn)
  PROVE  IInv'
<1>1. JobsOK'
  BY JobsStay, SaidOnce
<1>2. (sess'.turn = 0 => sess.turn = 0) /\ (word => word')
  BY StillNoTurn DEF Forward
<1>3. RowOK' /\ SessOK(sess, word)' /\ FlagsOK'
  BY <1>2, SaidOnce DEF RowOK, SessOK, FlagsOK
<1> QED BY <1>1, <1>3 DEF IInv

(* Events of a turn that has started.                                          *)
LEMMA EventsAreTold ==
  ASSUME NEW kind \in EventKinds \ {"user", "lagged"}, NEW t
  PROVE  <<Event(kind)>> \in Seq(Told(t))
<1>1. Event(kind) \in Events /\ Event(kind).kind = kind
  BY TimesAre DEF Event, Events
<1>2. Event(kind) \in Told(t)
  BY <1>1 DEF Told
<1> QED BY <1>2

LEMMA StartTurnIs ==
  ASSUME IInv, StartTurn, word' = word
  PROVE  /\ Forward /\ SessOK(sess', word) /\ sess'.turn # 0
         /\ QueueOK(inbox', sess'.turn) /\ QueueOK(heard', sess'.turn)
<1> DEFINE s == [sess EXCEPT !.status = "busy", !.turn = @ + 1]
           es == <<UserItem(2 * sess.turn + 1), Event("busy")>>
<1>1. sess.turn \in Turns /\ sess.turn \in Nat /\ sess.turn + 1 \in Turns /\ 2 * sess.turn + 1 \in Times
  BY SaidOnce, TimesAre, TimesAreNat DEF StartTurn
<1>2. sess' = s /\ Emit(es)
  BY DEF StartTurn
<1>3. SessOK(s, word) /\ s.turn = sess.turn + 1
  <2>1. sess \in [status: Statuses, turn: Turns, idleAt: Times, said: Turns,
                  mark: {"none", "done", "blocked"}, asking: BOOLEAN]
        /\ (sess.mark = "done" => word)
    BY SaidOnce DEF SessOK
  <2> DEFINE next == sess.turn + 1
  <2>2. next \in Turns /\ next # 0
    BY <1>1
  <2> HIDE DEF next
  <2>3. /\ [sess EXCEPT !.status = "busy", !.turn = next] \in
               [status: Statuses, turn: Turns, idleAt: Times, said: Turns,
                mark: {"none", "done", "blocked"}, asking: BOOLEAN]
        /\ [sess EXCEPT !.status = "busy", !.turn = next].turn = next
        /\ [sess EXCEPT !.status = "busy", !.turn = next].mark = sess.mark
    BY <2>1, <2>2 DEF Statuses
  <2>4. s = [sess EXCEPT !.status = "busy", !.turn = next]
    BY DEF next
  <2> HIDE DEF s
  <2> QED BY <2>1, <2>2, <2>3, <2>4 DEF SessOK, next
<1>4. Forward /\ sess'.turn # 0
  BY <1>1, <1>2, <1>3 DEF Forward
<1>5. es \in Seq(Told(sess.turn + 1))
  <2>1. UserItem(2 * sess.turn + 1) \in Events /\ UserItem(2 * sess.turn + 1).kind = "user"
        /\ UserItem(2 * sess.turn + 1).at = 2 * sess.turn + 1
    BY <1>1 DEF UserItem, Events, EventKinds
  <2>2. UserItem(2 * sess.turn + 1) \in Told(sess.turn + 1)
    BY <1>1, <2>1 DEF Told
  <2>3. Event("busy") \in Told(sess.turn + 1)
    BY TimesAre DEF Event, Events, EventKinds, Told
  <2> QED BY <2>2, <2>3
<1>6. QueueOK(inbox', sess'.turn) /\ QueueOK(heard', sess'.turn)
  BY <1>2, <1>3, <1>4, <1>5, EmitKeeps
<1> QED BY <1>2, <1>3, <1>4, <1>6

(* A stop of the agent, if it is reached.                                      *)
LEMMA StopIs ==
  ASSUME IInv, Interrupt \/ NoAgent, word' = word
  PROVE  /\ Forward /\ SessOK(sess', word) /\ sess'.turn = sess.turn
         /\ QueueOK(inbox', sess'.turn) /\ QueueOK(heard', sess'.turn)
<1>1. CASE NoAgent
  <2>1. sess' = sess /\ NoEmit
    BY <1>1 DEF NoAgent
  <2>2. Forward
    BY <2>1, StillForward
  <2> QED BY <2>1, <2>2, NoEmitKeeps, SaidOnce
<1>2. CASE ~NoAgent
  <2> DEFINE s == [sess EXCEPT !.status = "interrupted", !.asking = FALSE]
  <2>1. Running /\ sess' = s /\ Emit(<<Event("interrupted")>>)
    BY <1>2 DEF Interrupt
  <2>2. SessOK(s, word) /\ s.turn = sess.turn /\ sess.turn # 0
    BY <2>1, SaidOnce DEF SessOK, Running, Statuses
  <2>3. Forward
    BY <2>1, <2>2, StillForward
  <2>4. <<Event("interrupted")>> \in Seq(Told(sess'.turn))
    BY EventsAreTold DEF EventKinds
  <2> QED BY <2>1, <2>2, <2>3, <2>4, EmitKeeps
<1> QED BY <1>1, <1>2

-----------------------------------------------------------------------------
(* DISPATCHING                                                                *)

LEMMA DispatchCreatesKeeps == ASSUME IInv, DispatchCreates PROVE IInv'
<1>1. "dispatch" \in Actors /\ Plain("failed") \in Changes /\ Plain("failed").to = "failed"
  BY JobTypes DEF Actors, States, TerminalStates
<1>2. NoEmit /\ Unwritten /\ idled' = idled /\ word' = word /\ blockedIn' = blockedIn
  BY DEF DispatchCreates, NoWrite, NoGhost
<1>3. \A t, u, w, o : JobOK("dispatch", Job("bind"), t, u, w, o)
  BY FreshJob
<1>4. \A t, u, w, o : JobOK("dispatch", ToWalk(Plain("failed")), t, u, w, o)
  BY <1>1, WalkOK
<1>5. CASE sess' = [sess EXCEPT !.status = "idle"] /\ Set("dispatch", Job("bind"))
  <2>1. SessOK(sess', word) /\ sess'.turn = sess.turn
    BY <1>5, SaidOnce DEF SessOK, Statuses
  <2>2. Forward
    BY <1>2, <2>1, StillForward
  <2>3. QueueOK(inbox', sess'.turn) /\ QueueOK(heard', sess'.turn)
    BY <1>2, <2>2, NoEmitKeeps
  <2> QED BY <1>1, <1>2, <1>3, <1>5, <2>1, <2>2, <2>3, AgentStep
<1>6. CASE sess' = sess /\ Set("dispatch", ToWalk(Plain("failed")))
  <2>1. SessOK(sess', word) /\ sess'.turn = sess.turn
    BY <1>6, SaidOnce
  <2>2. Forward
    BY <1>2, <2>1, StillForward
  <2>3. QueueOK(inbox', sess'.turn) /\ QueueOK(heard', sess'.turn)
    BY <1>2, <2>2, NoEmitKeeps
  <2> QED BY <1>1, <1>2, <1>4, <1>6, <2>1, <2>2, <2>3, AgentStep
<1> QED BY <1>5, <1>6 DEF DispatchCreates

LEMMA DispatchBindsKeeps == ASSUME IInv, DispatchBinds PROVE IInv'
<1> DEFINE w == Written("dispatching", Plain("dispatching"), FALSE)
           r == [w EXCEPT !.bound = TRUE]
<1>1. "dispatch" \in Actors /\ Plain("dispatching") \in Changes /\ "dispatching" \in States
  BY JobTypes DEF Actors, States, OpenStates
<1>2. NoAgent /\ NoGhost
      /\ \/ Set("dispatch", Job("send")) /\ row' = r /\ Overtakes(idled)
         \/ Set("dispatch", Resting) /\ NoWrite
  BY DEF DispatchBinds
<1>3. CASE Set("dispatch", Job("send")) /\ row' = r /\ Overtakes(idled)
  <2>1. w \in Rows /\ w.state = "dispatching"
    BY <1>1, WrittenIsRow
  <2> HIDE DEF w
  <2>2. r \in Rows /\ r.state = "dispatching"
    BY <2>1 DEF Rows
  <2> HIDE DEF r
  <2>3. \A t, u, v, o : JobOK("dispatch", Job("send"), t, u, v, o)
    BY FreshJob
  <2>4. word' = word /\ blockedIn' \in Turns /\ idled \in BOOLEAN
    BY <1>2, SaidOnce DEF NoGhost, FlagsOK
  <2>5. "dispatching" \in Unstarted /\ Job("send").pc \notin {"ask", "reopen"}
    BY DEF Unstarted, Job
  <2> QED BY <1>1, <1>2, <1>3, <2>2, <2>3, <2>4, <2>5, WriteStep
<1>4. CASE Set("dispatch", Resting) /\ NoWrite
  BY <1>1, <1>2, <1>4, RestKeeps
<1> QED BY <1>2, <1>3, <1>4

LEMMA DispatchSendsKeeps == ASSUME IInv, DispatchSends PROVE IInv'
<1>1. "dispatch" \in Actors
  BY DEF Actors
<1>2. StartTurn /\ Set("dispatch", Job("work")) /\ Unwritten /\ idled' = idled /\ word' = word /\ blockedIn' = blockedIn
  BY DEF DispatchSends, NoWrite, NoGhost
<1>3. JobOK("dispatch", Job("work"), sess'.turn, row.updated, word', stale)
  BY <1>2, StartTurnIs, FreshJob
<1> QED BY <1>1, <1>2, <1>3, StartTurnIs, AgentStep

LEMMA DispatchFailsToSendKeeps == ASSUME IInv, DispatchFailsToSend PROVE IInv'
<1>1. "dispatch" \in Actors
  BY DEF Actors
<1>2. Set("dispatch", Job("stop")) /\ Unwritten /\ idled' = idled /\ word' = word /\ blockedIn' = blockedIn
      /\ (NoAgent \/ StartTurn)
  BY DEF DispatchFailsToSend, NoWrite, NoGhost
<1>3. JobOK("dispatch", Job("stop"), sess'.turn, row.updated, word', stale)
  BY FreshJob
<1>4. CASE NoAgent
  BY <1>1, <1>2, <1>3, <1>4, StopIs, AgentStep
<1>5. CASE StartTurn
  BY <1>1, <1>2, <1>3, <1>5, StartTurnIs, AgentStep
<1> QED BY <1>2, <1>4, <1>5

LEMMA DispatchStopsKeeps == ASSUME IInv, DispatchStops PROVE IInv'
<1>1. "dispatch" \in Actors /\ Plain("failed") \in Changes /\ Plain("failed").to = "failed"
  BY JobTypes DEF Actors, States, TerminalStates
<1>2. Set("dispatch", ToWalk(Plain("failed"))) /\ Unwritten /\ idled' = idled /\ word' = word /\ blockedIn' = blockedIn
      /\ (Interrupt \/ NoAgent)
  BY DEF DispatchStops, BestEffort, NoWrite, NoGhost
<1>3. JobOK("dispatch", ToWalk(Plain("failed")), sess'.turn, row.updated, word', stale)
  BY <1>1, WalkOK
<1> QED BY <1>1, <1>2, <1>3, StopIs, AgentStep

LEMMA DispatchWorksKeeps == ASSUME IInv, DispatchWorks PROVE IInv'
<1> DEFINE j == Judged("working", 0, row.reopened)
           job == [Job("judge") EXCEPT !.snap = j]
           w == Written("working", Plain("working"), FALSE)
<1>1. "dispatch" \in Actors /\ Plain("working") \in Changes /\ "working" \in States
  BY JobTypes DEF Actors, States, OpenStates
<1>2. sess.turn # 0
  <2>1. JobOK("dispatch", jobs["dispatch"], sess.turn, row.updated, word, stale) /\ jobs["dispatch"].pc = "work"
    BY <1>1, SaidOnce DEF DispatchWorks, At
  <2> QED BY <2>1 DEF JobOK, Unsent
<1>3. NoAgent /\ NoGhost
      /\ \/ Set("dispatch", job) /\ row' = w /\ Overtakes(idled /\ ~IsTerminal("working"))
         \/ Set("dispatch", Resting) /\ NoWrite
  BY DEF DispatchWorks, Write
<1>4. CASE Set("dispatch", job) /\ row' = w /\ Overtakes(idled /\ ~IsTerminal("working"))
  <2>1. w \in Rows /\ w.state = "working"
    BY <1>1, WrittenIsRow
  <2>2. j \in Snaps
    BY <1>1, SaidOnce, TimesAre DEF Judged, NoSnap, Snaps
  <2>3. Job("judge") \in JobSet /\ Job("judge").path = <<>> /\ Job("judge").pc = "judge" /\ Job("judge").ch.to = "queued"
    BY JobTypes DEF Pcs, Job, Plain, Change
  <2> HIDE DEF w, j
  <2>4. job \in JobSet /\ job.path = <<>> /\ job.pc = "judge" /\ job.ch.to = "queued"
    BY <2>2, <2>3 DEF JobSet
  <2> HIDE DEF job
  <2>5. JobOK("dispatch", job, sess.turn, row.updated, word, stale)
    BY <1>2, <2>4 DEF JobOK
  <2>6. word' = word /\ blockedIn' \in Turns
    BY <1>3, SaidOnce DEF NoGhost, FlagsOK
  <2> DEFINE seenIdle == idled /\ ~IsTerminal("working")
  <2>7. seenIdle \in BOOLEAN /\ Overtakes(seenIdle)
    BY <1>4
  <2> HIDE DEF seenIdle
  <2> QED BY <1>1, <1>2, <1>3, <1>4, <2>1, <2>4, <2>5, <2>6, <2>7, WriteStep
<1>5. CASE Set("dispatch", Resting) /\ NoWrite
  BY <1>1, <1>3, <1>5, RestKeeps
<1> QED BY <1>3, <1>4, <1>5

-----------------------------------------------------------------------------
(* FOLLOWER AND DRIVER                                                        *)

(* A job begun anew that is about to move the task.                            *)
LEMMA ToHoldOK ==
  ASSUME NEW a, NEW t, t # 0, NEW u, NEW w, NEW o, NEW to \in States, to # "done"
  PROVE  JobOK(a, ToHold(Resting, Plain(to)), t, u, w, o)
<1>1. JobOK(a, Resting, t, u, w, o) /\ Resting.path = <<>>
  BY RestOK DEF Resting, Job
<1> QED BY <1>1, JobTypes, HoldOK

LEMMA ReopenOK ==
  ASSUME NEW a, NEW t, t # 0, NEW u, NEW w, NEW o, NEW at \in Times, at <= 2 * t - 1, a \notin o => at > u
  PROVE  JobOK(a, [Job("reopen") EXCEPT !.at = at], t, u, w, o)
<1> DEFINE n == [Job("reopen") EXCEPT !.at = at]
<1>1. Job("reopen") \in JobSet /\ Job("reopen").path = <<>> /\ Job("reopen").pc = "reopen" /\ Job("reopen").ch.to = "queued"
  BY JobTypes DEF Pcs, Job, Plain, Change
<1>2. n \in JobSet /\ n.path = <<>> /\ n.pc = "reopen" /\ n.ch.to = "queued" /\ n.at = at
  BY <1>1 DEF JobSet
<1> HIDE DEF n
<1>3. JobOK(a, n, t, u, w, o)
  BY <1>2 DEF JobOK
<1> QED BY <1>3 DEF n

LEMMA JudgeOK ==
  ASSUME NEW a, NEW t, t # 0, NEW u, NEW w, NEW o, NEW snap \in Snaps
  PROVE  JobOK(a, [Job("judge") EXCEPT !.snap = snap], t, u, w, o)
<1> DEFINE n == [Job("judge") EXCEPT !.snap = snap]
<1>1. Job("judge") \in JobSet /\ Job("judge").path = <<>> /\ Job("judge").pc = "judge" /\ Job("judge").ch.to = "queued"
  BY JobTypes DEF Pcs, Job, Plain, Change
<1>2. n \in JobSet /\ n.path = <<>> /\ n.pc = "judge" /\ n.ch.to = "queued"
  BY <1>1 DEF JobSet
<1> HIDE DEF n
<1>3. JobOK(a, n, t, u, w, o)
  BY <1>2 DEF JobOK
<1> QED BY <1>3 DEF n

LEMMA ReadsAreSnaps == ASSUME IInv PROVE Read \in Snaps /\ ReadToJudge \in Snaps /\ Read.updated = row.updated
                                     /\ Read.state = row.state /\ ReadToJudge.state = row.state
<1>1. row \in Rows /\ old \in BOOLEAN
  BY SaidOnce DEF RowOK, FlagsOK
<1>2. ReadToJudge \in Snaps /\ ReadToJudge.state = row.state
  BY <1>1, TimesAre DEF ReadToJudge, Judged, NoSnap, Snaps, Rows
<1>3. Read \in Snaps /\ Read.updated = row.updated /\ Read.state = row.state
  BY <1>1 DEF Read, Snaps, Rows
<1> QED BY <1>2, <1>3

LEMMA FollowerJobOK ==
  ASSUME IInv, inbox # <<>>
  PROVE  JobOK("follower", FollowerJob(Head(inbox)), sess.turn, row.updated, word, stale)
<1> DEFINE e == Head(inbox)
           j == FollowerJob(e)
           OK(job) == JobOK("follower", job, sess.turn, row.updated, word, stale)
<1>1. sess.turn # 0 /\ e.at \in Times /\ (e.kind = "user" => e.at <= 2 * sess.turn - 1)
  <2>1. QueueOK(inbox, sess.turn)
    BY SaidOnce
  <2>2. inbox \in Seq(Events) /\ 1 \in DOMAIN inbox /\ Head(inbox) = inbox[1] /\ Head(inbox) \in Events
    BY <2>1 DEF QueueOK
  <2> QED BY <2>1, <2>2 DEF QueueOK, Events
<1>2. \/ e.kind = "user" /\ e.at > row.updated /\ j = [Job("reopen") EXCEPT !.at = e.at]
      \/ j = [Job("judge") EXCEPT !.snap = ReadToJudge]
      \/ \E to \in {"working", "waiting", "failed", "cancelled"} : j = ToHold(Resting, Plain(to))
      \/ j = Resting
  <2> HIDE DEF e
  <2> QED BY DEF FollowerJob
<1> HIDE DEF e, j
<1>3. ASSUME e.kind = "user" /\ e.at > row.updated /\ j = [Job("reopen") EXCEPT !.at = e.at] PROVE OK(j)
  BY <1>1, <1>3, ReopenOK
<1>4. ASSUME j = [Job("judge") EXCEPT !.snap = ReadToJudge] PROVE OK(j)
  BY <1>1, <1>4, ReadsAreSnaps, JudgeOK
<1>5. ASSUME NEW to \in {"working", "waiting", "failed", "cancelled"}, j = ToHold(Resting, Plain(to)) PROVE OK(j)
  BY <1>1, <1>5, ToHoldOK DEF States, OpenStates, TerminalStates
<1>6. ASSUME j = Resting PROVE OK(j)
  BY <1>6, RestOK
<1>7. OK(j)
  BY <1>2, <1>3, <1>4, <1>5, <1>6
<1> QED BY <1>7 DEF e, j

LEMMA FollowKeeps == ASSUME IInv, Follow PROVE IInv'
<1> DEFINE job == FollowerJob(Head(inbox))
<1>1. "follower" \in Actors
  BY DEF Actors
<1>2. /\ inbox # <<>> /\ Set("follower", job) /\ inbox' = Tail(inbox) /\ heard' = heard /\ sess' = sess
      /\ Unwritten /\ word' = word /\ blockedIn' = blockedIn
      /\ idled' = (idled \/ (Head(inbox).kind = "idle" /\ Open))
  BY DEF Follow, NoGhost
<1>3. JobOK("follower", job, sess.turn, row.updated, word, stale)
  BY <1>2, FollowerJobOK
<1> HIDE DEF job
<1>4. Forward
  BY <1>2, StillForward
<1>5. QueueOK(inbox', sess'.turn) /\ QueueOK(heard', sess'.turn)
  BY <1>2, SaidOnce, QueueTail
<1>6. row' = row /\ old' = old /\ Overtaken
  BY <1>2 DEF Unwritten, Overtaken
<1>7. JobsOK'
  BY <1>1, <1>2, <1>3, <1>4, <1>6, JobsStep, SaidOnce
<1>8. stale' \subseteq Actors /\ idled' \in BOOLEAN
  <2>1. idled' \in BOOLEAN
    <3> DEFINE x == Head(inbox).kind = "idle" /\ Open
    <3>1. x \in BOOLEAN /\ idled \in BOOLEAN /\ idled' = (idled \/ x)
      BY <1>2, SaidOnce DEF FlagsOK
    <3> HIDE DEF x
    <3> QED BY <3>1
  <2> QED BY <1>6, <2>1, SaidOnce DEF Overtaken, FlagsOK
<1>9. RowOK' /\ SessOK(sess, word)' /\ FlagsOK'
  BY <1>2, <1>6, <1>8, SaidOnce DEF RowOK, SessOK, FlagsOK
<1> QED BY <1>5, <1>7, <1>9 DEF IInv

LEMMA DriverListsKeeps == ASSUME IInv, DriverLists PROVE IInv'
<1> DEFINE job == [Job("ask") EXCEPT !.snap = Read]
<1>1. "driver" \in Actors
  BY DEF Actors
<1>2. Set("driver", job) /\ Unwritten /\ NoAgent /\ idled' = idled /\ word' = word /\ blockedIn' = blockedIn
  BY DEF DriverLists, NoWrite, NoGhost
<1>3. Job("ask") \in JobSet /\ Job("ask").path = <<>> /\ Job("ask").pc = "ask" /\ Job("ask").ch.to = "queued"
      /\ Job("ask").busy = FALSE /\ Job("ask").todo = <<>>
  BY JobTypes DEF Pcs, Job, Plain, Change
<1>4. Read \in Snaps /\ Read.updated = row.updated /\ (sess.turn = 0 => Read.state \in Unstarted)
  BY ReadsAreSnaps, SaidOnce DEF RowOK
<1>5. job \in JobSet /\ job.path = <<>> /\ job.pc = "ask" /\ job.ch.to = "queued" /\ job.snap = Read
      /\ job.busy = FALSE /\ job.todo = <<>>
  BY <1>3, <1>4 DEF JobSet
<1> HIDE DEF job
<1>6. JobOK("driver", job, sess.turn, row.updated, word, stale)
  BY <1>4, <1>5 DEF JobOK, Unsent
<1> QED BY <1>1, <1>2, <1>6, SaidOnce, QuietStep DEF FlagsOK

(* The oldest of the user messages newer than a time is one of them.           *)
LEMMA NewTurnsHaveFirst ==
  ASSUME IInv, NEW snap \in Snaps, NewTurns(snap) # {}
  PROVE  \E at \in NewTurns(snap) : \A other \in NewTurns(snap) : at <= other
<1> DEFINE u == snap.updated
           first == IF u % 2 = 0 THEN u + 1 ELSE u + 2
<1>1. u \in Nat /\ sess.turn \in Nat
  BY SaidOnce, TimesAreNat DEF Snaps
<1>2. \A at \in NewTurns(snap) : at \in Nat /\ at % 2 = 1 /\ at < 2 * sess.turn /\ at > u /\ at \in Times
  BY TimesAreNat DEF NewTurns
<1> HIDE DEF u
<1>3. first % 2 = 1 /\ first > u /\ first \in Nat /\ \A at \in Nat : at % 2 = 1 /\ at > u => first <= at
  BY <1>1
<1> HIDE DEF first
<1>4. PICK at \in NewTurns(snap) : TRUE
  OBVIOUS
<1>5. first <= at /\ first < 2 * sess.turn
  BY <1>1, <1>2, <1>3, <1>4
<1>6. first \in Times
  <2>1. at \in 0..(2 * MaxTurns) /\ MaxTurns \in Nat
    BY <1>2, <1>4, DelegationAssumption DEF Times
  <2> QED BY <1>3, <1>5, <2>1 DEF Times
<1>7. first \in NewTurns(snap)
  BY <1>3, <1>5, <1>6 DEF NewTurns, u
<1> QED BY <1>2, <1>3, <1>7

LEMMA DriverJobOK ==
  ASSUME IInv, jobs["driver"].pc = "ask"
  PROVE  JobOK("driver", DriverJob(jobs["driver"].snap), sess.turn, row.updated, word, stale)
<1> DEFINE snap == jobs["driver"].snap
           first == CHOOSE at \in NewTurns(snap) : \A other \in NewTurns(snap) : at <= other
           j == DriverJob(snap)
           OK(job) == JobOK("driver", job, sess.turn, row.updated, word, stale)
<1>1. snap \in Snaps /\ ("driver" \notin stale => snap.updated = row.updated)
  <2>1. JobOK("driver", jobs["driver"], sess.turn, row.updated, word, stale)
    BY SaidOnce DEF Actors
  <2> QED BY <2>1 DEF JobOK, JobSet
<1>2. Running \/ sess.status = "failed" => sess.turn # 0
  BY SaidOnce DEF SessOK, Running
<1>3. \/ NewTurns(snap) # {} /\ j = [Job("reopen") EXCEPT !.at = first]
      \/ j = ToWalk(Plain("failed"))
      \/ Running /\ j = ToHold(Resting, Plain("working"))
      \/ FinishedSince(snap.reopened) /\ j = EndedTurn(snap)
      \/ j = Resting
  <2> HIDE DEF snap
  <2>1. CASE IsTerminal(snap.state)
    BY <2>1 DEF DriverJob
  <2>2. CASE ~IsTerminal(snap.state) /\ ~snap.bound
    BY <2>2 DEF DriverJob
  <2>3. CASE ~IsTerminal(snap.state) /\ snap.bound
    <3>1. DriverJob(snap) =
            CASE ~SessionThere -> ToWalk(Plain("failed"))
              [] sess.status = "failed" -> ToWalk(Plain("failed"))
              [] Running /\ (snap.state = "idle_unconfirmed" \/ (snap.state = "waiting" /\ Blocked))
                   -> ToHold(Resting, Plain("working"))
              [] ~FinishedSince(snap.reopened)
                   -> IF NeverSent(snap) THEN ToWalk(Plain("failed")) ELSE Resting
              [] OTHER -> EndedTurn(snap)
      BY <2>3 DEF DriverJob
    <3> QED BY <3>1
  <2> QED BY <2>1, <2>2, <2>3
<1> HIDE DEF snap, first, j
<1>4. ASSUME NewTurns(snap) # {} /\ j = [Job("reopen") EXCEPT !.at = first] PROVE OK(j)
  <2>1. first \in NewTurns(snap)
    BY <1>1, <1>4, NewTurnsHaveFirst DEF first
  <2>2. first \in Times /\ first < 2 * sess.turn /\ first > snap.updated
    BY <2>1 DEF NewTurns
  <2>3. first \in Nat /\ sess.turn \in Nat
    BY <2>2, SaidOnce, TimesAreNat
  <2>4. sess.turn # 0 /\ first <= 2 * sess.turn - 1
    BY <2>2, <2>3
  <2> QED BY <1>1, <1>4, <2>2, <2>4, ReopenOK
<1>5. ASSUME j = ToWalk(Plain("failed")) PROVE OK(j)
  <2>1. Plain("failed") \in Changes /\ Plain("failed").to = "failed"
    BY JobTypes DEF States, TerminalStates
  <2> QED BY <1>5, <2>1, WalkOK
<1>6. ASSUME Running /\ j = ToHold(Resting, Plain("working")) PROVE OK(j)
  BY <1>2, <1>6, ToHoldOK DEF States, OpenStates
<1>7. ASSUME FinishedSince(snap.reopened) /\ j = EndedTurn(snap) PROVE OK(j)
  BY <1>1, <1>7, EndedTurnOK
<1>8. ASSUME j = Resting PROVE OK(j)
  BY <1>8, RestOK
<1>9. OK(j)
  BY <1>3, <1>4, <1>5, <1>6, <1>7, <1>8
<1> QED BY <1>9 DEF j, snap

LEMMA DriverAsksKeeps == ASSUME IInv, DriverAsks PROVE IInv'
<1> DEFINE job == DriverJob(jobs["driver"].snap)
<1>1. "driver" \in Actors
  BY DEF Actors
<1>2. Set("driver", job) /\ Unwritten /\ NoAgent /\ idled' = idled /\ word' = word /\ blockedIn' = blockedIn
  BY DEF DriverAsks, NoWrite, NoGhost
<1>3. JobOK("driver", job, sess.turn, row.updated, word, stale)
  BY DriverJobOK DEF DriverAsks, At
<1> HIDE DEF job
<1> QED BY <1>1, <1>2, <1>3, SaidOnce, QuietStep DEF FlagsOK

-----------------------------------------------------------------------------
(* THE WAIT                                                                   *)

LEMMA WaitStartsKeeps == ASSUME IInv, WaitStarts PROVE IInv'
<1> DEFINE job == [Job("look") EXCEPT !.snap = ReadToJudge]
<1>1. "wait" \in Actors
  BY DEF Actors
<1>2. /\ Set("wait", job) /\ Unwritten /\ idled' = idled /\ word' = word /\ blockedIn' = blockedIn
      /\ heard' = <<>> /\ sess' = sess /\ inbox' = inbox
  BY DEF WaitStarts, NoWrite, NoGhost
<1>3. Job("look") \in JobSet /\ Job("look").path = <<>> /\ Job("look").pc = "look" /\ Job("look").ch.to = "queued"
      /\ Job("look").busy = FALSE /\ Job("look").todo = <<>>
  BY JobTypes DEF Pcs, Job, Plain, Change
<1>4. ReadToJudge \in Snaps /\ (sess.turn = 0 => ReadToJudge.state \in Unstarted)
  BY ReadsAreSnaps, SaidOnce DEF RowOK
<1>5. job \in JobSet /\ job.path = <<>> /\ job.pc = "look" /\ job.ch.to = "queued" /\ job.snap = ReadToJudge
      /\ job.busy = FALSE /\ job.todo = <<>>
  BY <1>3, <1>4 DEF JobSet
<1> HIDE DEF job
<1>6. JobOK("wait", job, sess.turn, row.updated, word, stale)
  BY <1>4, <1>5 DEF JobOK, Unsent
<1>7. Forward
  BY <1>2, StillForward
<1>8. QueueOK(inbox', sess'.turn) /\ QueueOK(heard', sess'.turn)
  BY <1>2, SaidOnce, QueueEmpty
<1> QED BY <1>1, <1>2, <1>6, <1>7, <1>8, SaidOnce, AgentStep

(* What the wait reads of the session; nothing but idle before the first turn. *)
LEMMA SnapshotOK ==
  ASSUME IInv, NEW snap \in Snaps, SessionThere
  PROVE  /\ Snapshot(snap) \in Seq(Looked)
         /\ sess.turn = 0 => \A i \in DOMAIN Snapshot(snap) : Snapshot(snap)[i].kind = "idle"
<1> DEFINE first == IF FinishedSince(snap.reopened) THEN <<Event("busy"), Event("idle")>> ELSE <<Event(sess.status)>>
           then == IF sess.asking THEN <<Event("asked")>>
                   ELSE IF snap.state = "waiting" /\ Running THEN <<Event("resolved")>> ELSE <<>>
<1>1. \A k \in EventKinds \union Statuses : Event(k) \in Looked /\ Event(k).kind = k
  BY TimesAre DEF Event, Looked
<1>2. sess.status \in Statuses /\ (sess.turn = 0 => sess.status = "idle" /\ ~sess.asking)
  BY SaidOnce DEF SessOK, SessionThere
<1>3. first \in Seq(Looked) /\ then \in Seq(Looked)
  <2>1. Event("busy") \in Looked /\ Event("idle") \in Looked /\ Event(sess.status) \in Looked
        /\ Event("asked") \in Looked /\ Event("resolved") \in Looked
    BY <1>1, <1>2 DEF EventKinds
  <2> QED BY <2>1
<1>4. sess.turn = 0 => first = <<Event("idle")>> /\ then = <<>>
  <2> SUFFICES ASSUME sess.turn = 0 PROVE first = <<Event("idle")>> /\ then = <<>>
    OBVIOUS
  <2>1. ~FinishedSince(snap.reopened)
    BY SaidOnce, NothingFinishedYet DEF Snaps
  <2>2. ~Running
    BY <1>2 DEF Running
  <2> QED BY <1>2, <2>1, <2>2
<1>5. Snapshot(snap) = first \o then
  BY DEF Snapshot
<1> HIDE DEF first, then
<1>6. Snapshot(snap) \in Seq(Looked)
  BY <1>3, <1>5
<1>7. ASSUME sess.turn = 0 PROVE \A i \in DOMAIN Snapshot(snap) : Snapshot(snap)[i].kind = "idle"
  <2>1. Snapshot(snap) = <<Event("idle")>>
    <3>1. first \o <<>> = first
      BY <1>3, ConcatEmptySeq
    <3> QED BY <1>4, <1>5, <1>7, <3>1
  <2>2. Event("idle").kind = "idle"
    BY <1>1 DEF Statuses
  <2> QED BY <2>1, <2>2
<1> QED BY <1>6, <1>7

LEMMA WaitLooksKeeps == ASSUME IInv, WaitLooks PROVE IInv'
<1> DEFINE todo == Snapshot(jobs["wait"].snap)
           n == [jobs["wait"] EXCEPT !.pc = "listen", !.todo = todo]
           job == IF SessionThere THEN n ELSE Resting
<1>1. "wait" \in Actors
  BY DEF Actors
<1>2. Set("wait", job) /\ Unwritten /\ NoAgent /\ idled' = idled /\ word' = word /\ blockedIn' = blockedIn
      /\ jobs["wait"].pc = "look"
  BY DEF WaitLooks, NoWrite, NoGhost
<1>3. JobOK("wait", jobs["wait"], sess.turn, row.updated, word, stale)
  BY <1>1, SaidOnce
<1>4. SessionThere => JobOK("wait", n, sess.turn, row.updated, word, stale)
  <2> SUFFICES ASSUME SessionThere PROVE JobOK("wait", n, sess.turn, row.updated, word, stale)
    OBVIOUS
  <2>1. jobs["wait"] \in JobSet /\ jobs["wait"].snap \in Snaps /\ jobs["wait"].path = <<>>
    BY <1>2, <1>3 DEF JobOK, JobSet
  <2>2. todo \in Seq(Looked) /\ (sess.turn = 0 => \A i \in DOMAIN todo : todo[i].kind = "idle")
    BY <2>1, SnapshotOK
  <2> HIDE DEF todo
  <2>3. /\ n \in JobSet /\ n.pc = "listen" /\ n.todo = todo /\ n.path = <<>> /\ n.ch = jobs["wait"].ch
        /\ n.snap = jobs["wait"].snap /\ n.busy = jobs["wait"].busy
    BY <2>1, <2>2 DEF JobSet, Pcs
  <2> HIDE DEF n
  <2> QED BY <1>3, <2>2, <2>3 DEF JobOK, Unsent
<1>5. JobOK("wait", job, sess.turn, row.updated, word, stale)
  BY <1>4, RestOK
<1> HIDE DEF job
<1> QED BY <1>1, <1>2, <1>5, SaidOnce, QuietStep DEF FlagsOK

(* What an event asks for, said by the agent if it is done.                    *)
LEMMA AsksOK ==
  ASSUME IInv, NEW job, NEW e, NEW ch \in Asks(job, e)
  PROVE  ch \in Changes /\ (ch.to = "done" => word)
<1>1. TurnEnd(job.snap) \in Changes /\ (TurnEnd(job.snap).to = "done" => word)
  BY SaidOnce, TurnEndSays
<1>2. ch = TurnEnd(job.snap) \/ \E to \in {"waiting", "working", "failed", "cancelled"} : ch = Plain(to)
  <2>1. Asks(job, e) \in {{TurnEnd(job.snap)}, {Plain("waiting")}, {Plain("working")}, {Plain("failed")},
                          {Plain("cancelled")}, {}}
    BY DEF Asks
  <2> QED BY <2>1
<1>3. \A to \in {"waiting", "working", "failed", "cancelled"} :
        Plain(to) \in Changes /\ Plain(to).to = to /\ to # "done"
  BY JobTypes DEF States, OpenStates, TerminalStates
<1> QED BY <1>1, <1>2, <1>3

LEMMA WaitHearsOK ==
  ASSUME IInv, NEW job, JobOK("wait", job, sess.turn, row.updated, word, stale), job.pc = "listen",
         NEW e, sess.turn = 0 => e.kind = "idle"
  PROVE  JobOK("wait", WaitHears(job, e), sess.turn, row.updated, word, stale)
<1> DEFINE heardBusy == e.kind = "busy"
           busy == job.busy \/ heardBusy
           next == [job EXCEPT !.busy = busy]
           look == [job EXCEPT !.pc = "look"]
           ch == CHOOSE c \in Asks(job, e) : TRUE
           j == WaitHears(job, e)
           OK(x) == JobOK("wait", x, sess.turn, row.updated, word, stale)
<1>1. job \in JobSet /\ job.path = <<>> /\ job.busy \in BOOLEAN /\ (sess.turn = 0 => ~job.busy)
  BY DEF JobOK, JobSet, Unsent
<1>2. busy \in BOOLEAN /\ (sess.turn = 0 => ~busy)
  BY <1>1
<1>3. \/ j = look /\ e.kind = "lagged"
      \/ j = next
      \/ Asks(job, e) # {} /\ j = ToHold(job, ch)
      \/ j = Resting
  <2>1. CASE e.kind = "lagged"
    BY <2>1 DEF WaitHears
  <2>2. CASE e.kind # "lagged" /\ Asks(job, e) = {}
    BY <2>2 DEF WaitHears
  <2>3. CASE e.kind # "lagged" /\ Asks(job, e) # {}
    <3>1. j = CASE ch.to # job.snap.state -> ToHold(job, ch)
                [] ch.to = job.snap.state ->
                     CASE row.state # ch.to                   -> ToHold(job, ch)
                       [] row.state = ch.to /\ Paused(ch.to)  -> Resting
                       [] row.state = ch.to /\ ~Paused(ch.to) -> next
      BY <2>3 DEF WaitHears
    <3> HIDE DEF j, ch, next
    <3> QED BY <2>3, <3>1
  <2> QED BY <2>1, <2>2, <2>3
<1> HIDE DEF busy, j, ch
<1>4. OK(next)
  <2>1. /\ next \in JobSet /\ next.pc = "listen" /\ next.path = <<>> /\ next.ch = job.ch /\ next.snap = job.snap
        /\ next.busy = busy /\ next.todo = job.todo
    BY <1>1, <1>2 DEF JobSet
  <2> HIDE DEF next
  <2> QED BY <1>2, <2>1 DEF JobOK, Unsent
<1>5. OK(look)
  <2>1. /\ look \in JobSet /\ look.pc = "look" /\ look.path = <<>> /\ look.ch = job.ch /\ look.snap = job.snap
        /\ look.busy = job.busy /\ look.todo = job.todo
    BY <1>1 DEF JobSet, Pcs
  <2> HIDE DEF look
  <2> QED BY <2>1 DEF JobOK, Unsent
<1>6. ASSUME Asks(job, e) # {} PROVE OK(ToHold(job, ch))
  <2>1. ch \in Asks(job, e)
    BY <1>6 DEF ch
  <2>2. ch \in Changes /\ (ch.to = "done" => word)
    BY <2>1, AsksOK
  <2>3. sess.turn # 0
    <3>1. ASSUME sess.turn = 0 PROVE FALSE
      <4>1. e.kind = "idle" /\ ~EndsTurn(job)
        BY <1>1, <3>1 DEF EndsTurn
      <4> QED BY <1>6, <4>1 DEF Asks
    <3> QED BY <3>1
  <2> QED BY <1>1, <2>2, <2>3, HoldOK
<1>7. OK(Resting)
  BY RestOK
<1>8. OK(j)
  BY <1>3, <1>4, <1>5, <1>6, <1>7
<1> QED BY <1>8 DEF j

LEMMA WaitTakesKeeps == ASSUME IInv, WaitTakes PROVE IInv'
<1> DEFINE job == jobs["wait"]
           rest == Tail(job.todo)
           after == [job EXCEPT !.todo = rest]
<1>1. "wait" \in Actors
  BY DEF Actors
<1>2. Unwritten /\ idled' = idled /\ word' = word /\ blockedIn' = blockedIn /\ sess' = sess /\ job.pc = "listen"
  BY DEF WaitTakes, NoWrite, NoGhost
<1>3. JobOK("wait", job, sess.turn, row.updated, word, stale)
  BY <1>1, SaidOnce
<1>4. Forward
  BY <1>2, StillForward
<1>5. CASE job.todo # <<>> /\ Set("wait", WaitHears(after, Head(job.todo))) /\ NoEmit
  <2>1. job \in JobSet /\ job.todo \in Seq(Looked)
    BY <1>3 DEF JobOK, JobSet
  <2>2. rest \in Seq(Looked) /\ \A i \in DOMAIN rest : i + 1 \in DOMAIN job.todo /\ rest[i] = job.todo[i + 1]
    BY <1>5, <2>1
  <2>3. Head(job.todo) = job.todo[1] /\ 1 \in DOMAIN job.todo
    BY <1>5, <2>1
  <2> HIDE DEF rest
  <2>4. sess.turn = 0 => Head(job.todo).kind = "idle" /\ \A i \in DOMAIN rest : rest[i].kind = "idle"
    BY <1>3, <2>2, <2>3 DEF JobOK, Unsent
  <2>5. /\ after \in JobSet /\ after.pc = "listen" /\ after.path = job.path /\ after.ch = job.ch
        /\ after.snap = job.snap /\ after.busy = job.busy /\ after.todo = rest
    BY <1>2, <2>1, <2>2 DEF JobSet
  <2> HIDE DEF after
  <2>6. JobOK("wait", after, sess.turn, row.updated, word, stale)
    BY <1>2, <1>3, <2>4, <2>5 DEF JobOK, Unsent
  <2>7. JobOK("wait", WaitHears(after, Head(job.todo)), sess.turn, row.updated, word, stale)
    BY <2>4, <2>5, <2>6, WaitHearsOK
  <2>8. QueueOK(inbox', sess'.turn) /\ QueueOK(heard', sess'.turn)
    BY <1>4, <1>5, NoEmitKeeps
  <2> QED BY <1>1, <1>2, <1>4, <1>5, <2>7, <2>8, SaidOnce, AgentStep
<1>6. CASE /\ heard # <<>> /\ Set("wait", WaitHears(job, Head(heard))) /\ heard' \in {<<>>, Tail(heard)}
           /\ inbox' = inbox
  <2>1. QueueOK(heard, sess.turn) /\ sess.turn # 0
    BY <1>6, SaidOnce DEF QueueOK
  <2>2. JobOK("wait", WaitHears(job, Head(heard)), sess.turn, row.updated, word, stale)
    BY <1>2, <1>3, <2>1, WaitHearsOK
  <2>3. QueueOK(inbox', sess'.turn) /\ QueueOK(heard', sess'.turn)
    BY <1>2, <1>6, <2>1, SaidOnce, QueueTail, QueueEmpty
  <2> QED BY <1>1, <1>2, <1>4, <1>6, <2>2, <2>3, SaidOnce, AgentStep
<1>7. \/ job.todo # <<>> /\ Set("wait", WaitHears(after, Head(job.todo))) /\ NoEmit
      \/ /\ heard # <<>> /\ Set("wait", WaitHears(job, Head(heard))) /\ heard' \in {<<>>, Tail(heard)}
         /\ inbox' = inbox
  BY DEF WaitTakes
<1> QED BY <1>5, <1>6, <1>7

LEMMA WaitEndsKeeps == ASSUME IInv, WaitEnds PROVE IInv'
BY RestKeeps DEF WaitEnds, Actors

-----------------------------------------------------------------------------
(* THE REPORT AND THE DEVICE                                                  *)

(* Where a task pauses or works, its session ran.                              *)
LEMMA CompleteDoneKeeps == ASSUME IInv, CompleteDone PROVE IInv'
<1>1. "complete" \in Actors /\ Plain("done") \in Changes
  BY JobTypes DEF Actors, States, TerminalStates
<1>2. Set("complete", ToWalk(Plain("done"))) /\ Unwritten /\ NoAgent /\ idled' = idled /\ word' = TRUE
      /\ blockedIn' = blockedIn /\ sess.turn # 0
  BY SaidOnce DEF CompleteDone, CanReport, NoWrite, SessOK, Running
<1>3. JobOK("complete", ToWalk(Plain("done")), sess.turn, row.updated, word', stale)
  BY <1>1, <1>2, WalkOK
<1> QED BY <1>1, <1>2, <1>3, SaidOnce, QuietStep DEF FlagsOK

LEMMA CompleteBlockedKeeps == ASSUME IInv, CompleteBlocked PROVE IInv'
<1> DEFINE ch == Change("waiting", "complete_blocked", 0)
<1>1. "complete" \in Actors /\ ch \in Changes /\ ch.to = "waiting"
  BY TimesAre DEF Actors, Change, Changes, Sources, States, OpenStates
<1>2. Set("complete", ToWalk(ch)) /\ Unwritten /\ NoAgent /\ idled' = FALSE /\ word' = word
      /\ blockedIn' = (IF CaughtUp THEN sess.turn ELSE 0) /\ sess.turn # 0
  BY SaidOnce DEF CompleteBlocked, CanReport, SessOK, Running
<1> HIDE DEF ch
<1>3. JobOK("complete", ToWalk(ch), sess.turn, row.updated, word', stale)
  BY <1>1, <1>2, WalkOK
<1>4. blockedIn' \in Turns
  BY <1>2, SaidOnce, TimesAre
<1> QED BY <1>1, <1>2, <1>3, <1>4, SaidOnce, QuietStep DEF FlagsOK

LEMMA ConfirmKeeps == ASSUME IInv, Confirm PROVE IInv'
<1>1. "confirm" \in Actors /\ Plain("done") \in Changes
  BY JobTypes DEF Actors, States, TerminalStates
<1>2. Set("confirm", ToWalk(Plain("done"))) /\ Unwritten /\ NoAgent /\ idled' = idled /\ word' = TRUE
      /\ blockedIn' = blockedIn /\ Paused(row.state)
  BY DEF Confirm, NoWrite
<1>3. sess.turn # 0
  BY <1>2, SaidOnce DEF RowOK, Paused, Unstarted
<1>4. JobOK("confirm", ToWalk(Plain("done")), sess.turn, row.updated, word', stale)
  BY <1>1, <1>2, <1>3, WalkOK
<1> QED BY <1>1, <1>2, <1>4, SaidOnce, QuietStep DEF FlagsOK

LEMMA CancelReadsKeeps == ASSUME IInv, CancelReads PROVE IInv'
<1> DEFINE bound == row.bound
           snap == [NoSnap EXCEPT !.bound = bound]
           job == [Job("interrupt") EXCEPT !.snap = snap]
<1>1. "cancel" \in Actors
  BY DEF Actors
<1>2. Set("cancel", job) /\ Unwritten /\ NoAgent /\ idled' = idled /\ word' = word /\ blockedIn' = blockedIn
  BY DEF CancelReads, NoWrite, NoGhost
<1>3. bound \in BOOLEAN
  BY SaidOnce DEF RowOK, Rows
<1> HIDE DEF bound
<1>4. snap \in Snaps /\ snap.state = "queued"
  BY <1>3, JobTypes DEF Snaps, NoSnap
<1>5. Job("interrupt") \in JobSet /\ Job("interrupt").path = <<>> /\ Job("interrupt").pc = "interrupt"
      /\ Job("interrupt").ch.to = "queued" /\ Job("interrupt").busy = FALSE /\ Job("interrupt").todo = <<>>
  BY JobTypes DEF Pcs, Job, Plain, Change
<1> HIDE DEF snap
<1>6. job \in JobSet /\ job.path = <<>> /\ job.pc = "interrupt" /\ job.ch.to = "queued" /\ job.snap = snap
      /\ job.busy = FALSE /\ job.todo = <<>>
  BY <1>4, <1>5 DEF JobSet
<1> HIDE DEF job
<1>7. JobOK("cancel", job, sess.turn, row.updated, word, stale)
  BY <1>4, <1>6 DEF JobOK, Unsent, Unstarted
<1> QED BY <1>1, <1>2, <1>7, SaidOnce, QuietStep DEF FlagsOK

LEMMA CancelInterruptsKeeps == ASSUME IInv, CancelInterrupts PROVE IInv'
<1> DEFINE ch == Plain("cancelled")
           job == [Job("step") EXCEPT !.ch = ch, !.path = <<"cancelled">>]
<1>1. "cancel" \in Actors /\ ch \in Changes /\ ch.to = "cancelled"
  BY JobTypes DEF Actors, States, TerminalStates
<1>2. Set("cancel", job) /\ Unwritten /\ idled' = idled /\ word' = word /\ blockedIn' = blockedIn
      /\ (Interrupt \/ NoAgent)
  BY DEF CancelInterrupts, BestEffort, NoWrite, NoGhost
<1>3. Job("step") \in JobSet /\ Job("step").pc = "step" /\ Job("step").busy = FALSE /\ Job("step").todo = <<>>
      /\ Job("step").snap.state = "queued"
  BY JobTypes DEF Pcs, Job, NoSnap
<1> HIDE DEF ch
<1>4. <<"cancelled">> \in Seq(States)
  BY DEF States, TerminalStates
<1>5. job \in JobSet /\ job.path = <<"cancelled">> /\ job.pc = "step" /\ job.ch = ch /\ job.busy = FALSE
      /\ job.todo = <<>> /\ job.snap.state = "queued"
  BY <1>1, <1>3, <1>4 DEF JobSet
<1> HIDE DEF job
<1>6. JobOK("cancel", job, sess'.turn, row.updated, word', stale)
  BY <1>1, <1>5 DEF JobOK, Unsent, Unstarted
<1> QED BY <1>1, <1>2, <1>6, StopIs, AgentStep

-----------------------------------------------------------------------------
(* THE AGENT'S OWN STEPS, THE CLOCK AND THE PROCESS                           *)

LEMMA AsideMeans ==
  ASSUME Aside
  PROVE  UNCHANGED <<row, idled, jobs, stale, old, blockedIn>> /\ word' = word
BY DEF Aside

LEMMA EndTurnKeeps ==
  ASSUME IInv, NEW mark \in {"none", "done", "blocked", "silent"}, EndTurn(mark)
  PROVE  IInv'
<1> DEFINE at == 2 * sess.turn
           said == IF mark = "silent" THEN sess.said ELSE sess.turn
           last == IF mark = "silent" THEN sess.mark ELSE mark
           s == [sess EXCEPT !.status = "idle", !.idleAt = at, !.said = said, !.mark = last]
           isDone == mark = "done"
<1>1. sess' = s /\ Emit(<<Event("idle")>>) /\ word' = (word \/ isDone)
      /\ UNCHANGED <<row, idled, jobs, stale, old, blockedIn>> /\ Running
  BY DEF EndTurn
<1>2. /\ sess \in [status: Statuses, turn: Turns, idleAt: Times, said: Turns,
                    mark: {"none", "done", "blocked"}, asking: BOOLEAN]
      /\ sess.mark = "done" => word
      /\ sess.turn # 0
  BY <1>1, SaidOnce DEF SessOK, Running
<1>3. at \in Times /\ said \in Turns /\ last \in {"none", "done", "blocked"}
  BY <1>2, TimesAre
<1>4. word' \in BOOLEAN /\ (word => word') /\ (last = "done" => word')
  <2>1. word \in BOOLEAN /\ isDone \in BOOLEAN
    BY SaidOnce
  <2>2. last = "done" => sess.mark = "done" \/ isDone
    OBVIOUS
  <2> HIDE DEF last, isDone
  <2> QED BY <1>1, <1>2, <2>1, <2>2
<1> HIDE DEF at, said, last, isDone
<1>5. /\ s \in [status: Statuses, turn: Turns, idleAt: Times, said: Turns,
                 mark: {"none", "done", "blocked"}, asking: BOOLEAN]
      /\ s.turn = sess.turn /\ s.mark = last
  BY <1>2, <1>3 DEF Statuses
<1> HIDE DEF s
<1>6. SessOK(sess', word')
  BY <1>1, <1>2, <1>4, <1>5 DEF SessOK
<1>7. Forward
  BY <1>1, <1>4, <1>5, StillForward
<1>8. <<Event("idle")>> \in Seq(Told(sess'.turn))
  BY EventsAreTold DEF EventKinds
<1>9. QueueOK(inbox', sess'.turn) /\ QueueOK(heard', sess'.turn)
  BY <1>1, <1>2, <1>5, <1>7, <1>8, EmitKeeps
<1> QED BY <1>1, <1>4, <1>6, <1>7, <1>9, AsideStep

LEMMA UserTurnKeeps == ASSUME IInv, UserTurn PROVE IInv'
<1>1. StartTurn /\ Aside
  BY DEF UserTurn
<1> QED BY <1>1, AsideMeans, StartTurnIs, AsideStep, SaidOnce

(* The session is said to be otherwise, in the turn it is in.                  *)
LEMMA ToldKeeps ==
  ASSUME IInv, Aside, SessOK(sess', word), sess'.turn = sess.turn, sess.turn # 0,
         NEW kind \in EventKinds \ {"user", "lagged"}, Emit(<<Event(kind)>>)
  PROVE  IInv'
<1>1. Forward
  BY AsideMeans, StillForward
<1>2. QueueOK(inbox', sess'.turn) /\ QueueOK(heard', sess'.turn)
  BY <1>1, EventsAreTold, EmitKeeps
<1> QED BY <1>1, <1>2, AsideMeans, AsideStep, SaidOnce

LEMMA AskKeeps == ASSUME IInv, Ask PROVE IInv'
<1>1. Aside /\ Emit(<<Event("asked")>>) /\ sess' = [sess EXCEPT !.asking = TRUE] /\ Running
  BY DEF Ask
<1>2. SessOK(sess', word) /\ sess'.turn = sess.turn /\ sess.turn # 0
  BY <1>1, SaidOnce DEF SessOK, Running
<1> QED BY <1>1, <1>2, ToldKeeps DEF EventKinds

LEMMA AnswerKeeps == ASSUME IInv, Answer PROVE IInv'
<1>1. Aside /\ Emit(<<Event("resolved")>>) /\ sess' = [sess EXCEPT !.asking = FALSE] /\ sess.asking
  BY DEF Answer
<1>2. SessOK(sess', word) /\ sess'.turn = sess.turn /\ sess.turn # 0
  BY <1>1, SaidOnce DEF SessOK
<1> QED BY <1>1, <1>2, ToldKeeps DEF EventKinds

LEMMA BreakTurnKeeps == ASSUME IInv, NEW how \in {"failed", "interrupted"}, BreakTurn(how) PROVE IInv'
<1>1. Aside /\ Emit(<<Event(how)>>) /\ sess' = [sess EXCEPT !.status = how, !.asking = FALSE] /\ Running
  BY DEF BreakTurn
<1>2. SessOK(sess', word) /\ sess'.turn = sess.turn /\ sess.turn # 0
  BY <1>1, SaidOnce DEF SessOK, Running, Statuses
<1> QED BY <1>1, <1>2, ToldKeeps DEF EventKinds

LEMMA VanishKeeps == ASSUME IInv, Vanish PROVE IInv'
<1>1. Aside /\ sess' = [sess EXCEPT !.status = "gone", !.asking = FALSE] /\ UNCHANGED <<inbox, heard>>
  BY DEF Vanish
<1>2. SessOK(sess', word) /\ sess'.turn = sess.turn
  BY <1>1, SaidOnce DEF SessOK, Statuses
<1>3. Forward
  BY <1>1, <1>2, AsideMeans, StillForward
<1> QED BY <1>1, <1>2, <1>3, AsideMeans, AsideStep, SaidOnce

LEMMA CrowdKeeps == ASSUME IInv, Crowd PROVE IInv'
<1>1. Aside /\ sess' = sess /\ inbox' = Pushed(inbox) /\ heard' = Pushed(heard)
  BY DEF Crowd
<1>2. Forward
  BY <1>1, AsideMeans, StillForward
<1>3. QueueOK(inbox', sess'.turn) /\ QueueOK(heard', sess'.turn)
  BY <1>1, SaidOnce, QueuePushed
<1> QED BY <1>1, <1>2, <1>3, AsideMeans, AsideStep, SaidOnce

LEMMA AgeKeeps == ASSUME IInv, Age PROVE IInv'
<1>1. UNCHANGED <<row, sess, inbox, heard, idled, jobs, stale, word, blockedIn>> /\ old' = TRUE
  BY DEF Age
<1>2. Forward
  BY <1>1, StillForward
<1>3. JobsOK'
  BY <1>1, <1>2, JobsStay, SaidOnce
<1>4. RowOK' /\ SessOK(sess, word)' /\ FlagsOK' /\ QueueOK(inbox, sess.turn)' /\ QueueOK(heard, sess.turn)'
  BY <1>1, SaidOnce DEF RowOK, SessOK, FlagsOK
<1> QED BY <1>3, <1>4 DEF IInv

LEMMA RestartKeeps == ASSUME IInv, Restart PROVE IInv'
<1>1. /\ jobs' = [a \in Actors |-> Resting] /\ inbox' = <<>> /\ heard' = <<>> /\ idled' = FALSE /\ stale' = {}
      /\ blockedIn' = 0 /\ row' = [row EXCEPT !.thisRun = FALSE] /\ UNCHANGED <<sess, old, word>>
  BY DEF Restart
<1>2. \A a, t, u, w, o : JobOK(a, Resting, t, u, w, o)
  BY RestOK
<1>3. Resting \in JobSet
  BY <1>2 DEF JobOK
<1>4. jobs' \in [Actors -> JobSet] /\ \A a \in Actors : jobs'[a] = Resting
  BY <1>1, <1>3
<1>5. JobsOK'
  <2>1. \A a \in Actors : JobOK(a, jobs'[a], sess'.turn, row'.updated, word', stale')
    BY <1>2, <1>4
  <2> QED BY <1>4, <2>1 DEF JobsOK
<1>6. RowOK'
  BY <1>1, SaidOnce DEF RowOK, Rows
<1>7. SessOK(sess, word)' /\ FlagsOK'
  BY <1>1, SaidOnce, TimesAre DEF SessOK, FlagsOK
<1>8. QueueOK(inbox, sess.turn)' /\ QueueOK(heard, sess.turn)'
  BY <1>1, QueueEmpty
<1> QED BY <1>5, <1>6, <1>7, <1>8 DEF IInv

-----------------------------------------------------------------------------
(* THE THEOREMS                                                               *)

LEMMA InitHolds == ASSUME Init PROVE IInv
<1>1. JobsOK
  <2>1. jobs = [a \in Actors |-> IF a = "dispatch" THEN Job("create") ELSE Resting]
    BY DEF Init
  <2>2. \A a, t, u, w, o : JobOK(a, Job("create"), t, u, w, o) /\ JobOK(a, Resting, t, u, w, o)
    BY FreshJob, RestOK
  <2>3. Job("create") \in JobSet /\ Resting \in JobSet
    BY <2>2 DEF JobOK
  <2>4. jobs \in [Actors -> JobSet] /\ \A a \in Actors : jobs[a] \in {Job("create"), Resting}
    BY <2>1, <2>3
  <2>5. \A a \in Actors : JobOK(a, jobs[a], sess.turn, row.updated, word, stale)
    BY <2>2, <2>4
  <2> QED BY <2>4, <2>5 DEF JobsOK
<1>2. RowOK
  BY TimesAre DEF Init, RowOK, Rows, States, OpenStates, Sources, Unstarted
<1>3. SessOK(sess, word) /\ FlagsOK
  BY TimesAre DEF Init, SessOK, Statuses, FlagsOK
<1>4. QueueOK(inbox, sess.turn) /\ QueueOK(heard, sess.turn)
  BY QueueEmpty DEF Init
<1> QED BY <1>1, <1>2, <1>3, <1>4 DEF IInv

LEMMA SettleKeeps == ASSUME IInv, NEW a \in Actors, Settle(a) PROVE IInv'
BY HoldKeeps, WalkKeeps, StepKeeps, RefusedKeeps, JudgeKeeps, ReopenKeeps DEF Settle

LEMMA DispatchKeeps == ASSUME IInv, Dispatch PROVE IInv'
BY DispatchCreatesKeeps, DispatchBindsKeeps, DispatchSendsKeeps, DispatchFailsToSendKeeps, DispatchStopsKeeps,
   DispatchWorksKeeps DEF Dispatch

LEMMA StillKeeps == ASSUME IInv, UNCHANGED vars PROVE IInv'
<1>1. UNCHANGED <<row, sess, inbox, heard, idled, jobs, stale, old, word, blockedIn>>
  BY DEF vars
<1>2. Forward
  BY <1>1, StillForward
<1>3. JobsOK'
  BY <1>1, <1>2, JobsStay, SaidOnce
<1>4. RowOK' /\ SessOK(sess, word)' /\ FlagsOK' /\ QueueOK(inbox, sess.turn)' /\ QueueOK(heard, sess.turn)'
  BY <1>1, SaidOnce DEF RowOK, SessOK, FlagsOK
<1> QED BY <1>3, <1>4 DEF IInv

LEMMA NextKeeps == ASSUME IInv, [Next]_vars PROVE IInv'
<1>1. CASE Dispatch
  BY <1>1, DispatchKeeps
<1>2. CASE Follow \/ DriverLists \/ DriverAsks
  BY <1>2, FollowKeeps, DriverListsKeeps, DriverAsksKeeps
<1>3. CASE WaitStarts \/ WaitLooks \/ WaitTakes \/ WaitEnds
  BY <1>3, WaitStartsKeeps, WaitLooksKeeps, WaitTakesKeeps, WaitEndsKeeps
<1>4. CASE CompleteDone \/ CompleteBlocked \/ Confirm \/ CancelReads \/ CancelInterrupts
  BY <1>4, CompleteDoneKeeps, CompleteBlockedKeeps, ConfirmKeeps, CancelReadsKeeps, CancelInterruptsKeeps
<1>5. CASE \E a \in Actors : Settle(a)
  BY <1>5, SettleKeeps
<1>6. CASE \E mark \in {"none", "done", "blocked", "silent"} : EndTurn(mark)
  BY <1>6, EndTurnKeeps
<1>7. CASE UserTurn \/ Ask \/ Answer \/ (\E how \in {"failed", "interrupted"} : BreakTurn(how))
  BY <1>7, UserTurnKeeps, AskKeeps, AnswerKeeps, BreakTurnKeeps
<1>8. CASE Vanish \/ Crowd \/ Age \/ Restart
  BY <1>8, VanishKeeps, CrowdKeeps, AgeKeeps, RestartKeeps
<1>9. CASE UNCHANGED vars
  BY <1>9, StillKeeps
<1> QED BY <1>1, <1>2, <1>3, <1>4, <1>5, <1>6, <1>7, <1>8, <1>9 DEF Next

(* The strengthening holds from the start and after every step.                *)
THEOREM Strengthening == Spec => []IInv
<1>1. Init => IInv
  BY InitHolds
<1>2. IInv /\ [Next]_vars => IInv'
  BY NextKeeps
<1> QED BY <1>1, <1>2, PTL DEF Spec

(* Whatever the interleaving, row, session, channels and jobs stay within what *)
(* the code can store and hold (service.rs, driver.rs).                        *)
THEOREM DelegationTypes == Spec => []TypeOK
<1>1. IInv => TypeOK
  <2> SUFFICES ASSUME IInv PROVE TypeOK
    OBVIOUS
  <2>1. \A a \in Actors : jobs[a].pc \in Pcs /\ jobs[a].ch \in Changes /\ (jobs[a].pc = "step" => jobs[a].path # <<>>)
    <3> SUFFICES ASSUME NEW a \in Actors
                 PROVE  jobs[a].pc \in Pcs /\ jobs[a].ch \in Changes /\ (jobs[a].pc = "step" => jobs[a].path # <<>>)
      OBVIOUS
    <3>1. JobOK(a, jobs[a], sess.turn, row.updated, word, stale)
      BY SaidOnce
    <3> QED BY <3>1 DEF JobOK, JobSet
  <2>2. \A q \in {inbox, heard} : /\ Len(q) <= InboxCap + 1
                                  /\ \A i \in DOMAIN q : q[i].kind \in EventKinds /\ (q[i].kind = "lagged" => i = 1)
    <3> SUFFICES ASSUME NEW q \in {inbox, heard}
                 PROVE  /\ Len(q) <= InboxCap + 1
                        /\ \A i \in DOMAIN q : q[i].kind \in EventKinds /\ (q[i].kind = "lagged" => i = 1)
      OBVIOUS
    <3>1. QueueOK(q, sess.turn)
      BY SaidOnce
    <3>2. \A i \in DOMAIN q : q[i] \in Events
      BY <3>1 DEF QueueOK
    <3> QED BY <3>1, <3>2 DEF QueueOK, Events
  <2>3. row \in Rows /\ FlagsOK
    BY SaidOnce DEF RowOK
  <2>4. sess \in [status: Statuses, turn: Turns, idleAt: Times, said: Turns,
                  mark: {"none", "done", "blocked"}, asking: BOOLEAN]
    BY SaidOnce DEF SessOK
  <2> QED BY <2>1, <2>2, <2>3, <2>4 DEF TypeOK, Rows, FlagsOK
<1> QED BY <1>1, Strengthening, PTL

(* A task is done only if the agent said so or the device confirmed it         *)
(* (service.rs turn_end).                                                      *)
THEOREM OnlyWordsEnd == Spec => []DoneWasSaid
<1>1. IInv => DoneWasSaid
  BY SaidOnce DEF RowOK, DoneWasSaid
<1> QED BY <1>1, Strengthening, PTL

(* No task works, pauses or is done before its goal reached the agent          *)
(* (service.rs finished_since).                                               *)
THEOREM NothingBeforeTheGoal == Spec => []WorksOnlyOnceSent
<1>1. IInv => WorksOnlyOnceSent
  <2> SUFFICES ASSUME IInv, row.state \in ActiveStates \union {"done"} PROVE sess.turn > 0
    BY DEF WorksOnlyOnceSent
  <2>1. sess.turn \in Nat
    BY SaidOnce, TimesAreNat
  <2>2. sess.turn # 0
    BY SaidOnce DEF RowOK, Unstarted, ActiveStates
  <2> QED BY <2>1, <2>2
<1> QED BY <1>1, Strengthening, PTL

(* An ended task is taken up again by a newer user message alone, whoever is   *)
(* late (service.rs reopen_session, reopen).                                   *)
THEOREM LateObserversReopenNothing == Spec => ReopensOnlyOnNewTurn
<1> DEFINE Taken == row'.state = "working" /\ 2 * sess.turn - 1 > row.updated /\ row'.reopened > row.updated
<1>1. ASSUME IInv, [Next]_vars, row.state \in {"done", "failed"}, row'.state # row.state
      PROVE  Taken
  <2>1. \A to : ~CanMoveTo(row.state, to)
    BY <1>1 DEF CanMoveTo, ActiveStates
  <2>2. ASSUME NEW a \in Actors, Reopen(a) PROVE Taken
    <3> DEFINE w == Written("working", Plain("working"), FALSE)
    <3>1. jobs[a].pc = "reopen" /\ a \notin stale /\ row' = [w EXCEPT !.reopened = jobs[a].at]
      BY <1>1, <2>2 DEF Reopen, Reopening, At, NoWrite, Unwritten
    <3>2. JobOK(a, jobs[a], sess.turn, row.updated, word, stale)
      BY <1>1, SaidOnce
    <3>3. jobs[a].at \in Times /\ jobs[a].at <= 2 * sess.turn - 1 /\ jobs[a].at > row.updated
      BY <3>1, <3>2 DEF JobOK, JobSet
    <3>4. w \in Rows /\ w.state = "working"
      <4>1. "working" \in States
        BY DEF States, OpenStates
      <4> QED BY <1>1, <4>1, JobTypes, WrittenIsRow
    <3> HIDE DEF w
    <3>5. row'.state = "working" /\ row'.reopened = jobs[a].at
      BY <3>1, <3>4 DEF Rows
    <3>6. row.updated \in Nat /\ sess.turn \in Nat /\ jobs[a].at \in Nat
      BY <1>1, <3>3, SaidOnce, TimesAreNat
    <3> QED BY <3>3, <3>5, <3>6
  <2>3. \A a \in Actors : ~Step(a)
    BY <2>1 DEF Step
  <2>4. ASSUME NEW a \in Actors, Settle(a) PROVE Reopen(a)
    BY <1>1, <2>3, <2>4 DEF Settle, Hold, Walk, Refused, Judge, NoWrite, Unwritten
  <2>5. ~Dispatch
    <3>1. ~DispatchBinds /\ ~DispatchWorks
      BY <1>1, <2>1 DEF DispatchBinds, DispatchWorks, NoWrite, Unwritten
    <3>2. ~DispatchCreates /\ ~DispatchSends /\ ~DispatchFailsToSend /\ ~DispatchStops
      BY <1>1 DEF DispatchCreates, DispatchSends, DispatchFailsToSend, DispatchStops, NoWrite, Unwritten
    <3> QED BY <3>1, <3>2 DEF Dispatch
  <2>6. ~Follow /\ ~DriverLists /\ ~DriverAsks /\ ~WaitStarts /\ ~WaitLooks /\ ~WaitTakes /\ ~WaitEnds
    BY <1>1 DEF Follow, DriverLists, DriverAsks, WaitStarts, WaitLooks, WaitTakes, WaitEnds, NoWrite, Unwritten
  <2>7. ~CompleteDone /\ ~CompleteBlocked /\ ~Confirm /\ ~CancelReads /\ ~CancelInterrupts
    BY <1>1 DEF CompleteDone, CompleteBlocked, Confirm, CancelReads, CancelInterrupts, NoWrite, Unwritten
  <2>8. \A mark \in {"none", "done", "blocked", "silent"} : ~EndTurn(mark)
    BY <1>1 DEF EndTurn
  <2>9. ~UserTurn /\ ~Ask /\ ~Answer /\ ~Vanish /\ ~Crowd /\ ~Age
        /\ \A how \in {"failed", "interrupted"} : ~BreakTurn(how)
    BY <1>1 DEF UserTurn, Ask, Answer, Vanish, Crowd, Age, BreakTurn, Aside
  <2>10. ~Restart
    <3>1. row \in Rows
      BY <1>1, SaidOnce DEF RowOK
    <3> QED BY <1>1, <3>1 DEF Restart, Rows
  <2>11. ~UNCHANGED vars
    BY <1>1 DEF vars
  <2> QED BY <1>1, <2>2, <2>4, <2>5, <2>6, <2>7, <2>8, <2>9, <2>10, <2>11 DEF Next
<1>2. IInv /\ [Next]_vars =>
        [row.state \in {"done", "failed"} /\ row'.state # row.state =>
           row'.state = "working" /\ 2 * sess.turn - 1 > row.updated /\ row'.reopened > row.updated]_vars
  BY <1>1
<1> QED BY <1>2, Strengthening, PTL DEF Spec, ReopensOnlyOnNewTurn

-----------------------------------------------------------------------------
(* THE BLOCK: who may still move a task whose agent reported that it is       *)
(* blocked.                                                                  *)

(* What the walk of a job still passes or ends in.                            *)
Onto(job, s) == job.pc = "step" /\ \E i \in DOMAIN job.path : job.path[i] = s

Reports(job) == job.pc \in {"walk", "step"} /\ job.ch.src = "complete_blocked"
InItsTurn == Running /\ sess.turn = blockedIn
NotIdle == {e \in Events : e.kind # "idle"}
Unidled == ~idled /\ inbox \in Seq(NotIdle)
Begun == row.state \notin {"queued", "dispatching"}

(* What the jobs are about: a report blocks, the device ends, and nobody walks *)
(* to work or to an idle without asking whether the task is held.              *)
Aims(a, job) ==
  /\ job.ch.src = "complete_blocked" =>
       a = "complete" /\ job.ch.to = "waiting" /\ job.pc \in {"walk", "step"}
  /\ Reports(job) => \A i \in DOMAIN job.path : job.path[i] = "waiting" => i = Len(job.path)
  /\ job.pc \in {"hold", "walk"} => job.ch.to \notin {"queued", "dispatching"}
  /\ job.pc = "walk" => job.ch.to \notin {"working", "idle_unconfirmed"}
  /\ a \in {"confirm", "cancel"} => /\ job.pc \in {"rest", "interrupt", "walk", "step"}
                                    /\ job.pc = "walk" => a = "confirm" /\ job.ch.to = "done"
                                    /\ ~Onto(job, "working") /\ ~Onto(job, "idle_unconfirmed")

(* A job whose walk leaves a block of this turn alone.                         *)
Spares(job) == ~Onto(job, "idle_unconfirmed") /\ (InItsTurn => ~Onto(job, "working"))

(* While a block stands no walk under way undoes it, and no idle of its turn   *)
(* was seen or is on its way: it was reported with all observers at rest.      *)
BInv ==
  /\ \A a \in Actors : Aims(a, jobs[a])
  /\ At("confirm", "walk") => Begun
  /\ blockedIn # 0 => At("dispatch", "rest")
  /\ blockedIn <= sess.turn
  /\ (Stands \/ Reports(jobs["complete"])) /\ blockedIn # 0 /\ InItsTurn => Unidled
  /\ Stands => \A a \in Actors : Spares(jobs[a])

LEMMA SetIs ==
  ASSUME IInv, NEW a \in Actors, NEW job, Set(a, job)
  PROVE  jobs'[a] = job /\ \A b \in Actors \ {a} : jobs'[b] = jobs[b]
BY SaidOnce DEF Set, JobsOK

(* A step of one actor that leaves the row as it is.                           *)
LEMMA BlockKept ==
  ASSUME IInv, BInv, NEW a \in Actors, NEW job, Set(a, job), UNCHANGED <<row, blockedIn>>, Aims(a, job),
         a = "confirm" /\ job.pc = "walk" => Begun,
         blockedIn # 0 /\ a = "dispatch" => job.pc = "rest",
         a = "complete" /\ Reports(job) => Reports(jobs["complete"]),
         sess.turn <= sess'.turn, sess'.turn \in Turns, InItsTurn' => InItsTurn, InItsTurn' /\ Unidled => Unidled',
         Stands => Spares(job)
  PROVE  BInv'
<1>1. jobs'[a] = job /\ \A b \in Actors \ {a} : jobs'[b] = jobs[b]
  BY SetIs
<1>2. {"confirm", "dispatch", "complete"} \subseteq Actors
  BY DEF Actors
<1>3. \A b \in Actors : Aims(b, jobs'[b])
  BY <1>1 DEF BInv
<1>4. At("confirm", "walk")' => Begun'
  BY <1>1, <1>2 DEF BInv, At, Begun
<1>5. blockedIn' # 0 => At("dispatch", "rest")'
  BY <1>1, <1>2 DEF BInv, At
<1>6. blockedIn' <= sess'.turn
  <2>1. blockedIn \in Nat /\ sess.turn \in Nat /\ sess'.turn \in Nat
    BY SaidOnce, TimesAreNat DEF FlagsOK
  <2> QED BY <2>1 DEF BInv
<1>7. Stands' <=> Stands
  BY DEF Stands
<1>8. Reports(jobs'["complete"]) => Reports(jobs["complete"])
  BY <1>1, <1>2
<1>9. (Stands' \/ Reports(jobs'["complete"])) /\ blockedIn' # 0 /\ InItsTurn' => Unidled'
  BY <1>7, <1>8 DEF BInv
<1>10. Stands' => \A b \in Actors : Spares(jobs[b])'
  <2> SUFFICES ASSUME Stands, NEW b \in Actors PROVE Spares(jobs[b])'
    BY <1>7
  <2>1. Spares(jobs[b]) /\ Spares(job)
    BY DEF BInv
  <2> QED BY <1>1, <2>1 DEF Spares, Onto
<1> QED BY <1>3, <1>4, <1>5, <1>6, <1>9, <1>10 DEF BInv

(* A step of one actor that writes the row, and reports no block.              *)
LEMMA BlockGone ==
  ASSUME IInv, BInv, NEW a \in Actors, NEW job, Set(a, job), UNCHANGED <<sess, inbox>>, ~Stands',
         blockedIn' \in {0, blockedIn}, idled' => idled, Aims(a, job), Begun => Begun',
         a = "confirm" => job.pc # "walk",
         blockedIn # 0 /\ a = "dispatch" => job.pc = "rest",
         a = "complete" /\ Reports(job) => Reports(jobs["complete"])
  PROVE  BInv'
<1>1. jobs'[a] = job /\ \A b \in Actors \ {a} : jobs'[b] = jobs[b]
  BY SetIs
<1>2. {"confirm", "dispatch", "complete"} \subseteq Actors
  BY DEF Actors
<1>3. \A b \in Actors : Aims(b, jobs'[b])
  BY <1>1 DEF BInv
<1>4. At("confirm", "walk")' => Begun'
  BY <1>1, <1>2 DEF BInv, At
<1>5. blockedIn' # 0 => At("dispatch", "rest")' /\ blockedIn' = blockedIn
  BY <1>1, <1>2 DEF BInv, At
<1>6. blockedIn' <= sess'.turn
  <2>1. sess.turn \in Nat
    BY SaidOnce, TimesAreNat
  <2> QED BY <2>1 DEF BInv
<1>8. Reports(jobs'["complete"]) => Reports(jobs["complete"])
  BY <1>1, <1>2
<1>9. (Stands' \/ Reports(jobs'["complete"])) /\ blockedIn' # 0 /\ InItsTurn' => Unidled'
  <2> SUFFICES ASSUME Reports(jobs'["complete"]), blockedIn' # 0, InItsTurn' PROVE Unidled'
    OBVIOUS
  <2>1. InItsTurn
    BY <1>5 DEF InItsTurn, Running
  <2>2. Unidled
    BY <1>5, <1>8, <2>1 DEF BInv
  <2> QED BY <2>2 DEF Unidled
<1> QED BY <1>3, <1>4, <1>5, <1>6, <1>9 DEF BInv

(* No block is watched.                                                       *)
LEMMA BlockUnwatched ==
  ASSUME blockedIn' = 0, sess'.turn \in Turns, \A a \in Actors : Aims(a, jobs'[a]),
         jobs'["confirm"].pc = "walk" => Begun'
  PROVE  BInv'
<1>1. blockedIn' <= sess'.turn
  <2>1. sess'.turn \in Nat
    BY TimesAreNat
  <2> QED BY <2>1
<1> QED BY <1>1 DEF BInv, Stands, At

(* A step of the agent, its user or the clock.                                 *)
LEMMA BlockAside ==
  ASSUME IInv, BInv, UNCHANGED <<row, jobs, blockedIn>>, sess.turn <= sess'.turn, sess'.turn \in Turns,
         InItsTurn' => InItsTurn, InItsTurn' /\ Unidled => Unidled'
  PROVE  BInv'
<1>1. Stands' <=> Stands
  BY DEF Stands
<1>2. blockedIn' <= sess'.turn
  <2>1. blockedIn \in Nat /\ sess.turn \in Nat /\ sess'.turn \in Nat
    BY SaidOnce, TimesAreNat DEF FlagsOK
  <2> QED BY <2>1 DEF BInv
<1>3. Stands' => \A b \in Actors : Spares(jobs[b])'
  BY <1>1 DEF BInv, Spares, Onto
<1>4. (Stands' \/ Reports(jobs'["complete"])) /\ blockedIn' # 0 /\ InItsTurn' => Unidled'
  BY <1>1 DEF BInv
<1>5. (At("confirm", "walk")' => Begun') /\ (blockedIn' # 0 => At("dispatch", "rest")')
  BY DEF BInv, At, Begun
<1>6. \A b \in Actors : Aims(b, jobs'[b])
  BY DEF BInv
<1> QED BY <1>2, <1>3, <1>4, <1>5, <1>6 DEF BInv

(* A move that is allowed passes nothing, nor does one that nothing leads to.  *)
LEMMA StraightMove ==
  ASSUME NEW from \in States, NEW to \in States, CanMoveTo(from, to)
  PROVE  StepsBetween[from][to] = <<>>
<1> DEFINE p == Passed(from, to)
           lengths == {n \in 0..MaxPassed : Walks(from, to, n) # {}}
           n == CHOOSE n \in lengths : \A m \in lengths : n <= m
           ws == Walks(from, to, 0)
<1>1. StepsBetween[from][to] = p
  BY DEF StepsBetween
<1>2. 0 \in lengths /\ lengths \subseteq {0, 1, 2}
  BY DirectWalk DEF MaxPassed
<1>3. n = 0
  <2> HIDE DEF lengths
  <2>1. 0 \in lengths /\ \A m \in lengths : 0 <= m
    BY <1>2
  <2>2. n \in lengths /\ \A m \in lengths : n <= m
    BY <2>1
  <2> HIDE DEF n
  <2> QED BY <1>2, <2>1, <2>2
<1>4. lengths # {}
  BY <1>2
<1>5. p = CHOOSE v \in ws : \A w \in ws : FoundFirst(v, w)
  <2>1. p = LET ws2 == Walks(from, to, n) IN CHOOSE v \in ws2 : \A w \in ws2 : FoundFirst(v, w)
    BY <1>4 DEF Passed
  <2> QED BY <1>3, <2>1
<1>6. \A w \in ws : w = <<>>
  BY ShortestWalks
<1>7. \E v \in ws : \A w \in ws : FoundFirst(v, w)
  BY <1>6, DirectWalk DEF FoundFirst
<1>8. p \in ws
  <2> HIDE DEF p, ws
  <2> QED BY <1>5, <1>7
<1> QED BY <1>1, <1>6, <1>8

LEMMA EndedMove ==
  ASSUME NEW from \in TerminalStates, NEW to \in States
  PROVE  StepsBetween[from][to] = <<>>
<1>1. \A s : ~CanMoveTo(from, s)
  BY DEF TerminalStates, CanMoveTo, ActiveStates
<1>2. from \in States
  BY DEF States
<1>3. ASSUME NEW n \in 0..MaxPassed, Walks(from, to, n) # {} PROVE FALSE
  <2>1. PICK w \in Walks(from, to, n) : TRUE
    BY <1>3
  <2>2. n \in 0..2
    BY DEF MaxPassed
  <2>3. WalkIs(from, to, n, w)
    BY <1>2, <2>1, <2>2, WalkMoves
  <2> QED BY <1>1, <2>2, <2>3 DEF WalkIs
<1>4. Passed(from, to) = <<>>
  BY <1>3 DEF Passed
<1> QED BY <1>2, <1>4 DEF StepsBetween

(* What a job plans, of a task that has begun or of one a block stands for.    *)
LEMMA PlanIsStraight ==
  ASSUME IInv, NEW a \in Actors, jobs[a].ch.to \notin {"queued", "dispatching"},
         (Begun /\ jobs[a].ch.to = "done") \/ Stands
  PROVE  LET n == Planned(jobs[a]) IN
         n.pc = "step" /\ n.ch = jobs[a].ch /\ \A s : Onto(n, s) => s = jobs[a].ch.to
<1> DEFINE job == jobs[a]
           between == StepsBetween[row.state][job.ch.to]
           path == Append(between, job.ch.to)
           n == [job EXCEPT !.pc = "step", !.path = path]
<1>1. job \in JobSet /\ job.ch.to \in States /\ row.state \in States
  BY SaidOnce DEF JobOK, JobSet, Changes, RowOK, Rows
<1>2. between = <<>>
  <2>1. CASE row.state \in TerminalStates
    BY <1>1, <2>1, EndedMove
  <2>2. CASE row.state \notin TerminalStates
    <3>1. \/ row.state \in ActiveStates /\ job.ch.to = "done"
          \/ row.state = "waiting"
      BY <1>1, <2>2 DEF States, OpenStates, ActiveStates, Begun, Stands
    <3>2. job.ch.to \in States \ {"queued", "dispatching"}
      BY <1>1
    <3> HIDE DEF job
    <3>3. CanMoveTo(row.state, job.ch.to)
      BY <3>1, <3>2 DEF CanMoveTo, ActiveStates, States, TerminalStates
    <3> QED BY <1>1, <3>3, StraightMove
  <2> QED BY <2>1, <2>2
<1> HIDE DEF between
<1>3. path = <<job.ch.to>>
  BY <1>2
<1> HIDE DEF path
<1>4. n.pc = "step" /\ n.path = path /\ n.ch = job.ch
  BY <1>1 DEF JobSet
<1>5. Planned(job) = n
  BY DEF Planned, path, between
<1> HIDE DEF n
<1> QED BY <1>3, <1>4, <1>5 DEF Onto

(* What reaches a channel is what was on it, what is sent, or the gap.         *)
LEMMA QueueWithin ==
  ASSUME NEW S, NEW q \in Seq(S), NEW es \in Seq(S), Event("lagged") \in S
  PROVE  Queue(q, es) \in Seq(S) /\ Pushed(q) \in Seq(S)
<1> DEFINE told == q # <<>> /\ Head(q).kind = "lagged"
           base == IF told THEN Tail(q) ELSE q
           all == base \o es
           over == Len(all) - InboxCap
           l == <<Event("lagged")>>
<1>1. base \in Seq(S)
  BY SMT
<1> HIDE DEF base
<1>2. all \in Seq(S) /\ l \in Seq(S)
  BY <1>1
<1>3. Queue(q, es) = IF Len(all) > InboxCap THEN l \o SubSeq(all, over + 1, Len(all))
                     ELSE IF told THEN l \o all ELSE all
  BY DEF Queue, base
<1> HIDE DEF all, l
<1>4. Len(all) > InboxCap => SubSeq(all, over + 1, Len(all)) \in Seq(S)
  <2> SUFFICES ASSUME Len(all) > InboxCap PROVE SubSeq(all, over + 1, Len(all)) \in Seq(S)
    OBVIOUS
  <2>1. over + 1 \in Int /\ Len(all) \in Int /\ \A i \in (over + 1)..Len(all) : all[i] \in S
    BY <1>2, DelegationAssumption
  <2> QED BY <2>1, SubSeqProperties
<1> DEFINE cut == SubSeq(all, over + 1, Len(all))
<1> HIDE DEF cut
<1>5. Queue(q, es) = (IF Len(all) > InboxCap THEN l \o cut ELSE IF told THEN l \o all ELSE all)
      /\ (Len(all) > InboxCap => cut \in Seq(S))
  BY <1>3, <1>4 DEF cut
<1>6. Queue(q, es) \in Seq(S)
  BY <1>2, <1>5
<1>7. Pushed(q) \in Seq(S)
  <2>1. q # <<>> => Tail(q) \in Seq(S)
    OBVIOUS
  <2> QED BY <1>2, <2>1 DEF Pushed, l
<1> QED BY <1>6, <1>7

(* A job of one who watches: no report, and no walk under way.                 *)
Observes(job) ==
  /\ job.ch.src # "complete_blocked" /\ job.pc # "step"
  /\ job.pc \in {"hold", "walk"} => job.ch.to \notin {"queued", "dispatching"}
  /\ job.pc = "walk" => job.ch.to \notin {"working", "idle_unconfirmed"}

LEMMA ObserverAims ==
  ASSUME NEW job, Observes(job), NEW a, a \notin {"confirm", "cancel"}
  PROVE  Aims(a, job) /\ Spares(job) /\ ~Reports(job)
BY DEF Observes, Aims, Spares, Onto, Reports

(* A job at rest, or about to interrupt.                                      *)
LEMMA CalmAims ==
  ASSUME NEW job, Observes(job), job.pc \in {"rest", "interrupt"}, NEW a
  PROVE  Aims(a, job) /\ Spares(job) /\ ~Reports(job)
BY DEF Observes, Aims, Spares, Onto, Reports

LEMMA JobObserves ==
  ASSUME NEW pc, pc \notin {"hold", "walk", "step"}
  PROVE  Observes(Job(pc)) /\ Job(pc).pc = pc
BY DEF Observes, Job, Plain, Change

LEMMA RestObserves == Observes(Resting) /\ Resting.pc = "rest"
BY JobObserves DEF Resting

LEMMA PlainIs == \A to : Plain(to).to = to /\ Plain(to).src = "plain"
BY DEF Plain, Change

LEMMA WalkObserves ==
  ASSUME NEW ch, ch.src # "complete_blocked",
         ch.to \notin {"queued", "dispatching", "working", "idle_unconfirmed"}
  PROVE  Observes(ToWalk(ch))
BY DEF Observes, ToWalk, Resting, Job

LEMMA HoldObserves ==
  ASSUME NEW job \in JobSet, NEW ch, ch.src # "complete_blocked", ch.to \notin {"queued", "dispatching"}
  PROVE  Observes(ToHold(job, ch))
BY DEF Observes, ToHold, JobSet

LEMMA RestingIsJob == Resting \in JobSet
BY RestOK DEF JobOK

(* What the last message says reports no block by the call.                   *)
LEMMA TurnEndIs ==
  ASSUME SessOK(sess, word), NEW snap
  PROVE  TurnEnd(snap).src # "complete_blocked" /\ TurnEnd(snap).to \notin {"queued", "dispatching"}
<1> DEFINE mark == IF sess.said # 0 /\ 2 * sess.said >= snap.reopened THEN sess.mark ELSE "none"
<1>1. mark \in {"none", "done", "blocked"}
  BY DEF SessOK
<1>2. TurnEnd(snap) = CASE mark = "done"    -> Plain("done")
                        [] mark = "blocked" -> Change("waiting", "marker_blocked", sess.said)
                        [] mark = "none"    -> Plain("idle_unconfirmed")
  BY DEF TurnEnd
<1> HIDE DEF mark
<1> QED BY <1>1, <1>2, PlainIs DEF Change

LEMMA EndedTurnObserves ==
  ASSUME SessOK(sess, word), NEW snap
  PROVE  Observes(EndedTurn(snap))
BY TurnEndIs, HoldObserves, RestingIsJob, RestObserves DEF EndedTurn

LEMMA FollowerObserves == ASSUME NEW e PROVE Observes(FollowerJob(e))
<1> DEFINE reopen == [Job("reopen") EXCEPT !.at = e.at]
           judge == [Job("judge") EXCEPT !.snap = ReadToJudge]
<1>1. Observes(reopen) /\ Observes(judge)
  BY DEF Observes, Job, Plain, Change
<1>2. \A to \in {"working", "waiting", "failed", "cancelled"} : Observes(ToHold(Resting, Plain(to)))
  BY HoldObserves, RestingIsJob, PlainIs
<1>3. FollowerJob(e) \in {reopen, judge, Resting}
        \/ \E to \in {"working", "waiting", "failed", "cancelled"} : FollowerJob(e) = ToHold(Resting, Plain(to))
  BY DEF FollowerJob
<1> HIDE DEF reopen, judge
<1> QED BY <1>1, <1>2, <1>3, RestObserves

LEMMA DriverObserves ==
  ASSUME SessOK(sess, word), NEW snap
  PROVE  Observes(DriverJob(snap))
<1> DEFINE first == CHOOSE at \in NewTurns(snap) : \A other \in NewTurns(snap) : at <= other
           reopen == [Job("reopen") EXCEPT !.at = first]
           fail == ToWalk(Plain("failed"))
           work == ToHold(Resting, Plain("working"))
<1>1. Observes(reopen) /\ Observes(fail) /\ Observes(work) /\ Observes(EndedTurn(snap)) /\ Observes(Resting)
  <2>1. Observes(reopen)
    BY DEF Observes, Job, Plain, Change
  <2> QED BY <2>1, WalkObserves, HoldObserves, RestingIsJob, PlainIs, EndedTurnObserves, RestObserves
<1>2. DriverJob(snap) \in {reopen, fail, work, EndedTurn(snap), Resting}
  <2>1. CASE IsTerminal(snap.state)
    BY <2>1 DEF DriverJob
  <2>2. CASE ~IsTerminal(snap.state) /\ ~snap.bound
    BY <2>2 DEF DriverJob
  <2>3. CASE ~IsTerminal(snap.state) /\ snap.bound
    <3>1. DriverJob(snap) =
            CASE ~SessionThere -> fail
              [] sess.status = "failed" -> fail
              [] Running /\ (snap.state = "idle_unconfirmed" \/ (snap.state = "waiting" /\ Blocked)) -> work
              [] ~FinishedSince(snap.reopened) -> IF NeverSent(snap) THEN fail ELSE Resting
              [] OTHER -> EndedTurn(snap)
      BY <2>3 DEF DriverJob
    <3> HIDE DEF fail, work
    <3> QED BY <3>1
  <2> QED BY <2>1, <2>2, <2>3
<1> HIDE DEF reopen, fail, work
<1> QED BY <1>1, <1>2

LEMMA WaitObserves ==
  ASSUME SessOK(sess, word), NEW job \in JobSet, Observes(job), NEW e
  PROVE  Observes(WaitHears(job, e))
<1> DEFINE next == [job EXCEPT !.busy = @ \/ e.kind = "busy"]
           look == [job EXCEPT !.pc = "look"]
           ch == CHOOSE c \in Asks(job, e) : TRUE
           j == WaitHears(job, e)
<1>1. Observes(look)
  BY DEF Observes, JobSet
<1>2. Observes(next)
  BY DEF Observes, JobSet
<1>3. ASSUME Asks(job, e) # {} PROVE Observes(ToHold(job, ch))
  <2>1. ch \in Asks(job, e)
    BY <1>3
  <2>2. Asks(job, e) \in {{TurnEnd(job.snap)}, {Plain("waiting")}, {Plain("working")}, {Plain("failed")},
                          {Plain("cancelled")}, {}}
    BY DEF Asks
  <2> HIDE DEF ch
  <2>3. ch.src # "complete_blocked" /\ ch.to \notin {"queued", "dispatching"}
    BY <2>1, <2>2, TurnEndIs, PlainIs
  <2> QED BY <2>3, HoldObserves
<1>4. \/ j \in {look, next, Resting}
      \/ Asks(job, e) # {} /\ j = ToHold(job, ch)
  <2>1. CASE e.kind = "lagged"
    BY <2>1 DEF WaitHears
  <2>2. CASE e.kind # "lagged" /\ Asks(job, e) = {}
    BY <2>2 DEF WaitHears
  <2>3. CASE e.kind # "lagged" /\ Asks(job, e) # {}
    <3>1. j = CASE ch.to # job.snap.state -> ToHold(job, ch)
                [] ch.to = job.snap.state ->
                     CASE row.state # ch.to                   -> ToHold(job, ch)
                       [] row.state = ch.to /\ Paused(ch.to)  -> Resting
                       [] row.state = ch.to /\ ~Paused(ch.to) -> next
      BY <2>3 DEF WaitHears
    <3> HIDE DEF j, ch, next
    <3> QED BY <2>3, <3>1
  <2> QED BY <2>1, <2>2, <2>3
<1> HIDE DEF j, look, next, ch
<1>5. Observes(j)
  BY <1>1, <1>2, <1>3, <1>4, RestObserves
<1> QED BY <1>5 DEF j

LEMMA SettledObserves ==
  ASSUME NEW a, NEW r
  PROVE  Observes(Settled(a, r)) /\ (a # "wait" => Settled(a, r) = Resting)
<1> DEFINE j == Judged(r.state, r.reason, r.reopened)
           n == [Job("listen") EXCEPT !.snap = j, !.busy = jobs[a].busy, !.todo = jobs[a].todo]
<1> HIDE DEF j
<1>1. Observes(n)
  BY DEF Observes, Job, Plain, Change
<1>2. Settled(a, r) \in {n, Resting} /\ (a # "wait" => Settled(a, r) = Resting)
  BY DEF Settled, j
<1> HIDE DEF n
<1> QED BY <1>1, <1>2, RestObserves

-----------------------------------------------------------------------------
(* The steps, of those who watch first.                                      *)

LEMMA JobHere ==
  ASSUME IInv, NEW a \in Actors
  PROVE  jobs[a] \in JobSet
BY SaidOnce

LEMMA TurnHere ==
  ASSUME IInv
  PROVE  sess.turn \in Turns /\ sess.turn <= sess.turn
<1>1. sess.turn \in Turns /\ sess.turn \in Nat
  BY SaidOnce, TimesAreNat
<1> QED BY <1>1

LEMMA DispatchOver ==
  ASSUME BInv, jobs["dispatch"].pc # "rest"
  PROVE  blockedIn = 0
BY DEF BInv, At

LEMMA WatchKeeps ==
  ASSUME IInv, BInv, NEW a \in {"follower", "driver", "wait", "complete"}, NEW job, Set(a, job), Observes(job),
         UNCHANGED <<row, blockedIn, sess>>, Unidled => Unidled'
  PROVE  BInv'
<1>1. a \in Actors /\ a \notin {"confirm", "cancel", "dispatch"}
  BY DEF Actors
<1>2. Aims(a, job) /\ Spares(job) /\ ~Reports(job)
  BY <1>1, ObserverAims
<1>3. sess'.turn \in Turns /\ sess.turn <= sess'.turn
  BY TurnHere
<1>4. InItsTurn' => InItsTurn
  BY DEF InItsTurn, Running
<1> QED BY <1>1, <1>2, <1>3, <1>4, BlockKept

LEMMA StillUnidled == ASSUME UNCHANGED <<idled, inbox>> PROVE Unidled => Unidled'
BY DEF Unidled

LEMMA FollowBlock == ASSUME IInv, BInv, Follow PROVE BInv'
<1>1. /\ Set("follower", FollowerJob(Head(inbox))) /\ inbox' = Tail(inbox) /\ inbox # <<>>
      /\ idled' = (idled \/ (Head(inbox).kind = "idle" /\ Open))
      /\ UNCHANGED <<row, blockedIn, sess>>
  BY DEF Follow, Unwritten, NoGhost
<1>2. Unidled => Unidled'
  <2> SUFFICES ASSUME ~idled, inbox \in Seq(NotIdle) PROVE Unidled'
    BY DEF Unidled
  <2>1. Head(inbox) \in NotIdle /\ Tail(inbox) \in Seq(NotIdle)
    BY <1>1
  <2>2. Head(inbox).kind # "idle"
    BY <2>1 DEF NotIdle
  <2> QED BY <1>1, <2>1, <2>2 DEF Unidled
<1>3. Observes(FollowerJob(Head(inbox)))
  BY FollowerObserves
<1> QED BY <1>1, <1>2, <1>3, WatchKeeps

LEMMA DriverListsBlock == ASSUME IInv, BInv, DriverLists PROVE BInv'
<1> DEFINE job == [Job("ask") EXCEPT !.snap = Read]
<1>1. Set("driver", job) /\ UNCHANGED <<row, blockedIn, sess, idled, inbox>>
  BY DEF DriverLists, NoWrite, Unwritten, NoAgent, NoEmit, NoGhost
<1>2. Observes(job)
  BY DEF Observes, Job, Plain, Change
<1> HIDE DEF job
<1> QED BY <1>1, <1>2, StillUnidled, WatchKeeps

LEMMA DriverAsksBlock == ASSUME IInv, BInv, DriverAsks PROVE BInv'
<1>1. Set("driver", DriverJob(jobs["driver"].snap)) /\ UNCHANGED <<row, blockedIn, sess, idled, inbox>>
  BY DEF DriverAsks, NoWrite, Unwritten, NoAgent, NoEmit, NoGhost
<1>2. Observes(DriverJob(jobs["driver"].snap))
  BY DriverObserves, SaidOnce
<1> QED BY <1>1, <1>2, StillUnidled, WatchKeeps

LEMMA WaitStartsBlock == ASSUME IInv, BInv, WaitStarts PROVE BInv'
<1> DEFINE job == [Job("look") EXCEPT !.snap = ReadToJudge]
<1>1. Set("wait", job) /\ UNCHANGED <<row, blockedIn, sess, idled, inbox>>
  BY DEF WaitStarts, NoWrite, Unwritten, NoGhost
<1>2. Observes(job)
  BY DEF Observes, Job, Plain, Change
<1> HIDE DEF job
<1> QED BY <1>1, <1>2, StillUnidled, WatchKeeps

LEMMA WaitIsObserver ==
  ASSUME IInv, BInv, jobs["wait"].pc \in {"look", "listen"}
  PROVE  jobs["wait"] \in JobSet /\ Observes(jobs["wait"])
<1>1. "wait" \in Actors
  BY DEF Actors
<1>2. Aims("wait", jobs["wait"]) /\ jobs["wait"] \in JobSet
  BY <1>1, JobHere DEF BInv
<1> QED BY <1>2 DEF Aims, Observes

LEMMA WaitLooksBlock == ASSUME IInv, BInv, WaitLooks PROVE BInv'
<1> DEFINE n == [jobs["wait"] EXCEPT !.pc = "listen", !.todo = Snapshot(jobs["wait"].snap)]
           job == IF SessionThere THEN n ELSE Resting
<1>1. Set("wait", job) /\ UNCHANGED <<row, blockedIn, sess, idled, inbox>> /\ jobs["wait"].pc = "look"
  BY DEF WaitLooks, NoWrite, Unwritten, NoAgent, NoEmit, NoGhost
<1>2. Observes(n)
  BY <1>1, WaitIsObserver DEF Observes, JobSet
<1> HIDE DEF n
<1>3. Observes(job)
  BY <1>2, RestObserves
<1> HIDE DEF job
<1> QED BY <1>1, <1>3, StillUnidled, WatchKeeps

LEMMA WaitTakesBlock == ASSUME IInv, BInv, WaitTakes PROVE BInv'
<1> DEFINE hearing == jobs["wait"]
           after == [hearing EXCEPT !.todo = Tail(@)]
<1>1. /\ UNCHANGED <<row, blockedIn, sess, idled, inbox>> /\ hearing.pc = "listen"
      /\ \/ Set("wait", WaitHears(after, Head(hearing.todo))) /\ hearing.todo # <<>>
         \/ Set("wait", WaitHears(hearing, Head(heard)))
  BY DEF WaitTakes, NoWrite, Unwritten, NoEmit, NoGhost
<1>2. hearing \in JobSet /\ Observes(hearing)
  BY <1>1, WaitIsObserver
<1>3. hearing.todo # <<>> => after \in JobSet /\ Observes(after)
  <2> SUFFICES ASSUME hearing.todo # <<>> PROVE after \in JobSet /\ Observes(after)
    OBVIOUS
  <2> DEFINE rest == Tail(hearing.todo)
  <2>1. rest \in Seq(Looked)
    BY <1>2 DEF JobSet
  <2>2. after = [hearing EXCEPT !.todo = rest]
    OBVIOUS
  <2> HIDE DEF rest, hearing, after
  <2> QED BY <1>2, <2>1, <2>2 DEF JobSet, Observes
<1>4. \/ \E job : Set("wait", job) /\ Observes(job)
  <2> HIDE DEF hearing, after
  <2>1. Observes(WaitHears(hearing, Head(heard)))
    BY <1>2, SaidOnce, WaitObserves
  <2>2. hearing.todo # <<>> => Observes(WaitHears(after, Head(hearing.todo)))
    BY <1>3, SaidOnce, WaitObserves
  <2> QED BY <1>1, <2>1, <2>2
<1> QED BY <1>1, <1>4, StillUnidled, WatchKeeps

LEMMA WaitEndsBlock == ASSUME IInv, BInv, WaitEnds PROVE BInv'
<1>1. Set("wait", Resting) /\ UNCHANGED <<row, blockedIn, sess, idled, inbox>>
  BY DEF WaitEnds, NoWrite, Unwritten, NoAgent, NoEmit, NoGhost
<1> QED BY <1>1, RestObserves, StillUnidled, WatchKeeps

LEMMA CompleteDoneBlock == ASSUME IInv, BInv, CompleteDone PROVE BInv'
<1>1. Set("complete", ToWalk(Plain("done"))) /\ UNCHANGED <<row, blockedIn, sess, idled, inbox>>
  BY DEF CompleteDone, NoWrite, Unwritten, NoAgent, NoEmit
<1> QED BY <1>1, WalkObserves, PlainIs, StillUnidled, WatchKeeps

-----------------------------------------------------------------------------
(* The report, the device, and what the walks make of the row.                *)

LEMMA PlannedIs ==
  ASSUME IInv, NEW a \in Actors
  PROVE  Planned(jobs[a]).pc = "step" /\ Planned(jobs[a]).ch = jobs[a].ch
BY JobHere DEF Planned, JobSet

(* A planned walk that ends in a wait passes none.                             *)
LEMMA PlannedWait ==
  ASSUME IInv, NEW a \in Actors, jobs[a].ch.to = "waiting"
  PROVE  LET n == Planned(jobs[a]) IN \A i \in DOMAIN n.path : n.path[i] = "waiting" => i = Len(n.path)
<1> DEFINE job == jobs[a]
           between == StepsBetween[row.state]["waiting"]
           path == Append(between, "waiting")
<1>1. job \in JobSet /\ row.state \in States /\ "waiting" \in States
  BY JobHere, SaidOnce DEF RowOK, Rows, States, OpenStates
<1>2. between \in Seq(OpenStates) /\ \A i \in DOMAIN between : between[i] # "waiting"
  BY <1>1, MovePasses
<1>3. Planned(job).path = path
  BY <1>1 DEF Planned, JobSet
<1> HIDE DEF between
<1>4. /\ Len(path) = Len(between) + 1 /\ Len(between) \in Nat /\ DOMAIN path = 1..Len(path)
      /\ DOMAIN between = 1..Len(between) /\ \A i \in 1..Len(between) : path[i] = between[i]
  <2>1. "waiting" \in OpenStates
    BY DEF OpenStates
  <2> QED BY <1>2, <2>1, AppendProperties
<1> HIDE DEF path
<1>5. \A i \in DOMAIN path : path[i] = "waiting" => i = Len(path)
  BY <1>2, <1>4
<1> QED BY <1>3, <1>5

LEMMA HoldBlock == ASSUME IInv, BInv, NEW a \in Actors, Hold(a) PROVE BInv'
<1> DEFINE plan == Planned(jobs[a])
           job == IF Holds(jobs[a].ch.to) THEN Settled(a, row) ELSE plan
<1>1. Set(a, job) /\ UNCHANGED <<row, blockedIn, sess, idled, inbox>> /\ jobs[a].pc = "hold"
  BY DEF Hold, At, NoWrite, Unwritten, NoAgent, NoEmit, NoGhost
<1>2. a \notin {"confirm", "cancel"} /\ jobs[a].ch.src # "complete_blocked"
      /\ jobs[a].ch.to \notin {"queued", "dispatching"}
  BY <1>1 DEF BInv, Aims
<1>3. plan.pc = "step" /\ plan.ch = jobs[a].ch
  BY PlannedIs
<1>4. Aims(a, plan) /\ ~Reports(plan)
  <2> HIDE DEF plan
  <2> QED BY <1>2, <1>3 DEF Aims, Reports
<1>5. Observes(Settled(a, row))
  BY SettledObserves
<1>6. Aims(a, job) /\ ~Reports(job)
  BY <1>2, <1>4, <1>5, ObserverAims
<1>7. Stands => Spares(job)
  <2> SUFFICES ASSUME Stands PROVE Spares(job)
    OBVIOUS
  <2>1. CASE Holds(jobs[a].ch.to)
    BY <1>2, <1>5, <2>1, ObserverAims
  <2>2. CASE ~Holds(jobs[a].ch.to)
    <3>1. \A s : Onto(plan, s) => s = jobs[a].ch.to
      BY <1>2, PlanIsStraight
    <3>2. jobs[a].ch.to # "idle_unconfirmed" /\ (jobs[a].ch.to = "working" => idled)
      BY <2>2 DEF Holds, Blocked, Stands
    <3>3. InItsTurn => ~idled
      BY DEF BInv, Stands, Unidled
    <3> HIDE DEF plan
    <3>4. Spares(plan)
      BY <3>1, <3>2, <3>3 DEF Spares
    <3> QED BY <2>2, <3>4
  <2> QED BY <2>1, <2>2
<1>8. blockedIn # 0 => a # "dispatch"
  BY <1>1, DispatchOver
<1>9. (InItsTurn' => InItsTurn) /\ (Unidled => Unidled')
  BY <1>1, StillUnidled DEF InItsTurn, Running
<1>10. sess'.turn \in Turns /\ sess.turn <= sess'.turn
  BY <1>1, TurnHere
<1> HIDE DEF job
<1> QED BY <1>1, <1>2, <1>6, <1>7, <1>8, <1>9, <1>10, BlockKept

LEMMA WalkBlock == ASSUME IInv, BInv, NEW a \in Actors, Walk(a) PROVE BInv'
<1> DEFINE job == Planned(jobs[a])
<1>1. Set(a, job) /\ UNCHANGED <<row, blockedIn, sess, idled, inbox>> /\ jobs[a].pc = "walk"
  BY DEF Walk, At, NoWrite, Unwritten, NoAgent, NoEmit, NoGhost
<1>2. /\ Aims(a, jobs[a]) /\ jobs[a].ch.to \notin {"queued", "dispatching", "working", "idle_unconfirmed"}
      /\ a = "confirm" => Begun /\ jobs[a].ch.to = "done"
      /\ a # "cancel"
  BY <1>1 DEF BInv, Aims, At
<1>3. job.pc = "step" /\ job.ch = jobs[a].ch
  BY PlannedIs
<1>4. a = "confirm" \/ Stands => \A s : Onto(job, s) => s = jobs[a].ch.to
  BY <1>2, PlanIsStraight
<1>5. jobs[a].ch.to = "waiting" => \A i \in DOMAIN job.path : job.path[i] = "waiting" => i = Len(job.path)
  BY PlannedWait
<1> HIDE DEF job
<1>6. Aims(a, job)
  <2>1. job.ch.src = "complete_blocked" => a = "complete" /\ job.ch.to = "waiting"
    BY <1>2, <1>3 DEF Aims
  <2>2. a = "confirm" => ~Onto(job, "working") /\ ~Onto(job, "idle_unconfirmed")
    BY <1>2, <1>4
  <2> QED BY <1>2, <1>3, <1>5, <2>1, <2>2 DEF Aims, Reports
<1>7. Stands => Spares(job)
  BY <1>2, <1>4 DEF Spares
<1>8. blockedIn # 0 => a # "dispatch"
  BY <1>1, DispatchOver
<1>9. (InItsTurn' => InItsTurn) /\ (Unidled => Unidled')
  BY <1>1, StillUnidled DEF InItsTurn, Running
<1>10. sess'.turn \in Turns /\ sess.turn <= sess'.turn
  BY <1>1, TurnHere
<1>11. a = "complete" /\ Reports(job) => Reports(jobs["complete"])
  BY <1>1, <1>3 DEF Reports
<1> QED BY <1>1, <1>3, <1>6, <1>7, <1>8, <1>9, <1>10, <1>11, BlockKept

(* A job that ends, whoever's it is.                                          *)
LEMMA RestBlock ==
  ASSUME IInv, BInv, NEW a \in Actors, Set(a, Resting), UNCHANGED <<row, blockedIn, sess, idled, inbox>>
  PROVE  BInv'
<1>1. Aims(a, Resting) /\ Spares(Resting) /\ ~Reports(Resting) /\ Resting.pc = "rest"
  BY RestObserves, CalmAims
<1>2. (InItsTurn' => InItsTurn) /\ (Unidled => Unidled')
  BY StillUnidled DEF InItsTurn, Running
<1>3. sess'.turn \in Turns /\ sess.turn <= sess'.turn
  BY TurnHere
<1> QED BY <1>1, <1>2, <1>3, BlockKept

LEMMA RefusedBlock == ASSUME IInv, BInv, NEW a \in Actors, Refused(a) PROVE BInv'
<1>1. Set(a, Resting) /\ UNCHANGED <<row, blockedIn, sess, idled, inbox>>
  BY DEF Refused, NoWrite, Unwritten, NoAgent, NoEmit, NoGhost
<1> QED BY <1>1, RestBlock

LEMMA JudgeBlock == ASSUME IInv, BInv, NEW a \in Actors, Judge(a) PROVE BInv'
<1> DEFINE snap == jobs[a].snap
           job == IF FinishedSince(snap.reopened) THEN EndedTurn(snap) ELSE Resting
<1>1. Set(a, job) /\ UNCHANGED <<row, blockedIn, sess, idled, inbox>> /\ jobs[a].pc = "judge"
  BY DEF Judge, At, NoWrite, Unwritten, NoAgent, NoEmit, NoGhost
<1>2. Observes(job)
  BY SaidOnce, EndedTurnObserves, RestObserves
<1>3. a \notin {"confirm", "cancel"}
  BY <1>1 DEF BInv, Aims
<1> HIDE DEF job
<1>4. Aims(a, job) /\ Spares(job) /\ ~Reports(job)
  BY <1>2, <1>3, ObserverAims
<1>5. blockedIn # 0 => a # "dispatch"
  BY <1>1, DispatchOver
<1>6. (InItsTurn' => InItsTurn) /\ (Unidled => Unidled')
  BY <1>1, StillUnidled DEF InItsTurn, Running
<1>7. sess'.turn \in Turns /\ sess.turn <= sess'.turn
  BY <1>1, TurnHere
<1> QED BY <1>1, <1>3, <1>4, <1>5, <1>6, <1>7, BlockKept

(* What a step leaves of its job.                                             *)
LEMMA StepLeaves ==
  ASSUME IInv, BInv, NEW a \in Actors, Step(a)
  PROVE  LET to == Head(jobs[a].path)
             job == IF Tail(jobs[a].path) # <<>> THEN [jobs[a] EXCEPT !.path = Tail(jobs[a].path)]
                    ELSE Settled(a, Written(to, jobs[a].ch, FALSE))
         IN /\ Set(a, job) /\ Aims(a, job) /\ (a = "confirm" => job.pc # "walk")
            /\ a = "complete" /\ Reports(job) => Reports(jobs["complete"])
            /\ Onto(jobs[a], to) /\ to \in States
            /\ a = "complete" /\ Tail(jobs[a].path) = <<>> => job = Resting
<1> DEFINE path == jobs[a].path
           to == Head(path)
           rest == Tail(path)
           next == [jobs[a] EXCEPT !.path = rest]
           end == Settled(a, Written(to, jobs[a].ch, FALSE))
           job == IF rest # <<>> THEN next ELSE end
<1>1. /\ jobs[a] \in JobSet /\ Aims(a, jobs[a]) /\ jobs[a].pc = "step" /\ path # <<>> /\ path \in Seq(States)
  <2>1. JobOK(a, jobs[a], sess.turn, row.updated, word, stale)
    BY SaidOnce
  <2> QED BY <2>1 DEF Step, At, BInv, JobOK, JobSet
<1>2. /\ rest \in Seq(States) /\ Len(rest) = Len(path) - 1 /\ Len(path) \in Nat
      /\ \A i \in DOMAIN rest : i + 1 \in DOMAIN path /\ rest[i] = path[i + 1] /\ i \in Nat
      /\ to = path[1] /\ 1 \in DOMAIN path /\ to \in States
  BY <1>1
<1>3. Set(a, job)
  <2>1. CASE rest # <<>>
    BY <2>1 DEF Step
  <2>2. CASE rest = <<>>
    BY <2>2 DEF Step
  <2> QED BY <2>1, <2>2
<1>4. Observes(end) /\ (a # "wait" => end = Resting)
  BY SettledObserves
<1> HIDE DEF path, to, rest, end
<1>5. next.pc = "step" /\ next.ch = jobs[a].ch /\ next.path = rest
  BY <1>1 DEF JobSet
<1> HIDE DEF next
<1>6. Aims(a, next)
  <2>1. \A s : Onto(next, s) => Onto(jobs[a], s)
    BY <1>1, <1>2, <1>5 DEF Onto, path
  <2>2. Reports(next) => Reports(jobs[a])
    BY <1>1, <1>5 DEF Reports
  <2>3. Reports(next) => \A i \in DOMAIN rest : rest[i] = "waiting" => i = Len(rest)
    BY <1>1, <1>2, <2>2 DEF Aims, path
  <2>4. next.ch.src = "complete_blocked" => a = "complete" /\ next.ch.to = "waiting"
    BY <1>1, <1>5 DEF Aims
  <2>5. a \in {"confirm", "cancel"} => ~Onto(next, "working") /\ ~Onto(next, "idle_unconfirmed")
    BY <1>1, <2>1 DEF Aims
  <2> QED BY <1>5, <2>3, <2>4, <2>5 DEF Aims
<1>7. Aims(a, end) /\ ~Reports(end) /\ (a = "confirm" => end.pc # "walk")
  <2>1. CASE a = "wait"
    BY <1>4, <2>1, ObserverAims
  <2>2. CASE a # "wait"
    BY <1>4, <2>2, RestObserves, CalmAims
  <2> QED BY <2>1, <2>2
<1>8. Aims(a, job) /\ (a = "confirm" => job.pc # "walk")
  BY <1>5, <1>6, <1>7
<1>9. a = "complete" /\ Reports(job) => Reports(jobs["complete"])
  BY <1>1, <1>5, <1>7 DEF Reports
<1>10. Onto(jobs[a], to)
  BY <1>1, <1>2 DEF Onto, path
<1>11. a = "complete" /\ rest = <<>> => job = Resting
  BY <1>4
<1> HIDE DEF job
<1> QED BY <1>2, <1>3, <1>8, <1>9, <1>10, <1>11 DEF job, next, end, to, rest, path

LEMMA StepBlock == ASSUME IInv, BInv, NEW a \in Actors, Step(a) PROVE BInv'
<1> DEFINE to == Head(jobs[a].path)
           rest == Tail(jobs[a].path)
           passing == rest # <<>>
           job == IF rest # <<>> THEN [jobs[a] EXCEPT !.path = rest]
                  ELSE Settled(a, Written(to, jobs[a].ch, FALSE))
<1>1. /\ Set(a, job) /\ Aims(a, job) /\ (a = "confirm" => job.pc # "walk")
      /\ a = "complete" /\ Reports(job) => Reports(jobs["complete"])
      /\ Onto(jobs[a], to) /\ to \in States
      /\ a = "complete" /\ rest = <<>> => job = Resting
  BY StepLeaves
<1>2. /\ jobs[a].pc = "step" /\ CanMoveTo(row.state, to) /\ row' = Written(to, jobs[a].ch, passing)
      /\ idled' = (idled /\ ~IsTerminal(to)) /\ UNCHANGED <<sess, inbox>>
      /\ blockedIn' = IF a = "complete" /\ ~CaughtUp THEN 0 ELSE blockedIn
  BY DEF Step, At, Write, Overtakes, NoAgent, NoEmit
<1>3. row'.state = to /\ row'.last = jobs[a].ch.src
  <2>1. row \in Rows
    BY SaidOnce DEF RowOK
  <2> HIDE DEF passing
  <2> QED BY <1>2, <2>1 DEF Written, Rows
<1>4. Aims(a, jobs[a])
  BY DEF BInv
<1> HIDE DEF job
<1>5. CASE ~Stands'
  <2>1. Begun => Begun'
    BY <1>2, <1>3 DEF Begun, CanMoveTo, ActiveStates, States
  <2>2. blockedIn # 0 => a # "dispatch"
    BY <1>2, DispatchOver
  <2>3. idled' => idled
    BY <1>2
  <2>4. blockedIn' \in {0, blockedIn}
    BY <1>2
  <2> QED BY <1>1, <1>2, <1>5, <2>1, <2>2, <2>3, <2>4, BlockGone
<1>6. CASE Stands'
  <2>1. a = "complete" /\ Reports(jobs["complete"]) /\ to = "waiting"
    BY <1>2, <1>3, <1>4, <1>6 DEF Stands, Aims, Reports
  <2>2. CaughtUp /\ blockedIn' = blockedIn /\ blockedIn # 0
    BY <1>2, <1>6, <2>1 DEF Stands
  <2>3. rest = <<>>
    <3>1. jobs[a].path \in Seq(States) /\ jobs[a].path # <<>>
      <4>1. JobOK(a, jobs[a], sess.turn, row.updated, word, stale)
        BY SaidOnce
      <4> QED BY <1>2, <4>1 DEF JobOK, JobSet
    <3>2. 1 \in DOMAIN jobs[a].path /\ jobs[a].path[1] = "waiting"
      BY <2>1, <3>1
    <3>3. Len(jobs[a].path) = 1
      BY <1>4, <2>1, <3>2 DEF Aims
    <3>4. Tail(jobs[a].path) \in Seq(States) /\ Len(Tail(jobs[a].path)) = 0
      BY <3>1, <3>3
    <3>5. \A q \in Seq(States) : Len(q) = 0 => q = <<>>
      OBVIOUS
    <3> QED BY <3>4, <3>5
  <2>4. jobs'["complete"] = Resting /\ \A b \in Actors \ {"complete"} : jobs'[b] = jobs[b]
    BY <1>1, <2>1, <2>3, SetIs
  <2>5. Actors = {"dispatch", "follower", "driver", "wait", "complete", "confirm", "cancel"}
    BY DEF Actors
  <2>6. \A b \in {"dispatch", "follower", "driver", "wait", "complete"} : jobs'[b].pc = "rest"
    BY <2>2, <2>4, <2>5, RestObserves DEF CaughtUp
  <2>7. \A b \in Actors : Aims(b, jobs'[b])
    BY <1>1, <2>1, <2>4, <2>3, RestObserves, CalmAims DEF BInv
  <2>8. \A b \in Actors : Spares(jobs[b])'
    <3> SUFFICES ASSUME NEW b \in Actors PROVE Spares(jobs[b])'
      OBVIOUS
    <3>1. CASE b \in {"confirm", "cancel"}
      BY <2>7, <3>1 DEF Aims, Spares
    <3>2. CASE b \notin {"confirm", "cancel"}
      BY <2>5, <2>6, <3>2 DEF Spares, Onto
    <3> QED BY <3>1, <3>2
  <2>9. InItsTurn' => Unidled'
    <3>1. InItsTurn' => InItsTurn
      BY <1>2, <2>2 DEF InItsTurn, Running
    <3>2. InItsTurn => Unidled
      BY <2>1, <2>2 DEF BInv
    <3> QED BY <1>2, <3>1, <3>2 DEF Unidled
  <2>10. Begun' /\ blockedIn' <= sess'.turn /\ At("dispatch", "rest")'
    BY <1>2, <1>3, <2>1, <2>2, <2>6 DEF Begun, BInv, At
  <2> QED BY <2>7, <2>8, <2>9, <2>10 DEF BInv
<1> QED BY <1>5, <1>6

LEMMA ReopenBlock == ASSUME IInv, BInv, NEW a \in Actors, Reopen(a) PROVE BInv'
<1> DEFINE w == Written("working", Plain("working"), FALSE)
<1>1. Set(a, Resting) /\ UNCHANGED <<sess, inbox, blockedIn>> /\ jobs[a].pc = "reopen"
  BY DEF Reopen, Reopening, At, NoAgent, NoEmit, NoGhost
<1>2. CASE UNCHANGED <<row, idled>>
  BY <1>1, <1>2, RestBlock
<1>3. CASE row' = [w EXCEPT !.reopened = jobs[a].at] /\ idled' = FALSE
  <2>1. row'.state = "working"
    <3>1. w \in Rows /\ w.state = "working"
      BY JobTypes, WrittenIsRow DEF States, OpenStates
    <3> HIDE DEF w
    <3> QED BY <1>3, <3>1 DEF Rows
  <2>2. ~Stands' /\ Begun'
    BY <2>1 DEF Stands, Begun
  <2>3. Aims(a, Resting) /\ ~Reports(Resting) /\ Resting.pc = "rest"
    BY RestObserves, CalmAims
  <2>4. blockedIn' \in {0, blockedIn} /\ (idled' => idled)
    BY <1>1, <1>3
  <2> QED BY <1>1, <2>2, <2>3, <2>4, BlockGone
<1> QED BY <1>2, <1>3 DEF Reopen, Reopening, Overtakes, NoWrite, Unwritten

LEMMA CompleteBlockedBlock == ASSUME IInv, BInv, CompleteBlocked PROVE BInv'
<1> DEFINE ch == Change("waiting", "complete_blocked", 0)
           job == ToWalk(ch)
<1>1. /\ Set("complete", job) /\ idled' = FALSE /\ UNCHANGED <<row, sess, inbox>>
      /\ blockedIn' = IF CaughtUp THEN sess.turn ELSE 0
  BY DEF CompleteBlocked, Unwritten, NoAgent, NoEmit
<1>2. job.pc = "walk" /\ job.ch.src = "complete_blocked" /\ job.ch.to = "waiting" /\ job.path = <<>>
  BY DEF ToWalk, Resting, Job, Change
<1> HIDE DEF job
<1>3. Aims("complete", job) /\ ~Onto(job, "working") /\ ~Onto(job, "idle_unconfirmed")
  BY <1>2 DEF Aims, Reports, Onto
<1>4. Actors = {"dispatch", "follower", "driver", "wait", "complete", "confirm", "cancel"}
  BY DEF Actors
<1>5. jobs'["complete"] = job /\ \A b \in Actors \ {"complete"} : jobs'[b] = jobs[b]
  BY <1>1, <1>4, SetIs
<1>6. \A b \in Actors : Aims(b, jobs'[b])
  BY <1>3, <1>5 DEF BInv
<1>7. jobs'["confirm"].pc = "walk" => Begun'
  BY <1>1, <1>4, <1>5 DEF BInv, At, Begun
<1>8. CASE ~CaughtUp
  BY <1>1, <1>6, <1>7, <1>8, TurnHere, BlockUnwatched
<1>9. CASE CaughtUp
  <2>1. \A b \in {"dispatch", "follower", "driver", "wait"} : jobs'[b].pc = "rest"
    BY <1>4, <1>5, <1>9 DEF CaughtUp
  <2>2. \A b \in Actors : Spares(jobs[b])'
    <3> SUFFICES ASSUME NEW b \in Actors PROVE Spares(jobs[b])'
      OBVIOUS
    <3>1. CASE b \in {"confirm", "cancel"}
      BY <1>6, <3>1 DEF Aims, Spares
    <3>2. CASE b = "complete"
      BY <1>3, <1>5, <3>2 DEF Spares
    <3>3. CASE b \notin {"confirm", "cancel", "complete"}
      BY <1>4, <2>1, <3>3 DEF Spares, Onto
    <3> QED BY <3>1, <3>2, <3>3
  <2>3. Unidled'
    BY <1>1, <1>9 DEF Unidled, CaughtUp
  <2>4. At("dispatch", "rest")'
    BY <2>1 DEF At
  <2>5. blockedIn' <= sess'.turn
    BY <1>1, <1>9, TurnHere
  <2> QED BY <1>6, <1>7, <2>2, <2>3, <2>4, <2>5 DEF BInv, At
<1> QED BY <1>8, <1>9

LEMMA ConfirmBlock == ASSUME IInv, BInv, Confirm PROVE BInv'
<1> DEFINE job == ToWalk(Plain("done"))
<1>1. Set("confirm", job) /\ UNCHANGED <<row, sess, inbox, idled, blockedIn>> /\ Begun /\ "confirm" \in Actors
  BY DEF Confirm, NoWrite, Unwritten, NoAgent, NoEmit, Paused, Begun, Actors
<1>2. job.pc = "walk" /\ job.ch.src = "plain" /\ job.ch.to = "done"
  BY DEF ToWalk, Resting, Job, Plain, Change
<1> HIDE DEF job
<1>3. Aims("confirm", job) /\ Spares(job)
  BY <1>2 DEF Aims, Spares, Reports, Onto
<1>4. (InItsTurn' => InItsTurn) /\ (Unidled => Unidled')
  BY <1>1, StillUnidled DEF InItsTurn, Running
<1>5. sess'.turn \in Turns /\ sess.turn <= sess'.turn
  BY <1>1, TurnHere
<1> QED BY <1>1, <1>3, <1>4, <1>5, BlockKept

LEMMA CancelReadsBlock == ASSUME IInv, BInv, CancelReads PROVE BInv'
<1> DEFINE job == [Job("interrupt") EXCEPT !.snap = [NoSnap EXCEPT !.bound = row.bound]]
<1>1. Set("cancel", job) /\ UNCHANGED <<row, sess, inbox, idled, blockedIn>> /\ "cancel" \in Actors
  BY DEF CancelReads, NoWrite, Unwritten, NoAgent, NoEmit, NoGhost, Actors
<1>2. Observes(job) /\ job.pc = "interrupt"
  BY DEF Observes, Job, Plain, Change
<1> HIDE DEF job
<1>3. Aims("cancel", job) /\ Spares(job)
  BY <1>2, CalmAims
<1>4. (InItsTurn' => InItsTurn) /\ (Unidled => Unidled')
  BY <1>1, StillUnidled DEF InItsTurn, Running
<1>5. sess'.turn \in Turns /\ sess.turn <= sess'.turn
  BY <1>1, TurnHere
<1> QED BY <1>1, <1>3, <1>4, <1>5, BlockKept

(* An interrupt ends the turn, or nothing happens.                            *)
LEMMA InterruptEnds ==
  ASSUME IInv, Interrupt \/ NoAgent
  PROVE  sess'.turn = sess.turn /\ (Running' => UNCHANGED <<sess, inbox>>)
<1>1. CASE NoAgent
  BY <1>1 DEF NoAgent, NoEmit
<1>2. CASE ~Running /\ Interrupt
  BY <1>2 DEF Interrupt, NoAgent, NoEmit
<1>3. CASE Running /\ sess' = [sess EXCEPT !.status = "interrupted", !.asking = FALSE]
  BY <1>3, SaidOnce DEF Running, SessOK
<1> QED BY <1>1, <1>2, <1>3 DEF Interrupt

LEMMA CancelInterruptsBlock == ASSUME IInv, BInv, CancelInterrupts PROVE BInv'
<1> DEFINE job == [Job("step") EXCEPT !.ch = Plain("cancelled"), !.path = <<"cancelled">>]
<1>1. /\ Set("cancel", job) /\ UNCHANGED <<row, idled, blockedIn>> /\ "cancel" \in Actors
      /\ Interrupt \/ NoAgent
  BY DEF CancelInterrupts, NoWrite, Unwritten, NoGhost, Actors, BestEffort
<1>2. job.pc = "step" /\ job.ch.src = "plain" /\ job.path = <<"cancelled">>
  BY DEF Job, Plain, Change
<1> HIDE DEF job
<1>3. Aims("cancel", job) /\ Spares(job)
  BY <1>2 DEF Aims, Spares, Reports, Onto
<1>4. sess'.turn = sess.turn /\ (Running' => UNCHANGED <<sess, inbox>>)
  BY <1>1, InterruptEnds
<1>5. (InItsTurn' => InItsTurn) /\ (InItsTurn' /\ Unidled => Unidled')
  BY <1>1, <1>4 DEF InItsTurn, Running, Unidled
<1>6. sess'.turn \in Turns /\ sess.turn <= sess'.turn
  BY <1>4, TurnHere
<1> QED BY <1>1, <1>3, <1>5, <1>6, BlockKept

(* While the task is being dispatched no block is watched.                    *)
LEMMA DispatchingBlock ==
  ASSUME IInv, IInv', BInv, NEW job, Set("dispatch", job), Observes(job), jobs["dispatch"].pc # "rest",
         blockedIn' = blockedIn, Begun => Begun'
  PROVE  BInv'
<1>1. "dispatch" \in Actors /\ "confirm" \in Actors
  BY DEF Actors
<1>2. jobs'["dispatch"] = job /\ \A b \in Actors \ {"dispatch"} : jobs'[b] = jobs[b]
  BY <1>1, SetIs
<1>3. Aims("dispatch", job)
  BY ObserverAims
<1>4. \A b \in Actors : Aims(b, jobs'[b])
  BY <1>2, <1>3 DEF BInv
<1>5. jobs'["confirm"].pc = "walk" => Begun'
  BY <1>1, <1>2 DEF BInv, At
<1>6. sess'.turn \in Turns
  BY DEF IInv, SessOK
<1> QED BY <1>4, <1>5, <1>6, DispatchOver, BlockUnwatched

LEMMA DispatchBlock == ASSUME IInv, IInv', BInv, Dispatch PROVE BInv'
<1>1. blockedIn' = blockedIn /\ jobs["dispatch"].pc # "rest"
  BY DEF Dispatch, DispatchCreates, DispatchBinds, DispatchSends, DispatchFailsToSend, DispatchStops, DispatchWorks,
         NoGhost, At
<1>2. Observes(ToWalk(Plain("failed")))
  BY WalkObserves, PlainIs
<1>3. \A pc \in {"bind", "send", "stop", "work"} : Observes(Job(pc))
  BY JobObserves
<1>4. CASE UNCHANGED row /\ \E pc \in {"bind", "send", "stop", "work"} : Set("dispatch", Job(pc))
  BY <1>1, <1>3, <1>4, DispatchingBlock DEF Begun
<1>5. CASE UNCHANGED row /\ (Set("dispatch", ToWalk(Plain("failed"))) \/ Set("dispatch", Resting))
  BY <1>1, <1>2, <1>5, RestObserves, DispatchingBlock DEF Begun
<1>6. CASE DispatchBinds /\ CanMoveTo(row.state, "dispatching")
  <2>1. ~Begun /\ Set("dispatch", Job("send"))
    BY <1>6 DEF DispatchBinds, CanMoveTo, Begun
  <2> QED BY <1>1, <1>3, <2>1, DispatchingBlock
<1>7. CASE DispatchWorks /\ CanMoveTo(row.state, "working")
  <2> DEFINE job == [Job("judge") EXCEPT !.snap = Judged("working", 0, row.reopened)]
  <2>1. Set("dispatch", job) /\ row' = Written("working", Plain("working"), FALSE)
    BY <1>7 DEF DispatchWorks, Write
  <2>2. row'.state = "working"
    BY <2>1, JobTypes, WrittenIsRow DEF States, OpenStates
  <2>3. Observes(job)
    BY DEF Observes, Job, Plain, Change
  <2> HIDE DEF job
  <2> QED BY <1>1, <2>1, <2>2, <2>3, DispatchingBlock DEF Begun
<1>8. CASE DispatchCreates \/ DispatchSends \/ DispatchFailsToSend \/ DispatchStops
  BY <1>4, <1>5, <1>8 DEF DispatchCreates, DispatchSends, DispatchFailsToSend, DispatchStops, NoWrite, Unwritten
<1>9. CASE DispatchBinds \/ DispatchWorks
  BY <1>5, <1>6, <1>7, <1>9 DEF DispatchBinds, DispatchWorks, NoWrite, Unwritten
<1> QED BY <1>8, <1>9 DEF Dispatch

(* Only an idle is an idle.                                                    *)
LEMMA EmitUnidled ==
  ASSUME IInv, idled' = idled, NEW kind \in EventKinds \ {"idle"}, Emit(<<Event(kind)>>)
  PROVE  Unidled => Unidled'
<1>1. Event(kind) \in NotIdle /\ Event("lagged") \in NotIdle
  BY TimesAre DEF Event, NotIdle, Events, EventKinds
<1>2. <<Event(kind)>> \in Seq(NotIdle)
  BY <1>1
<1> QED BY <1>1, <1>2, QueueWithin DEF Unidled, Emit

LEMMA AsideBlock ==
  ASSUME IInv, IInv', BInv, UNCHANGED <<row, jobs, blockedIn, idled>>,
         \/ sess' = sess /\ (Unidled => Unidled')
         \/ sess'.turn = sess.turn /\ ~Running'
         \/ sess'.turn = sess.turn /\ Running' /\ Running /\ (Unidled => Unidled')
         \/ sess'.turn = sess.turn + 1
  PROVE  BInv'
<1>1. sess.turn \in Nat /\ sess'.turn \in Turns /\ blockedIn \in Nat /\ blockedIn <= sess.turn
  <2>1. sess'.turn \in Turns
    BY DEF IInv, SessOK
  <2> QED BY <2>1, SaidOnce, TimesAreNat DEF FlagsOK, BInv
<1>2. sess.turn <= sess'.turn
  BY <1>1
<1>3. sess'.turn = sess.turn + 1 => ~InItsTurn'
  BY <1>1 DEF InItsTurn
<1>4. (InItsTurn' => InItsTurn) /\ (InItsTurn' /\ Unidled => Unidled')
  <2>1. CASE sess'.turn = sess.turn + 1
    BY <1>3, <2>1
  <2>2. CASE ~Running'
    BY <2>2 DEF InItsTurn
  <2>3. CASE Running /\ sess'.turn = sess.turn /\ (Unidled => Unidled')
    BY <2>3 DEF InItsTurn
  <2>4. CASE sess' = sess /\ (Unidled => Unidled')
    BY <2>4 DEF InItsTurn, Running
  <2> QED BY <2>1, <2>2, <2>3, <2>4
<1> QED BY <1>1, <1>2, <1>4, BlockAside

LEMMA AgentBlock ==
  ASSUME IInv, IInv', BInv,
         \/ \E mark \in {"none", "done", "blocked", "silent"} : EndTurn(mark)
         \/ UserTurn \/ Ask \/ Answer
         \/ \E how \in {"failed", "interrupted"} : BreakTurn(how)
         \/ Vanish \/ Crowd \/ Age \/ UNCHANGED vars
  PROVE  BInv'
<1>1. UNCHANGED <<row, jobs, blockedIn, idled>>
  BY DEF EndTurn, UserTurn, Ask, Answer, BreakTurn, Vanish, Crowd, Age, Aside, vars
<1>2. sess \in [status: Statuses, turn: Turns, idleAt: Times, said: Turns,
                mark: {"none", "done", "blocked"}, asking: BOOLEAN]
  BY SaidOnce DEF SessOK
<1>3. CASE \E mark \in {"none", "done", "blocked", "silent"} : EndTurn(mark)
  <2>1. PICK mark : EndTurn(mark)
    BY <1>3
  <2>2. sess'.turn = sess.turn /\ sess'.status = "idle"
    BY <1>2, <2>1 DEF EndTurn
  <2> QED BY <1>1, <2>2, AsideBlock DEF Running
<1>4. CASE (\E how \in {"failed", "interrupted"} : BreakTurn(how)) \/ Vanish
  <2>1. sess'.turn = sess.turn /\ sess'.status \in {"failed", "interrupted", "gone"}
    BY <1>2, <1>4 DEF BreakTurn, Vanish
  <2> QED BY <1>1, <2>1, AsideBlock DEF Running
<1>5. CASE UserTurn
  <2>1. sess'.turn = sess.turn + 1
    BY <1>2, <1>5 DEF UserTurn, StartTurn
  <2> QED BY <1>1, <2>1, AsideBlock
<1>6. CASE Ask
  <2>1. sess'.turn = sess.turn /\ sess'.status = sess.status /\ Running /\ Emit(<<Event("asked")>>)
    BY <1>2, <1>6 DEF Ask
  <2>2. Unidled => Unidled'
    BY <1>1, <2>1, EmitUnidled DEF EventKinds
  <2> QED BY <1>1, <2>1, <2>2, AsideBlock DEF Running
<1>7. CASE Answer
  <2>1. sess'.turn = sess.turn /\ sess'.status = sess.status /\ Emit(<<Event("resolved")>>)
    BY <1>2, <1>7 DEF Answer
  <2>2. Unidled => Unidled'
    BY <1>1, <2>1, EmitUnidled DEF EventKinds
  <2> QED BY <1>1, <2>1, <2>2, AsideBlock DEF Running
<1>8. CASE Crowd
  <2>1. sess' = sess /\ inbox' = Pushed(inbox)
    BY <1>8 DEF Crowd
  <2>2. Event("lagged") \in NotIdle /\ <<>> \in Seq(NotIdle)
    BY TimesAre DEF Event, NotIdle, Events, EventKinds
  <2>3. Unidled => Unidled'
    BY <1>1, <2>1, <2>2, QueueWithin DEF Unidled
  <2> QED BY <1>1, <2>1, <2>3, AsideBlock
<1>9. CASE Age \/ UNCHANGED vars
  <2>1. sess' = sess /\ inbox' = inbox
    BY <1>9 DEF Age, vars
  <2> QED BY <1>1, <2>1, StillUnidled, AsideBlock
<1> QED BY <1>3, <1>4, <1>5, <1>6, <1>7, <1>8, <1>9

LEMMA RestartBlock == ASSUME IInv, IInv', BInv, Restart PROVE BInv'
<1>1. jobs' = [a \in Actors |-> Resting] /\ blockedIn' = 0 /\ sess'.turn = sess.turn
  BY DEF Restart
<1>2. \A a : Aims(a, Resting)
  BY RestObserves, CalmAims
<1>3. \A a \in Actors : jobs'[a] = Resting
  BY <1>1
<1>4. jobs'["confirm"].pc = "rest"
  BY <1>3, RestObserves DEF Actors
<1> QED BY <1>1, <1>2, <1>3, <1>4, TurnHere, BlockUnwatched

-----------------------------------------------------------------------------
LEMMA BlockStart == ASSUME Init PROVE BInv
<1>1. \A a : Aims(a, Resting) /\ (a \notin {"confirm", "cancel"} => Aims(a, Job("create")))
  <2>1. \A a : Aims(a, Resting)
    BY RestObserves, CalmAims
  <2>2. \A a : a \notin {"confirm", "cancel"} => Aims(a, Job("create"))
    BY JobObserves, ObserverAims
  <2> QED BY <2>1, <2>2
<1>2. \A a \in Actors : jobs[a] = (IF a = "dispatch" THEN Job("create") ELSE Resting)
  BY DEF Init
<1>3. \A a \in Actors : Aims(a, jobs[a])
  BY <1>1, <1>2
<1>4. ~At("confirm", "walk")
  BY <1>2, RestObserves DEF At, Actors
<1> QED BY <1>3, <1>4 DEF Init, BInv, Stands

LEMMA SettleBlock == ASSUME IInv, BInv, NEW a \in Actors, Settle(a) PROVE BInv'
BY HoldBlock, WalkBlock, StepBlock, RefusedBlock, JudgeBlock, ReopenBlock DEF Settle

LEMMA NextBlock == ASSUME IInv, IInv', BInv, [Next]_vars PROVE BInv'
<1>1. CASE Dispatch
  BY <1>1, DispatchBlock
<1>2. CASE Follow \/ DriverLists \/ DriverAsks
  BY <1>2, FollowBlock, DriverListsBlock, DriverAsksBlock
<1>3. CASE WaitStarts \/ WaitLooks \/ WaitTakes \/ WaitEnds
  BY <1>3, WaitStartsBlock, WaitLooksBlock, WaitTakesBlock, WaitEndsBlock
<1>4. CASE CompleteDone \/ CompleteBlocked \/ Confirm \/ CancelReads \/ CancelInterrupts
  BY <1>4, CompleteDoneBlock, CompleteBlockedBlock, ConfirmBlock, CancelReadsBlock, CancelInterruptsBlock
<1>5. CASE \E a \in Actors : Settle(a)
  BY <1>5, SettleBlock
<1>6. CASE \/ \E mark \in {"none", "done", "blocked", "silent"} : EndTurn(mark)
           \/ UserTurn \/ Ask \/ Answer
           \/ \E how \in {"failed", "interrupted"} : BreakTurn(how)
           \/ Vanish \/ Crowd \/ Age \/ UNCHANGED vars
  BY <1>6, AgentBlock
<1>7. CASE Restart
  BY <1>7, RestartBlock
<1> QED BY <1>1, <1>2, <1>3, <1>4, <1>5, <1>6, <1>7 DEF Next

(* A block reported with all observers at rest is not undone by a late sign of *)
(* the turn that reported it, whatever was read, planned or queued before it   *)
(* (service.rs holds, complete).                                               *)
THEOREM BlockAlwaysOutlasts == Spec => BlockOutlastsItsTurn
<1> DEFINE Kept == /\ row'.state # "idle_unconfirmed"
                   /\ row'.state = "working" => ~Running \/ sess.turn > blockedIn
<1>1. ASSUME IInv, BInv, [Next]_vars, Stands PROVE Kept
  <2>1. row.state = "waiting" /\ jobs["dispatch"].pc = "rest" /\ row \in Rows
    BY <1>1, SaidOnce DEF Stands, BInv, At, RowOK
  <2>2. CASE row'.state = row.state
    BY <2>1, <2>2
  <2>3. ASSUME NEW a \in Actors, Step(a) PROVE Kept
    <3> DEFINE to == Head(jobs[a].path)
    <3>1. Onto(jobs[a], to) /\ to \in States
      BY <1>1, <2>3, StepLeaves
    <3>2. row'.state = to
      BY <2>1, <2>3 DEF Step, Write, Written, Rows
    <3>3. to # "idle_unconfirmed" /\ (InItsTurn => to # "working")
      BY <1>1, <3>1 DEF BInv, Spares
    <3>4. sess.turn \in Nat /\ blockedIn \in Nat /\ blockedIn <= sess.turn
      BY <1>1, SaidOnce, TimesAreNat DEF FlagsOK, BInv
    <3> HIDE DEF to
    <3> QED BY <3>2, <3>3, <3>4 DEF InItsTurn
  <2>4. ASSUME NEW a \in Actors, Settle(a) PROVE Step(a) \/ row' = row
    BY <2>1, <2>4 DEF Settle, Hold, Walk, Refused, Judge, Reopen, Reopening, NoWrite, Unwritten
  <2>5. ~Dispatch
    BY <2>1 DEF Dispatch, DispatchCreates, DispatchBinds, DispatchSends, DispatchFailsToSend, DispatchStops,
                DispatchWorks, At
  <2>6. Follow \/ DriverLists \/ DriverAsks \/ WaitStarts \/ WaitLooks \/ WaitTakes \/ WaitEnds => row' = row
    BY DEF Follow, DriverLists, DriverAsks, WaitStarts, WaitLooks, WaitTakes, WaitEnds, NoWrite, Unwritten
  <2>7. CompleteDone \/ CompleteBlocked \/ Confirm \/ CancelReads \/ CancelInterrupts => row' = row
    BY DEF CompleteDone, CompleteBlocked, Confirm, CancelReads, CancelInterrupts, NoWrite, Unwritten
  <2>8. (\E mark \in {"none", "done", "blocked", "silent"} : EndTurn(mark)) \/ UserTurn \/ Ask \/ Answer
          \/ (\E how \in {"failed", "interrupted"} : BreakTurn(how)) \/ Vanish \/ Crowd \/ Age \/ UNCHANGED vars
        => row' = row
    BY DEF EndTurn, UserTurn, Ask, Answer, BreakTurn, Vanish, Crowd, Age, Aside, vars
  <2>9. Restart => row'.state = row.state
    BY <2>1 DEF Restart, Rows
  <2>10. row'.state = row.state \/ \E a \in Actors : Step(a)
    BY <1>1, <2>4, <2>5, <2>6, <2>7, <2>8, <2>9 DEF Next
  <2> QED BY <2>2, <2>3, <2>10
<1>2. Init => IInv /\ BInv
  BY InitHolds, BlockStart
<1>3. IInv /\ BInv /\ [Next]_vars => (IInv /\ BInv)'
  BY NextKeeps, NextBlock
<1>4. IInv /\ BInv /\ [Next]_vars =>
        [Stands => /\ row'.state # "idle_unconfirmed"
                   /\ row'.state = "working" => ~Running \/ sess.turn > blockedIn]_vars
  BY <1>1
<1> QED BY <1>2, <1>3, <1>4, PTL DEF Spec, BlockOutlastsItsTurn

-----------------------------------------------------------------------------
(* THE LIFE OF THE ROW, as a step of TaskLifecycle.                           *)

(* A move the ledger accepts, and a new turn of an ended task, are steps of it. *)
LEMMA MoveIsLife ==
  ASSUME NEW to \in States, row'.state = to,
         CanMoveTo(row.state, to) \/ (row.state \in {"done", "failed"} /\ to = "working")
  PROVE  Life!Next
<1> DEFINE status == [t \in {"it"} |-> row.state]
<1>1. status' = [status EXCEPT !["it"] = to] /\ status["it"] = row.state
  OBVIOUS
<1>2. CASE CanMoveTo(row.state, to)
  <2>1. Life!CanMoveTo(row.state, to) /\ to \in Life!States
    BY <1>2 DEF CanMoveTo, Life!CanMoveTo, States, Life!States, OpenStates, Life!OpenStates, TerminalStates,
                Life!TerminalStates, ActiveStates, Life!ActiveStates
  <2>2. Life!Advance("it", to)
    BY <1>1, <2>1 DEF Life!Advance, Life!Become
  <2> QED BY <2>1, <2>2 DEF Life!Next
<1>3. CASE row.state \in {"done", "failed"} /\ to = "working"
  <2>1. Life!Resume("it")
    BY <1>1, <1>3 DEF Life!Resume, Life!Become
  <2> QED BY <2>1 DEF Life!Next
<1> QED BY <1>2, <1>3

(* A write leaves the row in the state it is told.                            *)
LEMMA WriteMoves ==
  ASSUME IInv, NEW to \in States, NEW ch, NEW passing, row' = Written(to, ch, passing)
  PROVE  row'.state = to
<1>1. row \in Rows
  BY SaidOnce DEF RowOK
<1> QED BY <1>1 DEF Written, Rows

(* All the actors, the clock and the restarts together move the row as the      *)
(* ledger lets a task live.                                                   *)
THEOREM DelegationImplementsLifecycle == Spec => KeepsLifecycle
<1>1. ASSUME IInv, [Next]_vars, row'.state # row.state PROVE Life!Next
  <2>1. row \in Rows /\ "working" \in States /\ "dispatching" \in States
    BY <1>1, SaidOnce DEF RowOK, States, OpenStates
  <2>2. ASSUME NEW a \in Actors, Step(a) PROVE Life!Next
    <3> DEFINE to == Head(jobs[a].path)
    <3>1. CanMoveTo(row.state, to) /\ row' = Written(to, jobs[a].ch, Tail(jobs[a].path) # <<>>)
      BY <2>2 DEF Step, Write
    <3>2. to \in States
      BY <3>1 DEF CanMoveTo, States, OpenStates, TerminalStates
    <3> HIDE DEF to
    <3> QED BY <1>1, <3>1, <3>2, WriteMoves, MoveIsLife
  <2>3. ASSUME NEW a \in Actors, Reopen(a) PROVE Life!Next
    <3>1. row.state \in {"done", "failed"}
          /\ row' = [Written("working", Plain("working"), FALSE) EXCEPT !.reopened = jobs[a].at]
      BY <1>1, <2>3 DEF Reopen, Reopening, NoWrite, Unwritten
    <3>2. row'.state = "working"
      BY <2>1, <3>1 DEF Written, Rows
    <3> QED BY <2>1, <3>1, <3>2, MoveIsLife
  <2>4. ASSUME NEW a \in Actors, Settle(a) PROVE Life!Next
    BY <1>1, <2>2, <2>3, <2>4 DEF Settle, Hold, Walk, Refused, Judge, NoWrite, Unwritten
  <2>5. ASSUME Dispatch PROVE Life!Next
    <3>1. CASE DispatchBinds
      <4>1. CanMoveTo(row.state, "dispatching")
            /\ row' = [Written("dispatching", Plain("dispatching"), FALSE) EXCEPT !.bound = TRUE]
        BY <1>1, <3>1 DEF DispatchBinds, NoWrite, Unwritten
      <4>2. row'.state = "dispatching"
        BY <2>1, <4>1 DEF Written, Rows
      <4> QED BY <2>1, <4>1, <4>2, MoveIsLife
    <3>2. CASE DispatchWorks
      <4>1. CanMoveTo(row.state, "working") /\ row' = Written("working", Plain("working"), FALSE)
        BY <1>1, <3>2 DEF DispatchWorks, Write, NoWrite, Unwritten
      <4> QED BY <1>1, <2>1, <4>1, WriteMoves, MoveIsLife
    <3>3. ~DispatchCreates /\ ~DispatchSends /\ ~DispatchFailsToSend /\ ~DispatchStops
      BY <1>1 DEF DispatchCreates, DispatchSends, DispatchFailsToSend, DispatchStops, NoWrite, Unwritten
    <3> QED BY <2>5, <3>1, <3>2, <3>3 DEF Dispatch
  <2>6. ~Follow /\ ~DriverLists /\ ~DriverAsks /\ ~WaitStarts /\ ~WaitLooks /\ ~WaitTakes /\ ~WaitEnds
    BY <1>1 DEF Follow, DriverLists, DriverAsks, WaitStarts, WaitLooks, WaitTakes, WaitEnds, NoWrite, Unwritten
  <2>7. ~CompleteDone /\ ~CompleteBlocked /\ ~Confirm /\ ~CancelReads /\ ~CancelInterrupts
    BY <1>1 DEF CompleteDone, CompleteBlocked, Confirm, CancelReads, CancelInterrupts, NoWrite, Unwritten
  <2>8. \A mark \in {"none", "done", "blocked", "silent"} : ~EndTurn(mark)
    BY <1>1 DEF EndTurn
  <2>9. ~UserTurn /\ ~Ask /\ ~Answer /\ ~Vanish /\ ~Crowd /\ ~Age
        /\ \A how \in {"failed", "interrupted"} : ~BreakTurn(how)
    BY <1>1 DEF UserTurn, Ask, Answer, Vanish, Crowd, Age, BreakTurn, Aside
  <2>10. ~Restart
    BY <1>1, <2>1 DEF Restart, Rows
  <2>11. ~UNCHANGED vars
    BY <1>1 DEF vars
  <2> QED BY <1>1, <2>4, <2>5, <2>6, <2>7, <2>8, <2>9, <2>10, <2>11 DEF Next
<1>2. IInv /\ [Next]_vars => [Life!Next]_(row.state)
  BY <1>1
<1> QED BY <1>2, Strengthening, PTL DEF Spec, KeepsLifecycle
=============================================================================
