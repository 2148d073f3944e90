--------------------------- MODULE PeerMirrorProofs ---------------------------
(***************************************************************************)
(* PeerMirror proved for every number of moves over there, frames, faults  *)
(* and doings of the user.                                                 *)
(*                                                                         *)
(* Each reader judges a row it read some time ago by an answer from some   *)
(* other time. What makes that sound is said of each of them: the row is   *)
(* the mirror's own as long as the two have one number, and nobody's       *)
(* answer is ahead of the task.                                            *)
(***************************************************************************)
EXTENDS PeerMirror, TLAPS

Jobs == [pc: Phases, row: Row, got: Snapshot, again: BOOLEAN, path: Seq(States)]
Frames == Snapshot \union {Resync}

(* A row somebody read: past, and the mirror's own under the same number. A   *)
(* binding is only ever gained.                                               *)
Current(r, m) ==
  /\ r.seq <= m.seq
  /\ r.seq = m.seq => r = m
  /\ r.bound = "known" => m.bound = "known"
  /\ r.bound # "none" => m.bound # "none"

(* An answer, or a frame: of the task as it was.                              *)
Past(s, t) ==
  /\ s.at <= t.at /\ s.gen <= t.gen
  /\ s.state = "none" => s.gen = 0
  /\ s.state # "none" => t.state # "none"

(* What a reader holds. Only a mirror that looks for its task is answered that *)
(* there is none; the delegating call reads what was made for it.             *)
JobOK(a, j, m, t) ==
  /\ j \in Jobs
  /\ Current(j.row, m) /\ Past(j.got, t)
  /\ a = "delegate" =>
       /\ j.pc \in {"create", "bind", "fail"} => m.bound = "none"
       /\ j.pc \in {"asked", "got", "change", "step"} => m.bound = "known"
       /\ j.pc \in {"got", "change", "step"} => j.got.state # "none"
  /\ a # "delegate" =>
       /\ j.pc \notin {"create", "bind", "fail"}
       /\ j.pc \in {"asked", "got"} => j.row.bound # "none"
       /\ j.pc = "got" /\ j.row.bound = "known" => j.got.state # "none"
  /\ j.pc \in {"change", "step"} => j.got.state \notin {"none", "gone"}
  /\ j.pc = "step" => j.path # <<>>

ThereOK ==
  /\ there \in Snapshot
  /\ there.gen <= there.at /\ there.ask <= there.at
  /\ there.state = "none" => there.gen = 0
  /\ there.state # "none" => there.at >= 1

MirrorOK ==
  /\ mirror \in Row
  /\ mirror.gen <= there.gen
  /\ mirror.bound = "known" => there.state # "none"
  /\ Current(FirstRow, mirror)

FramesOK(s, t) ==
  /\ s \in [up: BOOLEAN, wire: Seq(Frames)]
  /\ Len(s.wire) <= MaxWire
  /\ \A i \in DOMAIN s.wire : s.wire[i] # Resync => Past(s.wire[i], t) /\ s.wire[i].state # "none"

RestOK ==
  /\ sent \in BOOLEAN /\ old \in BOOLEAN
  /\ link \in {"linked", "revoked", "unlinked"}
  /\ cancel \in {"rest"} \union Bindings \union {"sent"}
  /\ astray \in {"no", "owed", "raced"}
  /\ shown \in 0..there.at

JobsOK ==
  /\ jobs \in [Readers -> Jobs]
  /\ \A a \in Readers : JobOK(a, jobs[a], mirror, there)

IInv == ThereOK /\ MirrorOK /\ FramesOK(socket, there) /\ RestOK /\ JobsOK

-----------------------------------------------------------------------------
(* THE WALKS                                                                  *)

(* Only what is open moves, and into a state.                                 *)
LEMMA MoveIsOpen ==
  ASSUME NEW from, NEW to, CanMoveTo(from, to)
  PROVE  to \in States /\ ~IsTerminal(from)
BY DEF CanMoveTo, IsTerminal, States, OpenStates, TerminalStates, ActiveStates

LEMMA RanksAre ==
  /\ Rank("queued") = 1 /\ Rank("dispatching") = 2 /\ Rank("working") = 3
  /\ Rank("waiting") = 4 /\ Rank("idle_unconfirmed") = 5
<1>1. Len(OpenOrder) = 5 /\ OpenOrder[1] = "queued" /\ OpenOrder[2] = "dispatching" /\ OpenOrder[3] = "working"
      /\ OpenOrder[4] = "waiting" /\ OpenOrder[5] = "idle_unconfirmed"
  BY DEF OpenOrder
<1>2. 1..5 = {1, 2, 3, 4, 5}
  OBVIOUS
<1>3. \A k \in 1..5 : \A s : OpenOrder[k] = s /\ (\A i \in 1..5 : OpenOrder[i] = s => i = k) => Rank(s) = k
  BY <1>1 DEF Rank
<1> QED BY <1>1, <1>2, <1>3

(* Of some states, one comes before the others.                               *)
LEMMA FirstOfThem ==
  ASSUME NEW S \in SUBSET OpenStates, S # {}
  PROVE  \E x \in S : \A y \in S : y # x => Rank(x) < Rank(y)
<1>1. CASE "queued" \in S
  BY <1>1, RanksAre DEF OpenStates
<1>2. CASE "queued" \notin S /\ "dispatching" \in S
  BY <1>2, RanksAre DEF OpenStates
<1>3. CASE "queued" \notin S /\ "dispatching" \notin S /\ "working" \in S
  BY <1>3, RanksAre DEF OpenStates
<1>4. CASE "queued" \notin S /\ "dispatching" \notin S /\ "working" \notin S /\ "waiting" \in S
  BY <1>4, RanksAre DEF OpenStates
<1>5. CASE S = {"idle_unconfirmed"}
  BY <1>5
<1> QED BY <1>1, <1>2, <1>3, <1>4, <1>5 DEF OpenStates

(* Of some walks of one length, the search finds one first.                   *)
LEMMA FirstWalk ==
  ASSUME NEW n \in 0..2, NEW ws \in SUBSET [1..n -> OpenStates], ws # {}
  PROVE  \E v \in ws : \A w \in ws : FoundFirst(v, w)
<1>1. CASE n = 0
  <2>1. \A v, w \in ws : v = w
    BY <1>1
  <2> QED BY <2>1 DEF FoundFirst
<1>2. CASE n # 0
  <2> DEFINE heads == {w[1] : w \in ws}
  <2>1. n \in {1, 2} /\ 1 \in 1..n /\ \A w \in ws : DOMAIN w = 1..n /\ w[1] \in OpenStates
    BY <1>2
  <2>2. heads \in SUBSET OpenStates /\ heads # {}
    BY <2>1
  <2> HIDE DEF heads
  <2>3. PICK x \in heads : \A y \in heads : y # x => Rank(x) < Rank(y)
    BY <2>2, FirstOfThem
  <2> DEFINE vs == {w \in ws : w[1] = x}
  <2>4. \A v \in vs : \A w \in ws : w[1] # x => FoundFirst(v, w)
    <3> SUFFICES ASSUME NEW v \in vs, NEW w \in ws, w[1] # x PROVE FoundFirst(v, w)
      OBVIOUS
    <3>1. Rank(v[1]) < Rank(w[1])
      BY <2>3 DEF heads
    <3>2. 1 \in DOMAIN v /\ \A j \in 1..(1 - 1) : v[j] = w[j]
      BY <2>1
    <3> QED BY <3>1, <3>2 DEF FoundFirst
  <2>5. vs # {} /\ vs \subseteq ws
    BY <2>3 DEF heads
  <2>6. CASE n = 1
    <3>1. \A v, w \in vs : v = w
      <4> SUFFICES ASSUME NEW v \in vs, NEW w \in vs PROVE v = w
        OBVIOUS
      <4>1. v \in [1..1 -> OpenStates] /\ w \in [1..1 -> OpenStates] /\ v[1] = w[1]
        BY <2>6
      <4>2. \A i \in 1..1 : v[i] = w[i]
        BY <4>1
      <4> QED BY <4>1, <4>2
    <3>2. \A v, w \in vs : FoundFirst(v, w)
      BY <3>1 DEF FoundFirst
    <3> QED BY <2>4, <2>5, <3>2
  <2>7. CASE n = 2
    <3> DEFINE seconds == {w[2] : w \in vs}
    <3>1. seconds \in SUBSET OpenStates /\ seconds # {}
      BY <2>5, <2>7
    <3> HIDE DEF seconds
    <3>2. PICK z \in seconds : \A y \in seconds : y # z => Rank(z) < Rank(y)
      BY <3>1, FirstOfThem
    <3>3. PICK v \in vs : v[2] = z
      BY <3>2 DEF seconds
    <3>4. \A w \in vs : FoundFirst(v, w)
      <4> SUFFICES ASSUME NEW w \in vs PROVE FoundFirst(v, w)
        OBVIOUS
      <4>1. v \in [1..2 -> OpenStates] /\ w \in [1..2 -> OpenStates] /\ v[1] = w[1]
        BY <2>7
      <4>2. CASE w[2] = z
        <5>1. \A i \in 1..2 : v[i] = w[i]
          BY <3>3, <4>1, <4>2
        <5>2. v = w
          BY <4>1, <5>1
        <5> QED BY <5>2 DEF FoundFirst
      <4>3. CASE w[2] # z
        <5>1. Rank(v[2]) < Rank(w[2])
          BY <3>2, <3>3, <4>3 DEF seconds
        <5>2. 2 \in DOMAIN v /\ \A j \in 1..(2 - 1) : v[j] = w[j]
          BY <4>1
        <5> QED BY <5>1, <5>2 DEF FoundFirst
      <4> QED BY <4>2, <4>3
    <3> QED BY <2>4, <2>5, <3>4
  <2> QED BY <2>1, <2>6, <2>7
<1> QED BY <1>1, <1>2

(* A walk passes open states.                                                 *)
LEMMA StepsAreOpen ==
  ASSUME NEW from \in States, NEW to \in States
  PROVE  StepsBetween[from][to] \in Seq(OpenStates)
<1> DEFINE p == Passed(from, to)
           lengths == {n \in 0..MaxPassed : Walks(from, to, n) # {}}
<1>1. StepsBetween[from][to] = p
  BY DEF StepsBetween
<1>2. CASE lengths = {}
  <2>1. p = <<>>
    BY <1>2 DEF Passed
  <2> QED BY <1>1, <2>1
<1>3. CASE lengths # {}
  <2> DEFINE n == CHOOSE n \in lengths : \A m \in lengths : n <= m
             ws == Walks(from, to, n)
  <2>1. lengths \subseteq {0, 1, 2}
    BY DEF MaxPassed
  <2>2. \E k \in lengths : \A m \in lengths : k <= m
    <3> HIDE DEF lengths
    <3>1. CASE 0 \in lengths
      BY <2>1, <3>1
    <3>2. CASE 0 \notin lengths /\ 1 \in lengths
      BY <2>1, <3>2
    <3>3. CASE 0 \notin lengths /\ 1 \notin lengths
      <4>1. PICK k \in lengths : TRUE
        BY <1>3
      <4>2. \A m \in lengths : m = 2
        BY <2>1, <3>3
      <4> QED BY <4>1, <4>2
    <3> QED BY <3>1, <3>2, <3>3
  <2>3. n \in lengths
    <3> HIDE DEF lengths
    <3> QED BY <2>2
  <2>4. p = CHOOSE v \in ws : \A w \in ws : FoundFirst(v, w)
    BY <1>3 DEF Passed
  <2>5. n \in 0..2 /\ ws # {}
    BY <2>3 DEF MaxPassed
  <2> HIDE DEF n, p
  <2>6. ws \in SUBSET [1..n -> OpenStates]
    BY DEF Walks
  <2> HIDE DEF ws
  <2>7. p \in ws
    <3>1. \E v \in ws : \A w \in ws : FoundFirst(v, w)
      BY <2>5, <2>6, FirstWalk
    <3> QED BY <2>4, <3>1
  <2>8. p \in [1..n -> OpenStates] /\ n \in Nat
    BY <2>5, <2>6, <2>7
  <2>9. p \in Seq(OpenStates)
    BY <2>8
  <2> QED BY <1>1, <2>9 DEF p
<1> QED BY <1>2, <1>3

LEMMA WalkIs ==
  ASSUME mirror.state \in States, NEW to \in States
  PROVE  Walk(to) \in Seq(States) /\ Walk(to) # <<>>
<1> DEFINE between == StepsBetween[mirror.state][to]
<1>1. between \in Seq(States)
  <2>1. between \in Seq(OpenStates)
    BY StepsAreOpen
  <2>2. OpenStates \subseteq States
    BY DEF States
  <2> HIDE DEF between
  <2> QED BY <2>1, <2>2
<1>2. Walk(to) = Append(between, to)
  BY DEF Walk
<1> HIDE DEF between
<1> QED BY <1>1, <1>2

-----------------------------------------------------------------------------
(* WHAT GOES ON, STAYS PAST                                                   *)

(* A mirror that moved has a new number, and what it was bound to.            *)
MirrorOn(m, n) ==
  \/ n = m
  \/ /\ n.seq > m.seq
     /\ m.bound = "known" => n.bound = "known"
     /\ m.bound # "none" => n.bound # "none"

ThereOn(t, u) ==
  /\ t.at <= u.at /\ t.gen <= u.gen
  /\ t.state # "none" => u.state # "none"

LEMMA RowStays ==
  ASSUME NEW r \in Row, NEW m \in Row, NEW n \in Row, Current(r, m), MirrorOn(m, n)
  PROVE  Current(r, n)
BY DEF Current, MirrorOn, Row

LEMMA AnswerStays ==
  ASSUME NEW s \in Snapshot, NEW t \in Snapshot, NEW u \in Snapshot, Past(s, t), ThereOn(t, u)
  PROVE  Past(s, u)
BY MirrorAssumption DEF Past, ThereOn, Snapshot

LEMMA JobStays ==
  ASSUME NEW a, NEW j, NEW m \in Row, NEW n \in Row, NEW t \in Snapshot, NEW u \in Snapshot,
         JobOK(a, j, m, t), MirrorOn(m, n), ThereOn(t, u),
         a = "delegate" /\ m.bound = "none" => n.bound = "none"
  PROVE  JobOK(a, j, n, u)
<1>1. j.row \in Row /\ j.got \in Snapshot
  BY DEF JobOK, Jobs
<1>2. Current(j.row, n) /\ Past(j.got, u)
  BY <1>1, RowStays, AnswerStays DEF JobOK
<1>3. m.bound = "known" => n.bound = "known"
  BY DEF MirrorOn
<1> QED BY <1>2, <1>3 DEF JobOK

LEMMA FramesStay ==
  ASSUME NEW s, NEW t \in Snapshot, NEW u \in Snapshot, FramesOK(s, t), ThereOn(t, u)
  PROVE  FramesOK(s, u)
<1>1. \A i \in DOMAIN s.wire : s.wire[i] # Resync => s.wire[i] \in Snapshot
  BY DEF FramesOK, Frames
<1> QED BY <1>1, AnswerStays DEF FramesOK

(* A step is checked by what it does to the rows and the answers, and to the   *)
(* jobs it changes.                                                           *)
LEMMA StepKeeps ==
  ASSUME IInv, ThereOK', MirrorOK', FramesOK(socket', there'), RestOK',
         MirrorOn(mirror, mirror'), ThereOn(there, there'),
         jobs' \in [Readers -> Jobs],
         \A a \in Readers : \/ JobOK(a, jobs'[a], mirror', there')
                            \/ /\ jobs'[a] = jobs[a]
                               /\ a = "delegate" /\ mirror.bound = "none" => mirror'.bound = "none"
  PROVE  IInv'
<1>1. mirror \in Row /\ mirror' \in Row /\ there \in Snapshot /\ there' \in Snapshot
  BY DEF IInv, MirrorOK, ThereOK
<1>2. ASSUME NEW a \in Readers PROVE JobOK(a, jobs'[a], mirror', there')
  BY <1>1, JobStays DEF IInv, JobsOK
<1> QED BY <1>2 DEF IInv, JobsOK

(* A step that moves neither the mirror nor the task.                          *)
LEMMA QuietKeeps ==
  ASSUME IInv, UNCHANGED <<mirror, there>>, FramesOK(socket', there), RestOK',
         jobs' \in [Readers -> Jobs],
         \A a \in Readers : jobs'[a] = jobs[a] \/ JobOK(a, jobs'[a], mirror, there)
  PROVE  IInv'
<1>1. MirrorOn(mirror, mirror') /\ ThereOn(there, there')
  BY MirrorAssumption DEF MirrorOn, ThereOn, IInv, ThereOK, Snapshot
<1>2. ThereOK' /\ MirrorOK'
  BY DEF IInv, ThereOK, MirrorOK
<1> QED BY <1>1, <1>2, StepKeeps

(* A mirror that moved as it may.                                             *)
LEMMA MirrorKeeps ==
  ASSUME IInv, mirror' \in Row, MirrorOn(mirror, mirror'), mirror'.gen <= there'.gen,
         mirror'.bound = "known" => there'.state # "none"
  PROVE  MirrorOK'
<1>1. FirstRow \in Row /\ mirror \in Row /\ Current(FirstRow, mirror)
  BY MirrorAssumption DEF IInv, MirrorOK, FirstRow, Row, States, OpenStates, Bindings
<1>2. Current(FirstRow, mirror')
  BY <1>1, RowStays
<1> QED BY <1>2 DEF MirrorOK, FirstRow

LEMMA MovedIs ==
  ASSUME mirror \in Row, NEW to \in States, NEW ask \in 0..MaxAt, NEW bound \in Bindings
  PROVE  /\ Moved(to, ask, bound) \in Row
         /\ Moved(to, ask, bound).state = to /\ Moved(to, ask, bound).gen = mirror.gen
         /\ Moved(to, ask, bound).bound = bound
         /\ Moved(to, ask, bound).seq = mirror.seq + 1
<1> DEFINE next == mirror.seq + 1
           n == [mirror EXCEPT !.state = to, !.ask = ask, !.bound = bound, !.seq = next]
<1>1. Moved(to, ask, bound) = n
  BY DEF Moved
<1>2. next \in Nat
  BY DEF Row
<1> HIDE DEF next
<1>3. n \in Row /\ n.state = to /\ n.gen = mirror.gen /\ n.bound = bound /\ n.seq = next
  BY <1>2 DEF Row
<1> QED BY <1>1, <1>3 DEF next

LEMMA MoveKeeps ==
  ASSUME IInv, UNCHANGED there, NEW to \in States, NEW ask \in 0..MaxAt, NEW bound \in Bindings,
         mirror' = Moved(to, ask, bound),
         mirror.bound = "known" => bound = "known",
         mirror.bound # "none" => bound # "none",
         bound = "known" => there.state # "none"
  PROVE  MirrorOK' /\ MirrorOn(mirror, mirror')
<1>1. mirror \in Row /\ mirror.seq \in Nat
  BY DEF IInv, MirrorOK, Row
<1>2. mirror' \in Row /\ mirror'.gen = mirror.gen /\ mirror'.bound = bound /\ mirror'.seq = mirror.seq + 1
  BY <1>1, MovedIs
<1>3. MirrorOn(mirror, mirror')
  BY <1>1, <1>2 DEF MirrorOn
<1>4. MirrorOK'
  BY <1>2, <1>3, MirrorKeeps DEF IInv, MirrorOK
<1> QED BY <1>3, <1>4

LEMMA FailingKeeps ==
  ASSUME IInv, Failing, UNCHANGED there
  PROVE  MirrorOK' /\ MirrorOn(mirror, mirror') /\ mirror'.bound = mirror.bound
<1> DEFINE to == Head(Walk("failed"))
<1>1. mirror \in Row /\ mirror.ask \in 0..MaxAt /\ mirror.bound \in Bindings
  BY DEF IInv, MirrorOK, Row
<1>2. CASE mirror' = mirror
  BY <1>2 DEF IInv, MirrorOK, MirrorOn
<1>3. CASE CanMoveTo(mirror.state, to) /\ mirror' = Moved(to, mirror.ask, mirror.bound)
  <2>1. to \in States
    BY <1>3, MoveIsOpen
  <2> HIDE DEF to
  <2> QED BY <1>1, <1>3, <2>1, MoveKeeps, MovedIs DEF IInv, MirrorOK
<1> QED BY <1>2, <1>3 DEF Failing

-----------------------------------------------------------------------------
(* WHERE A READER GOES                                                        *)

LEMMA FreshJob ==
  ASSUME NEW pc \in {"rest", "next"}, NEW a, NEW m \in Row, NEW t \in Snapshot, Current(FirstRow, m)
  PROVE  JobOK(a, Job(pc), m, t)
<1>1. FirstRow \in Row /\ NoTask \in Snapshot
  BY MirrorAssumption DEF FirstRow, Row, NoTask, Snapshot, RemoteStates, States, OpenStates, Bindings
<1>2. Job(pc) \in Jobs
  BY <1>1 DEF Job, Jobs, Phases
<1>3. Past(NoTask, t)
  BY MirrorAssumption DEF Past, NoTask, Snapshot
<1> QED BY <1>2, <1>3 DEF JobOK, Job

(* A read that goes out.                                                      *)
LEMMA ReadJob ==
  ASSUME NEW a, NEW m \in Row, NEW t \in Snapshot, NEW j \in Jobs, j.pc = "asked", j.got = NoTask,
         Current(j.row, m),
         a = "delegate" => m.bound = "known",
         a # "delegate" => j.row.bound # "none"
  PROVE  JobOK(a, j, m, t)
<1>1. Past(NoTask, t)
  BY MirrorAssumption DEF Past, NoTask, Snapshot
<1> QED BY <1>1 DEF JobOK

LEMMA NewJob ==
  ASSUME NEW pc \in Phases
  PROVE  /\ Job(pc) \in Jobs /\ Job(pc).pc = pc /\ Job(pc).got = NoTask
         /\ Job(pc).row = FirstRow /\ Job(pc).path = <<>>
<1>1. FirstRow \in Row /\ NoTask \in Snapshot
  BY MirrorAssumption DEF FirstRow, Row, NoTask, Snapshot, RemoteStates, States, OpenStates, Bindings
<1>2. <<>> \in Seq(States) /\ FALSE \in BOOLEAN
  OBVIOUS
<1> QED BY <1>1, <1>2 DEF Job, Jobs

LEMMA CurrentSelf ==
  ASSUME NEW m \in Row
  PROVE  Current(m, m)
BY DEF Current, Row

(* The follower is started unless it runs; no one else's job changes.         *)
LEMMA WatchingKeeps ==
  ASSUME NEW js \in [Readers -> Jobs], NEW m \in Row, NEW t \in Snapshot, Current(FirstRow, m)
  PROVE  /\ Watching(js) \in [Readers -> Jobs]
         /\ \A b \in Readers : Watching(js)[b] = js[b] \/ JobOK(b, Watching(js)[b], m, t)
<1>1. \A b : JobOK(b, Job("next"), m, t)
  BY FreshJob
<1>2. Job("next") \in Jobs
  BY <1>1 DEF JobOK
<1>3. CASE js["follower"].pc = "rest"
  BY <1>1, <1>2, <1>3 DEF Watching, Readers
<1>4. CASE js["follower"].pc # "rest"
  BY <1>4 DEF Watching
<1> QED BY <1>3, <1>4

LEMMA ThroughKeeps ==
  ASSUME IInv, NEW a \in Readers, NEW m \in Row, NEW t \in Snapshot, Current(FirstRow, m),
         a = "delegate" => m.bound = "known"
  PROVE  /\ Through(a) \in [Readers -> Jobs]
         /\ \A b \in Readers : \/ b # a /\ Through(a)[b] = jobs[b]
                               \/ JobOK(b, Through(a)[b], m, t)
<1>0. jobs \in [Readers -> Jobs]
  BY DEF IInv, JobsOK
<1>1. /\ \A b : JobOK(b, Job("next"), m, t) /\ JobOK(b, Job("rest"), m, t)
      /\ Job("next") \in Jobs /\ Job("rest") \in Jobs
  <2>1. \A b : JobOK(b, Job("next"), m, t) /\ JobOK(b, Job("rest"), m, t)
    BY FreshJob
  <2> QED BY <2>1 DEF JobOK
<1>2. CASE a = "follower"
  BY <1>0, <1>1, <1>2 DEF Through
<1>3. CASE a = "delegate" /\ ~jobs[a].again
  <2> DEFINE j == [Job("asked") EXCEPT !.again = TRUE]
  <2>4. j \in Jobs /\ j.pc = "asked" /\ j.got = NoTask /\ j.row = FirstRow
    <3>1. "asked" \in Phases
      BY DEF Phases
    <3>2. /\ Job("asked") \in Jobs /\ Job("asked").pc = "asked"
          /\ Job("asked").got = NoTask /\ Job("asked").row = FirstRow
      BY <3>1, NewJob
    <3> HIDE DEF Job
    <3> QED BY <3>2 DEF Jobs
  <2>3. JobOK(a, j, m, t)
    BY <1>3, <2>4, ReadJob
  <2> HIDE DEF j
  <2>5. Through(a) = [jobs EXCEPT ![a] = j]
    BY <1>3 DEF Through, j
  <2> QED BY <1>0, <2>3, <2>4, <2>5
<1>4. CASE a # "follower" /\ ~(a = "delegate" /\ ~jobs[a].again)
  <2> DEFINE js == [jobs EXCEPT ![a] = Job("rest")]
  <2>1. js \in [Readers -> Jobs]
    BY <1>0, <1>1
  <2>2. Through(a) = Watching(js)
    BY <1>4 DEF Through
  <2>3. \A b \in Readers : (b # a /\ js[b] = jobs[b]) \/ JobOK(b, js[b], m, t)
    BY <1>0, <1>1
  <2> HIDE DEF js
  <2> QED BY <2>1, <2>2, <2>3, WatchingKeeps
<1> QED BY <1>2, <1>3, <1>4

-----------------------------------------------------------------------------
(* THE COMPUTER OVER THERE                                                    *)

(* Its task moves: a frame on the socket, and every answer stays past.         *)
LEMMA BecomesKeeps ==
  ASSUME IInv, NEW snap \in Snapshot, Becomes(snap), snap.state # "none", snap.at >= 1,
         snap.gen <= snap.at, snap.ask <= snap.at, ThereOn(there, snap),
         UNCHANGED <<mirror, jobs>>, RestOK'
  PROVE  IInv'
<1>1. there' = snap /\ socket' = Framed(snap)
  BY DEF Becomes
<1>2. ThereOK' /\ MirrorOK'
  BY <1>1, MirrorAssumption DEF IInv, ThereOK, MirrorOK, ThereOn, Snapshot, Row
<1>3. FramesOK(socket, there') /\ Past(snap, there')
  BY <1>1, FramesStay, MirrorAssumption DEF IInv, ThereOK, Past, Snapshot
<1>4. FramesOK(socket', there')
  <2>1. socket \in [up: BOOLEAN, wire: Seq(Frames)] /\ Len(socket.wire) <= MaxWire
    BY <1>3 DEF FramesOK
  <2>2. CASE ~socket.up
    BY <1>1, <1>3, <2>2 DEF Framed
  <2>3. CASE socket.up /\ Len(socket.wire) < MaxWire
    <3>1. socket' = [socket EXCEPT !.wire = Append(socket.wire, snap)]
      BY <1>1, <2>3 DEF Framed
    <3>2. snap \in Frames
      BY DEF Frames
    <3>3. /\ socket'.wire = Append(socket.wire, snap) /\ socket' \in [up: BOOLEAN, wire: Seq(Frames)]
          /\ Len(socket'.wire) <= MaxWire
      <4>1. /\ Append(socket.wire, snap) \in Seq(Frames)
            /\ Len(Append(socket.wire, snap)) = Len(socket.wire) + 1
        BY <2>1, <3>2
      <4>2. Len(socket.wire) \in Nat
        BY <2>1
      <4>3. /\ socket'.wire = Append(socket.wire, snap) /\ socket' \in [up: BOOLEAN, wire: Seq(Frames)]
        BY <2>1, <3>1, <4>1
      <4> QED BY <2>3, <4>1, <4>2, <4>3, MirrorAssumption
    <3> QED BY <1>3, <2>1, <3>3 DEF FramesOK
  <2>4. CASE socket.up /\ ~(Len(socket.wire) < MaxWire)
    <3>1. socket' = [socket EXCEPT !.wire = <<Resync>>]
      BY <1>1, <2>4 DEF Framed
    <3>2. <<Resync>> \in Seq(Frames) /\ Len(<<Resync>>) = 1 /\ <<Resync>>[1] = Resync
      BY DEF Frames
    <3>3. socket' \in [up: BOOLEAN, wire: Seq(Frames)] /\ socket'.wire = <<Resync>>
      BY <2>1, <3>1, <3>2
    <3>4. DOMAIN <<Resync>> = {1}
      OBVIOUS
    <3> QED BY <3>2, <3>3, <3>4, MirrorAssumption DEF FramesOK
  <2> QED BY <2>2, <2>3, <2>4
<1>5. MirrorOn(mirror, mirror') /\ ThereOn(there, there')
  BY <1>1 DEF MirrorOn
<1> QED BY <1>2, <1>4, <1>5, StepKeeps DEF IInv, JobsOK

(* The next move of a task.                                                    *)
LEMMA LaterIs ==
  ASSUME there \in Snapshot, there.at < MaxAt
  PROVE  /\ Later \in Snapshot /\ Later.at = there.at + 1
         /\ Later.gen = there.gen /\ Later.ask = there.ask
<1> DEFINE next == there.at + 1
<1>1. next \in 0..MaxAt
  BY MirrorAssumption DEF Snapshot
<1> HIDE DEF next
<1>2. Later = [there EXCEPT !.at = next]
  BY DEF Later, next
<1>3. Later \in Snapshot /\ Later.at = next /\ Later.gen = there.gen /\ Later.ask = there.ask
  BY <1>1, <1>2 DEF Snapshot
<1> QED BY <1>3 DEF next

LEMMA ThereTakesKeeps == IInv /\ ThereTakes => IInv'
<1> SUFFICES ASSUME IInv, ThereTakes PROVE IInv'
  OBVIOUS
<1> DEFINE snap == [Later EXCEPT !.state = "dispatching"]
<1>1. /\ snap \in Snapshot /\ snap.state = "dispatching" /\ snap.at = there.at + 1
      /\ snap.gen = there.gen /\ snap.ask = there.ask
  <2>1. "dispatching" \in RemoteStates
    BY DEF RemoteStates, States, OpenStates
  <2>2. there \in Snapshot /\ there.at < MaxAt
    BY DEF ThereTakes, IInv, ThereOK
  <2> QED BY <2>1, <2>2, LaterIs DEF Snapshot
<1>2. Becomes(snap) /\ UNCHANGED <<mirror, jobs>>
  BY DEF ThereTakes
<1> HIDE DEF snap
<1>3. there.at \in Nat /\ there.gen \in Nat /\ there.ask \in Nat
  BY MirrorAssumption DEF IInv, ThereOK, Snapshot
<1>4. there' = snap
  BY <1>2 DEF Becomes
<1>5. RestOK'
  <2>1. there'.at = there.at + 1
    BY <1>1, <1>4
  <2>2. shown \in 0..there.at => shown \in 0..(there.at + 1)
    BY <1>3
  <2> QED BY <2>1, <2>2 DEF ThereTakes, IInv, RestOK
<1> QED BY <1>1, <1>2, <1>3, <1>5, BecomesKeeps DEF ThereOn, IInv, ThereOK

LEMMA ThereMovesKeeps == IInv /\ ThereMoves => IInv'
<1> SUFFICES ASSUME IInv, ThereMoves PROVE IInv'
  OBVIOUS
<1>1. there.at \in Nat /\ there.gen \in Nat /\ there.ask \in Nat /\ there.at < MaxAt /\ there \in Snapshot
      /\ there.gen <= there.at /\ there.ask <= there.at
  BY MirrorAssumption DEF IInv, ThereOK, Snapshot, ThereMoves
<1>2. PICK snap \in { [Later EXCEPT !.state = "working"],
                      [Later EXCEPT !.state = "waiting", !.ask = @ + 1],
                      [Later EXCEPT !.state = "done"],
                      [Later EXCEPT !.state = "working", !.gen = @ + 1] } : Becomes(snap)
  BY DEF ThereMoves
<1>3. /\ snap \in Snapshot /\ snap.state \in States /\ snap.at = there.at + 1
      /\ snap.gen \in {there.gen, there.gen + 1} /\ snap.ask \in {there.ask, there.ask + 1}
  <2> DEFINE ask == Later.ask + 1
             gen == Later.gen + 1
  <2>1. Later \in Snapshot /\ Later.at = there.at + 1 /\ Later.gen = there.gen /\ Later.ask = there.ask
    BY <1>1, LaterIs
  <2>2. ask \in 0..MaxAt /\ gen \in 0..MaxAt
    BY <1>1, <2>1, MirrorAssumption
  <2>3. {"working", "waiting", "done"} \subseteq States
    BY DEF States, OpenStates, TerminalStates
  <2>4. snap \in { [Later EXCEPT !.state = "working"], [Later EXCEPT !.state = "waiting", !.ask = ask],
                    [Later EXCEPT !.state = "done"], [Later EXCEPT !.state = "working", !.gen = gen] }
    BY <1>2
  <2> HIDE DEF ask, gen
  <2>5. /\ snap \in Snapshot /\ snap.state \in {"working", "waiting", "done"} /\ snap.at = Later.at
        /\ snap.gen \in {Later.gen, gen} /\ snap.ask \in {Later.ask, ask}
    BY <2>1, <2>2, <2>3, <2>4 DEF Snapshot, RemoteStates
  <2> QED BY <2>1, <2>3, <2>5 DEF ask, gen
<1>4. there' = snap
  BY <1>2 DEF Becomes
<1>5. RestOK'
  BY <1>1, <1>3, <1>4 DEF ThereMoves, IInv, RestOK
<1>6. snap.state # "none" /\ snap.at >= 1 /\ snap.gen <= snap.at /\ snap.ask <= snap.at
      /\ ThereOn(there, snap)
  BY <1>1, <1>3 DEF States, OpenStates, TerminalStates, ThereOn
<1> QED BY <1>2, <1>3, <1>5, <1>6, BecomesKeeps DEF ThereMoves

LEMMA CancelForwardsKeeps == IInv /\ CancelForwards => IInv'
<1> SUFFICES ASSUME IInv, CancelForwards PROVE IInv'
  OBVIOUS
<1>1. there.at \in Nat /\ there.gen \in Nat /\ there.ask \in Nat /\ there \in Snapshot
      /\ there.gen <= there.at /\ there.ask <= there.at
  BY MirrorAssumption DEF IInv, ThereOK, Snapshot
<1>2. CASE UNCHANGED <<there, socket>>
  <2>1. RestOK'
    BY <1>2 DEF CancelForwards, IInv, RestOK
  <2> QED BY <1>2, <2>1, QuietKeeps DEF CancelForwards, IInv, JobsOK
<1>3. CASE there.at < MaxAt /\ Becomes([Later EXCEPT !.state = "cancelled"])
  <2> DEFINE snap == [Later EXCEPT !.state = "cancelled"]
  <2>1. /\ snap \in Snapshot /\ snap.state = "cancelled" /\ snap.at = there.at + 1
        /\ snap.gen = there.gen /\ snap.ask = there.ask
    <3>1. "cancelled" \in RemoteStates
      BY DEF RemoteStates, States, TerminalStates
    <3> QED BY <1>1, <1>3, <3>1, LaterIs DEF Snapshot
  <2> HIDE DEF snap
  <2>2. there' = snap
    BY <1>3 DEF Becomes, snap
  <2>3. RestOK'
    BY <1>1, <2>1, <2>2 DEF CancelForwards, IInv, RestOK
  <2>4. ThereOn(there, snap) /\ snap.at >= 1 /\ snap.gen <= snap.at /\ snap.ask <= snap.at
    BY <1>1, <2>1 DEF ThereOn
  <2>5. Becomes(snap) /\ UNCHANGED <<mirror, jobs>>
    BY <1>3 DEF snap, CancelForwards
  <2> QED BY <2>1, <2>3, <2>4, <2>5, BecomesKeeps
<1> QED BY <1>2, <1>3 DEF CancelForwards

LEMMA ThereForgetsKeeps == IInv /\ ThereForgets => IInv'
<1> SUFFICES ASSUME IInv, ThereForgets PROVE IInv'
  OBVIOUS
<1>1. there \in Snapshot /\ there.state # "none" /\ there' = [there EXCEPT !.state = "gone"]
  BY DEF ThereForgets, IInv, ThereOK, TerminalStates
<1>2. /\ there' \in Snapshot /\ there'.state = "gone" /\ there'.at = there.at
      /\ there'.gen = there.gen /\ there'.ask = there.ask
  BY <1>1 DEF Snapshot, RemoteStates
<1>3. ThereOn(there, there') /\ MirrorOn(mirror, mirror') /\ FramesOK(socket', there')
  <2>1. ThereOn(there, there')
    BY <1>1, <1>2, MirrorAssumption DEF ThereOn, Snapshot
  <2> QED BY <1>1, <1>2, <2>1, FramesStay DEF ThereForgets, MirrorOn, IInv
<1>4. ThereOK' /\ MirrorOK' /\ RestOK'
  BY <1>1, <1>2 DEF ThereForgets, IInv, ThereOK, MirrorOK, RestOK
<1> QED BY <1>3, <1>4, StepKeeps DEF ThereForgets, IInv, JobsOK

-----------------------------------------------------------------------------
(* THE READERS                                                                *)

LEMMA ThereAnswersKeeps ==
  ASSUME IInv, NEW a \in Readers, ThereAnswers(a)
  PROVE  IInv'
<1> DEFINE j == [jobs[a] EXCEPT !.pc = "got", !.got = there]
<1>1. jobs[a] \in Jobs /\ jobs[a].pc = "asked" /\ JobOK(a, jobs[a], mirror, there) /\ there \in Snapshot
  BY DEF IInv, JobsOK, ThereOK, ThereAnswers, At
<1>2. j \in Jobs /\ j.pc = "got" /\ j.got = there /\ j.row = jobs[a].row
  BY <1>1 DEF Jobs, Phases
<1> HIDE DEF j
<1>3. jobs' = [jobs EXCEPT ![a] = j]
  BY DEF ThereAnswers, j
<1>4. Past(there, there)
  BY <1>1, MirrorAssumption DEF Past, IInv, ThereOK, Snapshot
<1>5. JobOK(a, j, mirror, there)
  BY <1>1, <1>2, <1>4 DEF JobOK, Current, IInv, MirrorOK
<1>6. RestOK'
  BY DEF ThereAnswers, Paid, IInv, RestOK
<1> QED BY <1>2, <1>3, <1>5, <1>6, QuietKeeps DEF ThereAnswers, IInv, JobsOK

(* A reader that is through, whatever it made of the mirror.                   *)
LEMMA ThroughStep ==
  ASSUME IInv, NEW a \in Readers, jobs[a].pc \in {"asked", "got", "change", "step"},
         jobs' = Through(a), UNCHANGED <<there, socket>>, MirrorOK', MirrorOn(mirror, mirror'),
         mirror.bound = "none" => mirror'.bound = "none", RestOK'
  PROVE  IInv'
<1>1. mirror \in Row /\ mirror' \in Row /\ there \in Snapshot /\ Current(FirstRow, mirror')
  BY DEF IInv, MirrorOK, ThereOK, FirstRow
<1>2. a = "delegate" => mirror'.bound = "known"
  BY DEF IInv, JobsOK, JobOK, MirrorOn
<1>3. /\ jobs' \in [Readers -> Jobs]
      /\ \A b \in Readers : (b # a /\ jobs'[b] = jobs[b]) \/ JobOK(b, jobs'[b], mirror', there)
  BY <1>1, <1>2, ThroughKeeps
<1>4. ThereOn(there, there') /\ ThereOK' /\ FramesOK(socket', there')
  BY MirrorAssumption DEF ThereOn, IInv, ThereOK, Snapshot
<1> QED BY <1>3, <1>4, StepKeeps

(* A reader that lets go, with the follower watching.                          *)
LEMMA RestsWatched ==
  ASSUME IInv, NEW a \in Readers, NEW m \in Row, NEW t \in Snapshot, Current(FirstRow, m)
  PROVE  LET js == Watching([jobs EXCEPT ![a] = Job("rest")]) IN
         /\ js \in [Readers -> Jobs]
         /\ \A b \in Readers : (b # a /\ js[b] = jobs[b]) \/ JobOK(b, js[b], m, t)
<1> DEFINE js == [jobs EXCEPT ![a] = Job("rest")]
<1>1. \A b : JobOK(b, Job("rest"), m, t)
  BY FreshJob
<1>2. js \in [Readers -> Jobs] /\ \A b \in Readers : (b # a /\ js[b] = jobs[b]) \/ JobOK(b, js[b], m, t)
  BY <1>1 DEF IInv, JobsOK, JobOK
<1> HIDE DEF js
<1>3. /\ Watching(js) \in [Readers -> Jobs]
      /\ \A b \in Readers : (b # a /\ Watching(js)[b] = jobs[b]) \/ JobOK(b, Watching(js)[b], m, t)
  BY <1>2, WatchingKeeps
<1> QED BY <1>3 DEF js

LEMMA RestsKeeps ==
  ASSUME IInv, NEW a \in Readers, jobs' = Watching([jobs EXCEPT ![a] = Job("rest")]),
         UNCHANGED <<mirror, there, socket>>, RestOK'
  PROVE  IInv'
<1>1. mirror \in Row /\ there \in Snapshot /\ Current(FirstRow, mirror)
  BY DEF IInv, MirrorOK, ThereOK
<1> QED BY <1>1, RestsWatched, QuietKeeps DEF IInv

LEMMA SameMirror == IInv /\ UNCHANGED <<mirror, there>> => MirrorOK' /\ MirrorOn(mirror, mirror')
BY DEF IInv, MirrorOK, MirrorOn

(* What is shown is of the task as it was, or nothing.                         *)
LEMMA ShowsKeeps ==
  ASSUME IInv, NEW at \in 0..there.at, NEW races, Shows(at, races),
         UNCHANGED <<there, sent, link, cancel, old>>
  PROVE  RestOK'
<1>1. there.at \in Nat
  BY MirrorAssumption DEF IInv, ThereOK, Snapshot
<1>2. shown' \in 0..there.at /\ astray' \in {"no", "owed", "raced"}
  BY <1>1 DEF Shows, IInv, RestOK
<1> QED BY <1>2 DEF IInv, RestOK

(* An answer is not ahead of the task.                                        *)
LEMMA AnswerAt ==
  ASSUME IInv, NEW a \in Readers
  PROVE  jobs[a].got.at \in 0..there.at /\ shown \in 0..there.at
BY MirrorAssumption DEF IInv, JobsOK, JobOK, Jobs, Snapshot, Past, ThereOK, RestOK

LEMMA ReaderDropsKeeps ==
  ASSUME IInv, NEW a \in Readers, ReaderDrops(a)
  PROVE  IInv'
<1> DEFINE at == IF jobs[a].got.at > shown THEN jobs[a].got.at ELSE shown
<1>1. at \in 0..there.at
  BY AnswerAt
<1>2. Shows(at, Held(a).seq # mirror.seq)
  BY DEF ReaderDrops
<1> HIDE DEF at
<1>3. RestOK'
  BY <1>1, <1>2, ShowsKeeps DEF ReaderDrops
<1>4. jobs[a].pc \in {"asked", "got", "change", "step"}
  BY DEF ReaderDrops, At
<1> QED BY <1>3, <1>4, SameMirror, ThroughStep DEF ReaderDrops

LEMMA ReaderLosesKeeps ==
  ASSUME IInv, NEW a \in Readers, ReaderLoses(a)
  PROVE  IInv'
<1>1. RestOK'
  BY AnswerAt, ShowsKeeps DEF ReaderLoses
<1>2. jobs[a].pc \in {"asked", "got", "change", "step"}
  BY DEF ReaderLoses, At
<1> QED BY <1>1, <1>2, FailingKeeps, ThroughStep DEF ReaderLoses

(* What a reader at its answer holds: a row that is current, and bound.        *)
LEMMA HeldIs ==
  ASSUME IInv, NEW a \in Readers, jobs[a].pc = "got"
  PROVE  /\ Held(a) \in Row /\ Current(Held(a), mirror)
         /\ a # "delegate" => Held(a).bound # "none"
         /\ Held(a).bound = "known" \/ a = "delegate" => jobs[a].got.state # "none"
         /\ jobs[a].got \in Snapshot /\ Past(jobs[a].got, there)
<1>1. mirror \in Row /\ Current(mirror, mirror)
  BY CurrentSelf DEF IInv, MirrorOK
<1>2. JobOK(a, jobs[a], mirror, there) /\ jobs[a].row \in Row /\ jobs[a].got \in Snapshot
  BY DEF IInv, JobsOK, Jobs
<1> QED BY <1>1, <1>2 DEF Held, JobOK

LEMMA ReaderReopensKeeps ==
  ASSUME IInv, NEW a \in Readers, ReaderReopens(a)
  PROVE  IInv'
<1> DEFINE row == Held(a)
           got == jobs[a].got
<1>1. /\ jobs[a].pc = "got" /\ ~Lost(a) /\ ~Adopting(a) /\ Resumes(row, got)
      /\ jobs[a] \in Jobs /\ JobOK(a, jobs[a], mirror, there)
  BY DEF ReaderReopens, At, IInv, JobsOK
<1>2. row \in Row /\ got \in Snapshot /\ Past(got, there) /\ Current(row, mirror)
  BY <1>1, HeldIs
<1>3. got.gen \in 0..MaxAt /\ row.gen \in 0..MaxAt /\ got.gen > row.gen /\ got.at \in 0..there.at
      /\ got.gen <= there.gen /\ got.state \notin {"none", "gone"}
  <2>1. got.gen > row.gen /\ got.gen <= there.gen
    BY <1>1, <1>2 DEF Resumes, Past
  <2>2. got.gen \in 0..MaxAt /\ row.gen \in 0..MaxAt /\ got.at \in 0..there.at
    BY <1>2, MirrorAssumption DEF Snapshot, Row, Past, IInv, ThereOK
  <2>3. got.state # "none"
    BY <1>2, <2>1, <2>2, MirrorAssumption DEF Past
  <2>4. got.state # "gone"
    BY <1>1 DEF Lost
  <2> QED BY <2>1, <2>2, <2>3, <2>4
<1>4. RestOK'
  <2> DEFINE at == IF mirror' = mirror THEN shown ELSE got.at
  <2>1. at \in 0..there.at
    BY AnswerAt
  <2>2. Shows(at, Races(row, got))
    BY DEF ReaderReopens
  <2> HIDE DEF at
  <2> QED BY <2>1, <2>2, ShowsKeeps DEF ReaderReopens
<1>5. CASE UNCHANGED mirror /\ jobs' = Through(a)
  BY <1>1, <1>4, <1>5, SameMirror, ThroughStep DEF ReaderReopens
<1>6. CASE /\ row.seq = mirror.seq
           /\ mirror' = [Moved("working", mirror.ask, mirror.bound) EXCEPT !.gen = got.gen]
           /\ \/ jobs' = [jobs EXCEPT ![a].pc = "change", ![a].row = mirror']
              \/ jobs' = Through(a)
  <2> DEFINE moved == Moved("working", mirror.ask, mirror.bound)
             j == [jobs[a] EXCEPT !.pc = "change", !.row = mirror']
  <2>1. mirror \in Row /\ mirror.seq \in Nat /\ mirror.ask \in 0..MaxAt /\ mirror.bound \in Bindings
        /\ "working" \in States
    BY DEF IInv, MirrorOK, Row, States, OpenStates
  <2>2. /\ moved \in Row /\ moved.bound = mirror.bound /\ moved.seq = mirror.seq + 1
    BY <2>1, MovedIs
  <2> HIDE DEF moved
  <2>3. mirror' = [moved EXCEPT !.gen = got.gen]
    BY <1>6 DEF moved
  <2>4. mirror' \in Row /\ mirror'.bound = mirror.bound /\ mirror'.seq = mirror.seq + 1 /\ mirror'.gen = got.gen
    BY <1>3, <2>2, <2>3 DEF Row
  <2>5. MirrorOn(mirror, mirror') /\ MirrorOK'
    <3>1. MirrorOn(mirror, mirror')
      BY <2>1, <2>4 DEF MirrorOn
    <3>2. there' = there
      BY DEF ReaderReopens
    <3> QED BY <1>3, <2>4, <3>1, <3>2, MirrorKeeps DEF IInv, MirrorOK
  <2>6. j \in Jobs /\ j.pc = "change" /\ j.row = mirror' /\ j.got = got
    BY <1>1, <2>4 DEF Jobs, Phases
  <2>7. JobOK(a, j, mirror', there)
    <3>1. Current(mirror', mirror')
      BY <2>4, CurrentSelf
    <3>2. a = "delegate" => mirror'.bound = "known"
      BY <1>1, <2>4 DEF JobOK
    <3> QED BY <1>2, <1>3, <2>6, <3>1, <3>2 DEF JobOK
  <2> HIDE DEF j
  <2>8. CASE jobs' = Through(a)
    <3>1. mirror.bound = "none" => mirror'.bound = "none"
      BY <2>4
    <3> QED BY <1>1, <1>4, <2>5, <2>8, <3>1, ThroughStep DEF ReaderReopens
  <2>9. CASE jobs' = [jobs EXCEPT ![a].pc = "change", ![a].row = mirror']
    <3>1. jobs' = [jobs EXCEPT ![a] = j]
      BY <2>9 DEF j, IInv, JobsOK, Jobs
    <3>2. /\ jobs' \in [Readers -> Jobs]
          /\ \A b \in Readers : (b # a /\ jobs'[b] = jobs[b]) \/ JobOK(b, jobs'[b], mirror', there)
      BY <2>6, <2>7, <3>1 DEF IInv, JobsOK
    <3>3. ThereOn(there, there') /\ ThereOK' /\ FramesOK(socket', there') /\ there' = there
      BY MirrorAssumption DEF ReaderReopens, ThereOn, IInv, ThereOK, Snapshot
    <3> QED BY <1>4, <2>4, <2>5, <3>2, <3>3, StepKeeps
  <2> QED BY <1>6, <2>8, <2>9
<1> QED BY <1>5, <1>6 DEF ReaderReopens

(* The answer a reader plans by is of a task there is.                        *)
LEMMA PlansByTask ==
  ASSUME IInv, NEW a \in Readers, ReaderMoves(a)
  PROVE  /\ jobs[a].got.state \notin {"none", "gone"}
         /\ \A row : To(row, jobs[a].got) \in States
<1> DEFINE got == jobs[a].got
<1>1. \/ jobs[a].pc = "change"
      \/ /\ jobs[a].pc = "got" /\ ~Lost(a)
         /\ Adopting(a) => got.state \notin {"none", "gone"}
  BY DEF ReaderMoves, At
<1>2. JobOK(a, jobs[a], mirror, there) /\ got \in Snapshot
  BY DEF IInv, JobsOK, Jobs
<1>3. got.state \notin {"none", "gone"}
  <2>1. CASE jobs[a].pc = "change"
    BY <1>2, <2>1 DEF JobOK
  <2>2. CASE jobs[a].pc = "got" /\ ~Lost(a) /\ ~Adopting(a)
    <3>1. Held(a) \in Row /\ (Held(a).bound = "known" \/ a = "delegate" => got.state # "none")
          /\ (Held(a).bound # "none" \/ a = "delegate")
      BY <2>2, HeldIs
    <3> QED BY <2>2, <3>1 DEF Lost, Adopting, Row, Bindings
  <2> QED BY <1>1, <2>1, <2>2
<1>4. \A row : To(row, got) \in States
  BY <1>2, <1>3 DEF To, Snapshot, RemoteStates, States, OpenStates
<1> QED BY <1>3, <1>4

LEMMA ReaderMovesKeeps ==
  ASSUME IInv, NEW a \in Readers, ReaderMoves(a)
  PROVE  IInv'
<1> DEFINE row == IF At(a, "change") THEN jobs[a].row ELSE Held(a)
           path == Walk(To(row, jobs[a].got))
           j == [jobs[a] EXCEPT !.pc = "step", !.row = mirror, !.path = path]
<1>1. /\ jobs' = [jobs EXCEPT ![a].pc = "step", ![a].row = mirror, ![a].path = path]
      /\ Shows(shown, Races(row, jobs[a].got)) /\ jobs[a].pc \in {"got", "change"}
      /\ UNCHANGED <<mirror, there, sent, socket, link, cancel, old>>
  BY DEF ReaderMoves, At
<1>2. /\ jobs[a] \in Jobs /\ JobOK(a, jobs[a], mirror, there) /\ mirror \in Row /\ mirror.state \in States
      /\ Current(mirror, mirror)
  BY CurrentSelf DEF IInv, JobsOK, MirrorOK, Row
<1>3. path \in Seq(States) /\ path # <<>> /\ jobs[a].got.state \notin {"none", "gone"}
  BY <1>2, PlansByTask, WalkIs
<1> HIDE DEF row, path
<1>4. j \in Jobs /\ j.pc = "step" /\ j.row = mirror /\ j.got = jobs[a].got /\ j.path = path
  BY <1>2, <1>3 DEF Jobs, Phases
<1>5. JobOK(a, j, mirror, there)
  BY <1>1, <1>2, <1>3, <1>4 DEF JobOK
<1>6. jobs' = [jobs EXCEPT ![a] = j]
  BY <1>1 DEF j, IInv, JobsOK, Jobs
<1> HIDE DEF j
<1>7. RestOK'
  BY <1>1, AnswerAt, ShowsKeeps
<1>8. /\ jobs' \in [Readers -> Jobs]
      /\ \A b \in Readers : jobs'[b] = jobs[b] \/ JobOK(b, jobs'[b], mirror, there)
  BY <1>4, <1>5, <1>6 DEF IInv, JobsOK
<1>9. FramesOK(socket', there)
  BY <1>1 DEF IInv
<1>10. UNCHANGED <<mirror, there>>
  BY <1>1
<1> QED BY <1>7, <1>8, <1>9, <1>10, QuietKeeps

(* A reader on its way: the row it read is current, and its answer of a task.  *)
LEMMA OnItsWay ==
  ASSUME IInv, NEW a \in Readers, At(a, "step")
  PROVE  /\ jobs[a] \in Jobs /\ JobOK(a, jobs[a], mirror, there)
         /\ jobs[a].path \in Seq(States) /\ jobs[a].path # <<>>
         /\ Current(jobs[a].row, mirror) /\ jobs[a].row \in Row
         /\ there.state # "none" /\ jobs[a].got.ask \in 0..MaxAt
         /\ jobs[a].pc = "step" /\ jobs[a].got.state \notin {"none", "gone"}
BY DEF IInv, JobsOK, Jobs, JobOK, At, Past, Snapshot

(* On its way it writes the state alone.                                      *)
LEMMA StepsTo ==
  ASSUME IInv, NEW a \in Readers, ReaderSteps(a)
  PROVE  \E to \in States : /\ CanMoveTo(mirror.state, to)
                            /\ mirror' = Moved(to, mirror.ask, mirror.bound)
<1> DEFINE to == Head(jobs[a].path)
<1>1. CanMoveTo(mirror.state, to) /\ mirror' = Moved(to, mirror.ask, mirror.bound)
  BY DEF ReaderSteps, CanStep
<1>2. to \in States
  BY <1>1, MoveIsOpen
<1> HIDE DEF to
<1> QED BY <1>1, <1>2

(* What a reader takes the mirror to at last: never into having no task, never *)
(* out of having one.                                                         *)
LEMMA ArrivesAt ==
  ASSUME IInv, NEW a \in Readers, ReaderArrives(a)
  PROVE  \E to \in States, ask \in 0..MaxAt, bound \in Bindings :
           /\ CanMoveTo(mirror.state, to) /\ mirror' = Moved(to, ask, bound)
           /\ mirror.bound = "known" => bound = "known"
           /\ mirror.bound # "none" => bound # "none"
           /\ bound = "known" => there.state # "none"
           /\ mirror.bound = "none" => bound = "none"
<1> DEFINE to == Head(jobs[a].path)
           bound == IF jobs[a].row.bound = "unknown" THEN "known" ELSE mirror.bound
           ask == jobs[a].got.ask
<1>1. CanMoveTo(mirror.state, to) /\ mirror' = Moved(to, ask, bound) /\ At(a, "step")
  BY DEF ReaderArrives, CanStep
<1>2. to \in States
  BY <1>1, MoveIsOpen
<1>3. ask \in 0..MaxAt
  BY <1>1, OnItsWay
<1>4. /\ bound \in Bindings /\ (mirror.bound = "known" => bound = "known")
      /\ mirror.bound # "none" => bound # "none"
      /\ bound = "known" => there.state # "none"
      /\ mirror.bound = "none" => bound = "none"
  <2>1. mirror.bound \in Bindings
    BY DEF IInv, MirrorOK, Row
  <2> QED BY <1>1, <2>1, OnItsWay DEF Current, Bindings
<1> HIDE DEF to, bound, ask
<1> QED BY <1>1, <1>2, <1>3, <1>4

LEMMA ReaderStepsKeeps ==
  ASSUME IInv, NEW a \in Readers, ReaderSteps(a)
  PROVE  IInv'
<1> DEFINE path == Tail(jobs[a].path)
           j == [jobs[a] EXCEPT !.path = path, !.row = mirror']
<1>1. /\ jobs' = [jobs EXCEPT ![a].path = Tail(@), ![a].row = mirror']
      /\ Shows(shown, Races(jobs[a].row, jobs[a].got)) /\ At(a, "step") /\ path # <<>>
      /\ UNCHANGED <<there, sent, socket, link, cancel, old>>
  BY DEF ReaderSteps, Arriving
<1>2. PICK to \in States : mirror' = Moved(to, mirror.ask, mirror.bound)
  BY StepsTo
<1>3. mirror \in Row /\ mirror.ask \in 0..MaxAt /\ mirror.bound \in Bindings
      /\ (mirror.bound = "known" => there.state # "none")
  BY DEF IInv, MirrorOK, Row
<1>4. MirrorOK' /\ MirrorOn(mirror, mirror') /\ mirror' \in Row /\ mirror'.bound = mirror.bound
  BY <1>1, <1>2, <1>3, MoveKeeps, MovedIs
<1>5. path \in Seq(States)
  BY <1>1, OnItsWay
<1> HIDE DEF path
<1>6. j \in Jobs /\ j.pc = "step" /\ j.row = mirror' /\ j.got = jobs[a].got /\ j.path = path
  BY <1>1, <1>4, <1>5, OnItsWay DEF Jobs
<1>7. JobOK(a, j, mirror', there)
  <2>1. Current(mirror', mirror')
    BY <1>4, CurrentSelf
  <2> QED BY <1>1, <1>4, <1>6, <2>1, OnItsWay DEF JobOK
<1>8. jobs' = [jobs EXCEPT ![a] = j]
  BY <1>1 DEF j, path, IInv, JobsOK, Jobs
<1> HIDE DEF j
<1>9. RestOK'
  BY <1>1, AnswerAt, ShowsKeeps
<1>10. /\ jobs' \in [Readers -> Jobs]
       /\ \A b \in Readers : (b # a /\ jobs'[b] = jobs[b]) \/ JobOK(b, jobs'[b], mirror', there)
  BY <1>6, <1>7, <1>8 DEF IInv, JobsOK
<1>11. ThereOn(there, there') /\ ThereOK' /\ FramesOK(socket', there') /\ there' = there
  BY <1>1, MirrorAssumption DEF ThereOn, IInv, ThereOK, Snapshot
<1> QED BY <1>4, <1>9, <1>10, <1>11, StepKeeps

LEMMA ReaderArrivesKeeps ==
  ASSUME IInv, NEW a \in Readers, ReaderArrives(a)
  PROVE  IInv'
<1>1. /\ jobs[a].pc \in {"asked", "got", "change", "step"} /\ jobs' = Through(a)
      /\ Shows(jobs[a].got.at, Races(jobs[a].row, jobs[a].got))
      /\ UNCHANGED <<there, sent, socket, link, cancel, old>>
  BY DEF ReaderArrives, At
<1>2. PICK to \in States, ask \in 0..MaxAt, bound \in Bindings :
        /\ mirror' = Moved(to, ask, bound)
        /\ mirror.bound = "known" => bound = "known"
        /\ mirror.bound # "none" => bound # "none"
        /\ bound = "known" => there.state # "none"
        /\ mirror.bound = "none" => bound = "none"
  BY ArrivesAt
<1>3. RestOK'
  BY <1>1, AnswerAt, ShowsKeeps
<1>4. MirrorOK' /\ MirrorOn(mirror, mirror')
  BY <1>1, <1>2, MoveKeeps
<1>5. mirror'.bound = bound
  BY <1>2, MovedIs DEF IInv, MirrorOK
<1> QED BY <1>1, <1>2, <1>3, <1>4, <1>5, ThroughStep

LEMMA ReaderStopsKeeps ==
  ASSUME IInv, NEW a \in Readers, ReaderStops(a)
  PROVE  IInv'
<1>1. RestOK'
  BY AnswerAt, ShowsKeeps DEF ReaderStops
<1>2. jobs[a].pc \in {"asked", "got", "change", "step"}
  BY DEF ReaderStops, At
<1> QED BY <1>1, <1>2, SameMirror, ThroughStep DEF ReaderStops

LEMMA ReaderUnansweredKeeps ==
  ASSUME IInv, NEW a \in Readers, ReaderUnanswered(a)
  PROVE  IInv'
<1>1. RestOK'
  BY DEF ReaderUnanswered, IInv, RestOK
<1>2. jobs[a].pc \in {"asked", "got", "change", "step"}
  BY DEF ReaderUnanswered, At
<1>3. CASE a = "delegate"
  BY <1>1, <1>3, RestsKeeps DEF ReaderUnanswered
<1>4. CASE a # "delegate"
  BY <1>1, <1>2, <1>4, SameMirror, ThroughStep DEF ReaderUnanswered
<1> QED BY <1>3, <1>4

LEMMA DownKeeps == FramesOK(Down, there)
BY MirrorAssumption DEF FramesOK, Down

(* The link ends: the open mirrors fail, and the follower with them.           *)
LEMMA UnlinkingKeeps ==
  ASSUME IInv, Unlinking, UNCHANGED there
  PROVE  /\ MirrorOK' /\ MirrorOn(mirror, mirror') /\ mirror'.bound = mirror.bound
         /\ FramesOK(socket', there')
<1>1. MirrorOK' /\ MirrorOn(mirror, mirror') /\ mirror'.bound = mirror.bound
  BY FailingKeeps, SameMirror DEF Unlinking
<1> QED BY <1>1, DownKeeps DEF Unlinking

(* Some readers let go, and a move of the mirror that keeps its binding.       *)
LEMMA LetGo ==
  ASSUME IInv, NEW S \in SUBSET Readers,
         jobs' = [b \in Readers |-> IF b \in S THEN Job("rest") ELSE jobs[b]],
         UNCHANGED there, MirrorOK', MirrorOn(mirror, mirror'), mirror'.bound = mirror.bound,
         FramesOK(socket', there'), RestOK'
  PROVE  IInv'
<1>1. mirror' \in Row /\ there \in Snapshot /\ Current(FirstRow, mirror')
  BY DEF IInv, MirrorOK, ThereOK, FirstRow
<1>2. \A b : JobOK(b, Job("rest"), mirror', there)
  BY <1>1, FreshJob
<1>3. Job("rest") \in Jobs
  BY <1>2 DEF JobOK
<1>4. /\ jobs' \in [Readers -> Jobs]
      /\ \A b \in Readers : jobs'[b] = jobs[b] \/ JobOK(b, jobs'[b], mirror', there)
  BY <1>2, <1>3 DEF IInv, JobsOK
<1>5. ThereOn(there, there') /\ ThereOK'
  BY MirrorAssumption DEF ThereOn, IInv, ThereOK, Snapshot
<1> QED BY <1>4, <1>5, StepKeeps

LEMMA ReaderRefusedKeeps ==
  ASSUME IInv, NEW a \in Readers, ReaderRefused(a)
  PROVE  IInv'
<1>1. Unlinking /\ UNCHANGED there
  BY DEF ReaderRefused
<1>2. RestOK'
  BY DEF ReaderRefused, Unlinking, IInv, RestOK
<1>3. jobs' = [b \in Readers |-> IF b \in {a, "follower"} THEN Job("rest") ELSE jobs[b]]
  BY DEF ReaderRefused, IInv, JobsOK, Readers
<1>4. {a, "follower"} \in SUBSET Readers
  BY DEF Readers
<1> QED BY <1>1, <1>2, <1>3, <1>4, UnlinkingKeeps, LetGo

LEMMA DelegateRefusedReadKeeps == IInv /\ DelegateRefusedRead => IInv'
<1> SUFFICES ASSUME IInv, DelegateRefusedRead PROVE IInv'
  OBVIOUS
<1>1. RestOK'
  BY DEF DelegateRefusedRead, IInv, RestOK
<1>2. "delegate" \in Readers
  BY DEF Readers
<1> QED BY <1>1, <1>2, RestsKeeps DEF DelegateRefusedRead

-----------------------------------------------------------------------------
(* THE CALL THAT DELEGATES                                                    *)

LEMMA DelegateSendsKeeps == IInv /\ DelegateSends => IInv'
<1> SUFFICES ASSUME IInv, DelegateSends PROVE IInv'
  OBVIOUS
<1> DEFINE j == [jobs["delegate"] EXCEPT !.pc = "bind"]
<1>1. "delegate" \in Readers /\ jobs["delegate"] \in Jobs /\ jobs["delegate"].pc = "create"
      /\ JobOK("delegate", jobs["delegate"], mirror, there)
  BY DEF DelegateSends, At, IInv, JobsOK, Readers
<1>2. j \in Jobs /\ j.pc = "bind" /\ j.row = jobs["delegate"].row /\ j.got = jobs["delegate"].got
  BY <1>1 DEF Jobs, Phases
<1>3. JobOK("delegate", j, mirror, there)
  BY <1>1, <1>2 DEF JobOK
<1> HIDE DEF j
<1>4. jobs' = [jobs EXCEPT !["delegate"] = j]
  BY DEF DelegateSends, j
<1>5. RestOK'
  BY DEF DelegateSends, IInv, RestOK
<1> QED BY <1>2, <1>3, <1>4, <1>5, QuietKeeps DEF DelegateSends, IInv, JobsOK

(* A call that goes on to fail its mirror.                                    *)
LEMMA FailJob ==
  ASSUME NEW m \in Row, NEW t \in Snapshot, Current(FirstRow, m), m.bound = "none"
  PROVE  JobOK("delegate", Job("fail"), m, t)
<1>1. FirstRow \in Row /\ NoTask \in Snapshot
  BY MirrorAssumption DEF FirstRow, Row, NoTask, Snapshot, RemoteStates, States, OpenStates, Bindings
<1>2. Job("fail") \in Jobs
  BY <1>1 DEF Job, Jobs, Phases
<1>3. Past(NoTask, t)
  BY MirrorAssumption DEF Past, NoTask, Snapshot
<1> QED BY <1>2, <1>3 DEF JobOK, Job

LEMMA DelegateRefusedKeeps == IInv /\ DelegateRefused => IInv'
<1> SUFFICES ASSUME IInv, DelegateRefused PROVE IInv'
  OBVIOUS
<1> DEFINE call == Job(IF mirror.state = "queued" THEN "fail" ELSE "rest")
<1>1. MirrorOK' /\ MirrorOn(mirror, mirror') /\ mirror'.bound = mirror.bound /\ UNCHANGED there
  BY FailingKeeps DEF DelegateRefused
<1>2. RestOK'
  BY DEF DelegateRefused, IInv, RestOK
<1>3. FramesOK(socket', there')
  <2>1. socket' \in {socket, Down}
    BY DEF DelegateRefused
  <2> QED BY <1>1, <2>1, DownKeeps DEF IInv
<1>4. mirror.bound = "none"
  BY DEF DelegateRefused, At, IInv, JobsOK, JobOK, Readers
<1>5. mirror' \in Row /\ there \in Snapshot /\ Current(FirstRow, mirror')
  BY <1>1 DEF IInv, MirrorOK, ThereOK, FirstRow
<1>6. call \in Jobs /\ JobOK("delegate", call, mirror', there)
  <2>1. JobOK("delegate", call, mirror', there)
    BY <1>1, <1>4, <1>5, FreshJob, FailJob
  <2> QED BY <2>1 DEF JobOK
<1>7. Job("rest") \in Jobs /\ \A b : JobOK(b, Job("rest"), mirror', there)
  BY <1>5, FreshJob DEF JobOK
<1>8. \/ jobs' = [jobs EXCEPT !["delegate"] = call]
      \/ jobs' = [jobs EXCEPT !["delegate"] = call, !["follower"] = Job("rest")]
  BY DEF DelegateRefused
<1> HIDE DEF call
<1>9. /\ jobs' \in [Readers -> Jobs]
      /\ \A b \in Readers : \/ b # "delegate" /\ jobs'[b] = jobs[b]
                            \/ JobOK(b, jobs'[b], mirror', there)
  <2>1. jobs \in [Readers -> Jobs] /\ "delegate" \in Readers /\ "follower" \in Readers
    BY DEF IInv, JobsOK, Readers
  <2> QED BY <1>6, <1>7, <1>8, <2>1
<1>10. ThereOn(there, there') /\ ThereOK' /\ there' = there
  BY <1>1, MirrorAssumption DEF ThereOn, IInv, ThereOK, Snapshot
<1> QED BY <1>1, <1>2, <1>3, <1>9, <1>10, StepKeeps

LEMMA DelegateFailsKeeps == IInv /\ DelegateFails => IInv'
<1> SUFFICES ASSUME IInv, DelegateFails PROVE IInv'
  OBVIOUS
<1>1. MirrorOK' /\ MirrorOn(mirror, mirror') /\ mirror'.bound = mirror.bound /\ UNCHANGED there
  BY FailingKeeps DEF DelegateFails
<1>2. RestOK'
  BY DEF DelegateFails, IInv, RestOK
<1>3. FramesOK(socket', there')
  BY DEF DelegateFails, IInv
<1>4. jobs' = [b \in Readers |-> IF b \in {"delegate"} THEN Job("rest") ELSE jobs[b]]
  BY DEF DelegateFails, IInv, JobsOK, Readers
<1>5. {"delegate"} \in SUBSET Readers
  BY DEF Readers
<1> QED BY <1>1, <1>2, <1>3, <1>4, <1>5, LetGo

(* The mirror is bound once, by the call that made it.                         *)
LEMMA BindsKeeps ==
  ASSUME IInv, UNCHANGED there, NEW bound \in {"unknown", "known"}, Binds(bound),
         jobs["delegate"].pc = "bind", bound = "known" => there.state # "none"
  PROVE  /\ MirrorOK' /\ MirrorOn(mirror, mirror')
         /\ mirror' = mirror \/ mirror'.bound = bound
<1>1. mirror \in Row /\ mirror.ask \in 0..MaxAt /\ mirror.bound = "none" /\ "dispatching" \in States
      /\ bound \in Bindings
  BY DEF IInv, MirrorOK, Row, JobsOK, JobOK, Readers, States, OpenStates, Bindings
<1>2. CASE mirror' = mirror
  BY <1>2, SameMirror
<1>3. CASE mirror' = Moved("dispatching", mirror.ask, bound)
  BY <1>1, <1>3, MoveKeeps, MovedIs
<1> QED BY <1>2, <1>3 DEF Binds

LEMMA DelegateBindsKeeps == IInv /\ DelegateBinds => IInv'
<1> SUFFICES ASSUME IInv, DelegateBinds PROVE IInv'
  OBVIOUS
<1> DEFINE rest == [jobs EXCEPT !["delegate"] = Job("rest")]
           j == [Job("got") EXCEPT !.row = mirror', !.got = FirstTask]
<1>1. /\ jobs["delegate"].pc = "bind" /\ there.state # "none" /\ Binds("known")
      /\ UNCHANGED <<there, socket>>
  BY DEF DelegateBinds, At
<1>2. MirrorOK' /\ MirrorOn(mirror, mirror') /\ (mirror' = mirror \/ mirror'.bound = "known")
  BY <1>1, BindsKeeps
<1>3. RestOK'
  BY DEF DelegateBinds, IInv, RestOK
<1>4. ThereOn(there, there') /\ ThereOK' /\ FramesOK(socket', there') /\ there \in Snapshot
  BY <1>1, MirrorAssumption DEF ThereOn, IInv, ThereOK, Snapshot
<1>5. CASE jobs' = rest /\ mirror' = mirror
  <2>1. jobs' = [b \in Readers |-> IF b \in {"delegate"} THEN Job("rest") ELSE jobs[b]]
    BY <1>5 DEF IInv, JobsOK, Readers
  <2>2. {"delegate"} \in SUBSET Readers
    BY DEF Readers
  <2> QED BY <1>1, <1>2, <1>3, <1>4, <1>5, <2>1, <2>2, LetGo
<1>6. CASE jobs' = [jobs EXCEPT !["delegate"] = j] /\ mirror'.bound = "known"
  <2>1. FirstTask.at = 1 /\ FirstTask.gen = 0 /\ FirstTask.state = "dispatching" /\ FirstTask \in Snapshot
    <3>1. 1 \in 0..MaxAt /\ 0 \in 0..MaxAt /\ "dispatching" \in RemoteStates
      BY <1>1, MirrorAssumption DEF IInv, ThereOK, Snapshot, RemoteStates, States, OpenStates
    <3>2. NoTask \in [state: RemoteStates, gen: 0..MaxAt, ask: 0..MaxAt, at: 0..MaxAt] /\ NoTask.gen = 0
      BY <3>1 DEF NoTask, RemoteStates
    <3> QED BY <3>1, <3>2 DEF FirstTask, Snapshot
  <2>2. Past(FirstTask, there)
    BY <1>1, <2>1, MirrorAssumption DEF Past, IInv, ThereOK, Snapshot
  <2>3. mirror' \in Row /\ Current(mirror', mirror')
    BY <1>2, CurrentSelf DEF MirrorOK
  <2>4. j \in Jobs /\ j.pc = "got" /\ j.row = mirror' /\ j.got = FirstTask
    <3>1. "got" \in Phases
      BY DEF Phases
    <3>2. Job("got") \in Jobs /\ Job("got").pc = "got"
      BY <3>1, NewJob
    <3> HIDE DEF Job
    <3> QED BY <2>1, <2>3, <3>2 DEF Jobs
  <2>5. JobOK("delegate", j, mirror', there')
    BY <1>1, <1>6, <2>1, <2>2, <2>3, <2>4 DEF JobOK
  <2> HIDE DEF j
  <2>6. /\ jobs' \in [Readers -> Jobs]
        /\ \A b \in Readers : (b # "delegate" /\ jobs'[b] = jobs[b]) \/ JobOK(b, jobs'[b], mirror', there')
    BY <1>6, <2>4, <2>5 DEF IInv, JobsOK
  <2> QED BY <1>2, <1>3, <1>4, <2>6, StepKeeps
<1>7. \/ jobs' = rest /\ mirror' = mirror
      \/ jobs' = [jobs EXCEPT !["delegate"] = j] /\ mirror' = Moved("dispatching", mirror.ask, "known")
  BY DEF DelegateBinds, Binds
<1>8. mirror' = Moved("dispatching", mirror.ask, "known") => mirror'.bound = "known"
  <2>1. mirror \in Row /\ mirror.ask \in 0..MaxAt /\ "dispatching" \in States /\ "known" \in Bindings
    BY DEF IInv, MirrorOK, Row, States, OpenStates, Bindings
  <2> QED BY <2>1, MovedIs
<1> QED BY <1>5, <1>6, <1>7, <1>8

LEMMA DelegateUnansweredKeeps == IInv /\ DelegateUnanswered => IInv'
<1> SUFFICES ASSUME IInv, DelegateUnanswered PROVE IInv'
  OBVIOUS
<1>1. /\ jobs["delegate"].pc = "bind" /\ Binds("unknown") /\ UNCHANGED <<there, socket>>
  BY DEF DelegateUnanswered, At
<1>2. MirrorOK' /\ MirrorOn(mirror, mirror')
  BY <1>1, BindsKeeps
<1>3. RestOK'
  BY DEF DelegateUnanswered, IInv, RestOK
<1>4. ThereOn(there, there') /\ ThereOK' /\ FramesOK(socket', there') /\ there' = there
  BY <1>1, MirrorAssumption DEF ThereOn, IInv, ThereOK, Snapshot
<1>5. mirror' \in Row /\ there \in Snapshot /\ Current(FirstRow, mirror') /\ "delegate" \in Readers
  BY <1>2 DEF IInv, MirrorOK, ThereOK, FirstRow, Readers
<1>6. CASE jobs' = Watching([jobs EXCEPT !["delegate"] = Job("rest")])
  <2>1. /\ jobs' \in [Readers -> Jobs]
        /\ \A b \in Readers : (b # "delegate" /\ jobs'[b] = jobs[b]) \/ JobOK(b, jobs'[b], mirror', there)
    BY <1>5, <1>6, RestsWatched
  <2> QED BY <1>2, <1>3, <1>4, <2>1, StepKeeps
<1>7. CASE jobs' = [jobs EXCEPT !["delegate"] = Job("rest")]
  <2>1. \A b : JobOK(b, Job("rest"), mirror', there) /\ Job("rest") \in Jobs
    BY <1>5, FreshJob DEF JobOK
  <2>2. /\ jobs' \in [Readers -> Jobs]
        /\ \A b \in Readers : (b # "delegate" /\ jobs'[b] = jobs[b]) \/ JobOK(b, jobs'[b], mirror', there)
    BY <1>7, <2>1 DEF IInv, JobsOK
  <2> QED BY <1>2, <1>3, <1>4, <2>2, StepKeeps
<1> QED BY <1>6, <1>7 DEF DelegateUnanswered

-----------------------------------------------------------------------------
(* THE FOLLOWER, THE PASS, THE USER                                           *)

(* A reader sets out with the row as it is.                                    *)
LEMMA ReadsKeeps ==
  ASSUME IInv, NEW a \in Readers, a # "delegate", Watched, Reads(a), UNCHANGED <<mirror, there>>,
         FramesOK(socket', there), RestOK'
  PROVE  IInv'
<1> DEFINE j == [Job("asked") EXCEPT !.row = mirror]
<1>1. mirror \in Row /\ there \in Snapshot /\ Current(mirror, mirror)
  BY CurrentSelf DEF IInv, MirrorOK, ThereOK
<1>2. j \in Jobs /\ j.pc = "asked" /\ j.got = NoTask /\ j.row = mirror
  <2>1. "asked" \in Phases
    BY DEF Phases
  <2>2. Job("asked") \in Jobs /\ Job("asked").pc = "asked" /\ Job("asked").got = NoTask
    BY <2>1, NewJob
  <2> HIDE DEF Job
  <2> QED BY <1>1, <2>2 DEF Jobs
<1> HIDE DEF j
<1>3. JobOK(a, j, mirror, there)
  BY <1>1, <1>2, ReadJob DEF Watched
<1>4. jobs' = [jobs EXCEPT ![a] = j]
  BY DEF Reads, j
<1> QED BY <1>2, <1>3, <1>4, QuietKeeps DEF IInv, JobsOK

LEMMA FollowerOpensKeeps == IInv /\ FollowerOpens => IInv'
<1> SUFFICES ASSUME IInv, FollowerOpens PROVE IInv'
  OBVIOUS
<1>1. <<Resync>> \in Seq(Frames) /\ Len(<<Resync>>) = 1 /\ <<Resync>>[1] = Resync /\ DOMAIN <<Resync>> = {1}
  BY DEF Frames
<1>2. FramesOK(socket', there)
  BY <1>1, MirrorAssumption DEF FollowerOpens, FramesOK
<1>3. RestOK'
  BY DEF FollowerOpens, IInv, RestOK
<1> QED BY <1>2, <1>3, QuietKeeps DEF FollowerOpens, IInv, JobsOK

LEMMA FollowerTakesKeeps == IInv /\ FollowerTakes => IInv'
<1> SUFFICES ASSUME IInv, FollowerTakes PROVE IInv'
  OBVIOUS
<1> DEFINE item == Head(socket.wire)
           j == [jobs["follower"] EXCEPT !.pc = "got", !.row = mirror, !.got = item]
<1>1. /\ socket \in [up: BOOLEAN, wire: Seq(Frames)] /\ socket.wire # <<>> /\ Len(socket.wire) <= MaxWire
      /\ socket' = [socket EXCEPT !.wire = Tail(socket.wire)]
      /\ \A i \in DOMAIN socket.wire :
           socket.wire[i] # Resync => Past(socket.wire[i], there) /\ socket.wire[i].state # "none"
  BY DEF FollowerTakes, IInv, FramesOK
<1>2. FramesOK(socket', there)
  <2>1. /\ Tail(socket.wire) \in Seq(Frames) /\ Len(Tail(socket.wire)) = Len(socket.wire) - 1
        /\ \A i \in DOMAIN Tail(socket.wire) :
             i + 1 \in DOMAIN socket.wire /\ Tail(socket.wire)[i] = socket.wire[i + 1]
    BY <1>1
  <2>2. socket' \in [up: BOOLEAN, wire: Seq(Frames)] /\ socket'.wire = Tail(socket.wire)
    BY <1>1, <2>1
  <2>3. Len(socket.wire) \in Nat
    BY <1>1
  <2> QED BY <1>1, <2>1, <2>2, <2>3, MirrorAssumption DEF FramesOK
<1>3. RestOK'
  BY DEF FollowerTakes, IInv, RestOK
<1>4. "follower" \in Readers /\ Watched /\ UNCHANGED <<mirror, there>>
  BY DEF FollowerTakes, Readers
<1>5. CASE Reads("follower")
  BY <1>2, <1>3, <1>4, <1>5, ReadsKeeps
<1>6. CASE /\ ~(item = Resync \/ mirror.bound = "unknown")
           /\ jobs' = [jobs EXCEPT !["follower"].pc = "got", !["follower"].row = mirror, !["follower"].got = item]
  <2>1. item \in Snapshot /\ Past(item, there) /\ item.state # "none"
    <3>1. 1 \in DOMAIN socket.wire /\ item = socket.wire[1] /\ item \in Frames
      BY <1>1
    <3> QED BY <1>1, <1>6, <3>1 DEF Frames
  <2>2. mirror \in Row /\ Current(mirror, mirror) /\ jobs["follower"] \in Jobs
    BY <1>4, CurrentSelf DEF IInv, MirrorOK, JobsOK
  <2> HIDE DEF item
  <2>3. j \in Jobs /\ j.pc = "got" /\ j.row = mirror /\ j.got = item
    BY <2>1, <2>2 DEF Jobs, Phases
  <2>4. JobOK("follower", j, mirror, there)
    BY <1>4, <2>1, <2>2, <2>3 DEF JobOK, Watched
  <2> HIDE DEF j
  <2>5. jobs' = [jobs EXCEPT !["follower"] = j]
    BY <1>6 DEF j, IInv, JobsOK, Readers
  <2> QED BY <1>2, <1>3, <1>4, <2>3, <2>4, <2>5, QuietKeeps DEF IInv, JobsOK
<1> QED BY <1>5, <1>6 DEF FollowerTakes

LEMMA FollowerReadsKeeps == IInv /\ FollowerReads => IInv'
<1> SUFFICES ASSUME IInv, FollowerReads PROVE IInv'
  OBVIOUS
<1>1. RestOK'
  BY DEF FollowerReads, IInv, RestOK
<1>2. "follower" \in Readers /\ FramesOK(socket', there)
  BY DEF FollowerReads, IInv, Readers
<1> QED BY <1>1, <1>2, ReadsKeeps DEF FollowerReads

LEMMA DriverReadsKeeps == IInv /\ DriverReads => IInv'
<1> SUFFICES ASSUME IInv, DriverReads PROVE IInv'
  OBVIOUS
<1>1. RestOK'
  BY DEF DriverReads, IInv, RestOK
<1>2. "driver" \in Readers /\ FramesOK(socket', there)
  BY DEF DriverReads, IInv, Readers
<1> QED BY <1>1, <1>2, ReadsKeeps DEF DriverReads

LEMMA FollowerStopsKeeps == IInv /\ (FollowerLeaves \/ FollowerEnds) => IInv'
<1> SUFFICES ASSUME IInv, FollowerLeaves \/ FollowerEnds PROVE IInv'
  OBVIOUS
<1>1. RestOK'
  BY DEF FollowerLeaves, FollowerEnds, IInv, RestOK
<1>2. FramesOK(socket', there')
  BY DownKeeps DEF FollowerLeaves, FollowerEnds, IInv
<1>3. jobs' = [b \in Readers |-> IF b \in {"follower"} THEN Job("rest") ELSE jobs[b]]
  BY DEF FollowerLeaves, FollowerEnds, IInv, JobsOK, Readers
<1>4. UNCHANGED <<mirror, there>> /\ {"follower"} \in SUBSET Readers
  BY DEF FollowerLeaves, FollowerEnds, Readers
<1> QED BY <1>1, <1>2, <1>3, <1>4, SameMirror, LetGo

LEMMA SocketClosesKeeps == IInv /\ SocketCloses => IInv'
<1> SUFFICES ASSUME IInv, SocketCloses PROVE IInv'
  OBVIOUS
<1>1. RestOK'
  BY DEF SocketCloses, Paid, IInv, RestOK
<1> QED BY <1>1, DownKeeps, QuietKeeps DEF SocketCloses, IInv, JobsOK

LEMMA RestartKeeps == IInv /\ Restart => IInv'
<1> SUFFICES ASSUME IInv, Restart PROVE IInv'
  OBVIOUS
<1>1. RestOK'
  BY DEF Restart, Paid, IInv, RestOK, Bindings
<1>2. jobs' = [b \in Readers |-> IF b \in Readers THEN Job("rest") ELSE jobs[b]]
  BY DEF Restart
<1>3. UNCHANGED <<mirror, there>> /\ FramesOK(socket', there')
  BY DownKeeps DEF Restart
<1> QED BY <1>1, <1>2, <1>3, SameMirror, LetGo

(* Nobody's job: the pass that fails a mirror, the user, the clock.            *)
LEMMA AsideKeeps ==
  ASSUME IInv, UNCHANGED <<there, socket, jobs>>, MirrorOK', MirrorOn(mirror, mirror'),
         mirror'.bound = mirror.bound, RestOK'
  PROVE  IInv'
<1>1. ThereOn(there, there') /\ ThereOK' /\ FramesOK(socket', there')
  BY MirrorAssumption DEF ThereOn, IInv, ThereOK, Snapshot
<1> QED BY <1>1, StepKeeps DEF IInv, JobsOK

LEMMA DriverFailsKeeps == IInv /\ DriverFails => IInv'
<1> SUFFICES ASSUME IInv, DriverFails PROVE IInv'
  OBVIOUS
<1>1. RestOK'
  BY DEF DriverFails, IInv, RestOK
<1> QED BY <1>1, FailingKeeps, AsideKeeps DEF DriverFails

LEMMA CancelMarksKeeps == IInv /\ CancelMarks => IInv'
<1> SUFFICES ASSUME IInv, CancelMarks PROVE IInv'
  OBVIOUS
<1>1. RestOK'
  BY DEF CancelMarks, IInv, RestOK
<1>2. CASE mirror' = mirror
  BY <1>1, <1>2, SameMirror, AsideKeeps DEF CancelMarks
<1>3. CASE mirror' = Moved("cancelled", mirror.ask, mirror.bound)
  <2>1. mirror \in Row /\ mirror.ask \in 0..MaxAt /\ mirror.bound \in Bindings /\ "cancelled" \in States
    BY DEF IInv, MirrorOK, Row, States, TerminalStates
  <2>2. MirrorOK' /\ MirrorOn(mirror, mirror')
    BY <1>3, <2>1, MoveKeeps DEF CancelMarks, IInv, MirrorOK
  <2> QED BY <1>1, <1>3, <2>1, <2>2, MovedIs, AsideKeeps DEF CancelMarks
<1> QED BY <1>2, <1>3 DEF CancelMarks

LEMMA AsidesKeep == IInv /\ (CancelAsked \/ Revoke \/ GrowOld) => IInv'
<1> SUFFICES ASSUME IInv, CancelAsked \/ Revoke \/ GrowOld PROVE IInv'
  OBVIOUS
<1>1. mirror.bound \in Bindings
  BY DEF IInv, MirrorOK, Row
<1>2. RestOK'
  BY <1>1 DEF CancelAsked, Revoke, GrowOld, IInv, RestOK
<1>3. UNCHANGED <<mirror, there, socket, jobs>>
  BY DEF CancelAsked, Revoke, GrowOld
<1> QED BY <1>2, <1>3, SameMirror, AsideKeeps

LEMMA UnlinkKeeps == IInv /\ Unlink => IInv'
<1> SUFFICES ASSUME IInv, Unlink PROVE IInv'
  OBVIOUS
<1>1. Unlinking /\ UNCHANGED there
  BY DEF Unlink
<1>2. RestOK'
  BY DEF Unlink, Unlinking, IInv, RestOK
<1>3. jobs' = [b \in Readers |-> IF b \in {"follower"} THEN Job("rest") ELSE jobs[b]]
  BY DEF Unlink, IInv, JobsOK, Readers
<1>4. {"follower"} \in SUBSET Readers
  BY DEF Readers
<1> QED BY <1>1, <1>2, <1>3, <1>4, UnlinkingKeeps, LetGo

-----------------------------------------------------------------------------
LEMMA InitIInv == Init => IInv
<1> SUFFICES ASSUME Init PROVE IInv
  OBVIOUS
<1>1. FirstRow \in Row /\ NoTask \in Snapshot /\ Current(FirstRow, FirstRow)
  BY MirrorAssumption
  DEF FirstRow, Row, NoTask, Snapshot, RemoteStates, States, OpenStates, Bindings, Current
<1>2. ThereOK
  BY <1>1 DEF Init, ThereOK, NoTask
<1>3. MirrorOK
  BY <1>1 DEF Init, MirrorOK, FirstRow, NoTask
<1>4. FramesOK(socket, there)
  BY DownKeeps DEF Init, Down
<1>5. RestOK
  <2>1. there.at = 0
    BY DEF Init, NoTask
  <2>2. shown \in 0..there.at
    BY <2>1 DEF Init
  <2> QED BY <2>2 DEF Init, RestOK
<1>6. JobsOK
  <2>1. Past(NoTask, NoTask)
    BY MirrorAssumption DEF Past, NoTask
  <2>2. /\ JobOK("delegate", Job("create"), FirstRow, NoTask)
        /\ \A a \in Readers \ {"delegate"} : JobOK(a, Job("rest"), FirstRow, NoTask)
                                          /\ JobOK(a, Job("next"), FirstRow, NoTask)
    <3>1. Job("create") \in Jobs /\ Job("rest") \in Jobs /\ Job("next") \in Jobs
      BY <1>1 DEF Job, Jobs, Phases
    <3> QED BY <1>1, <2>1, <3>1 DEF JobOK, Job, FirstRow
  <2>3. \A a \in Readers : IF a = "delegate" THEN jobs[a] = Job("create")
                           ELSE jobs[a] \in {Job("rest"), Job("next")}
    <3>1. PICK runs \in {"rest", "next"} :
            jobs = [a \in Readers |-> Job(CASE a = "delegate" -> "create"
                                            [] a = "follower" -> runs
                                            [] OTHER          -> "rest")]
      BY DEF Init
    <3>2. "delegate" \in Readers /\ jobs["delegate"] = Job("create")
      BY <3>1 DEF Readers
    <3>3. jobs["follower"] = Job(runs) /\ jobs["driver"] = Job("rest")
      BY <3>1 DEF Readers
    <3>4. Job(runs) \in {Job("rest"), Job("next")}
      BY <3>1
    <3> QED BY <3>2, <3>3, <3>4 DEF Readers
  <2>4. \A a \in Readers : JobOK(a, jobs[a], mirror, there)
    BY <2>2, <2>3 DEF Init
  <2>5. jobs \in [Readers -> Jobs]
    BY <2>4 DEF Init, JobOK
  <2> QED BY <2>4, <2>5 DEF JobsOK
<1> QED BY <1>2, <1>3, <1>4, <1>5, <1>6 DEF IInv

LEMMA StepIInv == IInv /\ [Next]_vars => IInv'
<1> SUFFICES ASSUME IInv, [Next]_vars PROVE IInv'
  OBVIOUS
<1>1. CASE ThereTakes \/ ThereMoves \/ ThereForgets
  BY <1>1, ThereTakesKeeps, ThereMovesKeeps, ThereForgetsKeeps
<1>2. CASE Delegate \/ DelegateUnanswered
  BY <1>2, DelegateSendsKeeps, DelegateRefusedKeeps, DelegateFailsKeeps, DelegateBindsKeeps, DelegateRefusedReadKeeps,
     DelegateUnansweredKeeps DEF Delegate
<1>3. ASSUME NEW a \in Readers, ThereAnswers(a) \/ Reader(a) \/ ReaderUnanswered(a) PROVE IInv'
  BY <1>3, ThereAnswersKeeps, ReaderDropsKeeps, ReaderLosesKeeps, ReaderReopensKeeps, ReaderMovesKeeps,
     ReaderStepsKeeps, ReaderArrivesKeeps, ReaderStopsKeeps, ReaderRefusedKeeps, ReaderUnansweredKeeps
     DEF Reader
<1>4. CASE Follower \/ SocketCloses
  BY <1>4, FollowerOpensKeeps, FollowerTakesKeeps, FollowerReadsKeeps, FollowerStopsKeeps,
     SocketClosesKeeps DEF Follower
<1>5. CASE Driver
  BY <1>5, DriverReadsKeeps, DriverFailsKeeps DEF Driver
<1>6. CASE CancelAsked \/ CancelForwards \/ CancelMarks \/ Revoke \/ Unlink \/ GrowOld \/ Restart
  BY <1>6, AsidesKeep, CancelForwardsKeeps, CancelMarksKeeps, UnlinkKeeps, RestartKeeps
<1>7. CASE UNCHANGED vars
  <2>1. RestOK'
    BY <1>7 DEF vars, IInv, RestOK
  <2> QED BY <1>7, <2>1, SameMirror, AsideKeeps DEF vars
<1> QED BY <1>1, <1>2, <1>3, <1>4, <1>5, <1>6, <1>7 DEF Next

(* What every reader holds stays within what the mirror and the task are.      *)
THEOREM Strengthening == Spec => []IInv
BY InitIInv, StepIInv, PTL DEF Spec

-----------------------------------------------------------------------------
(* The state of the mirror, its task and its readers is well typed, and the    *)
(* mirror is never in a turn its task has not had.                             *)
THEOREM MirrorTypes == Spec => []TypeOK
<1>1. IInv => TypeOK
  BY DEF IInv, ThereOK, MirrorOK, FramesOK, RestOK, JobsOK, Jobs, TypeOK
<1> QED BY Strengthening, <1>1, PTL

-----------------------------------------------------------------------------
(* WHAT A STEP DOES TO THE MIRROR                                             *)

(* It stays, or it was open and stays in its turn, or its task has a new one;  *)
(* and it stays bound.                                                        *)
Onward(m, n) ==
  /\ \/ n = m
     \/ ~IsTerminal(m.state) /\ n.gen = m.gen
     \/ m.state # "cancelled" /\ n.gen > m.gen
  /\ m.bound = "known" => n.bound = "known"

LEMMA MoveIsOnward ==
  ASSUME mirror \in Row, NEW to \in States, NEW ask \in 0..MaxAt, NEW bound \in Bindings,
         CanMoveTo(mirror.state, to), mirror' = Moved(to, ask, bound),
         mirror.bound = "known" => bound = "known"
  PROVE  Onward(mirror, mirror')
<1>1. mirror'.gen = mirror.gen /\ mirror'.bound = bound
  BY MovedIs
<1>2. ~IsTerminal(mirror.state)
  BY MoveIsOpen
<1> QED BY <1>1, <1>2 DEF Onward

LEMMA FailingIsOnward ==
  ASSUME IInv, Failing
  PROVE  Onward(mirror, mirror')
<1> DEFINE to == Head(Walk("failed"))
<1>1. mirror \in Row /\ mirror.ask \in 0..MaxAt /\ mirror.bound \in Bindings
  BY DEF IInv, MirrorOK, Row
<1>2. CASE mirror' = mirror
  BY <1>2 DEF Onward
<1>3. CASE CanMoveTo(mirror.state, to) /\ mirror' = Moved(to, mirror.ask, mirror.bound)
  <2>1. to \in States
    BY <1>3, MoveIsOpen
  <2> HIDE DEF to
  <2> QED BY <1>1, <1>3, <2>1, MoveIsOnward
<1> QED BY <1>2, <1>3 DEF Failing

LEMMA BindsIsOnward ==
  ASSUME IInv, NEW bound \in {"unknown", "known"}, Binds(bound), jobs["delegate"].pc = "bind"
  PROVE  Onward(mirror, mirror')
<1>1. /\ mirror \in Row /\ mirror.ask \in 0..MaxAt /\ bound \in Bindings /\ "dispatching" \in States
      /\ mirror.bound = "none"
  BY DEF IInv, MirrorOK, Row, States, OpenStates, Bindings, JobsOK, JobOK, Readers
<1>2. CASE mirror' = mirror
  BY <1>2 DEF Onward
<1>3. CASE CanMoveTo(mirror.state, "dispatching") /\ mirror' = Moved("dispatching", mirror.ask, bound)
  BY <1>1, <1>3, MoveIsOnward
<1> QED BY <1>2, <1>3 DEF Binds

(* The row a reader reopens is the mirror's own, so the turn it saw is the      *)
(* latest the mirror had.                                                     *)
LEMMA ReopenIsOnward ==
  ASSUME IInv, NEW a \in Readers, ReaderReopens(a)
  PROVE  Onward(mirror, mirror')
<1> DEFINE row == Held(a)
           got == jobs[a].got
           moved == Moved("working", mirror.ask, mirror.bound)
<1>1. CASE mirror' = mirror
  BY <1>1 DEF Onward
<1>2. CASE /\ row.seq = mirror.seq /\ mirror.state # "cancelled"
           /\ mirror' = [moved EXCEPT !.gen = got.gen]
  <2>1. jobs[a].pc = "got" /\ got.gen > row.gen
    BY DEF ReaderReopens, At, Resumes
  <2>2. row = mirror /\ got \in Snapshot
    BY <1>2, <2>1, HeldIs DEF Current
  <2>3. mirror \in Row /\ mirror.ask \in 0..MaxAt /\ mirror.bound \in Bindings /\ "working" \in States
    BY DEF IInv, MirrorOK, Row, States, OpenStates
  <2>4. moved \in Row /\ moved.bound = mirror.bound
    BY <2>3, MovedIs
  <2> HIDE DEF moved
  <2>5. mirror'.gen = got.gen /\ mirror'.bound = mirror.bound
    BY <1>2, <2>4 DEF Row
  <2> QED BY <1>2, <2>1, <2>2, <2>5 DEF Onward
<1> QED BY <1>1, <1>2 DEF ReaderReopens

LEMMA StepIsOnward == IInv /\ [Next]_vars => Onward(mirror, mirror')
<1> SUFFICES ASSUME IInv, [Next]_vars PROVE Onward(mirror, mirror')
  OBVIOUS
<1>0. CASE mirror' = mirror
  BY <1>0 DEF Onward
<1>1. CASE DelegateRefused \/ DelegateFails \/ DriverFails
  BY <1>1, FailingIsOnward DEF DelegateRefused, DelegateFails, DriverFails
<1>2. CASE DelegateBinds \/ DelegateUnanswered
  BY <1>2, BindsIsOnward DEF DelegateBinds, DelegateUnanswered, At
<1>3. ASSUME NEW a \in Readers, Reader(a) PROVE Onward(mirror, mirror')
  <2>1. CASE ReaderDrops(a)
    BY <1>0, <2>1 DEF ReaderDrops
  <2>2. CASE ReaderLoses(a)
    BY <2>2, FailingIsOnward DEF ReaderLoses
  <2>3. CASE ReaderReopens(a)
    BY <2>3, ReopenIsOnward
  <2>4. CASE ReaderMoves(a) \/ ReaderStops(a)
    BY <1>0, <2>4 DEF ReaderMoves, ReaderStops
  <2>6. CASE ReaderSteps(a)
    <3>1. PICK to \in States : /\ CanMoveTo(mirror.state, to)
                              /\ mirror' = Moved(to, mirror.ask, mirror.bound)
      BY <2>6, StepsTo
    <3>2. mirror \in Row /\ mirror.ask \in 0..MaxAt /\ mirror.bound \in Bindings
      BY DEF IInv, MirrorOK, Row
    <3> QED BY <3>1, <3>2, MoveIsOnward
  <2>7. CASE ReaderArrives(a)
    <3>1. PICK to \in States, ask \in 0..MaxAt, bound \in Bindings :
            /\ CanMoveTo(mirror.state, to) /\ mirror' = Moved(to, ask, bound)
            /\ mirror.bound = "known" => bound = "known"
      BY <2>7, ArrivesAt
    <3> QED BY <3>1, MoveIsOnward DEF IInv, MirrorOK
  <2>5. CASE ReaderRefused(a)
    BY <1>0, <2>5, FailingIsOnward DEF ReaderRefused, Unlinking
  <2> QED BY <1>3, <2>1, <2>2, <2>3, <2>4, <2>5, <2>6, <2>7 DEF Reader
<1>4. CASE Unlink
  BY <1>0, <1>4, FailingIsOnward DEF Unlink, Unlinking
<1>5. CASE CancelMarks
  <2>1. mirror \in Row /\ mirror.ask \in 0..MaxAt /\ mirror.bound \in Bindings /\ "cancelled" \in States
    BY DEF IInv, MirrorOK, Row, States, TerminalStates
  <2> QED BY <1>0, <1>5, <2>1, MoveIsOnward DEF CancelMarks
<1>6. CASE \/ ThereTakes \/ ThereMoves \/ ThereForgets \/ DelegateSends \/ DelegateRefusedRead
           \/ Follower \/ SocketCloses \/ DriverReads \/ CancelAsked \/ CancelForwards
           \/ Revoke \/ GrowOld \/ Restart \/ UNCHANGED vars
  BY <1>0, <1>6
  DEF ThereTakes, ThereMoves, ThereForgets, DelegateSends, DelegateRefusedRead, Follower, FollowerOpens,
      FollowerTakes, FollowerReads, FollowerLeaves, FollowerEnds, SocketCloses, DriverReads, CancelAsked,
      CancelForwards, Revoke, GrowOld, Restart, vars
<1>7. ASSUME NEW a \in Readers, ThereAnswers(a) \/ ReaderUnanswered(a) PROVE Onward(mirror, mirror')
  BY <1>0, <1>7 DEF ThereAnswers, ReaderUnanswered
<1> QED BY <1>1, <1>2, <1>3, <1>4, <1>5, <1>6, <1>7 DEF Next, Delegate, Driver

(* A mirror that is over comes back only for a turn of its task that it has     *)
(* not seen, and one that was cancelled never.                                *)
THEOREM OverUnlessANewTurn == Spec => OnlyANewTurnReopens
<1> DEFINE Stays == IsTerminal(mirror.state) /\ mirror' # mirror =>
                      mirror.state # "cancelled" /\ mirror'.gen > mirror.gen
<1>1. IInv /\ [Next]_vars => [Stays]_vars
  BY StepIsOnward DEF Onward
<1> QED BY Strengthening, <1>1, PTL DEF Spec, OnlyANewTurnReopens

(* Whatever arrives late, the mirror never falls back to an earlier turn of its *)
(* task and never loses the task it was bound to.                             *)
THEOREM TurnsAndBindingsStay == Spec => NothingGoesBack
<1> DEFINE Stays == /\ mirror'.gen >= mirror.gen
                    /\ mirror.bound = "known" => mirror'.bound = "known"
<1>1. IInv /\ [Next]_vars => [Stays]_vars
  <2> SUFFICES ASSUME IInv, [Next]_vars PROVE Stays
    OBVIOUS
  <2>1. mirror.gen \in Nat /\ mirror'.gen \in Nat
    BY StepIInv, MirrorAssumption DEF IInv, MirrorOK, Row
  <2> QED BY <2>1, StepIsOnward DEF Onward
<1> QED BY Strengthening, <1>1, PTL DEF Spec, NothingGoesBack

-----------------------------------------------------------------------------
(* THE LIFE OF THE ROW, as a step of TaskLifecycle.                           *)

(* A transition the ledger accepts, and a new turn of a mirror that was not    *)
(* cancelled, are steps of it.                                                *)
LEMMA TransitionIsLife ==
  ASSUME NEW to \in States, mirror'.state = to,
         \/ CanMoveTo(mirror.state, to)
         \/ mirror.state \in States \ {"cancelled"} /\ to = "working"
  PROVE  Life!Next
<1> DEFINE status == [t \in {"it"} |-> mirror.state]
<1>1. status' = [status EXCEPT !["it"] = to] /\ status["it"] = mirror.state
  OBVIOUS
<1>2. CASE CanMoveTo(mirror.state, to)
  <2>1. Life!CanMoveTo(mirror.state, to) /\ to \in Life!States
    BY <1>2 DEF CanMoveTo, Life!CanMoveTo, States, Life!States, OpenStates, Life!OpenStates, TerminalStates,
                Life!TerminalStates, ActiveStates, Life!ActiveStates
  <2>2. Life!Advance("it", to)
    BY <1>1, <2>1 DEF Life!Advance, Life!Become
  <2> QED BY <2>1, <2>2 DEF Life!Next
<1>3. CASE mirror.state \in States \ {"cancelled"} /\ to = "working"
  <2>1. mirror.state \in Life!OpenStates \union {"done", "failed"}
    BY <1>3 DEF States, OpenStates, TerminalStates, Life!OpenStates
  <2>2. Life!Resume("it")
    BY <1>1, <1>3, <2>1 DEF Life!Resume, Life!Become
  <2> QED BY <2>2 DEF Life!Next
<1> QED BY <1>2, <1>3

(* So is the move that writes a transition into the row.                      *)
LEMMA MovedIsLife ==
  ASSUME mirror \in Row, NEW to \in States, NEW ask \in 0..MaxAt, NEW bound \in Bindings,
         CanMoveTo(mirror.state, to), mirror' = Moved(to, ask, bound)
  PROVE  Life!Next
<1>1. mirror'.state = to
  BY MovedIs
<1> QED BY <1>1, TransitionIsLife

LEMMA FailingIsLife ==
  ASSUME IInv, Failing, mirror' # mirror
  PROVE  Life!Next
<1> DEFINE to == Head(Walk("failed"))
<1>1. mirror \in Row /\ mirror.ask \in 0..MaxAt /\ mirror.bound \in Bindings
  BY DEF IInv, MirrorOK, Row
<1>2. CanMoveTo(mirror.state, to) /\ mirror' = Moved(to, mirror.ask, mirror.bound)
  BY DEF Failing
<1>3. to \in States
  BY <1>2, MoveIsOpen
<1> HIDE DEF to
<1> QED BY <1>1, <1>2, <1>3, MovedIsLife

LEMMA ReopenIsLife ==
  ASSUME IInv, NEW a \in Readers, ReaderReopens(a), mirror' # mirror
  PROVE  Life!Next
<1> DEFINE moved == Moved("working", mirror.ask, mirror.bound)
           gen == jobs[a].got.gen
<1>1. mirror.state # "cancelled" /\ mirror' = [moved EXCEPT !.gen = gen]
  BY DEF ReaderReopens
<1>2. mirror \in Row /\ mirror.ask \in 0..MaxAt /\ mirror.bound \in Bindings
      /\ mirror.state \in States /\ "working" \in States
  BY DEF IInv, MirrorOK, Row, States, OpenStates
<1>3. moved \in Row /\ moved.state = "working"
  BY <1>2, MovedIs
<1> HIDE DEF moved, gen
<1>4. mirror'.state = "working"
  BY <1>1, <1>3 DEF Row
<1> QED BY <1>1, <1>2, <1>4, TransitionIsLife

(* The three readers, the user, the driver and the restarts together move the   *)
(* mirror's row as the ledger lets a task live, one transition of a walk at a *)
(* time: what another does between two of them never takes it elsewhere.      *)
THEOREM MirrorImplementsLifecycle == Spec => KeepsLifecycle
<1>1. ASSUME IInv, [Next]_vars, mirror'.state # mirror.state PROVE Life!Next
  <2>1. /\ mirror \in Row /\ mirror.ask \in 0..MaxAt /\ mirror.bound \in Bindings
        /\ "dispatching" \in States /\ "cancelled" \in States
    BY <1>1 DEF IInv, MirrorOK, Row, States, OpenStates, TerminalStates
  <2>2. CASE Failing
    BY <1>1, <2>2, FailingIsLife
  <2>3. ASSUME NEW bound \in Bindings, Binds(bound) PROVE Life!Next
    <3>1. CanMoveTo(mirror.state, "dispatching") /\ mirror' = Moved("dispatching", mirror.ask, bound)
      BY <1>1, <2>3 DEF Binds
    <3> QED BY <2>1, <3>1, MovedIsLife
  <2>4. ASSUME NEW a \in Readers, Reader(a) PROVE Life!Next
    <3>1. CASE ReaderReopens(a)
      BY <1>1, <3>1, ReopenIsLife
    <3>2. CASE ReaderSteps(a)
      <4>1. PICK to \in States : CanMoveTo(mirror.state, to) /\ mirror' = Moved(to, mirror.ask, mirror.bound)
        BY <1>1, <3>2, StepsTo
      <4> QED BY <2>1, <4>1, MovedIsLife
    <3>3. CASE ReaderArrives(a)
      <4>1. PICK to \in States, ask \in 0..MaxAt, bound \in Bindings :
              CanMoveTo(mirror.state, to) /\ mirror' = Moved(to, ask, bound)
        BY <1>1, <3>3, ArrivesAt
      <4> QED BY <2>1, <4>1, MovedIsLife
    <3>4. CASE ReaderLoses(a) \/ ReaderRefused(a)
      BY <1>1, <2>2, <3>4 DEF ReaderLoses, ReaderRefused, Unlinking
    <3>5. ~ReaderDrops(a) /\ ~ReaderMoves(a) /\ ~ReaderStops(a)
      BY <1>1 DEF ReaderDrops, ReaderMoves, ReaderStops
    <3> QED BY <2>4, <3>1, <3>2, <3>3, <3>4, <3>5 DEF Reader
  <2>5. CASE DelegateBinds \/ DelegateUnanswered
    <3>1. {"known", "unknown"} \subseteq Bindings
      BY DEF Bindings
    <3> QED BY <2>3, <2>5, <3>1 DEF DelegateBinds, DelegateUnanswered
  <2>6. CASE DelegateRefused \/ DelegateFails \/ DriverFails \/ Unlink
    BY <1>1, <2>2, <2>6 DEF DelegateRefused, DelegateFails, DriverFails, Unlink, Unlinking
  <2>7. CASE CancelMarks
    <3>1. CanMoveTo(mirror.state, "cancelled") /\ mirror' = Moved("cancelled", mirror.ask, mirror.bound)
      BY <1>1, <2>7 DEF CancelMarks
    <3> QED BY <2>1, <3>1, MovedIsLife
  <2>8. ~ThereTakes /\ ~ThereMoves /\ ~ThereForgets /\ ~DelegateSends /\ ~DelegateRefusedRead
    BY <1>1 DEF ThereTakes, ThereMoves, ThereForgets, DelegateSends, DelegateRefusedRead
  <2>9. ~Follower /\ ~SocketCloses /\ ~DriverReads
    BY <1>1 DEF Follower, FollowerOpens, FollowerTakes, FollowerReads, FollowerLeaves, FollowerEnds,
                SocketCloses, DriverReads
  <2>10. ~CancelAsked /\ ~CancelForwards /\ ~Revoke /\ ~GrowOld /\ ~Restart /\ ~UNCHANGED vars
    BY <1>1 DEF CancelAsked, CancelForwards, Revoke, GrowOld, Restart, vars
  <2>11. \A a \in Readers : ~ThereAnswers(a) /\ ~ReaderUnanswered(a)
    BY <1>1 DEF ThereAnswers, ReaderUnanswered
  <2> QED BY <1>1, <2>4, <2>5, <2>6, <2>7, <2>8, <2>9, <2>10, <2>11 DEF Next, Delegate, Driver
<1>2. IInv /\ [Next]_vars => [Life!Next]_(mirror.state)
  BY <1>1
<1> QED BY <1>2, Strengthening, PTL DEF Spec, KeepsLifecycle
=============================================================================
