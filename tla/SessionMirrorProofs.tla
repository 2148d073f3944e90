-------------------------- MODULE SessionMirrorProofs --------------------------
(***************************************************************************)
(* SessionMirror proved for every set of rows and every bound: the state   *)
(* keeps its types, a client of the copy is told of it, and the rows that  *)
(* are not in doubt are true.                                              *)
(*                                                                         *)
(* What a client is told is not inductive alone: it needs that the log     *)
(* holds numbers above its floor and up to the copy's own, that no row is  *)
(* numbered beyond it, and that a client of this copy is not ahead of it.  *)
(* With that every operation of the copy is a lemma of its own: it takes a *)
(* copy that tells the client to one that does.                            *)
(*                                                                         *)
(* That rows are true is about the reads under way: what each captured,    *)
(* what the agent answered since, and what is still on the wire for the    *)
(* rows it will write. It is the invariant RInv, further down.             *)
(***************************************************************************)
EXTENDS SessionMirror, TLAPS

Snapshot == [inc: Nat, seq: Nat, rows: Versions]

(* A client is of an earlier copy, or of this one and not ahead of it.         *)
NotAhead(m, h) ==
  /\ h.inc <= m.inc
  /\ m.there /\ h.inc = m.inc => h.seq <= m.cur

Good(m, h) == CopyOK(m) /\ NotAhead(m, h) /\ Told(m, h)

IInv == TypeOK /\ Good(mirror, held)

-----------------------------------------------------------------------------
(* THE OPERATIONS OF THE COPY                                                 *)

(* An event that is too large, or the oldest of a full log, moves the floor    *)
(* up and never past the new number.                                          *)
LEMMA KeptBounds ==
  ASSUME NEW m, CopyOK(m), NEW n
  PROVE  /\ Kept(m, n) \in Nat
         /\ Kept(m, n) <= m.cur + 1
         /\ m.floor <= Kept(m, n)
BY MirrorAssumption DEF CopyOK, Copies, Kept, Later

(* The rows and the log of a copy that got one new number.                     *)
RowsThen(m, S, ver) ==
  [r \in Rows |-> IF r \in S THEN [ver |-> ver[r], seq |-> IF ver[r] = 0 THEN 0 ELSE m.cur + 1] ELSE m.rows[r]]
LogThen(m, S, ver, f) ==
  {e \in m.log \union {[seq |-> m.cur + 1, row |-> r, ver |-> ver[r]] : r \in S} : e.seq > f}

LEMMA UpsertedFields ==
  ASSUME NEW m, CopyOK(m), NEW S \in SUBSET Rows, NEW ver \in Versions
  PROVE  LET n == Upserted(m, S, ver)
             f == Kept(m, Cardinality(S))
         IN /\ CopyOK(n) /\ n.there = m.there /\ n.inc = m.inc
            /\ n.cur = m.cur + 1 /\ n.floor = f
            /\ n.rows = RowsThen(m, S, ver) /\ n.log = LogThen(m, S, ver, f)
<1> DEFINE s == m.cur + 1
           f == Kept(m, Cardinality(S))
           rows == RowsThen(m, S, ver)
           log == LogThen(m, S, ver, f)
<1>1. Upserted(m, S, ver) = [m EXCEPT !.rows = rows, !.cur = s, !.floor = f, !.log = log]
  BY DEF Upserted, RowsThen, LogThen
<1>2. f \in Nat /\ f <= s /\ m.floor <= f
  BY KeptBounds
<1> HIDE DEF f
<1>3. m \in Copies /\ m.cur \in Nat /\ s \in Nat
  BY DEF CopyOK, Copies
<1>4. rows \in [Rows -> [ver: Nat, seq: Nat]] /\ \A r \in Rows : rows[r].seq <= s
  <2>1. m.rows \in [Rows -> [ver: Nat, seq: Nat]] /\ \A r \in Rows : m.rows[r].seq <= m.cur
    BY DEF CopyOK, Copies
  <2> QED BY <1>3, <2>1 DEF Versions, RowsThen
<1>5. log \subseteq [seq: Nat, row: Rows, ver: Nat] /\ \A e \in log : f < e.seq /\ e.seq <= s
  <2>1. m.log \subseteq [seq: Nat, row: Rows, ver: Nat] /\ \A e \in m.log : e.seq <= m.cur
    BY DEF CopyOK, Copies
  <2>2. {[seq |-> s, row |-> r, ver |-> ver[r]] : r \in S} \subseteq [seq: Nat, row: Rows, ver: Nat]
    BY <1>3 DEF Versions
  <2> QED BY <1>2, <1>3, <2>1, <2>2 DEF LogThen
<1> HIDE DEF rows, log, s
<1> DEFINE n == [m EXCEPT !.rows = rows, !.cur = s, !.floor = f, !.log = log]
<1>6. /\ n \in Copies /\ n.there = m.there /\ n.inc = m.inc
      /\ n.cur = s /\ n.floor = f /\ n.rows = rows /\ n.log = log
  BY <1>2, <1>3, <1>4, <1>5 DEF Copies
<1> HIDE DEF n
<1>7. CopyOK(n)
  BY <1>2, <1>4, <1>5, <1>6 DEF CopyOK
<1> QED BY <1>1, <1>6, <1>7 DEF n, f, rows, log, s

(* Of a row it does not concern a client behind it is told what it was told    *)
(* before, of one it does, the new state last.                                *)
LEMMA UpsertedTells ==
  ASSUME NEW m, NEW h \in Snapshot, Good(m, h), NEW S \in SUBSET Rows, NEW ver \in Versions
  PROVE  Good(Upserted(m, S, ver), h)
<1> DEFINE n == Upserted(m, S, ver)
           s == m.cur + 1
           f == Kept(m, Cardinality(S))
<1>1. /\ CopyOK(n) /\ n.there = m.there /\ n.inc = m.inc /\ n.cur = s /\ n.floor = f
      /\ n.rows = RowsThen(m, S, ver) /\ n.log = LogThen(m, S, ver, f)
  BY UpsertedFields DEF Good
<1>3. f \in Nat /\ f <= s /\ m.floor <= f
  BY KeptBounds DEF Good
<1>4. m.cur \in Nat /\ m.floor \in Nat /\ m.inc \in Nat /\ h.inc \in Nat /\ h.seq \in Nat
  BY DEF Good, CopyOK, Copies, Snapshot
<1> HIDE DEF n, f
<1>5. NotAhead(n, h)
  BY <1>1, <1>4 DEF Good, NotAhead
<1>6. Told(n, h)
  <2> SUFFICES ASSUME n.there, h.inc = n.inc, h.seq >= n.floor, NEW r \in Rows
               PROVE  \/ ToldLast(n, h, r, n.rows[r].ver)
                         /\ (n.rows[r].ver # 0 => After(n, h, r) \/ h.rows[r] = n.rows[r].ver)
                      \/ n.rows[r].seq = 0 /\ ToldLast(n, h, r, 0)
    BY DEF Told, Brings
  <2>1. h.seq >= m.floor /\ h.seq < s /\ f <= h.seq
    BY <1>1, <1>3, <1>4 DEF Good, NotAhead
  <2>2. \/ ToldLast(m, h, r, m.rows[r].ver)
           /\ (m.rows[r].ver # 0 => After(m, h, r) \/ h.rows[r] = m.rows[r].ver)
        \/ m.rows[r].seq = 0 /\ ToldLast(m, h, r, 0)
    BY <1>1, <2>1 DEF Good, Told, Brings
  <2>3. CASE r \notin S
    <3>1. Since(n, h, r) = Since(m, h, r)
      <4>1. \A e \in {[seq |-> s, row |-> q, ver |-> ver[q]] : q \in S} : e.row # r
        BY <2>3
      <4>2. \A e \in m.log : e.seq \in Nat
        BY DEF Good, CopyOK, Copies
      <4> QED BY <1>1, <1>3, <1>4, <2>1, <4>1, <4>2 DEF Since, LogThen
    <3>2. n.rows[r] = m.rows[r]
      BY <1>1, <2>3 DEF RowsThen
    <3> QED BY <2>2, <3>1, <3>2 DEF ToldLast, After
  <2>4. CASE r \in S
    <3> DEFINE e == [seq |-> s, row |-> r, ver |-> ver[r]]
    <3>1. e \in Since(n, h, r)
      BY <1>1, <1>3, <1>4, <2>1, <2>4 DEF Since, LogThen
    <3>2. \A g \in Since(n, h, r) : g.seq <= e.seq
      BY <1>1 DEF Since, CopyOK, Copies
    <3>3. n.rows[r].ver = ver[r] /\ (ver[r] # 0 => n.rows[r].seq = s)
      BY <1>1, <2>4 DEF RowsThen
    <3>4. ToldLast(n, h, r, n.rows[r].ver)
      BY <3>1, <3>2, <3>3 DEF ToldLast
    <3>5. n.rows[r].ver # 0 => After(n, h, r)
      BY <3>3, <2>1, <1>4 DEF After
    <3> QED BY <3>4, <3>5
  <2> QED BY <2>3, <2>4
<1> QED BY <1>1, <1>5, <1>6 DEF Good, n

(* Marking a copy, or counting a removal, tells nobody anything.               *)
LEMMA MarkedTells ==
  ASSUME NEW m, NEW h \in Snapshot, Good(m, h)
  PROVE  Good([m EXCEPT !.gen = @ + 1], h) /\ Good([m EXCEPT !.init = TRUE], h)
<1> DEFINE n == [m EXCEPT !.gen = @ + 1]
           k == [m EXCEPT !.init = TRUE]
<1>1. CopyOK(m)
  BY DEF Good
<1>2. /\ n \in Copies /\ n.there = m.there /\ n.inc = m.inc
      /\ n.cur = m.cur /\ n.floor = m.floor /\ n.rows = m.rows /\ n.log = m.log
  BY <1>1 DEF CopyOK, Copies
<1>3. /\ k \in Copies /\ k.there = m.there /\ k.inc = m.inc
      /\ k.cur = m.cur /\ k.floor = m.floor /\ k.rows = m.rows /\ k.log = m.log
  BY <1>1 DEF CopyOK, Copies
<1> HIDE DEF n, k
<1>4. NotAhead(n, h) /\ NotAhead(k, h)
  BY <1>2, <1>3 DEF Good, NotAhead
<1>5. Told(n, h) /\ Told(k, h)
  BY <1>2, <1>3 DEF Good, Told, Brings, ToldLast, Since, After
<1>6. CopyOK(n) /\ CopyOK(k)
  BY <1>1, <1>2, <1>3 DEF CopyOK
<1> QED BY <1>4, <1>5, <1>6 DEF Good, n, k

(* A copy made anew is of another incarnation: no client is of it.             *)
LEMMA EnterTells ==
  ASSUME NEW m, NEW h \in Snapshot, Good(m, h)
  PROVE  Good(Enter(m), h)
<1>1. CASE m.there
  BY <1>1 DEF Enter
<1>2. CASE ~m.there
  <2> DEFINE n == Fresh(m.inc + 1)
  <2>1. m.inc \in Nat /\ h.inc \in Nat /\ h.inc <= m.inc
    BY DEF Good, CopyOK, Copies, NotAhead, Snapshot
  <2>2. CopyOK(n) /\ n.inc = m.inc + 1
    BY <2>1 DEF CopyOK, Copies, Fresh
  <2>3. NotAhead(n, h) /\ Told(n, h)
    BY <2>1, <2>2 DEF NotAhead, Told, Brings
  <2> QED BY <1>2, <2>2, <2>3 DEF Enter, Good
<1> QED BY <1>1, <1>2

LEMMA NothingIsVersions == Nothing \in Versions
BY DEF Nothing, Versions

LEMMA NotedTells ==
  ASSUME NEW m, NEW h \in Snapshot, Good(m, h)
  PROVE  Good(Noted(m), h)
BY UpsertedTells, NothingIsVersions DEF Noted

LEMMA RowIsVersions ==
  ASSUME NEW r \in Rows, NEW v \in Nat
  PROVE  Row(r, v) \in Versions
BY DEF Row, Nothing, Versions

LEMMA WrittenTells ==
  ASSUME NEW m, NEW h \in Snapshot, Good(m, h), NEW r \in Rows, NEW v \in Nat, NEW append \in BOOLEAN
  PROVE  Good(Written(m, r, v, append), h)
<1>1. m.rows[r].ver \in Nat
  BY DEF Good, CopyOK, Copies
<1>2. (IF append THEN m.rows[r].ver + v ELSE v) \in Nat
  BY <1>1
<1> QED BY <1>2, RowIsVersions, UpsertedTells DEF Written

LEMMA ToolUpsertedTells ==
  ASSUME NEW m, NEW h \in Snapshot, Good(m, h), NEW r \in Rows, NEW v \in Nat
  PROVE  Good(ToolUpserted(m, r, v), h)
<1>1. m.rows[r].ver \in Nat
  BY DEF Good, CopyOK, Copies
<1>2. Patched(m.rows[r].ver, v) \in Nat
  BY <1>1 DEF Patched
<1> QED BY <1>2, RowIsVersions, UpsertedTells DEF ToolUpserted

LEMMA RemovedTells ==
  ASSUME NEW m, NEW h \in Snapshot, Good(m, h), NEW S \in SUBSET Rows
  PROVE  Good(Removed(m, S), h)
<1> DEFINE taken == {r \in S : m.rows[r].ver # 0}
           n == [m EXCEPT !.gen = @ + 1]
<1>1. Good(n, h)
  BY MarkedTells
<1>2. taken \in SUBSET Rows
  OBVIOUS
<1> HIDE DEF n, taken
<1>3. Good(Upserted(n, taken, Nothing), h)
  BY <1>1, <1>2, UpsertedTells, NothingIsVersions
<1>4. Good(IF taken = {} THEN n ELSE Upserted(n, taken, Nothing), h)
  BY <1>1, <1>3
<1> QED BY <1>4 DEF Removed, n, taken

(* A row that was not there, and that the client was last told is not.         *)
LEMMA QuietTells ==
  ASSUME NEW m, NEW h \in Snapshot, Good(m, h), NEW page \in Versions, NEW quiet \in SUBSET Rows,
         \A r \in quiet : m.rows[r].ver = 0
  PROVE  Good([m EXCEPT !.rows = [r \in Rows |-> IF r \in quiet THEN [ver |-> page[r], seq |-> 0] ELSE @[r]]], h)
<1> DEFINE n == [m EXCEPT !.rows = [r \in Rows |-> IF r \in quiet THEN [ver |-> page[r], seq |-> 0] ELSE @[r]]]
<1>1. CopyOK(m)
  BY DEF Good
<1>2. /\ n.there = m.there /\ n.inc = m.inc /\ n.cur = m.cur /\ n.floor = m.floor /\ n.log = m.log
      /\ n.rows = [r \in Rows |-> IF r \in quiet THEN [ver |-> page[r], seq |-> 0] ELSE m.rows[r]]
      /\ n \in Copies
  BY <1>1 DEF CopyOK, Copies, Versions
<1> HIDE DEF n
<1>3. CopyOK(n)
  BY <1>1, <1>2 DEF CopyOK, Copies
<1>4. NotAhead(n, h)
  BY <1>2 DEF Good, NotAhead
<1>5. Told(n, h)
  <2> SUFFICES ASSUME n.there, h.inc = n.inc, h.seq >= n.floor, NEW r \in Rows
               PROVE  \/ ToldLast(n, h, r, n.rows[r].ver)
                         /\ (n.rows[r].ver # 0 => After(n, h, r) \/ h.rows[r] = n.rows[r].ver)
                      \/ n.rows[r].seq = 0 /\ ToldLast(n, h, r, 0)
    BY DEF Told, Brings
  <2>1. \/ ToldLast(m, h, r, m.rows[r].ver)
           /\ (m.rows[r].ver # 0 => After(m, h, r) \/ h.rows[r] = m.rows[r].ver)
        \/ m.rows[r].seq = 0 /\ ToldLast(m, h, r, 0)
    BY <1>2 DEF Good, Told, Brings
  <2>2. \A v : ToldLast(n, h, r, v) <=> ToldLast(m, h, r, v)
    BY <1>2 DEF ToldLast, Since
  <2>3. CASE r \in quiet
    BY <1>2, <2>1, <2>2, <2>3
  <2>4. CASE r \notin quiet
    <3>1. n.rows[r] = m.rows[r]
      BY <1>2, <2>4
    <3> QED BY <2>1, <2>2, <3>1 DEF After
  <2> QED BY <2>3, <2>4
<1> QED BY <1>3, <1>4, <1>5 DEF Good, n

LEMMA PagedTells ==
  ASSUME NEW m, NEW h \in Snapshot, Good(m, h), NEW kind, NEW S \in SUBSET Rows, NEW page \in Versions
  PROVE  Good(Paged(m, kind, S, page), h)
<1> DEFINE quiet == IF kind = "window" THEN {r \in S : m.rows[r].ver = 0} ELSE {}
           loud == S \ quiet
           n == [m EXCEPT !.rows = [r \in Rows |-> IF r \in quiet THEN [ver |-> page[r], seq |-> 0] ELSE @[r]]]
<1>1. quiet \in SUBSET Rows /\ loud \in SUBSET Rows /\ \A r \in quiet : m.rows[r].ver = 0
  OBVIOUS
<1> HIDE DEF quiet
<1>2. Good(n, h)
  BY <1>1, QuietTells
<1> HIDE DEF loud, n
<1>3. Good(Upserted(n, loud, page), h)
  BY <1>1, <1>2, UpsertedTells
<1>4. Good(IF loud = {} THEN n ELSE Upserted(n, loud, page), h)
  BY <1>2, <1>3
<1> QED BY <1>4 DEF Paged, quiet, loud, n

(* After a refresh no client is at the floor.                                 *)
LEMMA ReplacedTells ==
  ASSUME NEW m, NEW h \in Snapshot, Good(m, h), NEW page \in Versions
  PROVE  Good(Replaced(m, page), h)
<1> DEFINE rows == [r \in Rows |-> IF page[r] # 0 THEN [ver |-> page[r], seq |-> 0] ELSE m.rows[r]]
           s == m.cur + 1
           n == [m EXCEPT !.rows = rows, !.cur = s, !.floor = s, !.log = {}, !.init = TRUE]
<1>1. CopyOK(m) /\ m \in Copies
  BY DEF Good, CopyOK, Copies
<1>2. Replaced(m, page) = n
  BY DEF Replaced
<1>3. m.cur \in Nat /\ s \in Nat /\ m.inc \in Nat /\ h.inc \in Nat /\ h.seq \in Nat
  BY <1>1 DEF Copies, Snapshot
<1>4. rows \in [Rows -> [ver: Nat, seq: Nat]] /\ \A r \in Rows : rows[r].seq <= s
  BY <1>1, <1>3 DEF CopyOK, Copies, Versions
<1> HIDE DEF rows
<1>5. /\ n \in Copies /\ n.there = m.there /\ n.inc = m.inc
      /\ n.cur = s /\ n.floor = s /\ n.log = {} /\ n.rows = rows
  BY <1>1, <1>3, <1>4 DEF Copies
<1> HIDE DEF n
<1>6. CopyOK(n)
  BY <1>3, <1>4, <1>5 DEF CopyOK, Copies
<1>7. NotAhead(n, h) /\ Told(n, h)
  BY <1>3, <1>5 DEF Good, NotAhead, Told, Brings
<1> QED BY <1>2, <1>6, <1>7 DEF Good

(* A copy that was forgotten, and the client that takes a snapshot.            *)
LEMMA ForgottenTells ==
  ASSUME NEW m, NEW h \in Snapshot, Good(m, h)
  PROVE  Good([Fresh(m.inc) EXCEPT !.there = FALSE], h)
<1> DEFINE new == Fresh(m.inc)
           n == [new EXCEPT !.there = FALSE]
<1>1. m.inc \in Nat /\ h.inc <= m.inc
  BY DEF Good, CopyOK, Copies, NotAhead
<1>2. CopyOK(new) /\ new \in Copies /\ new.inc = m.inc
  BY <1>1 DEF CopyOK, Copies, Fresh
<1> HIDE DEF new
<1>3. /\ n \in Copies /\ n.there = FALSE /\ n.inc = m.inc
      /\ n.cur = new.cur /\ n.floor = new.floor /\ n.rows = new.rows /\ n.log = new.log
  BY <1>2 DEF Copies
<1> HIDE DEF n
<1>4. CopyOK(n)
  BY <1>2, <1>3 DEF CopyOK
<1>5. Good(n, h)
  BY <1>1, <1>3, <1>4 DEF Good, NotAhead, Told, Brings
<1> QED BY <1>5 DEF n, new

LEMMA SnapshotTells ==
  ASSUME NEW m, CopyOK(m)
  PROVE  LET h == [inc |-> m.inc, seq |-> m.cur, rows |-> [r \in Rows |-> m.rows[r].ver]]
         IN h \in Snapshot /\ Good(m, h)
<1> DEFINE h == [inc |-> m.inc, seq |-> m.cur, rows |-> [r \in Rows |-> m.rows[r].ver]]
<1>1. h \in Snapshot
  BY DEF CopyOK, Copies, Snapshot, Versions
<1>2. NotAhead(m, h)
  BY DEF CopyOK, Copies, NotAhead
<1>3. \A r \in Rows : Since(m, h, r) = {}
  BY DEF CopyOK, Copies, Since
<1>4. Told(m, h)
  BY <1>3 DEF Told, Brings, ToldLast
<1> QED BY <1>1, <1>2, <1>4 DEF Good
-----------------------------------------------------------------------------
(* THE STEPS                                                                  *)

(* What the copy and the client leave of the state's types.                    *)
Around ==
  /\ agent \in [Rows -> [ver: 0..MaxVer \union {Finished, 1}, at: {"unborn", "open", "ended", "removed"}]]
  /\ wire \in Seq(Events) /\ Len(wire) <= MaxWire
  /\ jobs \in [Jobs -> Reading]
  /\ spent \in 0..MaxSpent
  /\ gone \subseteq Rows /\ doubt \subseteq Rows

LEMMA Parts == IInv <=> Around /\ held \in Snapshot /\ Good(mirror, held)
BY DEF IInv, TypeOK, Around, Snapshot, Good

LEMMA SpendTypes == ASSUME Around, Spend PROVE spent' \in 0..MaxSpent
BY MirrorAssumption DEF Around, Spend

LEMMA TellTypes ==
  ASSUME Around, NEW e \in Events, Tell(e)
  PROVE  wire' \in Seq(Events) /\ Len(wire') <= MaxWire /\ spent' \in 0..MaxSpent
<1>1. wire \in Seq(Events) /\ Len(wire) < MaxWire /\ wire' = Append(wire, e)
  BY DEF Around, Tell
<1>2. spent' \in 0..MaxSpent
  BY SpendTypes DEF Tell
<1> QED BY <1>1, <1>2, MirrorAssumption

LEMMA TakesTypes ==
  ASSUME Around, NEW type, Takes(type)
  PROVE  /\ wire' \in Seq(Events) /\ Len(wire') <= MaxWire
         /\ Next1.rows \in SUBSET Rows /\ Next1.ver \in Nat
<1>1. wire \in Seq(Events) /\ Len(wire) <= MaxWire /\ wire # <<>> /\ wire' = Tail(wire)
  BY DEF Around, Takes
<1>2. Head(wire) \in Events
  BY <1>1
<1>3. wire' \in Seq(Events) /\ Len(wire') <= MaxWire
  BY <1>1, MirrorAssumption
<1> QED BY <1>2, <1>3 DEF Events, Next1

LEMMA RestingIsReading == Resting \in Reading
BY NothingIsVersions DEF Resting, Reading, Pcs, Kinds

LEMMA GoTypes ==
  ASSUME Around, NEW j \in Jobs, NEW job \in Reading, Go(j, job)
  PROVE  jobs' \in [Jobs -> Reading]
BY DEF Around, Go

LEMMA AnswerTypes ==
  ASSUME Around, NEW S
  PROVE  Answer(S) \in Versions
BY MirrorAssumption DEF Around, Answer, Versions, Finished

(* A revert takes rows away with one event, whoever asked for it.              *)
LEMMA RevertsTypes ==
  ASSUME Around, NEW S \in SUBSET Rows, Reverts(S)
  PROVE  /\ agent' \in [Rows -> [ver: 0..MaxVer \union {Finished, 1}, at: {"unborn", "open", "ended", "removed"}]]
         /\ wire' \in Seq(Events) /\ Len(wire') <= MaxWire /\ spent' \in 0..MaxSpent
         /\ \E e \in Events : Tell(e)
<1> DEFINE States == [ver: 0..MaxVer \union {Finished, 1}, at: {"unborn", "open", "ended", "removed"}]
           taken == {r \in S : agent[r].at \in {"open", "ended"}}
           e == Event("removed", taken, 0)
<1>1. taken \subseteq Rows
  OBVIOUS
<1>2. agent' = [r \in Rows |-> IF r \in taken THEN [ver |-> 0, at |-> "removed"] ELSE agent[r]] /\ Tell(e)
  BY DEF Reverts
<1>3. [ver |-> 0, at |-> "removed"] \in States
  BY MirrorAssumption
<1>4. agent \in [Rows -> States]
  BY DEF Around
<1>5. e \in Events
  BY <1>1 DEF Event, Events, Types
<1> HIDE DEF taken, States, e
<1>6. agent' \in [Rows -> States]
  BY <1>2, <1>3, <1>4
<1> QED BY <1>2, <1>5, <1>6, TellTypes DEF States

(* Every step of the agent is one event, and leaves the copy alone.            *)
LEMMA AgentKeeps == ASSUME IInv, Agent PROVE IInv'
<1> DEFINE States == [ver: 0..MaxVer \union {Finished, 1}, at: {"unborn", "open", "ended", "removed"}]
<1>0. Around /\ held \in Snapshot /\ Good(mirror, held) /\ agent \in [Rows -> States]
  BY Parts DEF Around
<1>a. ASSUME AgentAlone, agent' \in [Rows -> States], NEW e \in Events, Tell(e)
      PROVE  IInv'
  <2>1. wire' \in Seq(Events) /\ Len(wire') <= MaxWire /\ spent' \in 0..MaxSpent
    BY <1>0, <1>a, TellTypes
  <2>2. Around'
    BY <1>0, <1>a, <2>1 DEF Around, AgentAlone
  <2> QED BY <1>0, <1>a, <2>2, Parts DEF AgentAlone, IInv, TypeOK, Around, Snapshot, Good
<1>b. \A r \in Rows, ver \in 0..MaxVer \union {Finished, 1}, at \in {"unborn", "open", "ended", "removed"} :
        Becomes(r, ver, at) => agent' \in [Rows -> States]
  BY <1>0 DEF Becomes
<1>c. \A r \in Rows : agent[r].ver \in 0..MaxVer \union {Finished, 1} /\ agent[r].ver \in Nat
  BY <1>0, MirrorAssumption DEF Finished
<1>e. \A type \in Types, S \in SUBSET Rows, ver \in Nat : Event(type, S, ver) \in Events
  BY DEF Event, Events
<1>t. Texts \subseteq Rows /\ Tools \subseteq Rows /\ Inputs \subseteq Rows
  BY DEF Rows
<1>1. ASSUME NEW r \in Texts, AgentStreams(r) PROVE IInv'
  <2>1. agent[r].ver + 1 \in 0..MaxVer
    BY <1>1, <1>c, <1>t, MirrorAssumption DEF AgentStreams
  <2>2. agent' \in [Rows -> States]
    BY <1>1, <1>b, <1>t, <2>1 DEF AgentStreams
  <2>3. Event("delta", {r}, 1) \in Events
    BY <1>e, <1>t DEF Types
  <2> QED BY <1>a, <1>1, <2>2, <2>3 DEF AgentStreams
<1>2. ASSUME NEW r \in Texts, AgentEndsText(r) PROVE IInv'
  <2>2. agent' \in [Rows -> States]
    BY <1>2, <1>b, <1>c, <1>t DEF AgentEndsText
  <2>3. Event("whole", {r}, agent[r].ver) \in Events
    BY <1>e, <1>c, <1>t DEF Types
  <2> QED BY <1>a, <1>2, <2>2, <2>3 DEF AgentEndsText
<1>3. ASSUME NEW r \in Tools, AgentRunsTool(r) PROVE IInv'
  <2>2. agent' \in [Rows -> States]
    BY <1>3, <1>b, <1>t DEF AgentRunsTool
  <2>3. Event("tool", {r}, 1) \in Events
    BY <1>e, <1>t DEF Types
  <2> QED BY <1>a, <1>3, <2>2, <2>3 DEF AgentRunsTool
<1>4. ASSUME NEW r \in Tools, AgentFinishesTool(r) PROVE IInv'
  <2>2. agent' \in [Rows -> States]
    BY <1>4, <1>b, <1>t DEF AgentFinishesTool
  <2>3. Event("tool", {r}, Finished) \in Events
    BY <1>e, <1>t DEF Types, Finished
  <2> QED BY <1>a, <1>4, <2>2, <2>3 DEF AgentFinishesTool
<1>5. ASSUME NEW r \in Tools, AgentTellsLate(r) PROVE IInv'
  <2>2. agent' \in [Rows -> States]
    BY <1>0, <1>5 DEF AgentTellsLate
  <2>3. Event("tool", {r}, 1) \in Events
    BY <1>e, <1>t DEF Types
  <2> QED BY <1>a, <1>5, <2>2, <2>3 DEF AgentTellsLate
<1>6. ASSUME NEW r \in Inputs, AgentDelivers(r) PROVE IInv'
  <2>2. agent' \in [Rows -> States]
    BY <1>6, <1>b, <1>t DEF AgentDelivers
  <2>3. Event("delivered", {r}, 1) \in Events
    BY <1>e, <1>t DEF Types
  <2> QED BY <1>a, <1>6, <2>2, <2>3 DEF AgentDelivers
<1>7. ASSUME NEW S \in {Rows, Rows \ Older}, AgentReverts(S) PROVE IInv'
  <2>1. S \in SUBSET Rows /\ Reverts(S) /\ AgentAlone
    BY <1>7 DEF AgentReverts
  <2>2. agent' \in [Rows -> States] /\ \E e \in Events : Tell(e)
    BY <1>0, <2>1, RevertsTypes
  <2> QED BY <1>a, <2>1, <2>2
<1>8. ASSUME AgentRests PROVE IInv'
  <2>2. agent' \in [Rows -> States]
    BY <1>0, <1>8 DEF AgentRests
  <2>3. Event("rested", {}, 0) \in Events
    BY <1>e DEF Types
  <2> QED BY <1>a, <1>8, <2>2, <2>3 DEF AgentRests
<1> QED BY <1>1, <1>2, <1>3, <1>4, <1>5, <1>6, <1>7, <1>8 DEF Agent
(* What a step that leaves the agent alone has still to show.                  *)
LEMMA KeptParts ==
  ASSUME IInv, UNCHANGED agent,
         wire' \in Seq(Events), Len(wire') <= MaxWire, jobs' \in [Jobs -> Reading], spent' \in 0..MaxSpent,
         gone' \subseteq Rows, doubt' \subseteq Rows, held' \in Snapshot, Good(mirror', held')
  PROVE  IInv'
BY DEF IInv, TypeOK, Snapshot, Good

LEMMA PumpKeeps == ASSUME IInv, Pump PROVE IInv'
<1>0. Around /\ held \in Snapshot /\ Good(mirror, held)
  BY Parts
<1>1. Good(Enter(mirror), held)
  BY <1>0, EnterTells
<1>2. jobs \in [Jobs -> Reading] /\ spent \in 0..MaxSpent /\ gone \subseteq Rows /\ doubt \subseteq Rows
  BY <1>0 DEF Around
<1>a. ASSUME NEW type, Takes(type), PumpAlone, jobs' \in [Jobs -> Reading],
             gone' \subseteq Rows, doubt' \subseteq Rows, Good(mirror', held)
      PROVE  IInv'
  <2>1. wire' \in Seq(Events) /\ Len(wire') <= MaxWire
    BY <1>0, <1>a, TakesTypes
  <2> QED BY <1>0, <1>2, <1>a, <2>1, KeptParts DEF PumpAlone
<1>b. ASSUME NEW type, Takes(type)
      PROVE  Next1.rows \in SUBSET Rows /\ Next1.ver \in Nat
  BY <1>0, <1>b, TakesTypes
<1>3. ASSUME TakeDelta PROVE IInv'
  <2>1. PICK r \in Next1.rows : mirror' = Written(Enter(mirror), r, Next1.ver, TRUE)
    BY <1>3 DEF TakeDelta
  <2>2. r \in Rows /\ Next1.ver \in Nat
    BY <1>3, <1>b DEF TakeDelta
  <2>3. Good(mirror', held)
    BY <1>0, <1>1, <2>1, <2>2, WrittenTells
  <2> QED BY <1>2, <1>3, <1>a, <2>3 DEF TakeDelta
<1>4. ASSUME TakeWhole PROVE IInv'
  <2>1. PICK r \in Next1.rows : mirror' = Written(Enter(mirror), r, Next1.ver, FALSE) /\ doubt' = doubt \ {r}
    BY <1>4 DEF TakeWhole
  <2>2. r \in Rows /\ Next1.ver \in Nat
    BY <1>4, <1>b DEF TakeWhole
  <2>3. Good(mirror', held)
    BY <1>0, <1>1, <2>1, <2>2, WrittenTells
  <2> QED BY <1>2, <1>4, <1>a, <2>1, <2>3 DEF TakeWhole
<1>5. ASSUME TakeTool PROVE IInv'
  <2>1. PICK r \in Next1.rows :
          /\ mirror' = ToolUpserted(Enter(mirror), r, Next1.ver)
          /\ doubt' = IF Next1.ver = Finished THEN doubt \ {r} ELSE doubt
    BY <1>5 DEF TakeTool
  <2>2. r \in Rows /\ Next1.ver \in Nat
    BY <1>5, <1>b DEF TakeTool
  <2>3. Good(mirror', held)
    BY <1>0, <1>1, <2>1, <2>2, ToolUpsertedTells
  <2> QED BY <1>2, <1>5, <1>a, <2>1, <2>3 DEF TakeTool
<1>6. ASSUME TakeRemoved PROVE IInv'
  <2>1. Next1.rows \in SUBSET Rows
    BY <1>6, <1>b DEF TakeRemoved
  <2>2. Good(Noted(Enter(mirror)), held)
    BY <1>0, <1>1, NotedTells
  <2>3. Good(mirror', held)
    BY <1>0, <1>6, <2>1, <2>2, RemovedTells DEF TakeRemoved
  <2>4. jobs' \in [Jobs -> Reading]
    BY <1>2, <1>6, RestingIsReading DEF TakeRemoved
  <2> QED BY <1>2, <1>6, <1>a, <2>1, <2>3, <2>4 DEF TakeRemoved
<1>7. ASSUME TakeRested PROVE IInv'
  <2>1. Good(mirror', held)
    BY <1>0, <1>1, <1>7, NotedTells DEF TakeRested
  <2>2. [Resting EXCEPT !.pc = "read"] \in Reading
    BY RestingIsReading DEF Reading, Pcs
  <2>3. jobs' \in [Jobs -> Reading]
    BY <1>0, <1>7, <2>2, GoTypes DEF TakeRested, Jobs
  <2> QED BY <1>2, <1>7, <1>a, <2>1, <2>3 DEF TakeRested
<1>8. ASSUME TakeDelivered PROVE IInv'
  <2> DEFINE job == [Resting EXCEPT !.pc = "read", !.inc = mirror.inc, !.gen = mirror.gen]
  <2>1. PICK r \in Next1.rows : IF mirror.there /\ At(r, "rest") THEN Go(r, job) ELSE UNCHANGED jobs
    BY <1>8 DEF TakeDelivered
  <2>2. job \in Reading
    BY <1>0, RestingIsReading DEF Good, CopyOK, Copies, Reading, Pcs
  <2> HIDE DEF job
  <2>3. jobs' \in [Jobs -> Reading]
    BY <1>2, <2>1, <2>2 DEF Go
  <2> QED BY <1>0, <1>2, <1>8, <1>a, <2>3 DEF TakeDelivered
<1> QED BY <1>3, <1>4, <1>5, <1>6, <1>7, <1>8 DEF Pump

LEMMA LosesKeeps == ASSUME IInv, Loses PROVE IInv'
<1>0. Around /\ held \in Snapshot /\ Good(mirror, held)
  BY Parts
<1>1. wire' \in Seq(Events) /\ Len(wire') <= MaxWire
  BY MirrorAssumption DEF Loses
<1>2. spent' \in 0..MaxSpent
  BY <1>0, SpendTypes DEF Loses
<1>3. jobs' \in [Jobs -> Reading]
  <2>1. \A j \in Jobs, late \in BOOLEAN : [jobs[j] EXCEPT !.stale = late] \in Reading
    BY <1>0 DEF Around, Reading
  <2>2. ASSUME NEW j \in Jobs
        PROVE  [jobs[j] EXCEPT !.stale = @ \/ jobs[j].pc \in {"inform", "commit"}] \in Reading
    <3> DEFINE late == jobs[j].stale \/ jobs[j].pc \in {"inform", "commit"}
    <3>1. late \in BOOLEAN
      OBVIOUS
    <3>2. [jobs[j] EXCEPT !.stale = late] \in Reading
      BY <2>1, <3>1
    <3> QED BY <3>2
  <2> QED BY <2>2, RestingIsReading DEF Loses
<1>4. doubt' \subseteq Rows
  <2>1. ASSUME NEW i \in DOMAIN wire PROVE wire[i].rows \subseteq Rows
    <3>1. wire \in Seq(Events)
      BY <1>0 DEF Around
    <3>2. wire[i] \in Events
      BY <3>1
    <3> QED BY <3>2 DEF Events
  <2> QED BY <1>0, <2>1 DEF Around, Loses
<1> QED BY <1>0, <1>1, <1>2, <1>3, <1>4, KeptParts DEF Around, Loses

(* A client that takes a snapshot; an event about no row; an eviction.         *)
LEMMA OthersKeep == ASSUME IInv, ClientReads \/ Notes \/ Forgets PROVE IInv'
<1>0. Around /\ held \in Snapshot /\ Good(mirror, held)
  BY Parts
<1>1. CASE ClientReads
  <2>1. held' \in Snapshot /\ Good(mirror, held')
    BY <1>0, <1>1, SnapshotTells DEF ClientReads, Good
  <2> QED BY <1>0, <1>1, <2>1, KeptParts DEF Around, ClientReads
<1>2. CASE Notes
  <2>1. Good(mirror', held)
    BY <1>0, <1>2, NotedTells DEF Notes
  <2>2. spent' \in 0..MaxSpent
    BY <1>0, <1>2, SpendTypes DEF Notes
  <2> QED BY <1>0, <1>2, <2>1, <2>2, KeptParts DEF Around, Notes
<1>3. CASE Forgets
  <2>1. Good(mirror', held)
    BY <1>0, <1>3, ForgottenTells DEF Forgets
  <2>2. spent' \in 0..MaxSpent
    BY <1>0, <1>3, SpendTypes DEF Forgets
  <2>3. doubt' \subseteq Rows
    BY <1>0, <1>3 DEF Around, Forgets
  <2> QED BY <1>0, <1>3, <2>1, <2>2, <2>3, KeptParts DEF Around, Forgets
<1> QED BY <1>1, <1>2, <1>3
-----------------------------------------------------------------------------
(* THE READS                                                                  *)

(* A step of a read that leaves the copy alone, or puts what it read in.        *)
LEMMA JobParts ==
  ASSUME IInv, JobAlone, NEW j \in Jobs, NEW job \in Reading, Go(j, job), spent' \in 0..MaxSpent,
         doubt' \subseteq Rows, Good(mirror', held)
  PROVE  IInv'
<1>0. Around /\ held \in Snapshot
  BY Parts
<1>1. jobs' \in [Jobs -> Reading]
  BY <1>0, GoTypes
<1> QED BY <1>0, <1>1, KeptParts DEF Around, JobAlone

LEMMA JobNames ==
  /\ "history" \in Jobs /\ "refresh" \in Jobs /\ "tail" \in Jobs /\ "revert" \in Jobs /\ Inputs \subseteq Jobs
  /\ Inputs \subseteq Rows
BY DEF Jobs, Rows

LEMMA ReadingPage ==
  ASSUME Around, NEW j \in Jobs
  PROVE  jobs[j] \in Reading /\ jobs[j].page \in Versions
BY DEF Around, Reading

LEMMA TrustsTypes ==
  ASSUME Around, NEW j, NEW S \in SUBSET Rows, Trusts(j, S)
  PROVE  doubt' \subseteq Rows
BY DEF Around, Trusts

LEMMA ReadsKeep ==
  ASSUME IInv, NEW j \in Jobs, NEW S, NEW pc \in Pcs, Reads(j, S, pc)
  PROVE  IInv'
<1>0. Around /\ Good(mirror, held)
  BY Parts
<1>1. Answer(S) \in Versions
  BY <1>0, AnswerTypes
<1>2. [jobs[j] EXCEPT !.pc = pc, !.page = Answer(S)] \in Reading
  BY <1>0, <1>1, ReadingPage DEF Reading
<1> QED BY <1>0, <1>2, JobParts DEF Reads, Around

LEMMA GivesUpKeeps == ASSUME IInv, NEW j \in Jobs, GivesUp(j) PROVE IInv'
<1>0. Around /\ Good(mirror, held)
  BY Parts
<1>1. spent' \in 0..MaxSpent
  BY <1>0, SpendTypes DEF GivesUp
<1> QED BY <1>0, <1>1, RestingIsReading, JobParts DEF GivesUp, Rest, Around

LEMMA HistoryOpensKeeps ==
  ASSUME IInv, NEW kind \in {"cold", "window", "earlier"}, HistoryOpens(kind)
  PROVE  IInv'
<1> DEFINE m == Enter(mirror)
           job == [Resting EXCEPT !.pc = "read", !.kind = kind, !.inc = m.inc, !.cur = m.cur, !.gen = m.gen]
<1>0. Around /\ held \in Snapshot /\ Good(mirror, held)
  BY Parts
<1>1. Good(m, held)
  BY <1>0, EnterTells
<1>2. m.inc \in Nat /\ m.cur \in Nat /\ m.gen \in Nat
  BY <1>1 DEF Good, CopyOK, Copies
<1>3. mirror' = m /\ Go("history", job) /\ Spend /\ JobAlone /\ UNCHANGED doubt
  BY DEF HistoryOpens
<1> HIDE DEF m
<1>4. job \in Reading
  BY <1>2, RestingIsReading DEF Reading, Pcs, Kinds
<1>5. spent' \in 0..MaxSpent
  BY <1>0, <1>3, SpendTypes
<1> HIDE DEF job
<1> QED BY <1>0, <1>1, <1>3, <1>4, <1>5, JobNames, JobParts DEF Around

LEMMA HistoryReadsKeeps == ASSUME IInv, HistoryReads PROVE IInv'
<1>1. CASE jobs["history"].kind = "cold"
  <2>1. PICK S \in Newest : Reads("history", S, "inform")
    BY <1>1 DEF HistoryReads
  <2> QED BY <2>1, JobNames, ReadsKeep DEF Pcs
<1>2. CASE jobs["history"].kind # "cold"
  <2>1. PICK S \in Earlier : Reads("history", S, "commit")
    BY <1>2 DEF HistoryReads
  <2> QED BY <2>1, JobNames, ReadsKeep DEF Pcs
<1> QED BY <1>1, <1>2

LEMMA ColdInformsKeeps == ASSUME IInv, ColdInforms PROVE IInv'
<1>0. Around /\ held \in Snapshot /\ Good(mirror, held)
  BY Parts
<1>1. Good(mirror', held)
  BY <1>0, EnterTells, NotedTells DEF ColdInforms
<1>2. [jobs["history"] EXCEPT !.pc = "commit"] \in Reading
  BY <1>0, JobNames, ReadingPage DEF Reading, Pcs
<1> QED BY <1>0, <1>1, <1>2, JobNames, JobParts DEF ColdInforms, Around

LEMMA ColdCommitsKeeps == ASSUME IInv, ColdCommits PROVE IInv'
<1> DEFINE job == jobs["history"]
           S == Unseen(job)
           m == IF S = {} THEN mirror ELSE Upserted(mirror, S, job.page)
<1>0. Around /\ held \in Snapshot /\ Good(mirror, held)
  BY Parts
<1>1. S \in SUBSET Rows /\ job.page \in Versions
  BY <1>0, JobNames, ReadingPage DEF Unseen, Present
<1>2. Good(m, held)
  BY <1>0, <1>1, UpsertedTells
<1>3. Good([m EXCEPT !.init = TRUE], held)
  BY <1>0, <1>2, MarkedTells
<1>4. Good(mirror', held) /\ doubt' \subseteq Rows
  <2>1. CASE mirror' = [m EXCEPT !.init = TRUE] /\ Trusts("history", S)
    BY <1>0, <1>1, <1>3, <2>1, TrustsTypes
  <2>2. CASE UNCHANGED <<mirror, doubt>>
    BY <1>0, <2>2 DEF Around
  <2> QED BY <2>1, <2>2 DEF ColdCommits
<1> HIDE DEF S, m
<1> QED BY <1>0, <1>4, JobNames, RestingIsReading, JobParts DEF ColdCommits, Rest, Around

LEMMA PageCommitsKeeps == ASSUME IInv, PageCommits PROVE IInv'
<1> DEFINE job == jobs["history"]
           S == Unseen(job)
<1>0. Around /\ held \in Snapshot /\ Good(mirror, held)
  BY Parts
<1>1. S \in SUBSET Rows /\ job.page \in Versions
  BY <1>0, JobNames, ReadingPage DEF Unseen, Present
<1>2. Good(Paged(mirror, job.kind, S, job.page), held)
  BY <1>0, <1>1, PagedTells
<1>4. Good(mirror', held) /\ doubt' \subseteq Rows
  <2>1. CASE mirror' = Paged(mirror, job.kind, S, job.page) /\ Trusts("history", S)
    BY <1>0, <1>1, <1>2, <2>1, TrustsTypes
  <2>2. CASE UNCHANGED <<mirror, doubt>>
    BY <1>0, <2>2 DEF Around
  <2> QED BY <2>1, <2>2 DEF PageCommits
<1> HIDE DEF S
<1> QED BY <1>0, <1>4, JobNames, RestingIsReading, JobParts DEF PageCommits, Rest, Around

LEMMA RefreshStartsKeeps == ASSUME IInv, RefreshStarts PROVE IInv'
<1> DEFINE inc == IF mirror.there THEN mirror.inc ELSE 0
           job == [Resting EXCEPT !.pc = "read", !.inc = inc, !.cur = mirror.cur]
<1>0. Around /\ held \in Snapshot /\ Good(mirror, held)
  BY Parts
<1>1. job \in Reading
  <2>1. inc \in Nat /\ mirror.cur \in Nat
    BY <1>0 DEF Good, CopyOK, Copies
  <2> HIDE DEF inc
  <2> QED BY <2>1, RestingIsReading DEF Reading, Pcs
<1>2. spent' \in 0..MaxSpent
  BY <1>0, SpendTypes DEF RefreshStarts
<1>3. Go("refresh", job) /\ JobAlone /\ UNCHANGED <<mirror, doubt>>
  BY DEF RefreshStarts
<1> HIDE DEF job
<1> QED BY <1>0, <1>1, <1>2, <1>3, JobNames, JobParts DEF Around

LEMMA RefreshCommitsKeeps == ASSUME IInv, RefreshCommits PROVE IInv'
<1> DEFINE job == jobs["refresh"]
           page == jobs["history"]
<1>0. Around /\ held \in Snapshot /\ Good(mirror, held)
  BY Parts
<1>1. job.page \in Versions /\ page \in Reading /\ Present(job.page) \in SUBSET Rows
  BY <1>0, JobNames, ReadingPage DEF Present
<1>2. Good(Replaced(Enter(mirror), job.page), held)
  BY <1>0, <1>1, EnterTells, ReplacedTells
<1>3. CASE Unmoved(job)
  <2>1. /\ mirror' = Replaced(Enter(mirror), job.page)
        /\ Trusts("refresh", Present(job.page))
        /\ jobs' = [jobs EXCEPT !["refresh"] = Resting, !["history"].stale = @ \/ page.pc = "commit"]
        /\ JobAlone /\ UNCHANGED spent
    BY <1>3 DEF RefreshCommits
  <2>2. doubt' \subseteq Rows
    BY <1>0, <1>1, <2>1, TrustsTypes
  <2>3. jobs' \in [Jobs -> Reading]
    <3> DEFINE late == page.stale \/ page.pc = "commit"
    <3>1. jobs' = [jobs EXCEPT !["refresh"] = Resting, !["history"] = [page EXCEPT !.stale = late]]
      BY <1>0, <2>1, JobNames DEF Around
    <3>2. late \in BOOLEAN
      OBVIOUS
    <3> HIDE DEF late
    <3>3. [page EXCEPT !.stale = late] \in Reading
      BY <1>1, <3>2 DEF Reading
    <3> QED BY <1>0, <3>1, <3>3, RestingIsReading DEF Around
  <2> QED BY <1>0, <1>2, <2>1, <2>2, <2>3, KeptParts DEF Around, JobAlone
<1>4. CASE ~Unmoved(job)
  <2>1. Rest("refresh") /\ UNCHANGED <<mirror, doubt>> /\ JobAlone /\ UNCHANGED spent
    BY <1>4 DEF RefreshCommits
  <2> QED BY <1>0, <2>1, JobNames, RestingIsReading, JobParts DEF Rest, Around
<1> QED BY <1>3, <1>4

LEMMA TailCommitsKeeps == ASSUME IInv, TailCommits PROVE IInv'
<1> DEFINE job == jobs["tail"]
           S == Present(job.page)
<1>0. Around /\ held \in Snapshot /\ Good(mirror, held)
  BY Parts
<1>1. S \in SUBSET Rows /\ job.page \in Versions
  BY <1>0, JobNames, ReadingPage DEF Present
<1>2. Good(Upserted(Enter(mirror), S, job.page), held)
  BY <1>0, <1>1, EnterTells, UpsertedTells
<1>4. Good(mirror', held) /\ doubt' \subseteq Rows
  <2>1. CASE mirror' = Upserted(Enter(mirror), S, job.page) /\ Trusts("tail", S)
    BY <1>0, <1>1, <1>2, <2>1, TrustsTypes
  <2>2. CASE UNCHANGED <<mirror, doubt>>
    BY <1>0, <2>2 DEF Around
  <2> QED BY <2>1, <2>2 DEF TailCommits
<1> HIDE DEF S
<1> QED BY <1>0, <1>4, JobNames, RestingIsReading, JobParts DEF TailCommits, Rest, Around

LEMMA InputCommitsKeeps == ASSUME IInv, NEW r \in Inputs, InputCommits(r) PROVE IInv'
<1> DEFINE job == jobs[r]
<1>0. Around /\ held \in Snapshot /\ Good(mirror, held)
  BY Parts
<1>1. {r} \in SUBSET Rows /\ job.page \in Versions
  BY <1>0, JobNames, ReadingPage
<1>2. Good(Noted(Upserted(mirror, {r}, job.page)), held)
  BY <1>0, <1>1, UpsertedTells, NotedTells
<1>4. Good(mirror', held)
  BY <1>0, <1>2 DEF InputCommits
<1> QED BY <1>0, <1>4, JobNames, RestingIsReading, JobParts DEF InputCommits, Rest, Around

LEMMA RevertAsksKeeps == ASSUME IInv, NEW S \in SUBSET Rows, RevertAsks(S) PROVE IInv'
<1> DEFINE job == [Resting EXCEPT !.pc = "read"]
<1>0. Around /\ held \in Snapshot /\ Good(mirror, held)
  BY Parts
<1>1. Reverts(S) /\ Go("revert", job) /\ UNCHANGED <<mirror, held, gone, doubt>>
  BY DEF RevertAsks
<1>2. job \in Reading
  BY RestingIsReading DEF Reading, Pcs
<1> HIDE DEF job
<1>3. jobs' \in [Jobs -> Reading]
  BY <1>0, <1>1, <1>2, JobNames, GoTypes
<1>4. /\ agent' \in [Rows -> [ver: 0..MaxVer \union {Finished, 1}, at: {"unborn", "open", "ended", "removed"}]]
      /\ wire' \in Seq(Events) /\ Len(wire') <= MaxWire /\ spent' \in 0..MaxSpent
  BY <1>0, <1>1, RevertsTypes
<1>5. CopyOK(mirror) /\ gone \subseteq Rows /\ doubt \subseteq Rows
  BY <1>0 DEF Good, Around
<1> QED BY <1>0, <1>1, <1>3, <1>4, <1>5 DEF IInv, TypeOK, Snapshot

LEMMA RevertCommitsKeeps == ASSUME IInv, RevertCommits PROVE IInv'
<1> DEFINE page == jobs["revert"].page
           S == Present(page)
<1>0. Around /\ held \in Snapshot /\ Good(mirror, held)
  BY Parts
<1>1. S \in SUBSET Rows /\ page \in Versions
  BY <1>0, JobNames, ReadingPage DEF Present
<1>2. Good(Upserted(Enter(mirror), S, page), held)
  BY <1>0, <1>1, EnterTells, UpsertedTells
<1>3. Good(mirror', held) /\ doubt' \subseteq Rows
  <2>1. CASE /\ mirror' = Upserted(Enter(mirror), S, page)
             /\ doubt' = (doubt \ S) \union {r \in S : page[r] # agent[r].ver}
    BY <1>0, <1>1, <1>2, <2>1 DEF Around
  <2>2. CASE UNCHANGED <<mirror, doubt>>
    BY <1>0, <2>2 DEF Around
  <2> QED BY <2>1, <2>2 DEF RevertCommits
<1> HIDE DEF S
<1> QED BY <1>0, <1>3, JobNames, RestingIsReading, JobParts DEF RevertCommits, Rest, Around

LEMMA JobsKeep == ASSUME IInv, JobSteps PROVE IInv'
<1>1. \A S \in {Rows, Rows \ Older} : S \in SUBSET Rows
  OBVIOUS
<1> QED
  BY <1>1, HistoryOpensKeeps, HistoryReadsKeeps, ColdInformsKeeps, ColdCommitsKeeps, PageCommitsKeeps,
     RefreshStartsKeeps, RefreshCommitsKeeps, TailCommitsKeeps, InputCommitsKeeps, RevertAsksKeeps, RevertCommitsKeeps,
     GivesUpKeeps, ReadsKeep, JobNames
     DEF JobSteps, Pcs

-----------------------------------------------------------------------------
(* THE THEOREMS                                                               *)

(* The gateway starts with no copy, and a client that has nothing.             *)
LEMMA InitHolds == ASSUME Init PROVE IInv
<1>1. /\ wire = <<>> /\ mirror = [Fresh(0) EXCEPT !.there = FALSE] /\ jobs = [j \in Jobs |-> Resting]
      /\ held = [inc |-> 0, seq |-> 0, rows |-> Nothing] /\ spent = 0 /\ gone = {} /\ doubt = {}
  BY DEF Init
<1>2. agent \in [Rows -> [ver: 0..MaxVer \union {Finished, 1}, at: {"unborn", "open", "ended", "removed"}]]
  BY MirrorAssumption DEF Init
<1>3. mirror = [there |-> FALSE, inc |-> 0, rows |-> [r \in Rows |-> [ver |-> 0, seq |-> 0]], cur |-> 0,
                floor |-> 0, log |-> {}, init |-> FALSE, gen |-> 0]
  BY <1>1 DEF Fresh
<1>4. CopyOK(mirror) /\ mirror.there = FALSE /\ mirror.inc = 0
  BY <1>3 DEF CopyOK, Copies
<1>5. held \in Snapshot /\ Good(mirror, held)
  BY <1>1, <1>4, NothingIsVersions DEF Snapshot, Good, NotAhead, Told
<1>6. Around
  BY <1>1, <1>2, RestingIsReading, MirrorAssumption DEF Around
<1> QED BY <1>5, <1>6, Parts

LEMMA StepKeeps == IInv /\ [Next]_vars => IInv'
<1> SUFFICES ASSUME IInv, [Next]_vars PROVE IInv'
  OBVIOUS
<1>1. CASE Next
  BY <1>1, AgentKeeps, PumpKeeps, LosesKeeps, JobsKeep, OthersKeep DEF Next
<1>2. CASE UNCHANGED vars
  BY <1>2 DEF vars, IInv, TypeOK, Good, NotAhead, Told, Brings, ToldLast, Since, After
<1> QED BY <1>1, <1>2

(* The strengthening holds in every state.                                     *)
THEOREM Strengthening == Spec => []IInv
BY InitHolds, StepKeeps, PTL DEF Spec

(* The copy, its log and its reads keep their types; the log lies between its   *)
(* floor and the number of the copy, for every set of rows and every bound.    *)
THEOREM MirrorTypes == Spec => []TypeOK
<1>1. IInv => TypeOK
  BY DEF IInv
<1> QED BY <1>1, Strengthening, PTL

(* A client of the copy that is there, not told to take a new snapshot, ends    *)
(* with its rows when it replays the events after its number, and is answered   *)
(* every row that is there after it, for every set of rows, every length of the *)
(* log and every crossing of reads; rows paged in for another reader excepted.  *)
(* A client of a copy that was forgotten is promised nothing, nor is a row that *)
(* is gone told by the rows after a number.                                    *)
THEOREM ClientOfCopyAlwaysTold == Spec => []ClientOfCopyIsTold
<1>1. IInv => ClientOfCopyIsTold
  BY DEF IInv, Good, ClientOfCopyIsTold
<1> QED BY <1>1, Strengthening, PTL

-----------------------------------------------------------------------------
(***************************************************************************)
(* THE ROWS. That they are true takes what is on the wire into account: a  *)
(* version of a row is right if the agent's row is still open, or stands   *)
(* so, or an event that will put it right is on its way. Every event, every *)
(* row of the copy that is not in doubt and every page that will still be  *)
(* put in is right in this sense. A read keeps its page right by what it   *)
(* captured: an event that would leave it behind moves the copy past what  *)
(* the read asks of it (its number, its removals, its incarnation).        *)
(***************************************************************************)

(* Events that bring a row to the state it ends in, or take it away; and       *)
(* whether one about r is among the events w.                                  *)
Ends(e) == e.type \in {"whole", "removed"} \/ (e.type = "tool" /\ e.ver = Finished)
Ending(w, r) == \E i \in DOMAIN w : r \in w[i].rows /\ Ends(w[i])
Going(w, r) == \E i \in DOMAIN w : r \in w[i].rows /\ w[i].type = "removed"

(* What the i-th event of w may be, if it is about r and r stands at a.         *)
EventOK(w, i, r, a) ==
  /\ a.at # "unborn" /\ w[i].type # "rested"
  /\ w[i].type = "removed" =>
       a.at = "removed" /\ \A k \in DOMAIN w : k > i => r \notin w[k].rows
  /\ w[i].type # "removed" =>
       /\ w[i].rows = {r}
       /\ a.at = "removed" => \E k \in DOMAIN w : k > i /\ r \in w[k].rows /\ w[k].type = "removed"
  /\ w[i].type \in {"delta", "whole", "tool"} => w[i].ver # 0
  /\ w[i].type = "delta" =>
       /\ r \in Texts
       /\ a.at = "ended" => \E k \in DOMAIN w : k > i /\ r \in w[k].rows /\ w[k].type = "whole"
  /\ w[i].type = "whole" =>
       r \in Texts /\ a.at \in {"ended", "removed"} /\ (a.at = "ended" => w[i].ver = a.ver)
  /\ w[i].type = "tool" =>
       r \in Tools /\ (w[i].ver = Finished => a.at \in {"ended", "removed"})
  /\ w[i].type = "delivered" => r \in Inputs

WireOK(w, r, a) == \A i \in DOMAIN w : r \in w[i].rows => EventOK(w, i, r, a)

AgentOK(r, a) ==
  /\ a.at \in {"unborn", "removed"} => a.ver = 0
  /\ a.at = "open" => a.ver # 0 /\ r \notin Inputs
  /\ r \in Tools /\ a.at = "ended" => a.ver = Finished

(* A version v of r, which stands at a, is what r ends in or will be told.      *)
Right(w, a, r, v) ==
  /\ a.at = "ended" => Ending(w, r) \/ v = a.ver
  /\ a.at = "removed" => Going(w, r)

GoneRight(r) == r \in gone => agent[r].at = "removed" /\ \A i \in DOMAIN wire : r \notin wire[i].rows

CopyRight(r) ==
  /\ mirror.rows[r].ver # 0 => agent[r].at # "unborn"
  /\ mirror.rows[r].ver # 0 /\ r \notin doubt => Right(wire, agent[r], r, mirror.rows[r].ver)
  /\ r \in Tools \ doubt /\ agent[r].at = "ended" /\ ~Ending(wire, r) => mirror.rows[r].ver # 0
  /\ ~mirror.there => mirror.rows[r].ver = 0

(* A page that will be put in is right about the rows that will be.             *)
PageRight(j, r) == jobs[j].page[r] # 0 => Right(wire, agent[r], r, jobs[j].page[r])

HistoryRight(r) ==
  LET job == jobs["history"] IN
  /\ job.pc \in {"inform", "commit"} /\ ~job.stale /\ Fits(job)
  /\ mirror.rows[r].ver = 0 \/ mirror.rows[r].seq <= job.cur
  /\ job.kind = "cold" => ~mirror.init
  => PageRight("history", r)

RefreshRight(r) ==
  LET job == jobs["refresh"] IN
  job.pc = "commit" /\ ~job.stale /\ Unmoved(job) => PageRight("refresh", r)

TailRight(r) == At("tail", "commit") /\ ~jobs["tail"].stale => PageRight("tail", r)
InputRight(r) == r \in Inputs /\ At(r, "commit") => PageRight(r, r)

(* What was captured was so, and what was read was there.                      *)
JobOK(j) ==
  /\ jobs[j].inc <= mirror.inc
  /\ mirror.there /\ jobs[j].inc = mirror.inc => jobs[j].cur <= mirror.cur /\ jobs[j].gen <= mirror.gen
  /\ \A r \in Rows : jobs[j].page[r] # 0 => agent[r].at # "unborn"

Captured ==
  /\ mirror.there => mirror.inc >= 1
  /\ \A j \in Jobs : JobOK(j)
  /\ At("history", "inform") => jobs["history"].kind = "cold"

RowOK(r) ==
  /\ AgentOK(r, agent[r]) /\ WireOK(wire, r, agent[r]) /\ GoneRight(r)
  /\ CopyRight(r) /\ HistoryRight(r) /\ RefreshRight(r) /\ TailRight(r) /\ InputRight(r)

RInv == IInv /\ Captured /\ \A r \in Rows : RowOK(r)

(* With that no row comes back, and a settled copy has what the agent has.     *)
LEMMA RowsFollow == RInv => RowsAreTrue
<1> SUFFICES ASSUME RInv, NEW r \in Rows \ doubt, mirror.rows[r].ver # 0
             PROVE  /\ r \notin gone
                    /\ Settled /\ agent[r].at \in {"ended", "removed"} => mirror.rows[r].ver = agent[r].ver
  BY DEF RowsAreTrue
<1>1. Right(wire, agent[r], r, mirror.rows[r].ver) /\ GoneRight(r)
  BY DEF RInv, RowOK, CopyRight
<1>2. r \notin gone
  BY <1>1 DEF Right, GoneRight, Going
<1>3. Settled => ~Ending(wire, r) /\ ~Going(wire, r)
  BY DEF Settled, Ending, Going
<1> QED BY <1>1, <1>2, <1>3 DEF Right

-----------------------------------------------------------------------------
(* EVENTS ON THEIR WAY                                                        *)

LEMMA AppendedEvents ==
  ASSUME NEW w \in Seq(Events), NEW e \in Events
  PROVE  LET u == Append(w, e) IN
         /\ DOMAIN w = 1..Len(w) /\ DOMAIN u = 1..Len(w) + 1 /\ Len(w) \in Nat
         /\ \A i \in DOMAIN w : i \in DOMAIN u /\ u[i] = w[i]
         /\ u[Len(w) + 1] = e
OBVIOUS

LEMMA AppendedTells ==
  ASSUME NEW w \in Seq(Events), NEW e \in Events, NEW r
  PROVE  /\ Ending(Append(w, e), r) <=> Ending(w, r) \/ (r \in e.rows /\ Ends(e))
         /\ Going(Append(w, e), r) <=> Going(w, r) \/ (r \in e.rows /\ e.type = "removed")
<1> DEFINE u == Append(w, e)
<1>1. /\ DOMAIN w = 1..Len(w) /\ DOMAIN u = 1..Len(w) + 1 /\ Len(w) \in Nat
      /\ \A i \in DOMAIN w : i \in DOMAIN u /\ u[i] = w[i]
      /\ u[Len(w) + 1] = e
  BY AppendedEvents
<1> HIDE DEF u
<1>2. \A i \in DOMAIN u : i \in DOMAIN w \/ i = Len(w) + 1
  BY <1>1
<1>3. Len(w) + 1 \in DOMAIN u
  BY <1>1
<1>4. Ending(u, r) <=> Ending(w, r) \/ (r \in e.rows /\ Ends(e))
  BY <1>1, <1>2, <1>3 DEF Ending
<1>5. Going(u, r) <=> Going(w, r) \/ (r \in e.rows /\ e.type = "removed")
  BY <1>1, <1>2, <1>3 DEF Going
<1> QED BY <1>4, <1>5 DEF u

LEMMA TailEvents ==
  ASSUME NEW w \in Seq(Events), w # <<>>
  PROVE  LET u == Tail(w) IN
         /\ DOMAIN w = 1..Len(w) /\ DOMAIN u = 1..Len(w) - 1 /\ Len(w) \in Nat /\ Len(w) >= 1
         /\ \A i \in DOMAIN u : i + 1 \in DOMAIN w /\ u[i] = w[i + 1]
         /\ Head(w) = w[1] /\ u \in Seq(Events)
OBVIOUS

LEMMA TailTells ==
  ASSUME NEW w \in Seq(Events), w # <<>>, NEW r
  PROVE  /\ Ending(w, r) <=> Ending(Tail(w), r) \/ (r \in Head(w).rows /\ Ends(Head(w)))
         /\ Going(w, r) <=> Going(Tail(w), r) \/ (r \in Head(w).rows /\ Head(w).type = "removed")
         /\ (\A i \in DOMAIN w : r \notin w[i].rows) => \A i \in DOMAIN Tail(w) : r \notin Tail(w)[i].rows
<1> DEFINE u == Tail(w)
<1>1. /\ DOMAIN w = 1..Len(w) /\ DOMAIN u = 1..Len(w) - 1 /\ Len(w) \in Nat /\ Len(w) >= 1
      /\ \A i \in DOMAIN u : i + 1 \in DOMAIN w /\ u[i] = w[i + 1]
      /\ Head(w) = w[1]
  BY TailEvents
<1> HIDE DEF u
<1>2. \A i \in DOMAIN w : i = 1 \/ (i - 1 \in DOMAIN u /\ u[i - 1] = w[i])
  BY <1>1
<1>3. 1 \in DOMAIN w
  BY <1>1
<1>4. Ending(w, r) <=> Ending(u, r) \/ (r \in w[1].rows /\ Ends(w[1]))
  BY <1>1, <1>2, <1>3 DEF Ending
<1>5. Going(w, r) <=> Going(u, r) \/ (r \in w[1].rows /\ w[1].type = "removed")
  BY <1>1, <1>2, <1>3 DEF Going
<1> QED BY <1>1, <1>4, <1>5 DEF u

LEMMA TailOK ==
  ASSUME NEW w \in Seq(Events), w # <<>>, NEW r, NEW a, WireOK(w, r, a)
  PROVE  WireOK(Tail(w), r, a)
<1> DEFINE u == Tail(w)
<1>1. /\ DOMAIN w = 1..Len(w) /\ DOMAIN u = 1..Len(w) - 1 /\ Len(w) \in Nat /\ Len(w) >= 1
      /\ \A i \in DOMAIN u : i + 1 \in DOMAIN w /\ u[i] = w[i + 1]
      /\ Head(w) = w[1]
  BY TailEvents
<1> HIDE DEF u
<1>2. \A k \in DOMAIN w : k = 1 \/ (k - 1 \in DOMAIN u /\ u[k - 1] = w[k])
  BY <1>1
<1> SUFFICES ASSUME NEW i \in DOMAIN u, r \in u[i].rows
             PROVE  EventOK(u, i, r, a)
  BY DEF WireOK, u
<1>3. EventOK(w, i + 1, r, a) /\ u[i] = w[i + 1]
  BY <1>1 DEF WireOK
<1>4. \A k \in DOMAIN u : k > i => k + 1 \in DOMAIN w /\ k + 1 > i + 1 /\ u[k] = w[k + 1]
  BY <1>1
<1>5. \A k \in DOMAIN w : k > i + 1 => k - 1 \in DOMAIN u /\ k - 1 > i /\ u[k - 1] = w[k]
  BY <1>1, <1>2
<1> QED BY <1>3, <1>4, <1>5 DEF EventOK

(* The event the pump takes, and what is still to come of the row it is about. *)
LEMMA HeadOK ==
  ASSUME NEW w \in Seq(Events), w # <<>>, NEW r, NEW a, WireOK(w, r, a), r \in Head(w).rows
  PROVE  LET e == Head(w)
             u == Tail(w) IN
         /\ a.at # "unborn" /\ e.type # "rested"
         /\ e.type = "removed" => a.at = "removed" /\ \A k \in DOMAIN u : r \notin u[k].rows
         /\ e.type # "removed" => e.rows = {r} /\ (a.at = "removed" => Going(u, r))
         /\ e.type \in {"delta", "whole", "tool"} => e.ver # 0
         /\ e.type = "delta" => r \in Texts /\ (a.at = "ended" => Ending(u, r))
         /\ e.type = "whole" => r \in Texts /\ a.at \in {"ended", "removed"} /\ (a.at = "ended" => e.ver = a.ver)
         /\ e.type = "tool" => r \in Tools /\ (e.ver = Finished => a.at \in {"ended", "removed"})
         /\ e.type = "delivered" => r \in Inputs
<1> DEFINE u == Tail(w)
<1>1. /\ DOMAIN w = 1..Len(w) /\ DOMAIN u = 1..Len(w) - 1 /\ Len(w) \in Nat /\ Len(w) >= 1
      /\ \A i \in DOMAIN u : i + 1 \in DOMAIN w /\ u[i] = w[i + 1]
      /\ Head(w) = w[1]
  BY TailEvents
<1> HIDE DEF u
<1>2. EventOK(w, 1, r, a)
  BY <1>1 DEF WireOK
<1>4. \A k \in DOMAIN u : k + 1 \in DOMAIN w /\ k + 1 > 1 /\ u[k] = w[k + 1]
  BY <1>1
<1>5. \A k \in DOMAIN w : k > 1 => k - 1 \in DOMAIN u /\ u[k - 1] = w[k]
  BY <1>1
<1>6. (\E k \in DOMAIN w : k > 1 /\ r \in w[k].rows /\ w[k].type = "removed") => Going(u, r)
  BY <1>5 DEF Going
<1>7. (\E k \in DOMAIN w : k > 1 /\ r \in w[k].rows /\ w[k].type = "whole") => Ending(u, r)
  BY <1>5 DEF Ending, Ends
<1>8. w[1].type = "removed" => a.at = "removed" /\ \A k \in DOMAIN u : r \notin u[k].rows
  BY <1>2, <1>4 DEF EventOK
<1> QED BY <1>1, <1>2, <1>6, <1>7, <1>8 DEF EventOK, u

-----------------------------------------------------------------------------
(* THE COPY GOES FORWARD                                                      *)

(* n is what became of the copy m: the same one further on, or another.        *)
Onward(m, n) ==
  /\ m.inc <= n.inc
  /\ n.there /\ n.inc = m.inc => m.there /\ m.cur <= n.cur /\ m.gen <= n.gen /\ (m.init => n.init)

(* Of the same copy every row stands as it did, was not there, has a number    *)
(* beyond those of m, or there was a removal.                                  *)
RowOnward(m, n, r) ==
  \/ n.rows[r] = m.rows[r] \/ m.rows[r].ver = 0
  \/ (n.rows[r].ver # 0 /\ n.rows[r].seq > m.cur) \/ m.gen < n.gen

Forward(m, n) ==
  /\ Onward(m, n)
  /\ n.there /\ n.inc = m.inc => \A r \in Rows : RowOnward(m, n, r)

LEMMA ForwardStays == ASSUME NEW m, CopyOK(m) PROVE Forward(m, m)
BY DEF CopyOK, Copies, Forward, Onward, RowOnward

LEMMA ForwardOn ==
  ASSUME NEW m, NEW n, NEW k, CopyOK(m), CopyOK(n), CopyOK(k), Forward(m, n), Forward(n, k)
  PROVE  Forward(m, k)
<1>1. /\ m.inc \in Nat /\ n.inc \in Nat /\ k.inc \in Nat /\ m.cur \in Nat /\ n.cur \in Nat /\ k.cur \in Nat
      /\ m.gen \in Nat /\ n.gen \in Nat /\ k.gen \in Nat
      /\ \A r \in Rows : n.rows[r].seq \in Nat /\ k.rows[r].seq \in Nat
  BY DEF CopyOK, Copies
<1>2. Onward(m, k)
  BY <1>1 DEF Forward, Onward
<1>3. ASSUME k.there, k.inc = m.inc, NEW r \in Rows
      PROVE  RowOnward(m, k, r)
  <2>1. n.inc = m.inc /\ n.there /\ RowOnward(m, n, r) /\ RowOnward(n, k, r) /\ m.cur <= n.cur /\ n.cur <= k.cur
        /\ m.gen <= n.gen /\ n.gen <= k.gen
    BY <1>1, <1>3 DEF Forward, Onward
  <2> QED BY <1>1, <2>1 DEF RowOnward
<1> QED BY <1>2, <1>3 DEF Forward

(* A copy that is made anew has no row; the other operations keep it there.    *)
LEMMA EnterForward ==
  ASSUME NEW m, CopyOK(m), \A r \in Rows : ~m.there => m.rows[r].ver = 0
  PROVE  LET n == Enter(m) IN
         /\ CopyOK(n) /\ Forward(m, n) /\ n.there
         /\ \A r \in Rows : n.rows[r].ver = m.rows[r].ver
         /\ (m.there /\ n = m) \/ (~m.there /\ n.inc = m.inc + 1)
<1>1. CASE m.there
  BY <1>1, ForwardStays DEF Enter
<1>2. CASE ~m.there
  <2> DEFINE n == Fresh(m.inc + 1)
  <2>1. m.inc \in Nat
    BY DEF CopyOK, Copies
  <2>2. CopyOK(n) /\ n.inc = m.inc + 1 /\ n.there
    BY <2>1 DEF CopyOK, Copies, Fresh
  <2>3. \A r \in Rows : n.rows[r].ver = 0
    BY DEF Fresh
  <2> HIDE DEF n
  <2>4. Forward(m, n)
    BY <2>1, <2>2 DEF Forward, Onward
  <2>5. Enter(m) = n
    BY <1>2 DEF Enter, n
  <2> QED BY <1>2, <2>2, <2>3, <2>4, <2>5
<1> QED BY <1>1, <1>2

LEMMA UpsertedRest ==
  ASSUME NEW m, CopyOK(m), NEW S, NEW ver
  PROVE  LET n == Upserted(m, S, ver) IN n.gen = m.gen /\ n.init = m.init /\ n.there = m.there /\ n.inc = m.inc
BY DEF Upserted, CopyOK, Copies

LEMMA UpsertedForward ==
  ASSUME NEW m, CopyOK(m), NEW S \in SUBSET Rows, NEW ver \in Versions, \A r \in S : ver[r] # 0
  PROVE  LET n == Upserted(m, S, ver) IN
         /\ CopyOK(n) /\ Forward(m, n) /\ n.there = m.there /\ n.inc = m.inc /\ n.cur = m.cur + 1
         /\ n.gen = m.gen /\ n.init = m.init
         /\ \A r \in S : n.rows[r].ver = ver[r] /\ n.rows[r].seq = m.cur + 1
         /\ \A r \in Rows \ S : n.rows[r] = m.rows[r]
<1> DEFINE n == Upserted(m, S, ver)
<1>1. /\ CopyOK(n) /\ n.there = m.there /\ n.inc = m.inc
      /\ n.cur = m.cur + 1 /\ n.rows = RowsThen(m, S, ver)
  BY UpsertedFields
<1>2. n.gen = m.gen /\ n.init = m.init
  BY UpsertedRest
<1> HIDE DEF n
<1>3. /\ \A r \in S : n.rows[r].ver = ver[r] /\ n.rows[r].seq = m.cur + 1
      /\ \A r \in Rows \ S : n.rows[r] = m.rows[r]
  BY <1>1 DEF RowsThen
<1>4. m.cur \in Nat /\ m.inc \in Nat /\ m.gen \in Nat
  BY DEF CopyOK, Copies
<1>5. ASSUME NEW r \in Rows PROVE RowOnward(m, n, r)
  <2>1. CASE r \in S
    <3>1. n.rows[r].ver = ver[r] /\ n.rows[r].seq = m.cur + 1 /\ ver[r] # 0
      BY <1>3, <2>1
    <3>2. n.rows[r].ver # 0 /\ n.rows[r].seq > m.cur
      BY <1>4, <3>1
    <3> QED BY <3>2 DEF RowOnward
  <2>2. CASE r \notin S
    BY <1>3, <2>2 DEF RowOnward
  <2> QED BY <2>1, <2>2
<1>6. Forward(m, n)
  BY <1>1, <1>2, <1>4, <1>5 DEF Forward, Onward
<1> QED BY <1>1, <1>2, <1>3, <1>6 DEF n

LEMMA NotedForward ==
  ASSUME NEW m, CopyOK(m)
  PROVE  LET n == Noted(m) IN
         /\ CopyOK(n) /\ Forward(m, n) /\ n.there = m.there /\ n.inc = m.inc /\ n.cur = m.cur + 1
         /\ n.gen = m.gen /\ n.init = m.init
         /\ \A r \in Rows : n.rows[r] = m.rows[r]
<1>1. {} \in SUBSET Rows /\ \A r \in {} : Nothing[r] # 0
  OBVIOUS
<1> QED BY <1>1, UpsertedForward, NothingIsVersions DEF Noted

(* A removal is counted; the rows it takes are gone, the others stand.         *)
LEMMA RemovedForward ==
  ASSUME NEW m, CopyOK(m), NEW S \in SUBSET Rows
  PROVE  LET n == Removed(m, S) IN
         /\ Onward(m, n) /\ n.there = m.there /\ n.inc = m.inc /\ m.cur <= n.cur /\ n.gen = m.gen + 1
         /\ \A r \in Rows : n.rows[r].ver = IF r \in S THEN 0 ELSE m.rows[r].ver
<1> DEFINE taken == {r \in S : m.rows[r].ver # 0}
           k == [m EXCEPT !.gen = @ + 1]
           n == Upserted(k, taken, Nothing)
<1>1. m.cur \in Nat /\ m.inc \in Nat /\ m.gen \in Nat /\ m \in Copies
  BY DEF CopyOK, Copies
<1>2. /\ k.there = m.there /\ k.inc = m.inc /\ k.cur = m.cur /\ k.floor = m.floor
      /\ k.rows = m.rows /\ k.log = m.log /\ k.gen = m.gen + 1 /\ k.init = m.init /\ k \in Copies
  BY <1>1 DEF Copies
<1> HIDE DEF k
<1>3. CopyOK(k)
  BY <1>2 DEF CopyOK
<1>4. taken \in SUBSET Rows
  OBVIOUS
<1> HIDE DEF taken
<1>5. /\ n.there = m.there /\ n.inc = m.inc /\ n.cur = m.cur + 1 /\ n.rows = RowsThen(k, taken, Nothing)
      /\ n.gen = m.gen + 1 /\ n.init = m.init
  BY <1>2, <1>3, <1>4, UpsertedFields, UpsertedRest, NothingIsVersions
<1> HIDE DEF n
<1>6. \A r \in Rows : n.rows[r].ver = IF r \in taken THEN 0 ELSE m.rows[r].ver
  BY <1>2, <1>5 DEF RowsThen, Nothing
<1>7. \A r \in Rows : n.rows[r].ver = IF r \in S THEN 0 ELSE m.rows[r].ver
  BY <1>6 DEF taken
<1>8. CASE taken = {}
  <2>1. Removed(m, S) = k
    BY <1>8 DEF Removed, taken, k
  <2>2. \A r \in S : m.rows[r].ver = 0
    BY <1>8 DEF taken
  <2> QED BY <1>1, <1>2, <2>1, <2>2 DEF Onward
<1>9. CASE taken # {}
  <2>1. Removed(m, S) = n
    BY <1>9 DEF Removed, taken, k, n
  <2> QED BY <1>1, <1>5, <1>7, <2>1 DEF Onward
<1> QED BY <1>8, <1>9

(* What a page puts in stands as the page has it.                              *)
LEMMA PagedForward ==
  ASSUME NEW m, CopyOK(m), NEW kind, NEW S \in SUBSET Rows, NEW page \in Versions, \A r \in S : page[r] # 0
  PROVE  LET n == Paged(m, kind, S, page) IN
         /\ Onward(m, n) /\ n.there = m.there
         /\ \A r \in Rows : n.rows[r].ver = IF r \in S THEN page[r] ELSE m.rows[r].ver
<1> DEFINE quiet == IF kind = "window" THEN {r \in S : m.rows[r].ver = 0} ELSE {}
           loud == S \ quiet
           k == [m EXCEPT !.rows = [r \in Rows |-> IF r \in quiet THEN [ver |-> page[r], seq |-> 0] ELSE @[r]]]
           n == Upserted(k, loud, page)
<1>1. m.cur \in Nat /\ m.inc \in Nat /\ m.gen \in Nat /\ m \in Copies
  BY DEF CopyOK, Copies
<1>2. quiet \in SUBSET Rows /\ loud \in SUBSET Rows /\ \A r \in quiet : m.rows[r].ver = 0 /\ r \in S
  OBVIOUS
<1>a. \A r \in S : r \in quiet \/ r \in loud
  OBVIOUS
<1>b. loud \subseteq S /\ loud \intersect quiet = {}
  OBVIOUS
<1> HIDE DEF quiet
<1>3. /\ k.there = m.there /\ k.inc = m.inc /\ k.cur = m.cur /\ k.floor = m.floor /\ k.log = m.log
      /\ k.gen = m.gen /\ k.init = m.init
      /\ k.rows = [r \in Rows |-> IF r \in quiet THEN [ver |-> page[r], seq |-> 0] ELSE m.rows[r]]
      /\ k \in Copies
  BY <1>1 DEF Copies, Versions
<1> HIDE DEF k, loud
<1>4. CopyOK(k)
  BY <1>1, <1>3 DEF CopyOK, Copies
<1>5. Forward(m, k)
  BY <1>1, <1>2, <1>3 DEF Forward, Onward, RowOnward
<1>c. \A r \in loud : page[r] # 0
  BY <1>b
<1>6. /\ CopyOK(n) /\ Forward(k, n) /\ n.there = k.there /\ n.inc = k.inc /\ n.cur = k.cur + 1
      /\ n.gen = k.gen /\ n.init = k.init
      /\ \A r \in loud : n.rows[r].ver = page[r] /\ n.rows[r].seq = k.cur + 1
      /\ \A r \in Rows \ loud : n.rows[r] = k.rows[r]
  BY <1>2, <1>4, <1>c, UpsertedForward
<1> HIDE DEF n
<1>7. Forward(m, n)
  BY <1>4, <1>5, <1>6, ForwardOn
<1>8. CASE loud = {}
  <2>1. Paged(m, kind, S, page) = k
    BY <1>8 DEF Paged, quiet, loud, k
  <2> QED BY <1>1, <1>2, <1>3, <1>5, <1>8, <1>a, <1>b, <2>1 DEF Forward
<1>9. CASE loud # {}
  <2>1. Paged(m, kind, S, page) = n
    BY <1>9 DEF Paged, quiet, loud, k, n
  <2>2. ASSUME NEW r \in Rows PROVE n.rows[r].ver = IF r \in S THEN page[r] ELSE m.rows[r].ver
    <3>1. CASE r \in loud
      BY <1>6, <1>b, <3>1
    <3>2. CASE r \in quiet
      BY <1>2, <1>3, <1>6, <1>b, <3>2
    <3>3. CASE r \notin S
      BY <1>2, <1>3, <1>6, <1>b, <3>3
    <3> QED BY <1>a, <3>1, <3>2, <3>3
  <2> QED BY <1>1, <1>3, <1>6, <1>7, <2>1, <2>2 DEF Forward
<1> QED BY <1>8, <1>9

LEMMA ReplacedOnward ==
  ASSUME NEW m, CopyOK(m), NEW page \in Versions
  PROVE  LET n == Replaced(m, page) IN
         /\ Onward(m, n) /\ n.there = m.there /\ n.inc = m.inc /\ n.init
         /\ \A r \in Rows : n.rows[r].ver = IF page[r] # 0 THEN page[r] ELSE m.rows[r].ver
<1> DEFINE rows == [r \in Rows |-> IF page[r] # 0 THEN [ver |-> page[r], seq |-> 0] ELSE m.rows[r]]
           s == m.cur + 1
           n == [m EXCEPT !.rows = rows, !.cur = s, !.floor = s, !.log = {}, !.init = TRUE]
<1>1. Replaced(m, page) = n
  BY DEF Replaced
<1>2. m.cur \in Nat /\ m.inc \in Nat /\ m.gen \in Nat /\ m \in Copies
  BY DEF CopyOK, Copies
<1>3. \A r \in Rows : rows[r].ver = IF page[r] # 0 THEN page[r] ELSE m.rows[r].ver
  OBVIOUS
<1> HIDE DEF rows
<1>4. n.there = m.there /\ n.inc = m.inc /\ n.init /\ n.rows = rows /\ n.cur = s /\ n.gen = m.gen
  BY <1>2 DEF Copies
<1> HIDE DEF n
<1> QED BY <1>1, <1>2, <1>3, <1>4 DEF Onward

-----------------------------------------------------------------------------
(* WHAT IS READ STAYS RIGHT                                                   *)

(* What a version of r was good for it still is after the step.                *)
RightStays(r) ==
  agent[r].at # "unborn" => \A v \in Nat : Right(wire, agent[r], r, v) => Right(wire', agent'[r], r, v)

(* Of the copy m, r has passed what was captured of it; the copy has moved.    *)
Passed(m, n, r) ==
  n.there /\ n.inc = m.inc => m.gen < n.gen \/ (n.rows[r].ver # 0 /\ n.rows[r].seq > m.cur)
Moved(m, n) == n.there /\ (n.inc = m.inc => m.cur < n.cur)

LEMMA RowTypes ==
  ASSUME IInv
  PROVE  /\ agent \in [Rows -> [ver: Nat, at: {"unborn", "open", "ended", "removed"}]]
         /\ wire \in Seq(Events) /\ jobs \in [Jobs -> Reading] /\ CopyOK(mirror) /\ mirror \in Copies
         /\ \A j \in Jobs : jobs[j] \in Reading /\ jobs[j].page \in Versions
<1>1. 0..MaxVer \union {Finished, 1} \subseteq Nat
  BY MirrorAssumption DEF Finished
<1>2. agent \in [Rows -> [ver: 0..MaxVer \union {Finished, 1}, at: {"unborn", "open", "ended", "removed"}]]
  BY DEF IInv, TypeOK
<1>3. agent \in [Rows -> [ver: Nat, at: {"unborn", "open", "ended", "removed"}]]
  BY <1>1, <1>2
<1>4. wire \in Seq(Events) /\ jobs \in [Jobs -> Reading] /\ CopyOK(mirror) /\ mirror \in Copies
  BY DEF IInv, TypeOK, CopyOK
<1> QED BY <1>3, <1>4 DEF Reading

LEMMA PageStays ==
  ASSUME RInv, NEW r \in Rows, NEW j \in Jobs, jobs'[j].page = jobs[j].page, RightStays(r), PageRight(j, r)
  PROVE  PageRight(j, r)'
<1>1. jobs[j].page \in Versions
  BY RowTypes DEF RInv
<1>2. jobs[j].page[r] # 0 => agent[r].at # "unborn"
  BY DEF RInv, Captured, JobOK
<1>3. jobs[j].page[r] \in Nat
  BY <1>1 DEF Versions
<1> QED BY <1>2, <1>3 DEF PageRight, RightStays

LEMMA HistoryStays ==
  ASSUME RInv, NEW r \in Rows, CopyOK(mirror'),
         \/ jobs'["history"] = jobs["history"]
         \/ At("history", "inform") /\ jobs'["history"] = [jobs["history"] EXCEPT !.pc = "commit"],
         Forward(mirror, mirror'), RightStays(r) \/ Passed(mirror, mirror', r)
  PROVE  HistoryRight(r)'
<1> DEFINE job == jobs["history"]
           m == mirror
           n == mirror'
<1>1. job \in Reading /\ CopyOK(m) /\ m \in Copies /\ n \in Copies
  BY RowTypes, JobNames DEF RInv, CopyOK
<1>2. JobOK("history") /\ HistoryRight(r)
  BY JobNames DEF RInv, Captured, RowOK
<1>3. /\ job.inc \in Nat /\ job.cur \in Nat /\ job.gen \in Nat
      /\ m.inc \in Nat /\ m.cur \in Nat /\ m.gen \in Nat /\ n.inc \in Nat /\ n.cur \in Nat /\ n.gen \in Nat
      /\ m.rows[r].seq \in Nat /\ n.rows[r].seq \in Nat
  BY <1>1 DEF Reading, Copies
<1>a. LET k == jobs'["history"] IN
      /\ k.pc \in {"inform", "commit"} => job.pc \in {"inform", "commit"}
      /\ k.kind = job.kind /\ k.inc = job.inc /\ k.cur = job.cur /\ k.gen = job.gen
      /\ k.page = job.page /\ k.stale = job.stale
  BY <1>1 DEF At, Reading
<1> SUFFICES ASSUME job.pc \in {"inform", "commit"}, ~job.stale, n.there, n.inc = job.inc, n.gen = job.gen,
                    n.rows[r].ver = 0 \/ n.rows[r].seq <= job.cur,
                    job.kind = "cold" => ~n.init
             PROVE  PageRight("history", r)'
  BY <1>a DEF HistoryRight, Fits
<1>4. m.inc <= n.inc /\ job.inc <= m.inc
  BY <1>2 DEF JobOK, Forward, Onward
<1>5. n.inc = m.inc
  BY <1>3, <1>4
<1>6. m.there /\ m.cur <= n.cur /\ m.gen <= n.gen /\ (m.init => n.init) /\ RowOnward(m, n, r)
  BY <1>5 DEF Forward, Onward
<1>7. job.cur <= m.cur /\ job.gen <= m.gen
  BY <1>2, <1>5, <1>6 DEF JobOK
<1>8. m.gen = job.gen /\ ~(m.gen < n.gen)
  BY <1>3, <1>6, <1>7
<1>9. ~(n.rows[r].ver # 0 /\ n.rows[r].seq > m.cur)
  BY <1>3, <1>7
<1>10. m.rows[r].ver = 0 \/ m.rows[r].seq <= job.cur
  BY <1>6, <1>8, <1>9 DEF RowOnward
<1>11. RightStays(r)
  BY <1>5, <1>8, <1>9 DEF Passed
<1>12. PageRight("history", r)
  BY <1>2, <1>5, <1>6, <1>8, <1>10 DEF HistoryRight, Fits
<1> QED BY <1>11, <1>12, <1>a, PageStays, JobNames

LEMMA RefreshStays ==
  ASSUME RInv, NEW r \in Rows, jobs'["refresh"] = jobs["refresh"], CopyOK(mirror'),
         Onward(mirror, mirror'), RightStays(r) \/ Moved(mirror, mirror'),
         mirror'.there \/ ~mirror.there \/ At("refresh", "rest") \/ jobs["refresh"].inc # 0
  PROVE  RefreshRight(r)'
<1> DEFINE job == jobs["refresh"]
           m == mirror
           n == mirror'
<1>1. job \in Reading /\ CopyOK(m) /\ m \in Copies /\ n \in Copies
  BY RowTypes, JobNames DEF RInv, CopyOK
<1>2. JobOK("refresh") /\ RefreshRight(r)
  BY JobNames DEF RInv, Captured, RowOK
<1>3. /\ job.inc \in Nat /\ job.cur \in Nat
      /\ m.inc \in Nat /\ m.cur \in Nat /\ n.inc \in Nat /\ n.cur \in Nat
  BY <1>1 DEF Reading, Copies
<1> SUFFICES ASSUME job.pc = "commit", ~job.stale, IF n.there THEN n.inc = job.inc /\ n.cur = job.cur ELSE job.inc = 0
             PROVE  PageRight("refresh", r)'
  BY DEF RefreshRight, Unmoved
<1>4. m.inc <= n.inc /\ job.inc <= m.inc
  BY <1>2 DEF JobOK, Onward
<1>5. CASE n.there
  <2>1. n.inc = m.inc
    BY <1>3, <1>4, <1>5
  <2>2. m.there /\ m.cur <= n.cur
    BY <1>5, <2>1 DEF Onward
  <2>3. job.cur <= m.cur
    BY <1>2, <1>5, <2>1, <2>2 DEF JobOK
  <2>4. m.cur = job.cur /\ m.cur = n.cur
    BY <1>3, <1>5, <2>2, <2>3
  <2>5. RightStays(r)
    BY <1>3, <2>1, <2>4 DEF Moved
  <2>6. PageRight("refresh", r)
    BY <1>2, <1>5, <2>1, <2>2, <2>4 DEF RefreshRight, Unmoved
  <2> QED BY <2>5, <2>6, PageStays, JobNames
<1>6. CASE ~n.there
  <2>1. ~m.there
    BY <1>6 DEF At
  <2>2. RightStays(r)
    BY <1>6 DEF Moved
  <2>3. PageRight("refresh", r)
    BY <1>2, <1>6, <2>1 DEF RefreshRight, Unmoved
  <2> QED BY <2>2, <2>3, PageStays, JobNames
<1> QED BY <1>5, <1>6

LEMMA TailStays ==
  ASSUME RInv, NEW r \in Rows, jobs'["tail"] = jobs["tail"], RightStays(r) \/ At("tail", "rest")
  PROVE  TailRight(r)'
<1>1. TailRight(r)
  BY DEF RInv, RowOK
<1>2. CASE At("tail", "rest")
  BY <1>2 DEF At, TailRight
<1>3. CASE RightStays(r)
  BY <1>1, <1>3, PageStays, JobNames DEF TailRight, At
<1> QED BY <1>2, <1>3

LEMMA InputStays ==
  ASSUME RInv, NEW r \in Rows, r \in Inputs => jobs'[r] = jobs[r] /\ RightStays(r)
  PROVE  InputRight(r)'
<1>1. InputRight(r)
  BY DEF RInv, RowOK
<1> QED BY <1>1, PageStays, JobNames DEF InputRight, At

(* What a read that was not captured anew, and read nothing, still shows.      *)
LEMMA JobStays ==
  ASSUME RInv, NEW j \in Jobs, CopyOK(mirror'), Onward(mirror, mirror'),
         jobs'[j].inc = jobs[j].inc, jobs'[j].cur = jobs[j].cur, jobs'[j].gen = jobs[j].gen, jobs'[j].page = jobs[j].page,
         \A r \in Rows : agent'[r].at = "unborn" => agent[r].at = "unborn"
  PROVE  JobOK(j)'
<1>1. jobs[j] \in Reading /\ mirror \in Copies /\ mirror' \in Copies
  BY RowTypes DEF RInv, CopyOK
<1>2. JobOK(j)
  BY DEF RInv, Captured
<1>3. /\ jobs[j].inc \in Nat /\ jobs[j].cur \in Nat /\ jobs[j].gen \in Nat
      /\ mirror.inc \in Nat /\ mirror.cur \in Nat /\ mirror.gen \in Nat
      /\ mirror'.inc \in Nat /\ mirror'.cur \in Nat /\ mirror'.gen \in Nat
  BY <1>1 DEF Reading, Copies
<1>4. jobs[j].inc <= mirror'.inc
  BY <1>2, <1>3 DEF JobOK, Onward
<1>5. mirror'.there /\ jobs[j].inc = mirror'.inc => jobs[j].cur <= mirror'.cur /\ jobs[j].gen <= mirror'.gen
  BY <1>2, <1>3 DEF JobOK, Onward
<1> QED BY <1>2, <1>4, <1>5 DEF JobOK

(* A read that rests.                                                        *)
LEMMA RestingOK ==
  ASSUME RInv, NEW j \in Jobs, jobs'[j] = Resting \/ jobs'[j] = [Resting EXCEPT !.pc = "read"],
         CopyOK(mirror')
  PROVE  JobOK(j)'
<1>1. /\ jobs'[j].inc = 0 /\ jobs'[j].cur = 0 /\ jobs'[j].gen = 0 /\ jobs'[j].page = Nothing
  BY DEF Resting
<1>2. \A r \in Rows : Nothing[r] = 0
  BY DEF Nothing
<1>3. mirror'.inc \in Nat /\ mirror'.cur \in Nat /\ mirror'.gen \in Nat
  BY DEF CopyOK, Copies
<1> QED BY <1>1, <1>2, <1>3 DEF JobOK

-----------------------------------------------------------------------------
(* THE AGENT'S STEPS                                                          *)

LEMMA AppendedOther ==
  ASSUME NEW w \in Seq(Events), NEW e \in Events, NEW r, r \notin e.rows, NEW a, WireOK(w, r, a)
  PROVE  WireOK(Append(w, e), r, a)
<1> DEFINE u == Append(w, e)
<1>1. /\ DOMAIN w = 1..Len(w) /\ DOMAIN u = 1..Len(w) + 1 /\ Len(w) \in Nat
      /\ \A i \in DOMAIN w : i \in DOMAIN u /\ u[i] = w[i]
      /\ u[Len(w) + 1] = e
  BY AppendedEvents
<1> HIDE DEF u
<1>2. \A i \in DOMAIN u : r \in u[i].rows => i \in DOMAIN w
  BY <1>1
<1> SUFFICES ASSUME NEW i \in DOMAIN u, r \in u[i].rows
             PROVE  EventOK(u, i, r, a)
  BY DEF WireOK, u
<1>3. i \in DOMAIN w /\ u[i] = w[i] /\ EventOK(w, i, r, a)
  BY <1>1, <1>2 DEF WireOK
<1> QED BY <1>1, <1>2, <1>3 DEF EventOK

(* An event e about r that takes it from a to b.                              *)
LEMMA AppendedSelf ==
  ASSUME NEW w \in Seq(Events), NEW e \in Events, NEW r, r \in e.rows, NEW a, NEW b, WireOK(w, r, a),
         a.at # "removed", b.at # "unborn", e.type # "rested",
         a.at = "ended" => b.at = "removed" \/ (b.at = "ended" /\ b.ver = a.ver),
         b.at = "removed" <=> e.type = "removed",
         b.at = "ended" /\ a.at # "ended" /\ r \in Texts => e.type = "whole",
         e.type # "removed" => e.rows = {r},
         e.type \in {"delta", "whole", "tool"} => e.ver # 0,
         e.type = "delta" => r \in Texts /\ b.at # "ended",
         e.type = "whole" => r \in Texts /\ b.at = "ended" /\ e.ver = b.ver,
         e.type = "tool" => r \in Tools /\ (e.ver = Finished => b.at = "ended"),
         e.type = "delivered" => r \in Inputs
  PROVE  WireOK(Append(w, e), r, b)
<1> DEFINE u == Append(w, e)
           l == Len(w) + 1
<1>1. /\ DOMAIN w = 1..Len(w) /\ DOMAIN u = 1..Len(w) + 1 /\ Len(w) \in Nat
      /\ \A i \in DOMAIN w : i \in DOMAIN u /\ u[i] = w[i]
      /\ u[l] = e
  BY AppendedEvents
<1> HIDE DEF u
<1>2. l \in DOMAIN u /\ \A i \in DOMAIN w : i < l
  BY <1>1
<1>3. \A i \in DOMAIN u : i \in DOMAIN w \/ i = l
  BY <1>1
<1>4. \A k \in DOMAIN u : ~(k > l)
  BY <1>1
<1> HIDE DEF l
<1> SUFFICES ASSUME NEW i \in DOMAIN u, r \in u[i].rows
             PROVE  EventOK(u, i, r, b)
  BY DEF WireOK, u
<1>5. CASE i = l
  BY <1>1, <1>4, <1>5 DEF EventOK
<1>6. CASE i \in DOMAIN w
  <2>1. u[i] = w[i] /\ EventOK(w, i, r, a) /\ l > i
    BY <1>1, <1>2, <1>6 DEF WireOK
  <2>2. w[i].type # "removed"
    BY <2>1 DEF EventOK
  <2>3. b.at = "removed" => \E k \in DOMAIN u : k > i /\ r \in u[k].rows /\ u[k].type = "removed"
    BY <1>1, <1>2, <2>1
  <2>4. w[i].type = "delta" /\ b.at = "ended" => \E k \in DOMAIN u : k > i /\ r \in u[k].rows /\ u[k].type = "whole"
    <3>1. CASE a.at = "ended"
      BY <1>1, <2>1, <3>1 DEF EventOK
    <3>2. CASE a.at # "ended"
      BY <1>1, <1>2, <2>1, <3>2 DEF EventOK
    <3> QED BY <3>1, <3>2
  <2>5. w[i].type = "whole" => a.at = "ended"
    BY <2>1 DEF EventOK
  <2>6. w[i].type = "tool" /\ w[i].ver = Finished => a.at = "ended"
    BY <2>1 DEF EventOK
  <2> QED BY <2>1, <2>2, <2>3, <2>4, <2>5, <2>6 DEF EventOK
<1> QED BY <1>3, <1>5, <1>6

(* What a step of the agent does to one row.                                   *)
AgentRow(r) ==
  /\ AgentOK(r, agent'[r]) /\ WireOK(wire', r, agent'[r]) /\ RightStays(r)
  /\ agent'[r].at = "unborn" => agent[r].at = "unborn"
  /\ r \in gone => agent'[r].at = "removed" /\ \A i \in DOMAIN wire' : r \notin wire'[i].rows
  /\ r \in Tools /\ agent'[r].at = "ended" /\ ~Ending(wire', r) => agent[r].at = "ended" /\ ~Ending(wire, r)

LEMMA AgentRowOther ==
  ASSUME RInv, NEW r \in Rows, NEW e \in Events, wire' = Append(wire, e), r \notin e.rows, agent'[r] = agent[r]
  PROVE  AgentRow(r)
<1>1. wire \in Seq(Events)
  BY RowTypes DEF RInv
<1>2. RowOK(r)
  BY DEF RInv
<1>3. WireOK(wire', r, agent'[r])
  BY <1>1, <1>2, AppendedOther DEF RowOK
<1>4. (Ending(wire', r) <=> Ending(wire, r)) /\ (Going(wire', r) <=> Going(wire, r))
  BY <1>1, AppendedTells
<1>5. RightStays(r)
  BY <1>4 DEF RightStays, Right
<1>6. r \in gone => agent'[r].at = "removed" /\ \A i \in DOMAIN wire' : r \notin wire'[i].rows
  <2> SUFFICES ASSUME r \in gone PROVE agent'[r].at = "removed" /\ \A i \in DOMAIN wire' : r \notin wire'[i].rows
    OBVIOUS
  <2>1. agent[r].at = "removed" /\ \A i \in DOMAIN wire : r \notin wire[i].rows
    BY <1>2 DEF RowOK, GoneRight
  <2> DEFINE u == Append(wire, e)
  <2>2. /\ DOMAIN wire = 1..Len(wire) /\ DOMAIN u = 1..Len(wire) + 1 /\ Len(wire) \in Nat
        /\ \A i \in DOMAIN wire : i \in DOMAIN u /\ u[i] = wire[i]
        /\ u[Len(wire) + 1] = e
    BY <1>1, AppendedEvents
  <2> HIDE DEF u
  <2>3. \A i \in DOMAIN u : r \notin u[i].rows
    BY <2>1, <2>2
  <2> QED BY <2>1, <2>3 DEF u
<1> QED BY <1>2, <1>3, <1>4, <1>5, <1>6 DEF AgentRow, RowOK

LEMMA AgentRowSelf ==
  ASSUME RInv, NEW r \in Rows, NEW e \in Events, wire' = Append(wire, e), r \in e.rows,
         NEW b, agent'[r] = b, AgentOK(r, b),
         agent[r].at # "removed", b.at # "unborn", e.type # "rested",
         agent[r].at = "ended" => b.at = "removed" \/ (b.at = "ended" /\ b.ver = agent[r].ver),
         b.at = "removed" <=> e.type = "removed",
         b.at = "ended" /\ agent[r].at \notin {"unborn", "ended"} => Ends(e),
         b.at = "ended" /\ agent[r].at # "ended" /\ r \in Texts => e.type = "whole",
         b.at = "ended" /\ agent[r].at # "ended" /\ r \in Tools => Ends(e),
         e.type # "removed" => e.rows = {r},
         e.type \in {"delta", "whole", "tool"} => e.ver # 0,
         e.type = "delta" => r \in Texts /\ b.at # "ended",
         e.type = "whole" => r \in Texts /\ b.at = "ended" /\ e.ver = b.ver,
         e.type = "tool" => r \in Tools /\ (e.ver = Finished => b.at = "ended"),
         e.type = "delivered" => r \in Inputs
  PROVE  AgentRow(r)
<1>1. wire \in Seq(Events)
  BY RowTypes DEF RInv
<1>2. RowOK(r)
  BY DEF RInv
<1>3. WireOK(wire', r, agent'[r])
  BY <1>1, <1>2, AppendedSelf DEF RowOK
<1>4. /\ Ending(wire', r) <=> Ending(wire, r) \/ Ends(e)
      /\ Going(wire', r) <=> Going(wire, r) \/ e.type = "removed"
  BY <1>1, AppendedTells
<1>5. RightStays(r)
  BY <1>4 DEF RightStays, Right
<1>6. r \notin gone
  BY <1>2 DEF RowOK, GoneRight
<1> QED BY <1>2, <1>3, <1>4, <1>5, <1>6 DEF AgentRow

(* The copy stays; of the reads, a revert's may start.                         *)
LEMMA AgentRowsMove ==
  ASSUME RInv, IInv', UNCHANGED <<mirror, gone, doubt>>, \A r \in Rows : AgentRow(r),
         \A j \in Jobs : jobs'[j] = jobs[j] \/ (j = "revert" /\ jobs'[j] = [Resting EXCEPT !.pc = "read"])
  PROVE  RInv'
<1>1. CopyOK(mirror) /\ CopyOK(mirror')
  BY RowTypes DEF RInv, IInv, TypeOK
<1>3. Forward(mirror, mirror') /\ Onward(mirror, mirror')
  BY <1>1, ForwardStays DEF Forward
<1>4. \A r \in Rows : agent'[r].at = "unborn" => agent[r].at = "unborn"
  BY DEF AgentRow
<1>5. \A j \in Jobs : JobOK(j)'
  BY <1>1, <1>3, <1>4, JobStays, RestingOK
<1>2. /\ jobs'["history"] = jobs["history"] /\ jobs'["refresh"] = jobs["refresh"] /\ jobs'["tail"] = jobs["tail"]
      /\ \A r \in Inputs : jobs'[r] = jobs[r]
  BY JobNames, MirrorAssumption
<1>6. Captured'
  BY <1>2, <1>5 DEF RInv, Captured, At
<1>7. ASSUME NEW r \in Rows PROVE RowOK(r)'
  <2>1. AgentRow(r)
    OBVIOUS
  <2>2. HistoryRight(r)' /\ RefreshRight(r)' /\ TailRight(r)' /\ InputRight(r)'
    BY <1>1, <1>2, <1>3, <2>1, HistoryStays, RefreshStays, TailStays, InputStays DEF AgentRow
  <2>3. CopyRight(r)'
    <3>1. CopyRight(r)
      BY DEF RInv, RowOK
    <3>2. mirror.rows[r].ver \in Nat
      BY <1>1 DEF CopyOK, Copies
    <3> QED BY <2>1, <3>1, <3>2 DEF CopyRight, AgentRow, RightStays
  <2>4. GoneRight(r)'
    BY <2>1 DEF AgentRow, GoneRight
  <2> QED BY <2>1, <2>2, <2>3, <2>4 DEF RowOK, AgentRow
<1> QED BY <1>6, <1>7 DEF RInv

LEMMA AgentRowsKept ==
  ASSUME RInv, IInv', AgentAlone, \A r \in Rows : AgentRow(r)
  PROVE  RInv'
BY AgentRowsMove DEF AgentAlone

(* A step about one row, r, that becomes b.                                   *)
LEMMA OneRowStep ==
  ASSUME RInv, NEW r \in Rows, NEW e \in Events, Tell(e), e.rows = {r}, NEW b, agent' = [agent EXCEPT ![r] = b],
         AgentRow(r), IInv', AgentAlone
  PROVE  RInv'
<1>1. wire' = Append(wire, e) /\ agent \in [Rows -> [ver: Nat, at: {"unborn", "open", "ended", "removed"}]]
  BY RowTypes DEF Tell, RInv
<1>2. \A q \in Rows : AgentRow(q)
  BY <1>1, AgentRowOther
<1> QED BY <1>2, AgentRowsKept

(* The rows a revert takes are removed, and told; the others stand.            *)
LEMMA RevertsRows ==
  ASSUME RInv, NEW S \in SUBSET Rows, Reverts(S)
  PROVE  \A r \in Rows : AgentRow(r)
<1> DEFINE taken == {r \in S : agent[r].at \in {"open", "ended"}}
           e == Event("removed", taken, 0)
           b == [ver |-> 0, at |-> "removed"]
<1>1. taken \subseteq Rows /\ \A r \in taken : agent[r].at \in {"open", "ended"}
  OBVIOUS
<1>2. agent' = [r \in Rows |-> IF r \in taken THEN b ELSE agent[r]] /\ Tell(e)
  BY DEF Reverts
<1> HIDE DEF taken
<1>3. e \in Events /\ e.type = "removed" /\ e.rows = taken
  BY <1>1 DEF Event, Events, Types
<1>4. b.ver = 0 /\ b.at = "removed"
  OBVIOUS
<1> HIDE DEF e, b
<1>5. wire' = Append(wire, e)
  BY <1>2 DEF Tell
<1> SUFFICES ASSUME NEW r \in Rows PROVE AgentRow(r)
  OBVIOUS
<1>6. CASE r \in taken
  <2>1. agent'[r] = b /\ agent[r].at \in {"open", "ended"} /\ AgentOK(r, b)
    BY <1>1, <1>2, <1>4, <1>6 DEF AgentOK
  <2> QED BY <1>3, <1>4, <1>5, <1>6, <2>1, AgentRowSelf
<1>7. CASE r \notin taken
  BY <1>2, <1>3, <1>5, <1>7, AgentRowOther
<1> QED BY <1>6, <1>7

LEMMA AgentRows ==
  ASSUME RInv, IInv', Agent
  PROVE  RInv'
<1>a. /\ agent \in [Rows -> [ver: Nat, at: {"unborn", "open", "ended", "removed"}]]
      /\ Texts \subseteq Rows /\ Tools \subseteq Rows /\ Inputs \subseteq Rows
  BY RowTypes DEF Rows, RInv
<1>b. \A r \in Rows : AgentOK(r, agent[r]) /\ agent[r].ver \in Nat
  BY <1>a DEF RInv, RowOK
<1>c. \A type \in Types, S \in SUBSET Rows, ver \in Nat :
        LET e == Event(type, S, ver) IN e \in Events /\ e.type = type /\ e.rows = S /\ e.ver = ver
  BY DEF Event, Events
<1>1. ASSUME NEW r \in Texts, AgentStreams(r) PROVE RInv'
  <2> DEFINE e == Event("delta", {r}, 1)
             b == [ver |-> agent[r].ver + 1, at |-> "open"]
  <2>1. e \in Events /\ e.type = "delta" /\ e.rows = {r} /\ e.ver = 1
    BY <1>a, <1>c DEF Types
  <2>2. Tell(e) /\ agent' = [agent EXCEPT ![r] = b] /\ AgentAlone /\ agent[r].at \in {"unborn", "open"}
    BY <1>1 DEF AgentStreams, Becomes
  <2>3. b.ver # 0 /\ b.at = "open" /\ r \notin Inputs /\ r \notin Tools /\ r \in Rows
    BY <1>a, <1>b, MirrorAssumption
  <2> HIDE DEF e, b
  <2>4. agent'[r] = b /\ wire' = Append(wire, e) /\ AgentOK(r, b)
    BY <1>a, <2>2, <2>3 DEF Tell, AgentOK
  <2>5. AgentRow(r)
    BY <2>1, <2>2, <2>3, <2>4, AgentRowSelf
  <2> QED BY <2>1, <2>2, <2>3, <2>5, OneRowStep
<1>2. ASSUME NEW r \in Texts, AgentEndsText(r) PROVE RInv'
  <2> DEFINE e == Event("whole", {r}, agent[r].ver)
             b == [ver |-> agent[r].ver, at |-> "ended"]
  <2>1. e \in Events /\ e.type = "whole" /\ e.rows = {r} /\ e.ver = agent[r].ver
    BY <1>a, <1>b, <1>c DEF Types
  <2>2. Tell(e) /\ agent' = [agent EXCEPT ![r] = b] /\ AgentAlone /\ agent[r].at = "open"
    BY <1>2 DEF AgentEndsText, Becomes
  <2>3. b.ver = agent[r].ver /\ b.at = "ended" /\ r \notin Inputs /\ r \notin Tools /\ r \in Rows
    BY <1>a, MirrorAssumption
  <2> HIDE DEF e, b
  <2>4. agent'[r] = b /\ wire' = Append(wire, e) /\ AgentOK(r, b) /\ e.ver # 0
    BY <1>a, <1>b, <2>1, <2>2, <2>3 DEF Tell, AgentOK
  <2>5. AgentRow(r)
    BY <2>1, <2>2, <2>3, <2>4, AgentRowSelf DEF Ends
  <2> QED BY <2>1, <2>2, <2>3, <2>5, OneRowStep
<1>3. ASSUME NEW r \in Tools, AgentRunsTool(r) PROVE RInv'
  <2> DEFINE e == Event("tool", {r}, 1)
             b == [ver |-> 1, at |-> "open"]
  <2>1. e \in Events /\ e.type = "tool" /\ e.rows = {r} /\ e.ver = 1
    BY <1>a, <1>c DEF Types
  <2>2. Tell(e) /\ agent' = [agent EXCEPT ![r] = b] /\ AgentAlone /\ agent[r].at = "unborn"
    BY <1>3 DEF AgentRunsTool, Becomes
  <2>3. b.ver = 1 /\ b.at = "open" /\ r \notin Inputs /\ r \in Rows
    BY <1>a, MirrorAssumption
  <2> HIDE DEF e, b
  <2>4. agent'[r] = b /\ wire' = Append(wire, e) /\ AgentOK(r, b)
    BY <1>a, <2>2, <2>3 DEF Tell, AgentOK
  <2>5. AgentRow(r)
    BY <2>1, <2>2, <2>3, <2>4, AgentRowSelf DEF Finished
  <2> QED BY <2>1, <2>2, <2>3, <2>5, OneRowStep
<1>4. ASSUME NEW r \in Tools, AgentFinishesTool(r) PROVE RInv'
  <2> DEFINE e == Event("tool", {r}, Finished)
             b == [ver |-> Finished, at |-> "ended"]
  <2>1. e \in Events /\ e.type = "tool" /\ e.rows = {r} /\ e.ver = Finished
    BY <1>a, <1>c DEF Types, Finished
  <2>2. Tell(e) /\ agent' = [agent EXCEPT ![r] = b] /\ AgentAlone /\ agent[r].at = "open"
    BY <1>4 DEF AgentFinishesTool, Becomes
  <2>3. b.ver = Finished /\ b.at = "ended" /\ r \notin Inputs /\ r \notin Texts /\ r \in Rows
    BY <1>a, MirrorAssumption
  <2> HIDE DEF e, b
  <2>4. agent'[r] = b /\ wire' = Append(wire, e) /\ AgentOK(r, b) /\ e.ver # 0
    BY <1>a, <2>1, <2>2, <2>3 DEF Tell, AgentOK, Finished
  <2>5. AgentRow(r)
    BY <2>1, <2>2, <2>3, <2>4, AgentRowSelf DEF Ends
  <2> QED BY <2>1, <2>2, <2>3, <2>5, OneRowStep
<1>5. ASSUME NEW r \in Tools, AgentTellsLate(r) PROVE RInv'
  <2> DEFINE e == Event("tool", {r}, 1)
             b == agent[r]
  <2>1. e \in Events /\ e.type = "tool" /\ e.rows = {r} /\ e.ver = 1
    BY <1>a, <1>c DEF Types
  <2>2. Tell(e) /\ agent' = agent /\ AgentAlone /\ agent[r].at = "ended"
    BY <1>5 DEF AgentTellsLate
  <2>3. agent' = [agent EXCEPT ![r] = b] /\ r \notin Inputs /\ r \notin Texts /\ r \in Rows
    BY <1>a, <2>2, MirrorAssumption
  <2>4. agent'[r] = b /\ wire' = Append(wire, e) /\ AgentOK(r, b) /\ b.at = "ended" /\ b.ver = agent[r].ver
    BY <1>a, <1>b, <2>2 DEF Tell
  <2> HIDE DEF e, b
  <2>5. AgentRow(r)
    BY <2>1, <2>2, <2>3, <2>4, AgentRowSelf DEF Finished
  <2> QED BY <2>1, <2>2, <2>3, <2>5, OneRowStep
<1>6. ASSUME NEW r \in Inputs, AgentDelivers(r) PROVE RInv'
  <2> DEFINE e == Event("delivered", {r}, 1)
             b == [ver |-> 1, at |-> "ended"]
  <2>1. e \in Events /\ e.type = "delivered" /\ e.rows = {r} /\ e.ver = 1
    BY <1>a, <1>c DEF Types
  <2>2. Tell(e) /\ agent' = [agent EXCEPT ![r] = b] /\ AgentAlone /\ agent[r].at = "unborn"
    BY <1>6 DEF AgentDelivers, Becomes
  <2>3. b.ver = 1 /\ b.at = "ended" /\ r \notin Tools /\ r \notin Texts /\ r \in Rows
    BY <1>a, MirrorAssumption
  <2> HIDE DEF e, b
  <2>4. agent'[r] = b /\ wire' = Append(wire, e) /\ AgentOK(r, b)
    BY <1>a, <2>2, <2>3 DEF Tell, AgentOK
  <2>5. AgentRow(r)
    BY <2>1, <2>2, <2>3, <2>4, AgentRowSelf
  <2> QED BY <2>1, <2>2, <2>3, <2>5, OneRowStep
<1>7. ASSUME NEW S \in {Rows, Rows \ Older}, AgentReverts(S) PROVE RInv'
  <2>1. S \in SUBSET Rows /\ Reverts(S) /\ AgentAlone
    BY <1>7 DEF AgentReverts
  <2> QED BY <2>1, RevertsRows, AgentRowsKept
<1>8. ASSUME AgentRests PROVE RInv'
  <2> DEFINE e == Event("rested", {}, 0)
  <2>1. e \in Events /\ e.rows = {}
    BY <1>c DEF Types
  <2>2. Tell(e) /\ agent' = agent /\ AgentAlone
    BY <1>8 DEF AgentRests
  <2> HIDE DEF e
  <2>3. wire' = Append(wire, e)
    BY <2>2 DEF Tell
  <2>4. \A r \in Rows : AgentRow(r)
    BY <2>1, <2>2, <2>3, AgentRowOther
  <2> QED BY <2>2, <2>4, AgentRowsKept
<1> QED BY <1>1, <1>2, <1>3, <1>4, <1>5, <1>6, <1>7, <1>8 DEF Agent

-----------------------------------------------------------------------------
(* THE PUMP'S STEPS                                                           *)

LEMMA RowIs == ASSUME NEW r \in Rows, NEW v \in Nat PROVE Row(r, v)[r] = v
BY DEF Row, Nothing

LEMMA EnteredMirror ==
  ASSUME RInv
  PROVE  LET n == Enter(mirror) IN
         /\ CopyOK(mirror) /\ CopyOK(n) /\ Forward(mirror, n) /\ n.there
         /\ \A r \in Rows : n.rows[r].ver = mirror.rows[r].ver
         /\ (mirror.there /\ n = mirror) \/ (~mirror.there /\ n.inc = mirror.inc + 1)
         /\ mirror.inc \in Nat /\ mirror.cur \in Nat /\ mirror.gen \in Nat /\ mirror.there \in BOOLEAN
<1>1. CopyOK(mirror)
  BY RowTypes DEF RInv
<1>2. \A r \in Rows : ~mirror.there => mirror.rows[r].ver = 0
  BY DEF RInv, RowOK, CopyRight
<1>3. mirror.inc \in Nat /\ mirror.cur \in Nat /\ mirror.gen \in Nat /\ mirror.there \in BOOLEAN
  BY <1>1 DEF CopyOK, Copies
<1> QED BY <1>1, <1>2, <1>3, EnterForward

(* Some rows are put into the copy, which is made if need be.                  *)
LEMMA EnteredUpserted ==
  ASSUME RInv, NEW S \in SUBSET Rows, NEW ver \in Versions, \A r \in S : ver[r] # 0
  PROVE  LET n == Upserted(Enter(mirror), S, ver) IN
         /\ CopyOK(n) /\ Forward(mirror, n) /\ n.there /\ Moved(mirror, n)
         /\ \A r \in S : Passed(mirror, n, r) /\ n.rows[r].ver = ver[r]
         /\ \A r \in Rows \ S : n.rows[r].ver = mirror.rows[r].ver
<1> DEFINE e == Enter(mirror)
           n == Upserted(e, S, ver)
<1>1. /\ CopyOK(mirror) /\ CopyOK(e) /\ Forward(mirror, e) /\ e.there
      /\ \A r \in Rows : e.rows[r].ver = mirror.rows[r].ver
      /\ (mirror.there /\ e = mirror) \/ (~mirror.there /\ e.inc = mirror.inc + 1)
      /\ mirror.inc \in Nat /\ mirror.cur \in Nat
  BY EnteredMirror
<1> HIDE DEF e
<1>a. CopyOK(e)
  BY <1>1
<1>2. /\ CopyOK(n) /\ Forward(e, n) /\ n.there = e.there /\ n.inc = e.inc /\ n.cur = e.cur + 1
      /\ \A r \in S : n.rows[r].ver = ver[r] /\ n.rows[r].seq = e.cur + 1
      /\ \A r \in Rows \ S : n.rows[r] = e.rows[r]
  BY <1>a, UpsertedForward
<1> HIDE DEF n
<1>3. Forward(mirror, n)
  BY <1>1, <1>2, ForwardOn
<1>4. Moved(mirror, n)
  BY <1>1, <1>2 DEF Moved
<1>5. \A r \in S : Passed(mirror, n, r)
  BY <1>1, <1>2 DEF Passed
<1> QED BY <1>1, <1>2, <1>3, <1>4, <1>5 DEF n, e

LEMMA EnteredNoted ==
  ASSUME RInv
  PROVE  LET n == Noted(Enter(mirror)) IN
         /\ CopyOK(n) /\ Forward(mirror, n) /\ n.there /\ Moved(mirror, n)
         /\ \A r \in Rows : n.rows[r].ver = mirror.rows[r].ver
<1>1. {} \in SUBSET Rows /\ \A r \in {} : Nothing[r] # 0
  OBVIOUS
<1> QED BY <1>1, NothingIsVersions, EnteredUpserted DEF Noted

LEMMA EnteredRemoved ==
  ASSUME RInv, NEW S \in SUBSET Rows, CopyOK(Removed(Noted(Enter(mirror)), S))
  PROVE  LET n == Removed(Noted(Enter(mirror)), S) IN
         /\ Forward(mirror, n) /\ n.there /\ Moved(mirror, n)
         /\ \A r \in Rows : Passed(mirror, n, r)
         /\ \A r \in Rows : n.rows[r].ver = IF r \in S THEN 0 ELSE mirror.rows[r].ver
<1> DEFINE k == Noted(Enter(mirror))
           n == Removed(k, S)
<1>1. /\ CopyOK(k) /\ Forward(mirror, k) /\ k.there /\ Moved(mirror, k)
      /\ \A r \in Rows : k.rows[r].ver = mirror.rows[r].ver
  BY EnteredNoted
<1>2. /\ mirror.inc \in Nat /\ mirror.cur \in Nat /\ mirror.gen \in Nat
  BY EnteredMirror
<1> HIDE DEF k
<1>3. /\ Onward(k, n) /\ n.there = k.there /\ n.inc = k.inc /\ k.cur <= n.cur /\ n.gen = k.gen + 1
      /\ \A r \in Rows : n.rows[r].ver = IF r \in S THEN 0 ELSE k.rows[r].ver
  BY <1>1, RemovedForward
<1>4. CopyOK(n)
  BY DEF k
<1> HIDE DEF n
<1>5. k.inc \in Nat /\ k.cur \in Nat /\ k.gen \in Nat /\ n.cur \in Nat
  BY <1>1, <1>4 DEF CopyOK, Copies
<1>6. Forward(k, n)
  BY <1>3, <1>5 DEF Forward, RowOnward
<1>7. Forward(mirror, n)
  BY <1>1, <1>4, <1>6, ForwardOn, RowTypes DEF RInv
<1>8. Moved(mirror, n)
  BY <1>1, <1>2, <1>3, <1>5 DEF Moved
<1>9. \A r \in Rows : Passed(mirror, n, r)
  BY <1>1, <1>2, <1>3, <1>5 DEF Passed, Forward, Onward
<1> QED BY <1>1, <1>3, <1>7, <1>8, <1>9 DEF n, k

(* The pump takes the head of the wire: what that leaves of a row.              *)
LEMMA TakenRight ==
  ASSUME RInv, wire # <<>>, wire' = Tail(wire), agent' = agent, NEW r \in Rows
  PROVE  /\ WireOK(wire', r, agent'[r])
         /\ ~(r \in Next1.rows /\ Ends(Next1)) => RightStays(r) /\ (Ending(wire', r) <=> Ending(wire, r))
         /\ r \in gone => r \notin Next1.rows
         /\ GoneRight(r) => (r \in gone => agent'[r].at = "removed" /\ \A i \in DOMAIN wire' : r \notin wire'[i].rows)
<1>1. wire \in Seq(Events) /\ RowOK(r)
  BY RowTypes DEF RInv
<1>2. WireOK(wire', r, agent'[r])
  BY <1>1, TailOK DEF RowOK
<1>3. /\ Ending(wire, r) <=> Ending(wire', r) \/ (r \in Next1.rows /\ Ends(Next1))
      /\ Going(wire, r) <=> Going(wire', r) \/ (r \in Next1.rows /\ Next1.type = "removed")
      /\ (\A i \in DOMAIN wire : r \notin wire[i].rows) => \A i \in DOMAIN wire' : r \notin wire'[i].rows
  BY <1>1, TailTells DEF Next1
<1>4. ~(r \in Next1.rows /\ Ends(Next1)) => RightStays(r)
  BY <1>3 DEF RightStays, Right, Ends
<1>5. r \in gone => r \notin Next1.rows
  <2>1. DOMAIN wire = 1..Len(wire) /\ Len(wire) \in Nat /\ Len(wire) >= 1 /\ Head(wire) = wire[1]
    BY <1>1, TailEvents
  <2> QED BY <1>1, <2>1 DEF RowOK, GoneRight, Next1
<1> QED BY <1>1, <1>2, <1>3, <1>4, <1>5 DEF GoneRight

(* What is left to show of a row once the pump took an event.                  *)
LEMMA TakenRow ==
  ASSUME RInv, wire # <<>>, wire' = Tail(wire), agent' = agent, At("tail", "rest"), NEW r \in Rows,
         CopyOK(mirror'), Forward(mirror, mirror'),
         mirror'.there \/ mirror' = mirror,
         (r \in Next1.rows /\ Ends(Next1)) => Passed(mirror, mirror', r) /\ Moved(mirror, mirror'),
         jobs'["history"] = jobs["history"], jobs'["refresh"] = jobs["refresh"],
         jobs'["tail"] = jobs["tail"] \/ jobs'["tail"].pc = "read",
         r \in Inputs => jobs'[r].pc \in {"rest", "read"} \/ (jobs'[r] = jobs[r] /\ ~(r \in Next1.rows /\ Ends(Next1))),
         CopyRight(r)', GoneRight(r)'
  PROVE  RowOK(r)'
<1>1. WireOK(wire', r, agent'[r]) /\ (~(r \in Next1.rows /\ Ends(Next1)) => RightStays(r))
  BY TakenRight
<1>2. AgentOK(r, agent'[r])
  BY DEF RInv, RowOK
<1>3. HistoryRight(r)'
  BY <1>1, HistoryStays
<1>4. RefreshRight(r)'
  <2>1. mirror'.there \/ ~mirror.there
    OBVIOUS
  <2> QED BY <1>1, <2>1, RefreshStays DEF Forward
<1>5. TailRight(r)'
  <2>1. CASE jobs'["tail"] = jobs["tail"]
    BY <2>1, TailStays
  <2>2. CASE jobs'["tail"].pc = "read"
    BY <2>2 DEF TailRight, At
  <2> QED BY <2>1, <2>2
<1>6. InputRight(r)'
  <2>1. CASE r \in Inputs => jobs'[r] = jobs[r] /\ RightStays(r)
    BY <2>1, InputStays
  <2>2. CASE jobs'[r].pc \in {"rest", "read"}
    BY <2>2 DEF InputRight, At
  <2> QED BY <1>1, <2>1, <2>2
<1> QED BY <1>1, <1>2, <1>3, <1>4, <1>5, <1>6 DEF RowOK

(* A row the event is not about.                                              *)
LEMMA TakenCopyOther ==
  ASSUME RInv, wire # <<>>, wire' = Tail(wire), agent' = agent, NEW r \in Rows, ~(r \in Next1.rows /\ Ends(Next1)),
         CopyOK(mirror'), mirror'.rows[r].ver = mirror.rows[r].ver, mirror'.there \/ mirror' = mirror,
         r \in doubt' <=> r \in doubt
  PROVE  CopyRight(r)'
<1>1. RightStays(r) /\ (Ending(wire', r) <=> Ending(wire, r))
  BY TakenRight
<1>2. CopyRight(r)
  BY DEF RInv, RowOK
<1>3. mirror.rows[r].ver \in Nat
  BY EnteredMirror DEF CopyOK, Copies
<1> QED BY <1>1, <1>2, <1>3 DEF CopyRight, RightStays

LEMMA CapturedStays ==
  ASSUME RInv, IInv', Onward(mirror, mirror'),
         \A r \in Rows : agent'[r].at = "unborn" => agent[r].at = "unborn",
         \A j \in Jobs : jobs'[j] = jobs[j] \/ jobs'[j] = Resting \/ jobs'[j] = [Resting EXCEPT !.pc = "read"] \/ JobOK(j)',
         jobs'["history"].pc = "inform" => jobs'["history"].kind = "cold"
  PROVE  Captured'
<1>1. CopyOK(mirror) /\ CopyOK(mirror')
  BY RowTypes DEF RInv, IInv, TypeOK
<1>2. mirror.inc \in Nat /\ mirror'.inc \in Nat
  BY <1>1 DEF CopyOK, Copies
<1>3. mirror'.there => mirror'.inc >= 1
  BY <1>2 DEF RInv, Captured, Onward
<1>4. \A j \in Jobs : JobOK(j)'
  BY <1>1, JobStays, RestingOK
<1> QED BY <1>3, <1>4 DEF Captured, At

(* An event about one row, which then stands at v in the copy.                 *)
LEMMA TakenOne ==
  ASSUME RInv, IInv', wire # <<>>, wire' = Tail(wire), At("tail", "rest"), PumpAlone, UNCHANGED <<jobs, gone>>,
         NEW r \in Rows, r \in Next1.rows, Next1.type # "removed", NEW v \in Nat, v # 0,
         mirror' = Upserted(Enter(mirror), {r}, Row(r, v)),
         doubt' = doubt \/ doubt' = doubt \ {r},
         r \notin doubt' => Right(wire', agent[r], r, v)
  PROVE  RInv'
<1> DEFINE n == Upserted(Enter(mirror), {r}, Row(r, v))
<1>1. /\ CopyOK(n) /\ Forward(mirror, n) /\ n.there /\ Moved(mirror, n)
      /\ Passed(mirror, n, r) /\ n.rows[r].ver = v
      /\ \A q \in Rows \ {r} : n.rows[q].ver = mirror.rows[q].ver
  <2>1. {r} \in SUBSET Rows /\ r \in {r} /\ Row(r, v) \in Versions /\ Row(r, v)[r] = v /\ \A q \in {r} : Row(r, v)[q] # 0
    BY RowIs, RowIsVersions
  <2> QED BY <2>1, EnteredUpserted
<1>2. mirror' = n /\ agent' = agent /\ jobs' = jobs /\ gone' = gone
  BY DEF PumpAlone
<1> HIDE DEF n
<1>3. wire \in Seq(Events) /\ WireOK(wire, r, agent[r])
  BY RowTypes DEF RInv, RowOK
<1>4. Next1.rows = {r} /\ agent[r].at # "unborn"
  BY <1>3, HeadOK DEF Next1
<1>5. ASSUME NEW q \in Rows PROVE RowOK(q)'
  <2>1. GoneRight(q)'
    <3>1. GoneRight(q)
      BY DEF RInv, RowOK
    <3> QED BY <1>2, <3>1, TakenRight DEF GoneRight
  <2>2. CopyRight(q)'
    <3>1. CASE q = r
      BY <1>1, <1>2, <1>4, <3>1 DEF CopyRight
    <3>2. CASE q # r
      <4>1. q \notin Next1.rows /\ q \in Rows \ {r} /\ (q \in doubt' <=> q \in doubt)
        BY <1>4, <3>2
      <4> QED BY <1>1, <1>2, <4>1, TakenCopyOther
    <3> QED BY <3>1, <3>2
  <2>3. q \in Next1.rows /\ Ends(Next1) => Passed(mirror, mirror', q) /\ Moved(mirror, mirror')
    BY <1>1, <1>2, <1>4
  <2>4. q \in Inputs => ~(q \in Next1.rows /\ Ends(Next1))
    <3>1. Ends(Next1) => r \in Texts \union Tools
      BY <1>3, HeadOK DEF Next1, Ends
    <3> QED BY <1>4, <3>1, MirrorAssumption
  <2> QED BY <1>1, <1>2, <2>1, <2>2, <2>3, <2>4, TakenRow
<1>6. Captured'
  BY <1>1, <1>2, CapturedStays DEF Forward, RInv, Captured, At
<1> QED BY <1>5, <1>6 DEF RInv

LEMMA PumpRows ==
  ASSUME RInv, IInv', Pump
  PROVE  RInv'
<1>a. wire \in Seq(Events) /\ CopyOK(mirror) /\ CopyOK(mirror') /\ Inputs \subseteq Rows /\ Inputs \subseteq Jobs
  BY RowTypes, JobNames DEF RInv, IInv, TypeOK
<1>b. ASSUME NEW type, Takes(type)
      PROVE  /\ wire # <<>> /\ wire' = Tail(wire) /\ At("tail", "rest") /\ Next1.type = type
             /\ Next1.rows \in SUBSET Rows /\ Next1.ver \in Nat
             /\ \A r \in Next1.rows : WireOK(wire, r, agent[r]) /\ AgentOK(r, agent[r]) /\ CopyRight(r)
  <2>1. Next1.rows \in SUBSET Rows /\ Next1.ver \in Nat
    BY <1>b, Parts, TakesTypes DEF RInv
  <2> QED BY <1>b, <2>1 DEF Takes, Next1, RInv, RowOK
<1>c. /\ CopyOK(Enter(mirror)) /\ \A r \in Rows : Enter(mirror).rows[r].ver = mirror.rows[r].ver /\ mirror.rows[r].ver \in Nat
  BY <1>a, EnteredMirror DEF CopyOK, Copies
<1>1. ASSUME TakeDelta PROVE RInv'
  <2>1. PICK r \in Next1.rows : mirror' = Written(Enter(mirror), r, Next1.ver, TRUE)
    BY <1>1 DEF TakeDelta
  <2>2. Takes("delta") /\ PumpAlone /\ UNCHANGED <<jobs, gone, doubt>>
    BY <1>1 DEF TakeDelta
  <2>3. /\ wire # <<>> /\ wire' = Tail(wire) /\ At("tail", "rest") /\ Next1.type = "delta"
        /\ r \in Rows /\ Next1.ver \in Nat /\ WireOK(wire, r, agent[r])
    BY <1>b, <2>1, <2>2
  <2>4. Next1.ver # 0 /\ Right(wire', agent[r], r, mirror.rows[r].ver + Next1.ver)
    BY <1>a, <2>1, <2>3, HeadOK DEF Next1, Right
  <2>5. mirror' = Upserted(Enter(mirror), {r}, Row(r, mirror.rows[r].ver + Next1.ver))
    BY <1>c, <2>1, <2>3 DEF Written
  <2>6. mirror.rows[r].ver + Next1.ver \in Nat /\ mirror.rows[r].ver + Next1.ver # 0
    BY <1>c, <2>3, <2>4
  <2> QED BY <2>1, <2>2, <2>3, <2>4, <2>5, <2>6, TakenOne
<1>2. ASSUME TakeWhole PROVE RInv'
  <2>1. PICK r \in Next1.rows : mirror' = Written(Enter(mirror), r, Next1.ver, FALSE) /\ doubt' = doubt \ {r}
    BY <1>2 DEF TakeWhole
  <2>2. Takes("whole") /\ PumpAlone /\ UNCHANGED <<jobs, gone>>
    BY <1>2 DEF TakeWhole
  <2>3. /\ wire # <<>> /\ wire' = Tail(wire) /\ At("tail", "rest") /\ Next1.type = "whole"
        /\ r \in Rows /\ Next1.ver \in Nat /\ WireOK(wire, r, agent[r])
    BY <1>b, <2>1, <2>2
  <2>4. Next1.ver # 0 /\ Right(wire', agent[r], r, Next1.ver)
    BY <1>a, <2>1, <2>3, HeadOK DEF Next1, Right
  <2>5. mirror' = Upserted(Enter(mirror), {r}, Row(r, Next1.ver))
    BY <2>1 DEF Written
  <2> QED BY <2>1, <2>2, <2>3, <2>4, <2>5, TakenOne
<1>3. ASSUME TakeTool PROVE RInv'
  <2>1. PICK r \in Next1.rows :
          /\ mirror' = ToolUpserted(Enter(mirror), r, Next1.ver)
          /\ doubt' = IF Next1.ver = Finished THEN doubt \ {r} ELSE doubt
    BY <1>3 DEF TakeTool
  <2> DEFINE v == Patched(mirror.rows[r].ver, Next1.ver)
  <2>2. Takes("tool") /\ PumpAlone /\ UNCHANGED <<jobs, gone>>
    BY <1>3 DEF TakeTool
  <2>3. /\ wire # <<>> /\ wire' = Tail(wire) /\ At("tail", "rest") /\ Next1.type = "tool"
        /\ r \in Rows /\ Next1.ver \in Nat /\ WireOK(wire, r, agent[r])
        /\ AgentOK(r, agent[r]) /\ CopyRight(r)
    BY <1>b, <2>1, <2>2
  <2>4. /\ Next1.ver # 0 /\ r \in Tools
        /\ agent[r].at = "removed" => Going(wire', r)
    BY <1>a, <2>1, <2>3, HeadOK DEF Next1
  <2>5. mirror' = Upserted(Enter(mirror), {r}, Row(r, v))
    BY <1>c, <2>1, <2>3 DEF ToolUpserted
  <2>6. v \in Nat /\ v # 0
    BY <1>c, <2>3, <2>4 DEF Patched, Finished
  <2>7. ASSUME r \notin doubt', agent[r].at = "ended", ~Ending(wire', r) PROVE v = agent[r].ver
    <3>1. agent[r].ver = Finished
      BY <2>3, <2>4, <2>7 DEF AgentOK
    <3>2. CASE Next1.ver = Finished
      BY <3>1, <3>2 DEF Patched
    <3>3. CASE Next1.ver # Finished
      <4>1. agent' = agent /\ ~Ends(Next1)
        BY <2>2, <2>3, <3>3 DEF PumpAlone, Ends
      <4>2. ~Ending(wire, r)
        BY <2>3, <2>7, <4>1, TakenRight
      <4>3. r \notin doubt
        BY <2>1, <2>7, <3>3
      <4>4. mirror.rows[r].ver = Finished
        BY <2>3, <2>4, <2>7, <3>1, <4>2, <4>3 DEF CopyRight, Right
      <4> QED BY <3>1, <4>4 DEF Patched
    <3> QED BY <3>2, <3>3
  <2> HIDE DEF v
  <2>8. r \notin doubt' => Right(wire', agent[r], r, v)
    BY <2>4, <2>7 DEF Right
  <2>9. doubt' = doubt \/ doubt' = doubt \ {r}
    BY <2>1
  <2> QED BY <2>1, <2>2, <2>3, <2>5, <2>6, <2>8, <2>9, TakenOne
<1>4. ASSUME TakeRemoved PROVE RInv'
  <2> DEFINE S == Next1.rows
             n == Removed(Noted(Enter(mirror)), S)
  <2>1. /\ wire # <<>> /\ wire' = Tail(wire) /\ At("tail", "rest") /\ Next1.type = "removed" /\ S \in SUBSET Rows
        /\ \A r \in S : WireOK(wire, r, agent[r])
    BY <1>4, <1>b DEF TakeRemoved
  <2>2. /\ mirror' = n /\ gone' = gone \union S /\ doubt' = doubt \ S /\ PumpAlone
        /\ jobs' = [j \in Jobs |-> IF j \in Inputs THEN Resting ELSE jobs[j]]
    BY <1>4 DEF TakeRemoved
  <2>3. /\ CopyOK(n) /\ Forward(mirror, n) /\ n.there /\ Moved(mirror, n)
        /\ \A r \in Rows : Passed(mirror, n, r)
        /\ \A r \in Rows : n.rows[r].ver = IF r \in S THEN 0 ELSE mirror.rows[r].ver
    BY <1>a, <2>1, <2>2, EnteredRemoved
  <2>4. /\ jobs'["history"] = jobs["history"] /\ jobs'["refresh"] = jobs["refresh"] /\ jobs'["tail"] = jobs["tail"]
        /\ \A j \in Jobs : jobs'[j] = jobs[j] \/ jobs'[j] = Resting
        /\ \A r \in Inputs : jobs'[r] = Resting /\ jobs'[r].pc = "rest"
    BY <2>2, JobNames, MirrorAssumption DEF Resting
  <2> HIDE DEF n
  <2>5. \A r \in S : agent[r].at = "removed" /\ \A k \in DOMAIN wire' : r \notin wire'[k].rows
    BY <1>a, <2>1, HeadOK DEF Next1
  <2>6. agent' = agent
    BY <2>2 DEF PumpAlone
  <2> HIDE DEF S
  <2>7. ASSUME NEW q \in Rows PROVE RowOK(q)'
    <3>1. GoneRight(q)'
      <4>1. GoneRight(q)
        BY DEF RInv, RowOK
      <4> QED BY <2>1, <2>2, <2>5, <2>6, <4>1, TakenRight DEF GoneRight
    <3>2. CopyRight(q)'
      <4>1. CASE q \in S
        BY <2>2, <2>3, <2>5, <2>6, <4>1 DEF CopyRight
      <4>2. CASE q \notin S
        <5>1. ~(q \in Next1.rows /\ Ends(Next1)) /\ mirror'.rows[q].ver = mirror.rows[q].ver /\ mirror'.there
              /\ (q \in doubt' <=> q \in doubt)
          BY <2>2, <2>3, <4>2 DEF S
        <5> QED BY <1>a, <2>1, <2>6, <5>1, TakenCopyOther
      <4> QED BY <4>1, <4>2
    <3> QED BY <2>1, <2>2, <2>3, <2>4, <2>6, <3>1, <3>2, TakenRow
  <2>8. Captured'
    BY <2>2, <2>3, <2>4, <2>6, CapturedStays DEF Forward, RInv, Captured, At
  <2> QED BY <2>7, <2>8 DEF RInv
<1>5. ASSUME TakeRested PROVE RInv'
  <2> DEFINE n == Noted(Enter(mirror))
  <2>1. /\ wire # <<>> /\ wire' = Tail(wire) /\ At("tail", "rest") /\ Next1.type = "rested" /\ Next1.rows \in SUBSET Rows
        /\ \A r \in Next1.rows : WireOK(wire, r, agent[r])
    BY <1>5, <1>b DEF TakeRested
  <2>2. /\ mirror' = n /\ gone' = gone /\ doubt' = doubt /\ agent' = agent
        /\ jobs' = [jobs EXCEPT !["tail"] = [Resting EXCEPT !.pc = "read"]]
    BY <1>5 DEF TakeRested, Go, PumpAlone
  <2>3. /\ CopyOK(n) /\ Forward(mirror, n) /\ n.there /\ Moved(mirror, n)
        /\ \A r \in Rows : n.rows[r].ver = mirror.rows[r].ver
    BY EnteredNoted
  <2> HIDE DEF n
  <2>4. Next1.rows = {}
    BY <1>a, <2>1, HeadOK DEF Next1
  <2>5. /\ jobs'["history"] = jobs["history"] /\ jobs'["refresh"] = jobs["refresh"] /\ jobs'["tail"].pc = "read"
        /\ \A j \in Jobs : jobs'[j] = jobs[j] \/ jobs'[j] = [Resting EXCEPT !.pc = "read"]
        /\ \A r \in Inputs : jobs'[r] = jobs[r]
    <3>1. jobs \in [Jobs -> Reading]
      BY RowTypes DEF RInv
    <3> QED BY <2>2, <3>1, JobNames, MirrorAssumption DEF Resting
  <2>6. ASSUME NEW q \in Rows PROVE RowOK(q)'
    <3>1. GoneRight(q)'
      <4>1. GoneRight(q)
        BY DEF RInv, RowOK
      <4> QED BY <2>1, <2>2, <4>1, TakenRight DEF GoneRight
    <3>2. CopyRight(q)'
      BY <1>a, <2>1, <2>2, <2>3, <2>4, TakenCopyOther
    <3> QED BY <2>1, <2>2, <2>3, <2>4, <2>5, <3>1, <3>2, TakenRow
  <2>7. Captured'
    BY <2>2, <2>3, <2>5, CapturedStays DEF Forward, RInv, Captured, At
  <2> QED BY <2>6, <2>7 DEF RInv
<1>6. ASSUME TakeDelivered PROVE RInv'
  <2> DEFINE job == [Resting EXCEPT !.pc = "read", !.inc = mirror.inc, !.gen = mirror.gen]
  <2>1. PICK r \in Next1.rows : IF mirror.there /\ At(r, "rest") THEN Go(r, job) ELSE UNCHANGED jobs
    BY <1>6 DEF TakeDelivered
  <2>2. /\ wire # <<>> /\ wire' = Tail(wire) /\ At("tail", "rest") /\ Next1.type = "delivered"
        /\ r \in Rows /\ WireOK(wire, r, agent[r])
    BY <1>6, <1>b, <2>1 DEF TakeDelivered
  <2>3. mirror' = mirror /\ gone' = gone /\ doubt' = doubt /\ agent' = agent
    BY <1>6 DEF TakeDelivered, PumpAlone
  <2>4. r \in Inputs /\ ~Ends(Next1)
    BY <1>a, <2>1, <2>2, HeadOK DEF Next1, Ends
  <2>5. job.pc = "read" /\ job.inc = mirror.inc /\ job.cur = 0 /\ job.gen = mirror.gen /\ job.page = Nothing
    BY DEF Resting
  <2> HIDE DEF job
  <2>6. \A j \in Jobs : jobs'[j] = jobs[j] \/ (j = r /\ jobs'[j] = job)
    <3>1. jobs \in [Jobs -> Reading]
      BY RowTypes DEF RInv
    <3> QED BY <2>1, <3>1 DEF Go
  <2>7. /\ jobs'["history"] = jobs["history"] /\ jobs'["refresh"] = jobs["refresh"] /\ jobs'["tail"] = jobs["tail"]
        /\ \A q \in Inputs : jobs'[q] = jobs[q] \/ jobs'[q].pc = "read"
    BY <2>4, <2>5, <2>6, JobNames, MirrorAssumption
  <2>8. \A j \in Jobs : jobs'[j] = jobs[j] \/ JobOK(j)'
    <3>1. mirror.inc \in Nat /\ mirror.cur \in Nat /\ mirror.gen \in Nat
      BY EnteredMirror
    <3> QED BY <2>3, <2>5, <2>6, <3>1 DEF JobOK, Nothing
  <2>9. Forward(mirror, mirror') /\ Onward(mirror, mirror')
    BY <1>a, <2>3, ForwardStays DEF Forward
  <2>10. ASSUME NEW q \in Rows PROVE RowOK(q)'
    <3>1. GoneRight(q)'
      <4>1. GoneRight(q)
        BY DEF RInv, RowOK
      <4> QED BY <2>2, <2>3, <4>1, TakenRight DEF GoneRight
    <3>2. CopyRight(q)'
      BY <1>a, <2>2, <2>3, <2>4, TakenCopyOther
    <3> QED BY <1>a, <2>2, <2>3, <2>4, <2>7, <2>9, <3>1, <3>2, TakenRow
  <2>11. Captured'
    BY <2>3, <2>7, <2>8, <2>9, CapturedStays DEF RInv, Captured, At
  <2> QED BY <2>10, <2>11 DEF RInv
<1> QED BY <1>1, <1>2, <1>3, <1>4, <1>5, <1>6 DEF Pump

-----------------------------------------------------------------------------
(* THE STEPS OF THE READS                                                     *)

LEMMA StillRight ==
  ASSUME RInv, UNCHANGED <<agent, wire>>, NEW r \in Rows
  PROVE  RightStays(r)
BY DEF RightStays

LEMMA StillRow ==
  ASSUME RInv, UNCHANGED <<agent, wire, gone>>, NEW r \in Rows,
         CopyRight(r)', HistoryRight(r)', RefreshRight(r)', TailRight(r)', InputRight(r)'
  PROVE  RowOK(r)'
<1>1. AgentOK(r, agent[r]) /\ WireOK(wire, r, agent[r]) /\ GoneRight(r)
  BY DEF RInv, RowOK
<1> QED BY <1>1 DEF RowOK, GoneRight

(* A row of the copy that stays as it is, and one that is put in.              *)
LEMMA CopyStays ==
  ASSUME RInv, UNCHANGED <<agent, wire>>, NEW r \in Rows,
         mirror'.rows[r].ver = mirror.rows[r].ver, mirror'.there \/ mirror' = mirror, r \in doubt' <=> r \in doubt
  PROVE  CopyRight(r)'
<1>1. CopyRight(r)
  BY DEF RInv, RowOK
<1> QED BY <1>1 DEF CopyRight

LEMMA CopyTakes ==
  ASSUME RInv, UNCHANGED <<agent, wire>>, NEW r \in Rows, NEW v \in Nat, v # 0,
         mirror'.rows[r].ver = v, mirror'.there, agent[r].at # "unborn", r \in doubt' \/ Right(wire, agent[r], r, v)
  PROVE  CopyRight(r)'
BY DEF CopyRight

(* A step of the read j.                                                      *)
LEMMA JobRows ==
  ASSUME RInv, IInv', JobAlone, NEW j \in Jobs, NEW job, jobs' = [jobs EXCEPT ![j] = job],
         Onward(mirror, mirror'), JobOK(j)', \A r \in Rows : CopyRight(r)',
         mirror'.there \/ mirror' = mirror,
         j = "history" => (\A r \in Rows : HistoryRight(r)') /\ (job.pc = "inform" => job.kind = "cold"),
         j # "history" => Forward(mirror, mirror'),
         j # "history" => job.pc \in {"rest", "read"} \/ \A r \in Rows : PageRight(j, r)'
  PROVE  RInv'
<1>1. /\ jobs \in [Jobs -> Reading] /\ CopyOK(mirror')
      /\ UNCHANGED <<agent, wire>> /\ UNCHANGED <<agent, wire, gone>>
  BY RowTypes DEF RInv, JobAlone, IInv, TypeOK
<1>2. jobs'[j] = job /\ \A k \in Jobs : k # j => jobs'[k] = jobs[k]
  BY <1>1
<1>3. ASSUME NEW r \in Rows PROVE RowOK(r)'
  <2>1. RightStays(r)
    BY <1>1, StillRight
  <2>2. HistoryRight(r)'
    BY <1>1, <1>2, <2>1, HistoryStays, JobNames
  <2>3. RefreshRight(r)'
    <3>1. CASE j = "refresh"
      BY <1>2, <3>1 DEF RefreshRight
    <3>2. CASE j # "refresh"
      <4>1. mirror'.there \/ ~mirror.there
        OBVIOUS
      <4>2. jobs'["refresh"] = jobs["refresh"]
        BY <1>2, <3>2, JobNames
      <4> QED BY <1>1, <2>1, <4>1, <4>2, RefreshStays
    <3> QED BY <3>1, <3>2
  <2>4. TailRight(r)'
    <3>1. CASE j = "tail"
      BY <1>2, <3>1 DEF TailRight, At
    <3>2. CASE j # "tail"
      BY <1>1, <1>2, <2>1, <3>2, TailStays, JobNames
    <3> QED BY <3>1, <3>2
  <2>5. InputRight(r)'
    <3>1. CASE j = r /\ r \in Inputs
      <4>1. j # "history"
        BY <3>1, MirrorAssumption
      <4> QED BY <1>2, <3>1, <4>1 DEF InputRight, At
    <3>2. CASE r \in Inputs => j # r
      BY <1>1, <1>2, <2>1, <3>2, InputStays, JobNames
    <3> QED BY <3>1, <3>2
  <2> QED BY <1>1, <2>2, <2>3, <2>4, <2>5, StillRow
<1>4. Captured'
  <2>1. \A k \in Jobs : jobs'[k] = jobs[k] \/ JobOK(k)'
    BY <1>2
  <2>2. jobs'["history"].pc = "inform" => jobs'["history"].kind = "cold"
    <3>1. CASE j = "history"
      BY <1>2, <3>1
    <3>2. CASE j # "history"
      <4>1. jobs'["history"] = jobs["history"]
        BY <1>2, <3>2, JobNames
      <4> QED BY <4>1 DEF RInv, Captured, At
    <3> QED BY <3>1, <3>2
  <2> QED BY <1>1, <2>1, <2>2, CapturedStays
<1> QED BY <1>3, <1>4 DEF RInv

(* A read that ends, or only starts, and leaves the copy.                      *)
LEMMA MirrorStands ==
  ASSUME RInv, UNCHANGED <<agent, wire, mirror, doubt>>
  PROVE  /\ Forward(mirror, mirror') /\ Onward(mirror, mirror') /\ CopyOK(mirror')
         /\ \A r \in Rows : CopyRight(r)'
<1>1. CopyOK(mirror) /\ CopyOK(mirror')
  BY RowTypes DEF RInv
<1>2. Forward(mirror, mirror') /\ Onward(mirror, mirror')
  BY <1>1, ForwardStays DEF Forward
<1> QED BY <1>1, <1>2, CopyStays

LEMMA ReadsRows ==
  ASSUME RInv, IInv', NEW j \in Jobs, NEW S, NEW pc \in Pcs, Reads(j, S, pc),
         j = "history" /\ pc = "inform" => jobs["history"].kind = "cold"
  PROVE  RInv'
<1> DEFINE job == [jobs[j] EXCEPT !.pc = pc, !.page = Answer(S)]
<1>1. /\ jobs' = [jobs EXCEPT ![j] = job] /\ JobAlone /\ UNCHANGED <<agent, wire, mirror, doubt>>
  BY DEF Reads, Go, JobAlone
<1>2. jobs \in [Jobs -> Reading] /\ jobs[j] \in Reading
  BY RowTypes DEF RInv
<1>3. /\ job.pc = pc /\ job.page = Answer(S) /\ job.inc = jobs[j].inc /\ job.cur = jobs[j].cur
      /\ job.gen = jobs[j].gen /\ job.kind = jobs[j].kind
  BY <1>2 DEF Reading
<1> HIDE DEF job
<1>4. jobs'[j] = job
  BY <1>1, <1>2
<1>5. \A r \in Rows : Answer(S)[r] # 0 => agent[r].at \notin {"unborn", "removed"} /\ Answer(S)[r] = agent[r].ver
  BY DEF Answer, RInv, RowOK, AgentOK
<1>6. \A r \in Rows : PageRight(j, r)'
  BY <1>1, <1>3, <1>4, <1>5 DEF PageRight, Right
<1>7. JobOK(j)'
  <2>1. JobOK(j)
    BY DEF RInv, Captured
  <2> QED BY <1>1, <1>3, <1>4, <1>5, <2>1 DEF JobOK
<1>8. j = "history" => \A r \in Rows : HistoryRight(r)'
  BY <1>6 DEF HistoryRight
<1>9. Forward(mirror, mirror') /\ Onward(mirror, mirror') /\ \A r \in Rows : CopyRight(r)'
  BY <1>1, MirrorStands
<1> QED BY <1>1, <1>3, <1>6, <1>7, <1>8, <1>9, JobRows

LEMMA RestsRows ==
  ASSUME RInv, IInv', JobAlone, NEW j \in Jobs, Rest(j), Onward(mirror, mirror'), \A r \in Rows : CopyRight(r)',
         mirror'.there \/ mirror' = mirror,
         j # "history" => Forward(mirror, mirror')
  PROVE  RInv'
<1>1. jobs' = [jobs EXCEPT ![j] = Resting] /\ jobs \in [Jobs -> Reading]
  BY RowTypes DEF RInv, Rest, Go
<1>2. jobs'[j] = Resting /\ Resting.pc = "rest"
  BY <1>1 DEF Resting
<1>3. JobOK(j)'
  BY <1>2, RestingOK DEF IInv, TypeOK
<1>4. j = "history" => \A r \in Rows : HistoryRight(r)'
  BY <1>2 DEF HistoryRight
<1> HIDE DEF Resting
<1> QED BY <1>1, <1>2, <1>3, <1>4, JobRows

LEMMA GivesUpRows == ASSUME RInv, IInv', NEW j \in Jobs, GivesUp(j) PROVE RInv'
<1>1. JobAlone /\ Rest(j) /\ UNCHANGED <<agent, wire, mirror, doubt>>
  BY DEF GivesUp, JobAlone
<1> QED BY <1>1, MirrorStands, RestsRows

LEMMA HistoryOpensRows ==
  ASSUME RInv, IInv', NEW kind, HistoryOpens(kind)
  PROVE  RInv'
<1> DEFINE m == Enter(mirror)
           job == [Resting EXCEPT !.pc = "read", !.kind = kind, !.inc = m.inc, !.cur = m.cur, !.gen = m.gen]
<1>1. /\ mirror' = m /\ jobs' = [jobs EXCEPT !["history"] = job] /\ JobAlone
      /\ UNCHANGED <<agent, wire>> /\ doubt' = doubt
  BY DEF HistoryOpens, Go, JobAlone
<1>2. CopyOK(m) /\ Forward(mirror, m) /\ m.there /\ \A r \in Rows : m.rows[r].ver = mirror.rows[r].ver
  BY EnteredMirror
<1> HIDE DEF m
<1>3. /\ job.pc = "read" /\ job.inc = m.inc /\ job.cur = m.cur /\ job.gen = m.gen /\ job.page = Nothing
  BY DEF Resting
<1>4. jobs'["history"] = job
  BY <1>1, JobNames, RowTypes DEF RInv
<1> HIDE DEF job
<1>5. JobOK("history")'
  <2>1. m.inc \in Nat /\ m.cur \in Nat /\ m.gen \in Nat
    BY <1>2 DEF CopyOK, Copies
  <2> QED BY <1>1, <1>3, <1>4, <2>1 DEF JobOK, Nothing
<1>6. \A r \in Rows : HistoryRight(r)'
  BY <1>3, <1>4 DEF HistoryRight
<1>7. \A r \in Rows : CopyRight(r)'
  BY <1>1, <1>2, CopyStays
<1> QED BY <1>1, <1>2, <1>3, <1>5, <1>6, <1>7, JobNames, JobRows DEF Forward

LEMMA HistoryReadsRows == ASSUME RInv, IInv', HistoryReads PROVE RInv'
<1>1. CASE jobs["history"].kind = "cold"
  <2>1. PICK S \in Newest : Reads("history", S, "inform")
    BY <1>1 DEF HistoryReads
  <2> QED BY <1>1, <2>1, JobNames, ReadsRows DEF Pcs
<1>2. CASE jobs["history"].kind # "cold"
  <2>1. PICK S \in Earlier : Reads("history", S, "commit")
    BY <1>2 DEF HistoryReads
  <2> QED BY <2>1, JobNames, ReadsRows DEF Pcs
<1> QED BY <1>1, <1>2

LEMMA ColdInformsRows == ASSUME RInv, IInv', ColdInforms PROVE RInv'
<1> DEFINE job == [jobs["history"] EXCEPT !.pc = "commit"]
           n == Noted(Enter(mirror))
<1>1. /\ mirror' = n /\ jobs' = [jobs EXCEPT !["history"] = job] /\ JobAlone /\ At("history", "inform")
      /\ UNCHANGED <<agent, wire>> /\ doubt' = doubt
  BY DEF ColdInforms, Go, JobAlone
<1>2. CopyOK(n) /\ Forward(mirror, n) /\ n.there /\ \A r \in Rows : n.rows[r].ver = mirror.rows[r].ver
  BY EnteredNoted
<1> HIDE DEF n
<1>3. jobs["history"] \in Reading /\ jobs'["history"] = job
  BY <1>1, JobNames, RowTypes DEF RInv
<1>4. /\ job.pc = "commit" /\ job.inc = jobs["history"].inc /\ job.cur = jobs["history"].cur
      /\ job.gen = jobs["history"].gen /\ job.page = jobs["history"].page
  BY <1>3 DEF Reading
<1>5. \A r \in Rows : HistoryRight(r)'
  BY <1>1, <1>2, <1>3, StillRight, HistoryStays
<1>6. JobOK("history")'
  BY <1>1, <1>2, <1>3, <1>4, JobNames, JobStays DEF Forward
<1>7. \A r \in Rows : CopyRight(r)'
  BY <1>1, <1>2, CopyStays
<1> HIDE DEF job
<1> QED BY <1>1, <1>2, <1>4, <1>5, <1>6, <1>7, JobNames, JobRows DEF Forward

(* A page of the history that still fits is put in where the copy has no later *)
(* word of the row; if it is older than a break or a refresh, in doubt.        *)
LEMMA HistoryPuts ==
  ASSUME RInv, NEW r \in Unseen(jobs["history"]), At("history", "commit"), Fits(jobs["history"]),
         jobs["history"].kind = "cold" => ~mirror.init, UNCHANGED <<agent, wire>>,
         Trusts("history", Unseen(jobs["history"])),
         mirror'.there, mirror'.rows[r].ver = jobs["history"].page[r]
  PROVE  CopyRight(r)'
<1> DEFINE job == jobs["history"]
<1>1. job.page \in Versions
  BY JobNames, RowTypes DEF RInv
<1>2. r \in Rows /\ job.page[r] # 0 /\ (mirror.rows[r].ver = 0 \/ mirror.rows[r].seq <= job.cur)
  BY DEF Unseen, Present
<1>3. job.page[r] \in Nat
  BY <1>1, <1>2 DEF Versions
<1>4. agent[r].at # "unborn"
  BY <1>2, JobNames DEF RInv, Captured, JobOK
<1>5. r \in doubt' \/ Right(wire, agent[r], r, job.page[r])
  <2>1. CASE job.stale
    BY <2>1 DEF Trusts
  <2>2. CASE ~job.stale
    BY <1>2, <2>2 DEF RInv, RowOK, HistoryRight, PageRight, At
  <2> QED BY <2>1, <2>2
<1> QED BY <1>2, <1>3, <1>4, <1>5, CopyTakes

LEMMA HistoryCommits ==
  ASSUME RInv, IInv', JobAlone, Rest("history"), At("history", "commit"), Fits(jobs["history"]),
         jobs["history"].kind = "cold" => ~mirror.init,
         Trusts("history", Unseen(jobs["history"])), Onward(mirror, mirror'), mirror'.there,
         \A r \in Rows : mirror'.rows[r].ver =
           IF r \in Unseen(jobs["history"]) THEN jobs["history"].page[r] ELSE mirror.rows[r].ver
  PROVE  RInv'
<1> DEFINE S == Unseen(jobs["history"])
<1>1. UNCHANGED <<agent, wire>>
  BY DEF JobAlone
<1>2. ASSUME NEW r \in Rows PROVE CopyRight(r)'
  <2>1. CASE r \in S
    BY <1>1, <2>1, HistoryPuts
  <2>2. CASE r \notin S
    <3>1. r \in doubt' <=> r \in doubt
      BY <2>2 DEF Trusts
    <3> QED BY <1>1, <2>2, <3>1, CopyStays
  <2> QED BY <2>1, <2>2
<1> QED BY <1>2, JobNames, RestsRows

LEMMA ColdCommitsRows == ASSUME RInv, IInv', ColdCommits PROVE RInv'
<1> DEFINE job == jobs["history"]
           S == Unseen(job)
           m == IF S = {} THEN mirror ELSE Upserted(mirror, S, job.page)
           n == [m EXCEPT !.init = TRUE]
<1>1. At("history", "commit") /\ Rest("history") /\ JobAlone /\ UNCHANGED <<agent, wire>>
  BY DEF ColdCommits, JobAlone
<1>2. S \in SUBSET Rows /\ job.page \in Versions /\ CopyOK(mirror) /\ mirror \in Copies /\ \A r \in S : job.page[r] # 0
  BY JobNames, RowTypes DEF RInv, Unseen, Present
<1>3. CASE Fits(job) /\ ~mirror.init
  <2>1. mirror' = n /\ Trusts("history", S)
    BY <1>3 DEF ColdCommits
  <2>2. /\ CopyOK(m) /\ m \in Copies /\ Forward(mirror, m) /\ m.there = mirror.there /\ m.inc = mirror.inc
        /\ \A r \in Rows : m.rows[r].ver = IF r \in S THEN job.page[r] ELSE mirror.rows[r].ver
    <3>1. CASE S = {}
      BY <1>2, <3>1, ForwardStays
    <3>2. CASE S # {}
      <4> DEFINE k == Upserted(mirror, S, job.page)
      <4>1. /\ CopyOK(k) /\ Forward(mirror, k) /\ k.there = mirror.there /\ k.inc = mirror.inc
            /\ \A r \in S : k.rows[r].ver = job.page[r] /\ k.rows[r].seq = mirror.cur + 1
            /\ \A r \in Rows \ S : k.rows[r] = mirror.rows[r]
        BY <1>2, UpsertedForward
      <4>2. m = k
        BY <3>2
      <4> HIDE DEF k, S, m
      <4> QED BY <4>1, <4>2 DEF CopyOK
    <3> QED BY <3>1, <3>2
  <2> HIDE DEF m
  <2>3. /\ n.there = m.there /\ n.inc = m.inc /\ n.cur = m.cur /\ n.gen = m.gen /\ n.rows = m.rows /\ n.init
    BY <2>2 DEF Copies
  <2>4. m.there /\ n.there
    BY <1>3, <2>2, <2>3 DEF Fits
  <2> HIDE DEF n
  <2>5. Onward(mirror, mirror')
    BY <2>1, <2>2, <2>3 DEF Forward, Onward
  <2>6. \A r \in Rows : mirror'.rows[r].ver = IF r \in S THEN job.page[r] ELSE mirror.rows[r].ver
    BY <2>1, <2>2, <2>3
  <2> QED BY <1>1, <1>3, <2>1, <2>4, <2>5, <2>6, HistoryCommits
<1>4. CASE ~(Fits(job) /\ ~mirror.init)
  <2>1. UNCHANGED <<agent, wire, mirror, doubt>>
    BY <1>1, <1>4 DEF ColdCommits
  <2> QED BY <1>1, <2>1, MirrorStands, JobNames, RestsRows
<1> QED BY <1>3, <1>4

LEMMA PageCommitsRows == ASSUME RInv, IInv', PageCommits PROVE RInv'
<1> DEFINE job == jobs["history"]
           S == Unseen(job)
           n == Paged(mirror, job.kind, S, job.page)
<1>1. At("history", "commit") /\ job.kind # "cold" /\ Rest("history") /\ JobAlone /\ UNCHANGED <<agent, wire>>
  BY DEF PageCommits, JobAlone
<1>2. S \in SUBSET Rows /\ job.page \in Versions /\ CopyOK(mirror) /\ \A r \in S : job.page[r] # 0
  BY JobNames, RowTypes DEF RInv, Unseen, Present
<1>3. CASE Fits(job)
  <2>1. mirror' = n /\ Trusts("history", S)
    BY <1>3 DEF PageCommits
  <2>2. /\ Onward(mirror, n) /\ n.there = mirror.there
        /\ \A r \in Rows : n.rows[r].ver = IF r \in S THEN job.page[r] ELSE mirror.rows[r].ver
    <3> DEFINE kind == job.kind
               page == job.page
    <3>1. CopyOK(mirror) /\ S \in SUBSET Rows /\ page \in Versions /\ \A r \in S : page[r] # 0
      BY <1>2
    <3>2. n = Paged(mirror, kind, S, page)
      OBVIOUS
    <3> HIDE DEF S, kind, page, n
    <3>3. Onward(mirror, n) /\ n.there = mirror.there
      BY <3>1, <3>2, PagedForward
    <3>4. \A r \in Rows : n.rows[r].ver = IF r \in S THEN page[r] ELSE mirror.rows[r].ver
      BY <3>1, <3>2, PagedForward
    <3> QED BY <3>3, <3>4 DEF page
  <2>3. n.there
    BY <1>3, <2>2 DEF Fits
  <2> HIDE DEF n
  <2> QED BY <1>1, <1>3, <2>1, <2>2, <2>3, HistoryCommits
<1>4. CASE ~Fits(job)
  <2>1. UNCHANGED <<agent, wire, mirror, doubt>>
    BY <1>1, <1>4 DEF PageCommits
  <2> QED BY <1>1, <2>1, MirrorStands, JobNames, RestsRows
<1> QED BY <1>3, <1>4

LEMMA RefreshStartsRows == ASSUME RInv, IInv', RefreshStarts PROVE RInv'
<1> DEFINE inc == IF mirror.there THEN mirror.inc ELSE 0
           job == [Resting EXCEPT !.pc = "read", !.inc = inc, !.cur = mirror.cur]
<1>1. /\ jobs' = [jobs EXCEPT !["refresh"] = job] /\ JobAlone /\ UNCHANGED <<agent, wire, mirror, doubt>>
  BY DEF RefreshStarts, Go, JobAlone
<1>2. /\ job.pc = "read" /\ job.inc = inc /\ job.cur = mirror.cur /\ job.gen = 0 /\ job.page = Nothing
  BY DEF Resting
<1>3. jobs'["refresh"] = job
  BY <1>1, JobNames, RowTypes DEF RInv
<1> HIDE DEF job
<1>4. JobOK("refresh")'
  <2>1. mirror.inc \in Nat /\ mirror.cur \in Nat /\ mirror.gen \in Nat
    BY EnteredMirror
  <2>2. inc <= mirror.inc
    BY <2>1
  <2> HIDE DEF inc
  <2> QED BY <1>1, <1>2, <1>3, <2>1, <2>2 DEF JobOK, Nothing
<1> QED BY <1>1, <1>2, <1>4, MirrorStands, JobNames, JobRows

LEMMA RefreshCommitsRows == ASSUME RInv, IInv', RefreshCommits PROVE RInv'
<1> DEFINE job == jobs["refresh"]
           page == jobs["history"]
           S == Present(job.page)
           n == Replaced(Enter(mirror), job.page)
<1>1. At("refresh", "commit") /\ JobAlone /\ UNCHANGED <<agent, wire>> /\ UNCHANGED <<agent, wire, gone>>
  BY DEF RefreshCommits, JobAlone
<1>2. job.page \in Versions /\ page \in Reading /\ jobs \in [Jobs -> Reading]
  BY JobNames, RowTypes DEF RInv
<1>3. CASE Unmoved(job)
  <2>1. /\ mirror' = n /\ Trusts("refresh", S)
        /\ jobs' = [jobs EXCEPT !["refresh"] = Resting, !["history"].stale = @ \/ page.pc = "commit"]
    BY <1>3 DEF RefreshCommits
  <2>2. /\ CopyOK(Enter(mirror)) /\ Forward(mirror, Enter(mirror)) /\ Enter(mirror).there
        /\ \A r \in Rows : Enter(mirror).rows[r].ver = mirror.rows[r].ver
    BY EnteredMirror
  <2>3. /\ Onward(Enter(mirror), n) /\ n.there /\ n.init
        /\ \A r \in Rows : n.rows[r].ver = IF job.page[r] # 0 THEN job.page[r] ELSE mirror.rows[r].ver
    BY <1>2, <2>2, ReplacedOnward
  <2>4. Onward(mirror, mirror')
    <3>1. CopyOK(mirror) /\ CopyOK(mirror')
      BY RowTypes DEF RInv, IInv, TypeOK
    <3> DEFINE e == Enter(mirror)
    <3>2. /\ mirror.inc \in Nat /\ e.inc \in Nat /\ n.inc \in Nat /\ mirror.cur \in Nat /\ e.cur \in Nat /\ n.cur \in Nat
          /\ mirror.gen \in Nat /\ e.gen \in Nat /\ n.gen \in Nat
      BY <2>1, <2>2, <3>1 DEF CopyOK, Copies
    <3>3. Onward(mirror, e) /\ Onward(e, n)
      BY <2>2, <2>3 DEF Forward
    <3> HIDE DEF e, n
    <3> QED BY <2>1, <3>2, <3>3 DEF Onward
  <2> HIDE DEF n
  <2>5. ASSUME NEW r \in Rows PROVE CopyRight(r)'
    <3>1. CASE r \in S
      <4>1. job.page[r] # 0 /\ job.page[r] \in Nat
        BY <1>2, <3>1 DEF Present, Versions
      <4>2. agent[r].at # "unborn"
        BY <4>1, JobNames DEF RInv, Captured, JobOK
      <4>3. r \in doubt' \/ Right(wire, agent[r], r, job.page[r])
        <5>1. CASE job.stale
          BY <2>1, <3>1, <5>1 DEF Trusts
        <5>2. CASE ~job.stale
          BY <1>1, <1>3, <4>1, <5>2 DEF RInv, RowOK, RefreshRight, PageRight, At
        <5> QED BY <5>1, <5>2
      <4> QED BY <1>1, <2>1, <2>3, <4>1, <4>2, <4>3, CopyTakes
    <3>2. CASE r \notin S
      <4>1. job.page[r] = 0
        BY <3>2 DEF Present
      <4>2. r \in doubt' <=> r \in doubt
        BY <2>1, <3>2 DEF Trusts
      <4> QED BY <1>1, <2>1, <2>3, <4>1, <4>2, CopyStays
    <3> QED BY <3>1, <3>2
  <2>6. /\ jobs'["refresh"] = Resting
        /\ \A j \in Jobs : j \notin {"refresh", "history"} => jobs'[j] = jobs[j]
    BY <1>2, <2>1, JobNames
  <2>7. LET k == jobs'["history"] IN
        /\ k.pc = page.pc /\ k.kind = page.kind /\ k.inc = page.inc /\ k.cur = page.cur /\ k.gen = page.gen /\ k.page = page.page
        /\ page.pc = "commit" => k.stale
    <3> DEFINE late == page.stale \/ page.pc = "commit"
    <3>1. jobs' = [jobs EXCEPT !["refresh"] = Resting, !["history"] = [page EXCEPT !.stale = late]]
      BY <1>2, <2>1, JobNames
    <3>2. jobs'["history"] = [page EXCEPT !.stale = late]
      BY <1>2, <3>1, JobNames
    <3>3. page.pc = "commit" => late
      OBVIOUS
    <3> HIDE DEF late
    <3> QED BY <1>2, <3>2, <3>3 DEF Reading
  <2>8. ASSUME NEW r \in Rows PROVE RowOK(r)'
    <3>1. HistoryRight(r)'
      <4>1. page.pc = "inform" => page.kind = "cold"
        BY DEF RInv, Captured, At
      <4> QED BY <2>1, <2>3, <2>7, <4>1 DEF HistoryRight
    <3>2. RefreshRight(r)'
      BY <2>6 DEF RefreshRight, Resting
    <3>3. TailRight(r)' /\ InputRight(r)'
      BY <1>1, <2>6, JobNames, MirrorAssumption, StillRight, TailStays, InputStays
    <3> QED BY <1>1, <2>5, <3>1, <3>2, <3>3, StillRow
  <2>9. Captured'
    <3>1. ASSUME NEW j \in Jobs PROVE jobs'[j] = jobs[j] \/ jobs'[j] = Resting \/ JobOK(j)'
      <4>1. CASE j = "history"
        <5>1. CopyOK(mirror') /\ \A r \in Rows : agent'[r].at = "unborn" => agent[r].at = "unborn"
          BY <1>1 DEF IInv, TypeOK
        <5>2. LET k == jobs'["history"] IN
              k.inc = page.inc /\ k.cur = page.cur /\ k.gen = page.gen /\ k.page = page.page
          BY <2>7
        <5>3. JobOK("history")'
          BY <2>4, <5>1, <5>2, JobNames, JobStays
        <5> QED BY <4>1, <5>3
      <4> QED BY <2>6, <4>1
    <3>2. jobs'["history"].pc = "inform" => jobs'["history"].kind = "cold"
      BY <2>7 DEF RInv, Captured, At
    <3> QED BY <1>1, <2>4, <3>1, <3>2, CapturedStays
  <2> QED BY <2>8, <2>9 DEF RInv
<1>4. CASE ~Unmoved(job)
  <2>1. UNCHANGED <<agent, wire, mirror, doubt>> /\ Rest("refresh")
    BY <1>1, <1>4 DEF RefreshCommits
  <2> QED BY <1>1, <2>1, MirrorStands, JobNames, RestsRows
<1> QED BY <1>3, <1>4

LEMMA TailCommitsRows == ASSUME RInv, IInv', TailCommits PROVE RInv'
<1> DEFINE job == jobs["tail"]
           S == Present(job.page)
           n == Upserted(Enter(mirror), S, job.page)
<1>1. At("tail", "commit") /\ Rest("tail") /\ JobAlone /\ UNCHANGED <<agent, wire>>
  BY DEF TailCommits, JobAlone
<1>2. job.page \in Versions /\ S \in SUBSET Rows /\ \A r \in S : job.page[r] # 0
  BY JobNames, RowTypes DEF RInv, Present
<1>3. CASE S # {}
  <2>1. mirror' = n /\ Trusts("tail", S)
    BY <1>3 DEF TailCommits
  <2>2. /\ Forward(mirror, n) /\ n.there
        /\ \A r \in S : n.rows[r].ver = job.page[r]
        /\ \A r \in Rows \ S : n.rows[r].ver = mirror.rows[r].ver
    BY <1>2, EnteredUpserted
  <2> HIDE DEF n
  <2>3. ASSUME NEW r \in Rows PROVE CopyRight(r)'
    <3>1. CASE r \in S
      <4>1. job.page[r] # 0 /\ job.page[r] \in Nat
        BY <1>2, <3>1 DEF Versions
      <4>2. agent[r].at # "unborn"
        BY <4>1, JobNames DEF RInv, Captured, JobOK
      <4>3. r \in doubt' \/ Right(wire, agent[r], r, job.page[r])
        <5>1. CASE job.stale
          BY <2>1, <3>1, <5>1 DEF Trusts
        <5>2. CASE ~job.stale
          BY <1>1, <4>1, <5>2 DEF RInv, RowOK, TailRight, PageRight, At
        <5> QED BY <5>1, <5>2
      <4> QED BY <1>1, <2>1, <2>2, <3>1, <4>1, <4>2, <4>3, CopyTakes
    <3>2. CASE r \notin S
      <4>1. r \in doubt' <=> r \in doubt
        BY <2>1, <3>2 DEF Trusts
      <4> QED BY <1>1, <2>1, <2>2, <3>2, <4>1, CopyStays
    <3> QED BY <3>1, <3>2
  <2> QED BY <1>1, <2>1, <2>2, <2>3, JobNames, RestsRows DEF Forward
<1>4. CASE S = {}
  <2>1. UNCHANGED <<agent, wire, mirror, doubt>>
    BY <1>1, <1>4 DEF TailCommits
  <2> QED BY <1>1, <2>1, MirrorStands, JobNames, RestsRows
<1> QED BY <1>3, <1>4

LEMMA InputCommitsRows == ASSUME RInv, IInv', NEW r \in Inputs, InputCommits(r) PROVE RInv'
<1> DEFINE job == jobs[r]
           k == Upserted(mirror, {r}, job.page)
           n == Noted(k)
<1>1. /\ At(r, "commit") /\ Rest(r) /\ JobAlone /\ UNCHANGED <<agent, wire>> /\ doubt' = doubt
      /\ r \in Jobs /\ r \in Rows /\ r \notin {"history", "refresh", "tail", "revert"}
  BY JobNames, MirrorAssumption DEF InputCommits, JobAlone
<1>2. job.page \in Versions /\ CopyOK(mirror)
  BY <1>1, RowTypes DEF RInv
<1>3. CASE Fits(job) /\ job.page[r] # 0
  <2>1. mirror' = n
    BY <1>3 DEF InputCommits
  <2>2. {r} \in SUBSET Rows /\ r \in {r} /\ \A q \in {r} : job.page[q] # 0
    BY <1>1, <1>3
  <2>3. /\ CopyOK(k) /\ Forward(mirror, k) /\ k.there = mirror.there
        /\ k.rows[r].ver = job.page[r]
        /\ \A q \in Rows \ {r} : k.rows[q] = mirror.rows[q]
    BY <1>2, <2>2, UpsertedForward
  <2> HIDE DEF k
  <2>4. CopyOK(n) /\ Forward(k, n) /\ n.there = k.there /\ \A q \in Rows : n.rows[q] = k.rows[q]
    BY <2>3, NotedForward
  <2> HIDE DEF n
  <2>5. Forward(mirror, n) /\ n.there
    BY <1>2, <1>3, <2>3, <2>4, ForwardOn DEF Fits
  <2>6. job.page[r] \in Nat /\ agent[r].at # "unborn"
    BY <1>1, <1>2, <1>3 DEF Versions, RInv, Captured, JobOK
  <2>7. Right(wire, agent[r], r, job.page[r])
    BY <1>1, <1>3 DEF RInv, RowOK, InputRight, PageRight, At
  <2>8. ASSUME NEW q \in Rows PROVE CopyRight(q)'
    <3>1. CASE q = r
      <4>1. mirror'.rows[r].ver = job.page[r] /\ mirror'.there
        BY <1>1, <2>1, <2>3, <2>4, <2>5
      <4>2. CopyRight(r)'
        BY <1>1, <1>3, <2>6, <2>7, <4>1, CopyTakes
      <4> QED BY <3>1, <4>2
    <3>2. CASE q # r
      <4>1. mirror'.rows[q].ver = mirror.rows[q].ver /\ mirror'.there
        BY <2>1, <2>3, <2>4, <2>5, <3>2
      <4> QED BY <1>1, <4>1, CopyStays
    <3> QED BY <3>1, <3>2
  <2> QED BY <1>1, <2>1, <2>5, <2>8, RestsRows DEF Forward
<1>4. CASE ~(Fits(job) /\ job.page[r] # 0)
  <2>1. UNCHANGED <<agent, wire, mirror, doubt>>
    BY <1>1, <1>4 DEF InputCommits
  <2> QED BY <1>1, <2>1, MirrorStands, RestsRows
<1> QED BY <1>3, <1>4

LEMMA RevertAsksRows == ASSUME RInv, IInv', NEW S \in SUBSET Rows, RevertAsks(S) PROVE RInv'
<1> DEFINE job == [Resting EXCEPT !.pc = "read"]
<1>1. Reverts(S) /\ jobs' = [jobs EXCEPT !["revert"] = job] /\ UNCHANGED <<mirror, gone, doubt>>
  BY DEF RevertAsks, Go
<1>2. jobs \in [Jobs -> Reading]
  BY RowTypes DEF RInv
<1> HIDE DEF job
<1>3. \A j \in Jobs : jobs'[j] = jobs[j] \/ (j = "revert" /\ jobs'[j] = job)
  BY <1>1, <1>2
<1>4. \A r \in Rows : AgentRow(r)
  BY <1>1, RevertsRows
<1> QED BY <1>1, <1>3, <1>4, AgentRowsMove DEF job

(* What a revert read is put in as it is: right where the agent still has it    *)
(* so, in doubt where it has moved on.                                         *)
LEMMA RevertCommitsRows == ASSUME RInv, IInv', RevertCommits PROVE RInv'
<1> DEFINE page == jobs["revert"].page
           S == Present(page)
           n == Upserted(Enter(mirror), S, page)
<1>1. At("revert", "commit") /\ Rest("revert") /\ JobAlone /\ UNCHANGED <<agent, wire>>
  BY DEF RevertCommits, JobAlone
<1>2. page \in Versions /\ S \in SUBSET Rows /\ \A r \in S : page[r] # 0
  BY JobNames, RowTypes DEF RInv, Present
<1>a. "revert" # "history"
  OBVIOUS
<1>3. CASE S # {}
  <2>1. mirror' = n /\ doubt' = (doubt \ S) \union {r \in S : page[r] # agent[r].ver}
    BY <1>3 DEF RevertCommits
  <2>2. /\ Forward(mirror, n) /\ n.there
        /\ \A r \in S : n.rows[r].ver = page[r]
        /\ \A r \in Rows \ S : n.rows[r].ver = mirror.rows[r].ver
    BY <1>2, EnteredUpserted
  <2> HIDE DEF n
  <2>3. ASSUME NEW r \in Rows PROVE CopyRight(r)'
    <3>1. CASE r \in S
      <4>1. page[r] # 0 /\ page[r] \in Nat
        BY <1>2, <3>1 DEF Versions
      <4>2. agent[r].at # "unborn"
        BY <4>1, JobNames DEF RInv, Captured, JobOK
      <4>3. r \in doubt' \/ Right(wire, agent[r], r, page[r])
        <5>1. CASE page[r] # agent[r].ver
          BY <2>1, <3>1, <5>1
        <5>2. CASE page[r] = agent[r].ver
          <6>1. AgentOK(r, agent[r])
            BY DEF RInv, RowOK
          <6> QED BY <4>1, <5>2, <6>1 DEF AgentOK, Right
        <5> QED BY <5>1, <5>2
      <4> QED BY <1>1, <2>1, <2>2, <3>1, <4>1, <4>2, <4>3, CopyTakes
    <3>2. CASE r \notin S
      <4>1. r \in doubt' <=> r \in doubt
        BY <2>1, <3>2
      <4> QED BY <1>1, <2>1, <2>2, <3>2, <4>1, CopyStays
    <3> QED BY <3>1, <3>2
  <2> QED BY <1>1, <1>a, <2>1, <2>2, <2>3, JobNames, RestsRows DEF Forward
<1>4. CASE S = {}
  <2>1. UNCHANGED <<agent, wire, mirror, doubt>>
    BY <1>1, <1>4 DEF RevertCommits
  <2> QED BY <1>1, <1>a, <2>1, MirrorStands, JobNames, RestsRows
<1> QED BY <1>3, <1>4

LEMMA JobStepsRows == ASSUME RInv, IInv', JobSteps PROVE RInv'
<1>1. ASSUME NEW S, NEW j \in Jobs, j # "history", Reads(j, S, "commit") PROVE RInv'
  BY <1>1, ReadsRows DEF Pcs
<1>2. "refresh" # "history" /\ "tail" # "history" /\ "revert" # "history" /\ \A r \in Inputs : r # "history"
  BY MirrorAssumption
<1>3. \A S \in {Rows, Rows \ Older} : S \in SUBSET Rows
  OBVIOUS
<1> QED BY <1>1, <1>2, <1>3, HistoryOpensRows, HistoryReadsRows, ColdInformsRows, ColdCommitsRows, PageCommitsRows,
           RefreshStartsRows, RefreshCommitsRows, TailCommitsRows, InputCommitsRows, RevertAsksRows, RevertCommitsRows,
           GivesUpRows, JobNames
        DEF JobSteps

-----------------------------------------------------------------------------
(* THE OTHER STEPS                                                            *)

(* What the stream lost is in doubt; what was read before it broke is stale.   *)
LEMMA LosesRows == ASSUME RInv, IInv', Loses PROVE RInv'
<1>1. /\ wire' = <<>> /\ UNCHANGED <<agent, mirror, gone>>
      /\ doubt' = doubt \union UNION {wire[i].rows : i \in DOMAIN wire}
      /\ jobs' = [j \in Jobs |-> IF j \in Inputs THEN Resting
                                 ELSE [jobs[j] EXCEPT !.stale = @ \/ jobs[j].pc \in {"inform", "commit"}]]
  BY DEF Loses
<1>2. CopyOK(mirror) /\ CopyOK(mirror') /\ jobs \in [Jobs -> Reading]
  BY RowTypes DEF RInv, IInv, TypeOK
<1>3. Onward(mirror, mirror')
  BY <1>1, <1>2, ForwardStays DEF Forward
<1>4. \A r \in Inputs : jobs'[r] = Resting
  BY <1>1, JobNames
<1>5. ASSUME NEW j \in Jobs, j \notin Inputs
      PROVE  LET k == jobs'[j] IN
             /\ k.pc = jobs[j].pc /\ k.kind = jobs[j].kind /\ k.inc = jobs[j].inc /\ k.cur = jobs[j].cur
             /\ k.gen = jobs[j].gen /\ k.page = jobs[j].page
             /\ k.pc \in {"inform", "commit"} => k.stale
  <2> DEFINE late == jobs[j].stale \/ jobs[j].pc \in {"inform", "commit"}
  <2>1. jobs'[j] = [jobs[j] EXCEPT !.stale = late]
    BY <1>1, <1>5
  <2>2. jobs[j].pc \in {"inform", "commit"} => late
    OBVIOUS
  <2>3. jobs[j] \in Reading
    BY <1>2
  <2> HIDE DEF late
  <2> QED BY <2>1, <2>2, <2>3 DEF Reading
<1>6. /\ "history" \in Jobs \ Inputs /\ "refresh" \in Jobs \ Inputs /\ "tail" \in Jobs \ Inputs
  BY JobNames, MirrorAssumption
<1>7. ASSUME NEW r \in Rows PROVE RowOK(r)'
  <2>1. RowOK(r)
    BY DEF RInv
  <2>2. WireOK(wire', r, agent'[r]) /\ GoneRight(r)'
    BY <1>1, <2>1 DEF WireOK, GoneRight, RowOK
  <2>3. CopyRight(r)'
    <3>1. r \notin doubt' => r \notin doubt /\ \A i \in DOMAIN wire : r \notin wire[i].rows
      BY <1>1
    <3>2. r \notin doubt' => ~Ending(wire, r) /\ ~Going(wire, r) /\ r \notin doubt
      BY <3>1 DEF Ending, Going
    <3> QED BY <1>1, <2>1, <3>2 DEF RowOK, CopyRight, Right
  <2>4. HistoryRight(r)'
    <3>1. jobs'["history"].pc \in {"inform", "commit"} => jobs'["history"].stale
      BY <1>5, <1>6
    <3> QED BY <3>1 DEF HistoryRight
  <2>5. RefreshRight(r)'
    <3>1. jobs'["refresh"].pc \in {"inform", "commit"} => jobs'["refresh"].stale
      BY <1>5, <1>6
    <3> QED BY <3>1 DEF RefreshRight
  <2>6. TailRight(r)'
    <3>1. jobs'["tail"].pc \in {"inform", "commit"} => jobs'["tail"].stale
      BY <1>5, <1>6
    <3> QED BY <3>1 DEF TailRight, At
  <2>7. InputRight(r)'
    BY <1>4 DEF InputRight, At, Resting
  <2> QED BY <1>1, <2>1, <2>2, <2>3, <2>4, <2>5, <2>6, <2>7 DEF RowOK
<1>8. Captured'
  <2>1. ASSUME NEW j \in Jobs PROVE jobs'[j] = Resting \/ JobOK(j)'
    <3>1. CASE j \in Inputs
      BY <1>4, <3>1
    <3>2. CASE j \notin Inputs
      <4>1. LET k == jobs'[j] IN
            k.inc = jobs[j].inc /\ k.cur = jobs[j].cur /\ k.gen = jobs[j].gen /\ k.page = jobs[j].page
        BY <1>5, <3>2
      <4> QED BY <1>1, <1>2, <1>3, <4>1, JobStays
    <3> QED BY <3>1, <3>2
  <2>2. jobs'["history"].pc = "inform" => jobs'["history"].kind = "cold"
    <3>1. jobs'["history"].pc = jobs["history"].pc /\ jobs'["history"].kind = jobs["history"].kind
      BY <1>5, <1>6
    <3> QED BY <3>1 DEF RInv, Captured, At
  <2> QED BY <1>1, <1>3, <2>1, <2>2, CapturedStays
<1> QED BY <1>7, <1>8 DEF RInv

(* Nothing but the copy and what is in doubt of it changes.                    *)
LEMMA MirrorRows ==
  ASSUME RInv, IInv', UNCHANGED <<agent, wire, jobs, gone>>, Forward(mirror, mirror'),
         mirror'.there \/ ~mirror.there \/ At("refresh", "rest") \/ jobs["refresh"].inc # 0,
         \A r \in Rows : CopyRight(r)'
  PROVE  RInv'
<1>1. CopyOK(mirror') /\ Onward(mirror, mirror') /\ UNCHANGED <<agent, wire>> /\ UNCHANGED <<agent, wire, gone>>
  BY DEF IInv, TypeOK, Forward
<1>2. ASSUME NEW r \in Rows PROVE RowOK(r)'
  <2>1. HistoryRight(r)' /\ RefreshRight(r)' /\ TailRight(r)' /\ InputRight(r)'
    BY <1>1, StillRight, HistoryStays, RefreshStays, TailStays, InputStays
  <2> QED BY <1>1, <2>1, StillRow
<1>3. Captured'
  BY <1>1, CapturedStays DEF RInv, Captured, At
<1> QED BY <1>2, <1>3 DEF RInv

LEMMA OthersRows == ASSUME RInv, IInv', ClientReads \/ Notes \/ Forgets PROVE RInv'
<1>1. CASE ClientReads
  <2>1. UNCHANGED <<agent, wire, mirror, doubt>> /\ UNCHANGED <<agent, wire, jobs, gone>>
    BY <1>1 DEF ClientReads
  <2>2. mirror'.there \/ ~mirror.there
    BY <2>1
  <2> QED BY <2>1, <2>2, MirrorStands, MirrorRows
<1>2. CASE Notes
  <2> DEFINE n == Noted(Enter(mirror))
  <2>1. UNCHANGED <<agent, wire>> /\ doubt' = doubt /\ UNCHANGED <<agent, wire, jobs, gone>> /\ mirror' = n
    BY <1>2 DEF Notes, Enter
  <2>2. Forward(mirror, n) /\ n.there /\ \A r \in Rows : n.rows[r].ver = mirror.rows[r].ver
    BY EnteredNoted
  <2> HIDE DEF n
  <2>3. \A r \in Rows : CopyRight(r)'
    BY <2>1, <2>2, CopyStays
  <2> QED BY <2>1, <2>2, <2>3, MirrorRows
<1>3. CASE Forgets
  <2> DEFINE n == [Fresh(mirror.inc) EXCEPT !.there = FALSE]
  <2>1. /\ UNCHANGED <<agent, wire>> /\ UNCHANGED <<agent, wire, jobs, gone>> /\ mirror' = n
        /\ At("refresh", "rest") \/ jobs["refresh"].inc # 0
        /\ doubt' = doubt \union {r \in Rows : mirror.rows[r].ver # 0}
    BY <1>3 DEF Forgets
  <2>2. n.inc = mirror.inc /\ n.there = FALSE /\ \A r \in Rows : n.rows[r].ver = 0
    BY DEF Fresh
  <2> HIDE DEF n
  <2>3. Forward(mirror, n)
    <3>1. mirror.inc \in Nat
      BY EnteredMirror
    <3> QED BY <2>2, <3>1 DEF Forward, Onward
  <2>4. ASSUME NEW r \in Rows PROVE CopyRight(r)'
    <3>1. CopyRight(r)
      BY DEF RInv, RowOK
    <3> QED BY <2>1, <2>2, <3>1 DEF CopyRight
  <2> QED BY <2>1, <2>3, <2>4, MirrorRows
<1> QED BY <1>1, <1>2, <1>3

LEMMA InitRows == ASSUME Init PROVE RInv
<1>1. /\ wire = <<>> /\ mirror = [Fresh(0) EXCEPT !.there = FALSE] /\ jobs = [j \in Jobs |-> Resting]
      /\ gone = {} /\ doubt = {}
  BY DEF Init
<1>2. PICK S \in SUBSET Older :
        agent = [r \in Rows |-> IF r \in S THEN [ver |-> 1, at |-> "ended"] ELSE [ver |-> 0, at |-> "unborn"]]
  BY DEF Init
<1>3. /\ mirror.there = FALSE /\ mirror.inc = 0 /\ \A r \in Rows : mirror.rows[r].ver = 0
  BY <1>1 DEF Fresh
<1>4. \A j \in Jobs : /\ jobs[j].pc = "rest" /\ jobs[j].inc = 0 /\ jobs[j].page = Nothing
  BY <1>1 DEF Resting
<1>5. Captured
  BY <1>3, <1>4, JobNames DEF Captured, JobOK, At, Nothing
<1>6. ASSUME NEW r \in Rows PROVE RowOK(r)
  <2>1. AgentOK(r, agent[r])
    BY <1>2, MirrorAssumption DEF AgentOK
  <2>2. WireOK(wire, r, agent[r]) /\ GoneRight(r)
    BY <1>1 DEF WireOK, GoneRight
  <2>3. CopyRight(r)
    <3>1. r \in Tools => agent[r].at # "ended"
      BY <1>2, MirrorAssumption
    <3> QED BY <1>3, <3>1 DEF CopyRight
  <2>4. HistoryRight(r) /\ RefreshRight(r) /\ TailRight(r) /\ InputRight(r)
    BY <1>4, JobNames DEF HistoryRight, RefreshRight, TailRight, InputRight, At
  <2> QED BY <2>1, <2>2, <2>3, <2>4 DEF RowOK
<1> QED BY <1>5, <1>6, InitHolds DEF RInv

LEMMA RowsKept == RInv /\ [Next]_vars => RInv'
<1> SUFFICES ASSUME RInv, [Next]_vars PROVE RInv'
  OBVIOUS
<1>1. IInv'
  BY StepKeeps DEF RInv
<1>2. CASE Next
  BY <1>1, <1>2, AgentRows, PumpRows, LosesRows, JobStepsRows, OthersRows DEF Next
<1>3. CASE UNCHANGED vars
  <2>1. UNCHANGED <<agent, wire, mirror, doubt>> /\ UNCHANGED <<agent, wire, jobs, gone>> /\ (mirror'.there \/ ~mirror.there)
    BY <1>3 DEF vars
  <2> QED BY <1>1, <2>1, MirrorStands, MirrorRows
<1> QED BY <1>2, <1>3

(* No row whose removal the pump took comes back, and with nothing on its way a  *)
(* row the agent has finished stands in the copy as the agent has it, unless it *)
(* is in doubt: for every set of rows and every crossing of the reads with the  *)
(* events, with removals, breaks of the stream and copies forgotten. In doubt   *)
(* is too what a revert's read put in after the agent had moved on from it.    *)
THEOREM RowsAlwaysTrue == Spec => []RowsAreTrue
<1>1. Init => RInv
  BY InitRows
<1> QED BY <1>1, RowsKept, RowsFollow, PTL DEF Spec
================================================================================
