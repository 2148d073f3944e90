---------------------------- MODULE SessionMirror ----------------------------
(***************************************************************************)
(* The gateway's copy of one agent session (agents/adapters/memory_mirror, *)
(* fed by the event pump of agents/manager.rs and by the reads of          *)
(* agents/use_cases/session_service.rs). The agent streams the rows of its *)
(* timeline as small events; the pump puts them into the copy, one         *)
(* sequence number each; and beside it a first reader loads the history, a *)
(* reader pages back, a user refreshes, the end of a turn reads its tail   *)
(* and a delivered prompt reads its message, and a user's revert reads     *)
(* what it left. Every read is an await between what was captured before   *)
(* it and the lock it commits under.                                       *)
(*                                                                         *)
(* A text row is the number of its chunks, a tool row 1 while it runs and  *)
(* 2 once it finished, a prompt 1; 0 is a row that is not there. Session   *)
(* info, pending requests, the order and the cap of the rows are left out; *)
(* of each kind of read one is in flight at a time.                        *)
(***************************************************************************)
EXTENDS Integers, Sequences, FiniteSets

CONSTANTS
  Texts, Tools, Inputs,  \* the rows of the timeline, by kind
  Older,                 \* those the newest page may leave to an earlier one
  MaxVer,                \* bound: chunks of a text
  MaxWire,               \* bound: events on their way to the pump
  MaxLog,                \* events the replay log keeps
  MaxItems,              \* rows an event may carry to be kept at all
  MaxSpent               \* bound: reads asked for, reads given up, turns that
                         \* end, events about no row, progress told late,
                         \* copies forgotten and breaks of the stream, together

Rows == Texts \union Tools \union Inputs
Finished == 2

ASSUME MirrorAssumption ==
  /\ Older \subseteq Texts \union Inputs
  /\ Texts \intersect Tools = {} /\ (Texts \union Tools) \intersect Inputs = {}
  /\ {MaxVer, MaxWire, MaxLog, MaxItems, MaxSpent} \subseteq Nat
  /\ {"history", "refresh", "tail", "revert"} \intersect Inputs = {}

VARIABLES
  agent,   \* the agent's own timeline: how far each row is, and in which state
  wire,    \* its events, on their way to the pump
  mirror,  \* the copy (SessionState), if it is there
  jobs,    \* the reads in flight, each with what it captured and read
  held,    \* what one client has: a snapshot it was answered
  spent,   \* how often each bounded thing happened
  gone,    \* ghost: rows whose removal the pump took
  doubt    \* ghost: rows an event of which was lost, or an old read overwrote:
           \* one behind a lost stream, a page behind a refresh, a revert's

vars == <<agent, wire, mirror, jobs, held, spent, gone, doubt>>

Versions == [Rows -> Nat]
Nothing == [r \in Rows |-> 0]
Jobs == {"history", "refresh", "tail", "revert"} \union Inputs

(* A copy nobody has told anything: entry, SessionState::new.                *)
Fresh(n) ==
  [there |-> TRUE, inc |-> n, rows |-> [r \in Rows |-> [ver |-> 0, seq |-> 0]], cur |-> 0,
   floor |-> 0, log |-> {}, init |-> FALSE, gen |-> 0]

Resting == [pc |-> "rest", kind |-> "none", inc |-> 0, cur |-> 0, gen |-> 0, page |-> Nothing, stale |-> FALSE]

Pcs == {"rest", "read", "inform", "commit"}
Kinds == {"none", "cold", "window", "earlier"}
Types == {"delta", "whole", "tool", "delivered", "removed", "rested"}
Events == [type: Types, rows: SUBSET Rows, ver: Nat]
Reading == [pc: Pcs, kind: Kinds, inc: Nat, cur: Nat, gen: Nat, page: Versions, stale: BOOLEAN]
Copies == [there: BOOLEAN, inc: Nat, rows: [Rows -> [ver: Nat, seq: Nat]], cur: Nat, floor: Nat,
           log: SUBSET [seq: Nat, row: Rows, ver: Nat], init: BOOLEAN, gen: Nat]

CopyOK(m) ==
  /\ m \in Copies
  /\ m.floor <= m.cur
  /\ \A e \in m.log : m.floor < e.seq /\ e.seq <= m.cur
  /\ \A r \in Rows : m.rows[r].seq <= m.cur

TypeOK ==
  /\ agent \in [Rows -> [ver: 0..MaxVer \union {Finished, 1}, at: {"unborn", "open", "ended", "removed"}]]
  /\ wire \in Seq(Events) /\ Len(wire) <= MaxWire
  /\ CopyOK(mirror)
  /\ jobs \in [Jobs -> Reading]
  /\ held \in [inc: Nat, seq: Nat, rows: Versions]
  /\ spent \in 0..MaxSpent
  /\ gone \subseteq Rows /\ doubt \subseteq Rows

(* The gateway starts: the session may have a history already.               *)
Init ==
  /\ \E S \in SUBSET Older :
       agent = [r \in Rows |-> IF r \in S THEN [ver |-> 1, at |-> "ended"] ELSE [ver |-> 0, at |-> "unborn"]]
  /\ wire = <<>>
  /\ mirror = [Fresh(0) EXCEPT !.there = FALSE]
  /\ jobs = [j \in Jobs |-> Resting]
  /\ held = [inc |-> 0, seq |-> 0, rows |-> Nothing]
  /\ spent = 0
  /\ gone = {} /\ doubt = {}

Spend == spent < MaxSpent /\ spent' = spent + 1
At(j, pc) == jobs[j].pc = pc
Go(j, job) == jobs' = [jobs EXCEPT ![j] = job]
Rest(j) == Go(j, Resting)

-----------------------------------------------------------------------------
(* THE AGENT. Every step of a row is an event, in the order they happen.      *)

Tell(e) == Spend /\ Len(wire) < MaxWire /\ wire' = Append(wire, e)
Event(type, rows, ver) == [type |-> type, rows |-> rows, ver |-> ver]
Becomes(r, ver, at) == agent' = [agent EXCEPT ![r] = [ver |-> ver, at |-> at]]
AgentAlone == UNCHANGED <<mirror, jobs, held, gone, doubt>>

AgentStreams(r) ==
  /\ agent[r].at \in {"unborn", "open"} /\ agent[r].ver < MaxVer
  /\ Becomes(r, agent[r].ver + 1, "open")
  /\ Tell(Event("delta", {r}, 1))
  /\ AgentAlone

AgentEndsText(r) ==
  /\ agent[r].at = "open"
  /\ Becomes(r, agent[r].ver, "ended")
  /\ Tell(Event("whole", {r}, agent[r].ver))
  /\ AgentAlone

AgentRunsTool(r) ==
  /\ agent[r].at = "unborn"
  /\ Becomes(r, 1, "open")
  /\ Tell(Event("tool", {r}, 1))
  /\ AgentAlone

AgentFinishesTool(r) ==
  /\ agent[r].at = "open"
  /\ Becomes(r, Finished, "ended")
  /\ Tell(Event("tool", {r}, Finished))
  /\ AgentAlone

(* OpenCode does not promise that a progress event comes before the result.   *)
AgentTellsLate(r) ==
  /\ agent[r].at = "ended"
  /\ Tell(Event("tool", {r}, 1))
  /\ AgentAlone /\ UNCHANGED agent

AgentDelivers(r) ==
  /\ agent[r].at = "unborn"
  /\ Becomes(r, 1, "ended")
  /\ Tell(Event("delivered", {r}, 1))
  /\ AgentAlone

(* A committed rollback takes the boundary message and everything after it.   *)
Reverts(S) ==
  LET taken == {r \in S : agent[r].at \in {"open", "ended"}} IN
  /\ taken # {}
  /\ agent' = [r \in Rows |-> IF r \in taken THEN [ver |-> 0, at |-> "removed"] ELSE agent[r]]
  /\ Tell(Event("removed", taken, 0))

AgentReverts(S) == Reverts(S) /\ AgentAlone

AgentRests ==
  /\ Tell(Event("rested", {}, 0))
  /\ AgentAlone /\ UNCHANGED agent

Agent ==
  \/ \E r \in Texts : AgentStreams(r) \/ AgentEndsText(r)
  \/ \E r \in Tools : AgentRunsTool(r) \/ AgentFinishesTool(r) \/ AgentTellsLate(r)
  \/ \E r \in Inputs : AgentDelivers(r)
  \/ \E S \in {Rows, Rows \ Older} : AgentReverts(S)
  \/ AgentRests

(* What the agent answers a read of the rows S.                               *)
Answer(S) == [r \in Rows |-> IF r \in S THEN agent[r].ver ELSE 0]

-----------------------------------------------------------------------------
(* THE COPY. Helpers of MemoryMirror, each under its write lock.              *)

Enter(m) == IF m.there THEN m ELSE Fresh(m.inc + 1)
Present(page) == {r \in Rows : page[r] # 0}
Later(a, b) == IF a > b THEN a ELSE b

(* push_event: the log is a suffix; an event too large for it empties it.     *)
Kept(m, n) == IF n > MaxItems THEN m.cur + 1 ELSE Later(m.floor, m.cur + 1 - MaxLog)

(* next_seq and push_event: the rows S stand at ver, under one new number.     *)
Upserted(m, S, ver) ==
  LET s == m.cur + 1
      f == Kept(m, Cardinality(S))
      told == {[seq |-> s, row |-> r, ver |-> ver[r]] : r \in S}
  IN [m EXCEPT
       !.rows = [r \in Rows |-> IF r \in S THEN [ver |-> ver[r], seq |-> IF ver[r] = 0 THEN 0 ELSE s] ELSE m.rows[r]],
       !.cur = s, !.floor = f,
       !.log = {e \in m.log \union told : e.seq > f}]

Noted(m) == Upserted(m, {}, Nothing)
Row(r, v) == [Nothing EXCEPT ![r] = v]

-----------------------------------------------------------------------------
(* THE PUMP. One event at a time; it waits while it reads the tail of a turn. *)

Takes(type) == wire # <<>> /\ Head(wire).type = type /\ At("tail", "rest") /\ wire' = Tail(wire)
Next1 == Head(wire)
PumpAlone == UNCHANGED <<agent, held, spent>>

(* write_text: a chunk is appended, to nothing if the copy never had the row.  *)
Written(m, r, ver, append) ==
  Upserted(m, {r}, Row(r, IF append THEN m.rows[r].ver + ver ELSE ver))

TakeDelta ==
  /\ Takes("delta")
  /\ \E r \in Next1.rows : mirror' = Written(Enter(mirror), r, Next1.ver, TRUE)
  /\ PumpAlone /\ UNCHANGED <<jobs, gone, doubt>>

(* The whole text, once it is complete.                                       *)
TakeWhole ==
  /\ Takes("whole")
  /\ \E r \in Next1.rows :
       /\ mirror' = Written(Enter(mirror), r, Next1.ver, FALSE)
       /\ doubt' = doubt \ {r}
  /\ PumpAlone /\ UNCHANGED <<jobs, gone>>

(* ToolPatch: a finished call stays finished.                                 *)
Patched(old, ver) == IF old = Finished THEN old ELSE ver

ToolUpserted(m, r, ver) == Upserted(m, {r}, Row(r, Patched(m.rows[r].ver, ver)))

TakeTool ==
  /\ Takes("tool")
  /\ \E r \in Next1.rows :
       /\ mirror' = ToolUpserted(Enter(mirror), r, Next1.ver)
       /\ doubt' = IF Next1.ver = Finished THEN doubt \ {r} ELSE doubt
  /\ PumpAlone /\ UNCHANGED <<jobs, gone>>

(* Mutant of Removed: only rows the copy has concern the reads under way.     *)
RemovedKeepsReads(m, S) ==
  LET taken == {r \in S : m.rows[r].ver # 0}
  IN IF taken = {} THEN m ELSE Upserted([m EXCEPT !.gen = @ + 1], taken, Nothing)

(* remove_timeline_from: reads under way are told of it even when the copy     *)
(* does not have the rows.                                                    *)
Removed(m, S) ==
  LET taken == {r \in S : m.rows[r].ver # 0}
      n == [m EXCEPT !.gen = @ + 1]
  IN IF taken = {} THEN n ELSE Upserted(n, taken, Nothing)

(* session.revert.committed: the revert is recorded, the rows go, and reads of *)
(* delivered prompts are given up.                                            *)
TakeRemoved ==
  /\ Takes("removed")
  /\ mirror' = Removed(Noted(Enter(mirror)), Next1.rows)
  /\ jobs' = [j \in Jobs |-> IF j \in Inputs THEN Resting ELSE jobs[j]]
  /\ gone' = gone \union Next1.rows
  /\ doubt' = doubt \ Next1.rows
  /\ PumpAlone

(* The end of a turn: its status, then a read of its tail.                    *)
TakeRested ==
  /\ Takes("rested")
  /\ mirror' = Noted(Enter(mirror))
  /\ Go("tail", [Resting EXCEPT !.pc = "read"])
  /\ PumpAlone /\ UNCHANGED <<gone, doubt>>

(* A delivered prompt is read beside the pump, if there is a copy for it.     *)
TakeDelivered ==
  /\ Takes("delivered")
  /\ \E r \in Next1.rows :
       IF mirror.there /\ At(r, "rest")
       THEN Go(r, [Resting EXCEPT !.pc = "read", !.inc = mirror.inc, !.gen = mirror.gen])
       ELSE UNCHANGED jobs
  /\ PumpAlone /\ UNCHANGED <<mirror, gone, doubt>>

(* The stream breaks: what was on its way is lost, and reads that were already *)
(* answered are older than what was lost.                                     *)
Loses ==
  /\ Spend
  /\ wire # <<>> /\ wire' = <<>>
  /\ jobs' = [j \in Jobs |-> IF j \in Inputs THEN Resting
                             ELSE [jobs[j] EXCEPT !.stale = @ \/ jobs[j].pc \in {"inform", "commit"}]]
  /\ doubt' = doubt \union UNION {wire[i].rows : i \in DOMAIN wire}
  /\ UNCHANGED <<agent, mirror, held, gone>>

Pump == TakeDelta \/ TakeWhole \/ TakeTool \/ TakeRemoved \/ TakeRested \/ TakeDelivered

-----------------------------------------------------------------------------
(* THE READS.                                                                 *)

JobAlone == UNCHANGED <<agent, wire, held, gone>>

(* What a commit of the rows S, read by j, does to what is in doubt.          *)
Trusts(j, S) == doubt' = IF jobs[j].stale THEN doubt \union S ELSE doubt \ S

(* The agent answers, from what it has now.                                   *)
Reads(j, S, pc) ==
  /\ At(j, "read")
  /\ Go(j, [jobs[j] EXCEPT !.pc = pc, !.page = Answer(S)])
  /\ JobAlone /\ UNCHANGED <<mirror, spent, doubt>>

(* It fails, its caller is gone, or it takes too long.                         *)
GivesUp(j) ==
  /\ ~At(j, "rest")
  /\ Spend
  /\ Rest(j)
  /\ JobAlone /\ UNCHANGED <<mirror, doubt>>

Newest == {Rows} \union {S \in {Rows \ Older} : \E r \in S : agent[r].ver # 0}
Earlier == {Rows, Older}

(* get_snapshot of a copy without a history, or a page back (of a window only  *)
(* once there is one): one at a time, under the history gate of the copy. What *)
(* stands now is captured.                                                    *)
HistoryOpens(kind) ==
  LET m == Enter(mirror) IN
  /\ At("history", "rest")
  /\ kind = "cold" => ~m.init
  /\ kind = "window" => m.init
  /\ Spend
  /\ mirror' = m
  /\ Go("history", [Resting EXCEPT !.pc = "read", !.kind = kind, !.inc = m.inc, !.cur = m.cur, !.gen = m.gen])
  /\ JobAlone /\ UNCHANGED doubt

HistoryReads ==
  IF jobs["history"].kind = "cold" THEN \E S \in Newest : Reads("history", S, "inform")
  ELSE \E S \in Earlier : Reads("history", S, "commit")

(* The cold read puts the session's info in first: update_session.            *)
ColdInforms ==
  /\ At("history", "inform")
  /\ mirror' = Noted(Enter(mirror))
  /\ Go("history", [jobs["history"] EXCEPT !.pc = "commit"])
  /\ JobAlone /\ UNCHANGED <<spent, doubt>>

(* The incarnation and the removals since the capture fence a read.           *)
Fits(job) == mirror.there /\ mirror.inc = job.inc /\ mirror.gen = job.gen

(* Rows the copy does not have, or has from before the capture.               *)
Unseen(job) == {r \in Present(job.page) : mirror.rows[r].ver = 0 \/ mirror.rows[r].seq <= job.cur}

(* initialize_prepared_history.                                               *)
ColdCommits ==
  LET job == jobs["history"]
      S == Unseen(job)
      m == IF S = {} THEN mirror ELSE Upserted(mirror, S, job.page)
  IN /\ At("history", "commit") /\ job.kind = "cold"
     /\ IF Fits(job) /\ ~mirror.init
        THEN mirror' = [m EXCEPT !.init = TRUE] /\ Trusts("history", S)
        ELSE UNCHANGED <<mirror, doubt>>
     /\ Rest("history")
     /\ JobAlone /\ UNCHANGED spent

(* Mutant of Paged: rows that are new and rows that are not go unpublished.   *)
PagedSilently(m, kind, S, page) ==
  [m EXCEPT !.rows = [r \in Rows |-> IF r \in S THEN [ver |-> page[r], seq |-> 0] ELSE @[r]]]

(* accept_earlier_history: a page back of one reader's window is not live     *)
(* output; rows only it brings are kept without a number, and not published.  *)
Paged(m, kind, S, page) ==
  LET quiet == IF kind = "window" THEN {r \in S : m.rows[r].ver = 0} ELSE {}
      loud == S \ quiet
      n == [m EXCEPT !.rows = [r \in Rows |-> IF r \in quiet THEN [ver |-> page[r], seq |-> 0] ELSE @[r]]]
  IN IF loud = {} THEN n ELSE Upserted(n, loud, page)

PageCommits ==
  LET job == jobs["history"]
      S == Unseen(job)
  IN /\ At("history", "commit") /\ job.kind # "cold"
     /\ IF Fits(job)
        THEN mirror' = Paged(mirror, job.kind, S, job.page) /\ Trusts("history", S)
        ELSE UNCHANGED <<mirror, doubt>>
     /\ Rest("history")
     /\ JobAlone /\ UNCHANGED spent

(* refresh_history: no gate; the copy, or that there is none, is captured.    *)
RefreshStarts ==
  /\ At("refresh", "rest")
  /\ Spend
  /\ Go("refresh", [Resting EXCEPT !.pc = "read", !.inc = IF mirror.there THEN mirror.inc ELSE 0, !.cur = mirror.cur])
  /\ JobAlone /\ UNCHANGED <<mirror, doubt>>

(* Strict: nothing at all happened to the copy since.                         *)
Unmoved(job) == IF mirror.there THEN mirror.inc = job.inc /\ mirror.cur = job.cur ELSE job.inc = 0

(* Mutant of Replaced: what the log held stays readable.                      *)
ReplacedKeepsEvents(m, page) ==
  [m EXCEPT
     !.rows = [r \in Rows |-> IF page[r] # 0 THEN [ver |-> page[r], seq |-> 0] ELSE @[r]],
     !.cur = @ + 1, !.floor = m.cur + 1, !.init = TRUE]

(* commit_refresh, keeping the rows that were not read. Nothing is published:  *)
(* a client behind it is told to take a snapshot.                             *)
Replaced(m, page) ==
  [m EXCEPT
     !.rows = [r \in Rows |-> IF page[r] # 0 THEN [ver |-> page[r], seq |-> 0] ELSE @[r]],
     !.cur = @ + 1, !.floor = m.cur + 1, !.log = {}, !.init = TRUE]

(* The rows it brings are unnumbered: a page answered before it will pass.    *)
RefreshCommits ==
  LET job == jobs["refresh"]
      page == jobs["history"]
  IN /\ At("refresh", "commit")
     /\ IF Unmoved(job)
        THEN /\ mirror' = Replaced(Enter(mirror), job.page)
             /\ Trusts("refresh", Present(job.page))
             /\ jobs' = [jobs EXCEPT !["refresh"] = Resting, !["history"].stale = @ \/ page.pc = "commit"]
        ELSE Rest("refresh") /\ UNCHANGED <<mirror, doubt>>
     /\ JobAlone /\ UNCHANGED spent

(* refetch_tail: whatever was read is put in.                                 *)
TailCommits ==
  LET job == jobs["tail"]
      S == Present(job.page)
  IN /\ At("tail", "commit")
     /\ IF S # {} THEN mirror' = Upserted(Enter(mirror), S, job.page) /\ Trusts("tail", S)
        ELSE UNCHANGED <<mirror, doubt>>
     /\ Rest("tail")
     /\ JobAlone /\ UNCHANGED spent

(* commit_delivered_input: the row, then the inbox without its receipt.       *)
InputCommits(r) ==
  LET job == jobs[r] IN
  /\ At(r, "commit") /\ At("tail", "rest")
  /\ mirror' = IF Fits(job) /\ job.page[r] # 0 THEN Noted(Upserted(mirror, {r}, job.page)) ELSE mirror
  /\ Rest(r)
  /\ JobAlone /\ UNCHANGED <<spent, doubt>>

(* revert_session of a user, on the request's own task: the agent's revert,    *)
(* then a read of the newest page, whose rows are put in beside the pump with  *)
(* nothing asked of the copy. Rows the agent has moved on from since are old.  *)
RevertAsks(S) ==
  /\ At("revert", "rest")
  /\ Reverts(S)
  /\ Go("revert", [Resting EXCEPT !.pc = "read"])
  /\ UNCHANGED <<mirror, held, gone, doubt>>

RevertCommits ==
  LET page == jobs["revert"].page
      S == Present(page)
  IN /\ At("revert", "commit")
     /\ IF S # {}
        THEN /\ mirror' = Upserted(Enter(mirror), S, page)
             /\ doubt' = (doubt \ S) \union {r \in S : page[r] # agent[r].ver}
        ELSE UNCHANGED <<mirror, doubt>>
     /\ Rest("revert")
     /\ JobAlone /\ UNCHANGED spent

JobSteps ==
  \/ \E kind \in {"cold", "window", "earlier"} : HistoryOpens(kind)
  \/ HistoryReads \/ ColdInforms \/ ColdCommits \/ PageCommits
  \/ RefreshStarts \/ (\E S \in Newest : Reads("refresh", S, "commit")) \/ RefreshCommits
  \/ (\E S \in Newest : Reads("tail", S, "commit")) \/ TailCommits
  \/ \E r \in Inputs : Reads(r, {r}, "commit") \/ InputCommits(r)
  \/ (\E S \in {Rows, Rows \ Older} : RevertAsks(S))
  \/ (\E S \in Newest : Reads("revert", S, "commit")) \/ RevertCommits
  \/ \E j \in Jobs : GivesUp(j)

-----------------------------------------------------------------------------
(* THE OTHERS.                                                                *)

(* A client takes a snapshot, and its sequence number with it.                *)
ClientReads ==
  /\ mirror.there /\ held.inc = 0
  /\ held' = [inc |-> mirror.inc, seq |-> mirror.cur, rows |-> [r \in Rows |-> mirror.rows[r].ver]]
  /\ UNCHANGED <<agent, wire, mirror, jobs, spent, gone, doubt>>

(* A read marker, a title, a status: an event that is about no row.           *)
Notes ==
  /\ mirror.there
  /\ Spend
  /\ mirror' = Noted(mirror)
  /\ UNCHANGED <<agent, wire, jobs, held, gone, doubt>>

(* evict and remove_session. A refresh of a copy that is not there is over     *)
(* within its 30 s; a copy made meanwhile is not evicted so soon.             *)
Forgets ==
  /\ mirror.there
  /\ Spend
  /\ At("refresh", "rest") \/ jobs["refresh"].inc # 0
  /\ mirror' = [Fresh(mirror.inc) EXCEPT !.there = FALSE]
  /\ doubt' = doubt \union {r \in Rows : mirror.rows[r].ver # 0}
  /\ UNCHANGED <<agent, wire, jobs, held, gone>>

Next == Agent \/ Pump \/ Loses \/ JobSteps \/ ClientReads \/ Notes \/ Forgets

Spec == Init /\ [][Next]_vars

-----------------------------------------------------------------------------
(* PROPERTIES *)

(* Of the copy m, to a client that has h: whether r is among the rows after    *)
(* its number (get_timeline_delta), and the events about r after it            *)
(* (get_events_after); it has ver once it applied those in their order.        *)
After(m, h, r) == m.rows[r].ver # 0 /\ m.rows[r].seq > h.seq
Since(m, h, r) == {e \in m.log : e.row = r /\ e.seq > h.seq}
ToldLast(m, h, r, ver) ==
  IF Since(m, h, r) = {} THEN h.rows[r] = ver
  ELSE \E e \in Since(m, h, r) : e.ver = ver /\ \A f \in Since(m, h, r) : f.seq <= e.seq

(* The events bring the client to every row of the copy as it stands, and the  *)
(* rows after its number to every one that is there; or the row has no number, *)
(* as another reader paged it in, and the client was last told it is not there. *)
Brings(m, h) ==
  \A r \in Rows : LET row == m.rows[r] IN
    \/ ToldLast(m, h, r, row.ver) /\ (row.ver # 0 => After(m, h, r) \/ h.rows[r] = row.ver)
    \/ row.seq = 0 /\ ToldLast(m, h, r, 0)

Told(m, h) == m.there /\ h.inc = m.inc /\ h.seq >= m.floor => Brings(m, h)

(* A client with a snapshot of the copy that is there, and not told to take a  *)
(* new one, ends with the rows of the copy when it replays the events after    *)
(* its number, removals included; when it asks for the rows after its number,  *)
(* with all that are there (memory_mirror.rs get_events_after,                 *)
(* get_timeline_delta). It does not say three things. A row another reader     *)
(* paged in is told to nobody. A row that is gone is not told by the rows      *)
(* after a number: MCRemovalUntold.cfg. And a client of a copy that was        *)
(* forgotten and made anew is promised nothing: MCForgottenCopy.cfg.           *)
ClientOfCopyIsTold == Told(mirror, held)

(* A row whose removal was taken does not come back with a read answered       *)
(* before it; and once nothing is on its way any more, a row the agent has     *)
(* finished stands in the copy as the agent has it, whatever reads crossed     *)
(* with its events, a revert's excepted. Four things leave a row in doubt      *)
(* until it is read or told as a whole again: an event of it lost with the     *)
(* stream, an evicted copy, a page older than a refresh, and a revert's read   *)
(* put in after the agent moved on from the row, which nothing fences          *)
(* (MCRevertCrosses.cfg). manager.rs pump, memory_mirror.rs.                   *)
Settled == wire = <<>> /\ At("tail", "rest")
RowsAreTrue ==
  \A r \in Rows \ doubt : mirror.rows[r].ver # 0 =>
    /\ r \notin gone
    /\ Settled /\ agent[r].at \in {"ended", "removed"} => mirror.rows[r].ver = agent[r].ver

-----------------------------------------------------------------------------
(* What one may expect, and the code does not keep.                           *)

(* What a revert reads back does not undo what the copy has right.             *)
RevertUndoesNothing ==
  [][RevertCommits => \A r \in Rows \ doubt :
       wire = <<>> /\ mirror.rows[r].ver = agent[r].ver => mirror'.rows[r].ver = mirror.rows[r].ver]_vars

(* The rows after its number are all a client of the copy needs.               *)
RowsAfterSuffice ==
  mirror.there /\ held.inc = mirror.inc /\ held.seq >= mirror.floor =>
    \A r \in Rows : \/ After(mirror, held, r) \/ held.rows[r] = mirror.rows[r].ver
                    \/ mirror.rows[r].ver # 0 /\ mirror.rows[r].seq = 0

(* A client is brought up to date or told to start over, whatever copy its     *)
(* snapshot is of.                                                             *)
AnyClientIsTold == mirror.there /\ held.inc # 0 /\ held.seq >= mirror.floor => Brings(mirror, held)
=============================================================================
