----------------------------- MODULE TaskNotices -----------------------------
(***************************************************************************)
(* Telling a parent session how its child stands (tasks/notices.rs, and    *)
(* told / told_task of tasks/service.rs): the call that delegates records  *)
(* where to tell, a pass looks for untold states and sends a line into the *)
(* parent's session once its turn is over, and what a tasks.wait or a      *)
(* tasks.cancel answers is not sent again. It is recorded as told before   *)
(* the answer goes out.                                                    *)
(*                                                                         *)
(* One child, one parent session; panes as targets are not modelled. The   *)
(* child is moved by others (SessionDelegation), one version a move.       *)
(***************************************************************************)
EXTENDS TaskStates

CONSTANTS
  ChildStates,  \* states the child takes in this instance
  MaxSeq,       \* bound: versions of the child
  MaxCalls,     \* bound: tasks.wait and tasks.cancel calls
  MaxFaults,    \* bound: reads, writes, sends and connections that fail
  MaxCrowds,    \* bound: status events the follower never gets
  MaxRestarts   \* bound: restarts of the gateway

ASSUME NoticesAssumption ==
  /\ ChildStates \subseteq States /\ "working" \in ChildStates
  /\ MaxSeq \in Nat \ {0}
  /\ {MaxCalls, MaxFaults, MaxCrowds, MaxRestarts} \subseteq Nat

VARIABLES
  child,    \* the child's row: state, version, how long ago it was written
  noticed,  \* it has a task_notices row
  told,     \* told_seq of that row, 0 for NULL
  parent,   \* whether a task of the parent's own ended, if its session works on one
  sess,     \* the parent's session, and Live::busy: what the follower saw of it
  jobs,     \* what the delegating call, the pass, the parent's call and another
            \* session's wait are in
  answer,   \* what the parent's call is going to return
  spent,    \* how often each bounded thing happened
  said,     \* ghost: the versions the gateway said to the parent
  dropped,  \* ghost: the versions it gave up saying
  unheard   \* ghost: the versions recorded as told for an answer the parent never got

vars == <<child, noticed, told, parent, sess, jobs, answer, spent, said, dropped, unheard>>

Version == [state: ChildStates, seq: 1..MaxSeq, age: {"recent", "hour", "day"}]
FirstVersion == [state |-> "working", seq |-> 1, age |-> "recent"]
Resting == [pc |-> "rest", read |-> FirstVersion]

TypeOK ==
  /\ child \in Version
  /\ noticed \in BOOLEAN
  /\ told \in 0..MaxSeq
  /\ parent \in {"open", "ended"}
  /\ sess \in [status: {"idle", "busy", "gone"}, shown: BOOLEAN, unseen: BOOLEAN]
  /\ jobs \in [{"delegate", "pass", "call", "other"} ->
                 [pc: {"rest", "notify", "judge", "send", "check", "mark", "reply"}, read: Version]]
  /\ answer \in Version
  /\ \A r \in said : r.seq <= child.seq
  /\ dropped \union unheard \subseteq 1..child.seq

(* The parent's turn runs; its tasks.delegate has just made the child.       *)
Init ==
  /\ child = FirstVersion
  /\ noticed = FALSE /\ told = 0
  /\ parent = "open"
  /\ \E seen \in BOOLEAN : sess = [status |-> "busy", shown |-> seen, unseen |-> ~seen]
  /\ jobs = [delegate |-> [Resting EXCEPT !.pc = "notify"], pass |-> Resting, call |-> Resting, other |-> Resting]
  /\ answer = FirstVersion
  /\ spent = [calls |-> 0, faults |-> 0, crowds |-> 0, restarts |-> 0]
  /\ said = {} /\ dropped = {} /\ unheard = {}

At(a, pc) == jobs[a].pc = pc
Go(a, pc, read) == jobs' = [jobs EXCEPT ![a] = [pc |-> pc, read |-> read]]
Rest(a) == Go(a, "rest", FirstVersion)
Spend(what, max) == spent[what] < max /\ spent' = [spent EXCEPT ![what] = @ + 1]

(* What a call reads of the child: how long ago it was written is the pass's   *)
(* concern alone.                                                             *)
Standing(r) == [r EXCEPT !.age = "recent"]

Says(r) == said' = said \union {[state |-> r.state, seq |-> r.seq]}
Said(r) == [state |-> r.state, seq |-> r.seq] \in said

(* A user message: the session works, or takes it in its running turn.       *)
Prompted == [sess EXCEPT !.status = "busy", !.unseen = @ \/ sess.status = "idle"]

-----------------------------------------------------------------------------
(* The parent's tasks.delegate, once the child is made.                      *)
Notify ==
  /\ At("delegate", "notify")
  /\ noticed' = TRUE
  /\ Rest("delegate")
  /\ UNCHANGED <<child, told, parent, sess, spent, said, dropped, answer, unheard>>

(* Mutant of Pending: a child once told is never looked at again.            *)
PendingOnce == noticed /\ child.state \in ReportedStates /\ child.age # "day" /\ told = 0

(* pending_notices: a reported state of the last day whose version is untold. *)
Pending == noticed /\ child.state \in ReportedStates /\ child.age # "day" /\ told # child.seq

PassLists ==
  /\ At("pass", "rest")
  /\ Pending
  /\ Go("pass", "judge", child)
  /\ UNCHANGED <<child, noticed, told, parent, sess, spent, said, dropped, answer, unheard>>

(* parent_ended and ready. What the follower saw is asked first: a session it *)
(* takes for running is not read.                                             *)
Never == parent = "ended" \/ (~sess.shown /\ sess.status = "gone")
Ready == parent # "ended" /\ ~sess.shown /\ sess.status = "idle"

PassJudges ==
  LET read == jobs["pass"].read IN
  /\ At("pass", "judge")
  /\ \/ Never /\ Go("pass", "mark", read) /\ dropped' = dropped \union {read.seq} /\ UNCHANGED spent
     \/ Ready /\ Go("pass", "send", read) /\ UNCHANGED <<spent, dropped>>
     \/ ~Never /\ ~Ready /\ Rest("pass") /\ UNCHANGED <<spent, dropped>>
     \/ parent # "ended" /\ ~sess.shown /\ Spend("faults", MaxFaults) /\ Rest("pass") /\ UNCHANGED dropped
  /\ UNCHANGED <<child, noticed, told, parent, sess, said, answer, unheard>>

(* Mutant of PassSends: that the line went out is not recorded.               *)
PassSendsUnrecorded ==
  LET read == jobs["pass"].read IN
  /\ At("pass", "send")
  /\ sess.status # "gone"
  /\ Says(read)
  /\ sess' = Prompted
  /\ Rest("pass")
  /\ UNCHANGED <<child, noticed, told, parent, spent, dropped, answer, unheard>>

(* The line goes into the session, whatever became of it since it was judged. *)
PassSends ==
  LET read == jobs["pass"].read IN
  /\ At("pass", "send")
  /\ sess.status # "gone"
  /\ Says(read)
  /\ sess' = Prompted
  /\ Go("pass", "mark", read)
  /\ UNCHANGED <<child, noticed, told, parent, spent, dropped, answer, unheard>>

(* The send fails, or only its answer is lost: tried again, for an hour.      *)
PassFailsToSend ==
  LET read == jobs["pass"].read IN
  /\ At("pass", "send")
  /\ IF sess.status = "gone" THEN UNCHANGED spent ELSE Spend("faults", MaxFaults)
  /\ \/ UNCHANGED <<said, sess>>
     \/ sess.status # "gone" /\ Says(read) /\ sess' = Prompted
  /\ IF read.age = "recent" THEN Rest("pass") /\ UNCHANGED dropped
     ELSE Go("pass", "mark", read) /\ dropped' = dropped \union {read.seq}
  /\ UNCHANGED <<child, noticed, told, parent, answer, unheard>>

(* The job of a goes on to what follows its record: the parent's call to its  *)
(* answer, with what it recorded, the two others to their end.                *)
Recorded(a, read) == IF a = "call" THEN Go("call", "reply", read) ELSE Rest(a)

(* Mutant of Mark: the version the child has by now is recorded.              *)
MarkNow(a) ==
  /\ At(a, "mark")
  /\ told' = IF noticed THEN child.seq ELSE told
  /\ Recorded(a, jobs[a].read)
  /\ unheard' = IF a = "other" THEN unheard \union {jobs[a].read.seq} ELSE unheard
  /\ UNCHANGED <<child, noticed, parent, sess, spent, said, dropped, answer>>

(* told_task: the version that was read, which may be an old one by now. What  *)
(* another session's wait answered is recorded all the same.                  *)
Mark(a) ==
  /\ At(a, "mark")
  /\ told' = IF noticed THEN jobs[a].read.seq ELSE told
  /\ Recorded(a, jobs[a].read)
  /\ unheard' = IF a = "other" THEN unheard \union {jobs[a].read.seq} ELSE unheard
  /\ UNCHANGED <<child, noticed, parent, sess, spent, said, dropped, answer>>

(* The write fails: logged, and everything goes on.                           *)
MarkFails(a) ==
  /\ At(a, "mark")
  /\ Spend("faults", MaxFaults)
  /\ Recorded(a, FirstVersion)
  /\ UNCHANGED <<child, noticed, told, parent, sess, said, dropped, answer, unheard>>

-----------------------------------------------------------------------------
(* The calls of agents: the parent's own, from its running turn; and a wait   *)
(* of another session under the same token, which owns the task as well.      *)

CanCall == sess.status = "busy" /\ At("delegate", "rest") /\ At("call", "rest")

(* What a wait is going to return; what a cancel is, below.                   *)
WaitAnswers ==
  /\ CanCall
  /\ child.state \in ReportedStates
  /\ Spend("calls", MaxCalls)
  /\ answer' = Standing(child)
  /\ Go("call", "check", Standing(child))
  /\ UNCHANGED <<child, noticed, told, parent, sess, said, dropped, unheard>>

OtherWaits ==
  /\ At("delegate", "rest") /\ At("other", "rest")
  /\ child.state \in ReportedStates
  /\ Spend("calls", MaxCalls)
  /\ Go("other", "check", Standing(child))
  /\ UNCHANGED <<child, noticed, told, parent, sess, said, dropped, answer, unheard>>

(* Mutant of CancelAnswers: a cancel is answered that moved nothing.           *)
CancelAnswersUnmoved ==
  /\ CanCall
  /\ "cancelled" \in ChildStates /\ ~IsTerminal(child.state)
  /\ child.seq < MaxSeq
  /\ Spend("calls", MaxCalls)
  /\ answer' = [state |-> "cancelled", seq |-> child.seq + 1, age |-> "recent"]
  /\ Go("call", "reply", FirstVersion)
  /\ UNCHANGED <<child, noticed, told, parent, sess, said, dropped, unheard>>

(* A cancel moves the child itself, and answers with what it made of it. It is *)
(* recorded where the caller was found to be the session that would be told.   *)
CancelAnswers ==
  /\ CanCall
  /\ "cancelled" \in ChildStates /\ ~IsTerminal(child.state)
  /\ child.seq < MaxSeq
  /\ Spend("calls", MaxCalls)
  /\ child' = [state |-> "cancelled", seq |-> child.seq + 1, age |-> "recent"]
  /\ answer' = child'
  /\ Go("call", "check", child') \/ Go("call", "reply", FirstVersion)
  /\ UNCHANGED <<noticed, told, parent, sess, said, dropped, unheard>>

(* told: read again, and compared by its state; or the read fails.            *)
CallChecks(a) ==
  LET stands == child.state = jobs[a].read.state IN
  /\ a # "pass" /\ At(a, "check")
  /\ \/ stands /\ Go(a, "mark", Standing(child)) /\ UNCHANGED spent
     \/ ~stands /\ Recorded(a, FirstVersion) /\ UNCHANGED spent
     \/ Spend("faults", MaxFaults) /\ Recorded(a, FirstVersion)
  /\ UNCHANGED <<child, noticed, told, parent, sess, said, dropped, answer, unheard>>

(* Only now does the parent get it.                                           *)
CallReplies ==
  /\ At("call", "reply")
  /\ Says(answer)
  /\ Rest("call") /\ answer' = FirstVersion
  /\ UNCHANGED <<child, noticed, told, parent, sess, spent, dropped, unheard>>

(* A call that ends without its answer, as its connection breaks or the        *)
(* gateway stops: what it recorded stays recorded.                             *)
Lost == IF At("call", "reply") THEN {jobs["call"].read.seq} ELSE {}

CallBreaks ==
  /\ ~At("call", "rest")
  /\ Spend("faults", MaxFaults)
  /\ Rest("call") /\ answer' = FirstVersion
  /\ unheard' = unheard \union Lost
  /\ UNCHANGED <<child, noticed, told, parent, sess, said, dropped>>

-----------------------------------------------------------------------------
(* Everyone else: the child, the parent, its user, its agent, the clock.      *)

Aside == UNCHANGED <<noticed, told, jobs, said, dropped, answer, unheard>>

ChildMoves(s) ==
  /\ CanMoveTo(child.state, s) \/ (child.state \in {"done", "failed"} /\ s = "working")
  /\ child.seq < MaxSeq
  /\ child' = [state |-> s, seq |-> child.seq + 1, age |-> "recent"]
  /\ Aside /\ UNCHANGED <<parent, sess, spent>>

ChildAges ==
  /\ child.age # "day"
  /\ child' = [child EXCEPT !.age = IF @ = "recent" THEN "hour" ELSE "day"]
  /\ Aside /\ UNCHANGED <<parent, sess, spent>>

ParentEnds ==
  /\ parent = "open" /\ parent' = "ended"
  /\ Aside /\ UNCHANGED <<child, sess, spent>>

ParentReopens ==
  /\ parent = "ended" /\ sess.status = "busy" /\ parent' = "open"
  /\ Aside /\ UNCHANGED <<child, sess, spent>>

UserTurn ==
  /\ sess.status = "idle" /\ sess' = Prompted
  /\ Aside /\ UNCHANGED <<child, parent, spent>>

TurnEnds ==
  /\ sess.status = "busy" /\ At("delegate", "rest") /\ At("call", "rest")
  /\ sess' = [sess EXCEPT !.status = "idle", !.unseen = TRUE]
  /\ Aside /\ UNCHANGED <<child, parent, spent>>

Vanish ==
  /\ sess.status = "idle" /\ sess' = [sess EXCEPT !.status = "gone"]
  /\ Aside /\ UNCHANGED <<child, parent, spent>>

(* The follower takes the session's status event; or falls behind and never   *)
(* gets it.                                                                   *)
FollowerSees ==
  /\ sess.unseen
  /\ sess' = [sess EXCEPT !.shown = (sess.status = "busy"), !.unseen = FALSE]
  /\ Aside /\ UNCHANGED <<child, parent, spent>>

Crowd ==
  /\ sess.unseen
  /\ Spend("crowds", MaxCrowds)
  /\ sess' = [sess EXCEPT !.unseen = FALSE]
  /\ Aside /\ UNCHANGED <<child, parent>>

Restart ==
  /\ Spend("restarts", MaxRestarts)
  /\ jobs' = [a \in DOMAIN jobs |-> Resting]
  /\ sess' = [sess EXCEPT !.shown = FALSE, !.unseen = FALSE]
  /\ answer' = FirstVersion
  /\ unheard' = unheard \union Lost
  /\ UNCHANGED <<child, noticed, told, parent, said, dropped>>

-----------------------------------------------------------------------------
Pass == PassLists \/ PassJudges \/ PassSends \/ PassFailsToSend \/ Mark("pass") \/ MarkFails("pass")
Call(a) == CallChecks(a) \/ Mark(a) \/ MarkFails(a)

Next ==
  \/ Notify
  \/ Pass
  \/ WaitAnswers \/ CancelAnswers \/ OtherWaits
  \/ Call("call") \/ Call("other") \/ CallReplies \/ CallBreaks
  \/ \E s \in ChildStates : ChildMoves(s)
  \/ ChildAges
  \/ ParentEnds \/ ParentReopens \/ UserTurn \/ TurnEnds \/ Vanish
  \/ FollowerSees \/ Crowd
  \/ Restart

Spec == Init /\ [][Next]_vars

(* A pass runs every 30 s whatever happens, calls come to their end, and the  *)
(* follower takes its events. Nothing is asked of the agent or its user.      *)
Fairness ==
  /\ WF_vars(Notify)
  /\ WF_vars(Pass)
  /\ WF_vars(Call("call") \/ CallReplies)
  /\ WF_vars(Call("other"))
  /\ WF_vars(FollowerSees)

FairSpec == Spec /\ Fairness

-----------------------------------------------------------------------------
(* PROPERTIES *)

(* A child whose version counts as told stands in a state the parent was told *)
(* of, by a line or by an answer, or is about to be by the call under way: a   *)
(* move made while either was on its way is never swallowed with it            *)
(* (service.rs told, told_task). Excepted are a version the gateway gave up    *)
(* saying, one recorded for an answer that never got out, and one recorded for *)
(* what another session's wait answered; without the last two:                *)
(* MCToldUnsaid.cfg.                                                           *)
Heard ==
  \/ \E r \in said : r.state = child.state
  \/ /\ At("call", "reply") /\ jobs["call"].read.seq = child.seq
     /\ answer.state = child.state
ToldStateWasSaid ==
  noticed /\ told = child.seq => child.seq \in dropped \union unheard \/ Heard

(* A parent at rest is told within a day: it ended its turn to be told, and    *)
(* nobody else wakes it (notices.rs deliver).                                 *)
AtRest == sess.status = "idle" /\ parent # "ended"
Untold == noticed /\ child.state \in ReportedStates /\ told # child.seq
RestingParentIsTold == []<>(~Untold \/ child.age = "day" \/ ~AtRest \/ sess.shown)

(* The same line goes out twice only after a fault, a restart, or a call of    *)
(* the parent at the same time (notices.rs deliver, told_seq).                 *)
SaysAgain == \E r \in said : At("pass", "send") /\ r.seq = jobs["pass"].read.seq
Untroubled == spent.faults = 0 /\ spent.restarts = 0 /\ spent.calls = 0
RepeatsOnlyAfterTrouble == Untroubled => ~SaysAgain

-----------------------------------------------------------------------------
(* What the sources say, and the code does not keep.                           *)

(* notices.rs: a state a wait returned is not sent again, and a restart does   *)
(* not tell a state twice.                                                     *)
NotSentAgain ==
  [][At("pass", "send") /\ jobs'["pass"].pc = "mark" =>
       jobs["pass"].read.seq \notin {r.seq : r \in said}]_vars

(* service.rs told: a state told "has reached its parent: delivered, or answered *)
(* by a wait".                                                                 *)
ToldHasReached == noticed /\ told = child.seq => child.seq \in dropped \/ Heard

(* service.rs told: a newer state than the one answered is still to be told.   *)
ToldVersionWasSaid ==
  noticed /\ told = child.seq /\ At("call", "rest") => child.seq \in dropped \union unheard \/ Said(child)

(* notices.rs: when the child reached a reported state and the session is      *)
(* idle, its turn over, the line goes into it.                                 *)
IdleParentIsTold == []<>(~Untold \/ child.age = "day" \/ ~AtRest)
=============================================================================
