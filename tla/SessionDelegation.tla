-------------------------- MODULE SessionDelegation --------------------------
(***************************************************************************)
(* One delegation handed to an agent session, and everyone who moves it:   *)
(* the call that dispatches it, the follower of the agents' events, the    *)
(* driver's periodic pass, a tasks.wait, the agent's own tasks.complete,   *)
(* the device's cancel and confirm (tasks/service.rs, tasks/driver.rs).    *)
(* Each of them reads the task, reads the session, judges, and writes, and *)
(* awaits between these: they are the steps that interleave. The ledger's  *)
(* own rules are TaskLedger's; here a write is one transition of one row.  *)
(*                                                                         *)
(* The agent is outside the repository: it runs turns, reports, asks.      *)
(*                                                                         *)
(* Time: turn k starts at 2k-1 and ends at 2k; the task was created at 0.  *)
(***************************************************************************)
EXTENDS TaskStates

CONSTANTS
  MaxTurns,     \* bound: turns of the session
  MaxAsks,      \* bound: permission requests and forms
  MaxCalls,     \* bound: tasks.complete calls
  MaxWaits,     \* bound: tasks.wait calls
  MaxConfirms,  \* bound: confirms by the device
  MaxCancels,   \* bound: cancels by the device
  MaxRestarts,  \* bound: restarts of the gateway
  MaxFaults,    \* bound: failed dispatches and turns, foreign interrupts, deleted sessions
  MaxCrowds,    \* bound: events pushed out of the channel by those of other sessions
  InboxCap      \* events a slow subscriber of the broadcast channel still gets

ASSUME DelegationAssumption ==
  /\ {MaxTurns, MaxAsks, MaxCalls, MaxWaits, MaxConfirms, MaxCancels, MaxRestarts, MaxFaults,
      MaxCrowds} \subseteq Nat
  /\ InboxCap \in Nat \ {0}

VARIABLES
  row,      \* the task's row, with what blocked_at reads of its last event
  sess,     \* the agent session, as the agent serves it
  inbox,    \* events on their way to the follower
  heard,    \* events on their way to the wait
  idled,    \* Live::idled: the session was seen idle since the block
  jobs,     \* what each actor is in the middle of
  stale,    \* actors whose read of the row a write has overtaken (expected_seq)
  old,      \* the row was last written more than NEVER_DISPATCHED_AFTER ago
  spent,    \* how often each bounded thing happened
  word,     \* ghost: the agent or the user said that the task is done
  blockedIn \* ghost: the turn that called complete(blocked) with all observers at rest, or 0

vars == <<row, sess, inbox, heard, idled, jobs, stale, old, spent, word, blockedIn>>

Actors == {"dispatch", "follower", "driver", "wait", "complete", "confirm", "cancel"}

-----------------------------------------------------------------------------
(* What moved the task: an ordinary source, or one of the two blocks.        *)
Sources == {"plain", "complete_blocked", "marker_blocked"}

(* A change: the state, the source, and the reason a blocked marker gave,     *)
(* named by its turn (0: no marker's reason).                                 *)
Change(to, src, reason) == [to |-> to, src |-> src, reason |-> reason]
Plain(to) == Change(to, "plain", 0)

Event(kind) == [kind |-> kind, at |-> 0]
UserItem(at) == [kind |-> "user", at |-> at]
EventKinds == {"user", "busy", "idle", "failed", "interrupted", "asked", "resolved", "lagged"}

(* What a job keeps of the row it read, and where it is.                      *)
NoSnap == [state |-> "queued", reason |-> 0, updated |-> 0, reopened |-> 0, bound |-> FALSE,
           old |-> FALSE]

Job(pc) == [pc |-> pc, snap |-> NoSnap, at |-> 0, ch |-> Plain("queued"), path |-> <<>>,
            busy |-> FALSE, todo |-> <<>>]
Resting == Job("rest")
Pcs == {"rest", "create", "bind", "send", "stop", "work", "look", "listen", "judge", "ask",
        "reopen", "hold", "walk", "step", "interrupt"}

Read == [state |-> row.state, reason |-> row.reason, updated |-> row.updated,
         reopened |-> row.reopened, bound |-> row.bound, old |-> old]

(* A judgement of the session needs no more than this of it.                  *)
Judged(state, reason, reopened) ==
  [NoSnap EXCEPT !.state = state, !.reason = reason, !.reopened = reopened]
ReadToJudge == Judged(row.state, row.reason, row.reopened)

Now == IF sess.status = "busy" THEN 2 * sess.turn - 1 ELSE 2 * sess.turn
Running == sess.status = "busy"
SessionThere == sess.status \notin {"none", "gone"}

At(a, pc) == jobs[a].pc = pc
Set(a, job) == jobs' = [jobs EXCEPT ![a] = job]
Spend(what, max) == spent[what] < max /\ spent' = [spent EXCEPT ![what] = @ + 1]
Counters == {"asks", "calls", "waits", "confirms", "cancels", "restarts", "faults",
             "crowds"}

Statuses == {"none", "idle", "busy", "failed", "interrupted", "gone"}
Times == 0..(2 * MaxTurns)
Turns == 0..MaxTurns
Changes == [to: States, src: Sources, reason: Turns]

TypeOK ==
  /\ row \in [state: States, bound: BOOLEAN, last: Sources, reason: Turns, updated: Times,
              reopened: Times, thisRun: BOOLEAN]
  /\ sess \in [status: Statuses, turn: Turns, idleAt: Times, said: Turns,
               mark: {"none", "done", "blocked"}, asking: BOOLEAN]
  /\ \A q \in {inbox, heard} :
       /\ Len(q) <= InboxCap + 1
       /\ \A i \in DOMAIN q : q[i].kind \in EventKinds /\ (q[i].kind = "lagged" => i = 1)
  /\ idled \in BOOLEAN /\ old \in BOOLEAN /\ word \in BOOLEAN
  /\ stale \subseteq Actors
  /\ blockedIn \in Turns
  /\ \A a \in Actors : /\ jobs[a].pc \in Pcs
                       /\ jobs[a].ch \in Changes
                       /\ jobs[a].pc = "step" => jobs[a].path # <<>>

Init ==
  /\ row = [state |-> "queued", bound |-> FALSE, last |-> "plain", reason |-> 0, updated |-> 0,
            reopened |-> 0, thisRun |-> TRUE]
  /\ sess = [status |-> "none", turn |-> 0, idleAt |-> 0, said |-> 0, mark |-> "none",
             asking |-> FALSE]
  /\ inbox = <<>> /\ heard = <<>>
  /\ idled = FALSE /\ old = FALSE /\ stale = {}
  /\ jobs = [a \in Actors |-> IF a = "dispatch" THEN Job("create") ELSE Resting]
  /\ spent = [c \in Counters |-> 0]
  /\ word = FALSE /\ blockedIn = 0

-----------------------------------------------------------------------------
(* Mutant of Queue: nothing is ever dropped.                                  *)
QueueUnbounded(s, es) == s \o es

(* Events. A subscriber that falls behind loses the oldest ones and is told   *)
(* once that it did.                                                          *)
Queue(s, es) ==
  LET told == s # <<>> /\ Head(s).kind = "lagged"
      all == (IF told THEN Tail(s) ELSE s) \o es
      over == Len(all) - InboxCap IN
  IF Len(all) > InboxCap THEN <<Event("lagged")>> \o SubSeq(all, over + 1, Len(all))
  ELSE IF told THEN <<Event("lagged")>> \o all ELSE all

Listening == jobs["wait"].pc # "rest"

Emit(es) ==
  /\ inbox' = Queue(inbox, es)
  /\ heard' = IF Listening THEN Queue(heard, es) ELSE <<>>

NoEmit == /\ inbox' = inbox
          /\ heard' = IF jobs'["wait"].pc = "rest" THEN <<>> ELSE heard
NoAgent == sess' = sess /\ NoEmit

(* A turn starts on a user message: the goal, or one typed later.             *)
StartTurn ==
  /\ sess.turn < MaxTurns
  /\ sess' = [sess EXCEPT !.status = "busy", !.turn = @ + 1]
  /\ Emit(<<UserItem(2 * sess.turn + 1), Event("busy")>>)

(* An interrupt stops a running turn; a session at rest is left as it is.     *)
Interrupt ==
  IF Running THEN /\ sess' = [sess EXCEPT !.status = "interrupted", !.asking = FALSE]
                  /\ Emit(<<Event("interrupted")>>)
             ELSE NoAgent

-----------------------------------------------------------------------------
(* Writing the row.                                                           *)

(* blocked_at: the last event says the agent is blocked.                      *)
Blocked == row.state = "waiting" /\ row.last # "plain"

Written(to, ch, passing) ==
  [row EXCEPT !.state = to, !.last = ch.src, !.updated = Now, !.thisRun = TRUE,
              !.reason = IF to = "waiting" /\ ~passing THEN ch.reason ELSE 0]

(* Every write overtakes what the others read; the end of a task forgets that *)
(* its session was seen idle.                                                 *)
Overtakes(seenIdle) ==
  /\ idled' = seenIdle
  /\ stale' = {a \in Actors : jobs'[a].pc \in {"ask", "reopen"}}
  /\ old' = FALSE

Write(to, ch, passing) ==
  /\ row' = Written(to, ch, passing)
  /\ Overtakes(idled /\ ~IsTerminal(to))

Unwritten == /\ stale' = {a \in stale : jobs'[a].pc \in {"ask", "reopen"}}
             /\ UNCHANGED <<row, old>>
NoWrite == Unwritten /\ UNCHANGED idled
NoGhost == UNCHANGED <<word, blockedIn>>

(* Mutant of FinishedSince: any idle session has finished.                    *)
FinishedSinceEver(since) == sess.status = "idle"

(* finished_since: the session went idle after the prompt it was given.       *)
FinishedSince(since) == sess.status = "idle" /\ sess.idleAt > since

(* Mutant of TurnEnd: a turn that ends without a marker is taken for done.    *)
TurnEndIsDone(snap) ==
  IF sess.said # 0 /\ 2 * sess.said >= snap.reopened /\ sess.mark = "blocked"
  THEN Change("waiting", "marker_blocked", sess.said) ELSE Plain("done")

(* turn_end: what the last message says of the turn that ended; for a task    *)
(* that was reopened, a message older than its new turn is not read.          *)
TurnEnd(snap) ==
  LET mark == IF sess.said # 0 /\ 2 * sess.said >= snap.reopened THEN sess.mark ELSE "none" IN
  CASE mark = "done"    -> Plain("done")
    [] mark = "blocked" -> Change("waiting", "marker_blocked", sess.said)
    [] mark = "none"    -> Plain("idle_unconfirmed")

(* moves: a change of state, or a blocked task blocked for a new reason.      *)
Moves(snap, ch) ==
  \/ ch.to # snap.state
  \/ ch.to = "waiting" /\ ch.reason \notin {0, snap.reason} /\ Blocked

(* holds: a block outlasts idles, and the busy signs of the turn it was       *)
(* reported in.                                                               *)
Holds(to) ==
  /\ to \in {"working", "idle_unconfirmed"}
  /\ Blocked
  /\ to = "working" => row.last = "complete_blocked" /\ row.thisRun /\ ~idled

-----------------------------------------------------------------------------
(* settle and move_to, with an await before every step: whether the task is   *)
(* held, then the walk from where it stands, then each transition of it.      *)
ToHold(job, ch) == [job EXCEPT !.pc = "hold", !.ch = ch, !.snap = NoSnap]
ToWalk(ch) == [Resting EXCEPT !.pc = "walk", !.ch = ch]

(* A wait goes on listening while the task it settled still runs; the others  *)
(* are through.                                                               *)
Settled(a, r) ==
  IF a = "wait" /\ ~IsTerminal(r.state) /\ ~Paused(r.state)
  THEN [Job("listen") EXCEPT !.snap = Judged(r.state, r.reason, r.reopened),
                             !.busy = jobs[a].busy, !.todo = jobs[a].todo]
  ELSE Resting

Planned(job) ==
  [job EXCEPT !.pc = "step", !.path = Append(StepsBetween[row.state][job.ch.to], job.ch.to)]

(* Whether it is held, and the read that plans the walk. A write between the   *)
(* two could as well fall before the first or after the second.                *)
Hold(a) ==
  /\ At(a, "hold")
  /\ Set(a, IF Holds(jobs[a].ch.to) THEN Settled(a, row) ELSE Planned(jobs[a]))
  /\ NoWrite /\ NoAgent /\ NoGhost /\ UNCHANGED spent

(* move_to alone: nobody asks whether the task is held.                        *)
Walk(a) ==
  /\ At(a, "walk")
  /\ Set(a, Planned(jobs[a]))
  /\ NoWrite /\ NoAgent /\ NoGhost /\ UNCHANGED spent

(* A refusal is an answer: somebody moved the task meanwhile.                 *)
Refused(a) ==
  /\ At(a, "step")
  /\ ~CanMoveTo(row.state, Head(jobs[a].path))
  /\ Set(a, Resting)
  /\ NoWrite /\ NoAgent /\ NoGhost /\ UNCHANGED spent

(* Nobody is in the middle of a judgement, and no event is on its way.        *)
CaughtUp ==
  /\ inbox = <<>>
  /\ \A a \in {"dispatch", "follower", "driver", "wait"} : jobs[a].pc = "rest"

Step(a) ==
  LET to == Head(jobs[a].path)
      rest == Tail(jobs[a].path)
      r == Written(to, jobs[a].ch, rest # <<>>) IN
  /\ At(a, "step")
  /\ CanMoveTo(row.state, to)
  /\ Set(a, IF rest # <<>> THEN [jobs[a] EXCEPT !.path = rest]
            ELSE Settled(a, r))
  /\ Write(to, jobs[a].ch, rest # <<>>)
  /\ blockedIn' = IF a = "complete" /\ ~CaughtUp THEN 0 ELSE blockedIn
  /\ NoAgent /\ UNCHANGED <<spent, word>>

(* Mutant of EndedTurn: only a turn that said done is settled.                *)
EndedTurnIfDone(snap) ==
  IF TurnEnd(snap).to = "done" THEN ToHold(Resting, TurnEnd(snap)) ELSE Resting

(* What an ended turn makes of the task, if that moves it.                    *)
EndedTurn(snap) ==
  IF Moves(snap, TurnEnd(snap)) THEN ToHold(Resting, TurnEnd(snap)) ELSE Resting

(* finished_change, of the dispatching call and of the follower.              *)
Judge(a) ==
  LET snap == jobs[a].snap IN
  /\ At(a, "judge")
  /\ Set(a, IF FinishedSince(snap.reopened) THEN EndedTurn(snap) ELSE Resting)
  /\ NoWrite /\ NoAgent /\ NoGhost /\ UNCHANGED spent

(* A new user turn takes up an ended task again.                              *)
Reopening(a, unread) ==
  /\ At(a, "reopen")
  /\ Set(a, Resting)
  /\ IF SessionThere /\ unread /\ row.state \in {"done", "failed"}
     THEN /\ row' = [Written("working", Plain("working"), FALSE) EXCEPT !.reopened = jobs[a].at]
          /\ Overtakes(FALSE)
     ELSE NoWrite
  /\ NoAgent /\ NoGhost /\ UNCHANGED spent

(* Mutant of Reopen: the version that was read is not compared.               *)
ReopenOvertaken(a) == Reopening(a, TRUE)

(* reopen: only the version that was read, while the session is there.        *)
Reopen(a) == Reopening(a, a \notin stale)

-----------------------------------------------------------------------------
(* Dispatching: a session, the binding, the goal, the work. The refusal of    *)
(* either transition answers with the task as it stands.                      *)

DispatchCreates ==
  /\ At("dispatch", "create")
  /\ \/ /\ sess' = [sess EXCEPT !.status = "idle"]
        /\ Set("dispatch", Job("bind"))
        /\ UNCHANGED spent
     \/ /\ Spend("faults", MaxFaults)
        /\ Set("dispatch", ToWalk(Plain("failed")))
        /\ UNCHANGED sess
  /\ NoEmit /\ NoWrite /\ NoGhost

DispatchBinds ==
  /\ At("dispatch", "bind")
  /\ IF CanMoveTo(row.state, "dispatching")
     THEN /\ Set("dispatch", Job("send"))
          /\ row' = [Written("dispatching", Plain("dispatching"), FALSE) EXCEPT !.bound = TRUE]
          /\ Overtakes(idled)
     ELSE Set("dispatch", Resting) /\ NoWrite
  /\ NoAgent /\ NoGhost /\ UNCHANGED spent

DispatchSends ==
  /\ At("dispatch", "send")
  /\ SessionThere
  /\ Set("dispatch", Job("work"))
  /\ StartTurn
  /\ NoWrite /\ NoGhost /\ UNCHANGED spent

(* The prompt fails: before the agent had it, or only for us.                 *)
DispatchFailsToSend ==
  /\ At("dispatch", "send")
  /\ Set("dispatch", Job("stop"))
  /\ IF SessionThere THEN Spend("faults", MaxFaults) ELSE UNCHANGED spent
  /\ \/ NoAgent
     \/ SessionThere /\ StartTurn
  /\ NoWrite /\ NoGhost

(* An agent that cannot be reached is not stopped.                            *)
BestEffort(stop) ==
  \/ stop /\ UNCHANGED spent
  \/ Running /\ NoAgent /\ Spend("faults", MaxFaults)

DispatchStops ==
  /\ At("dispatch", "stop")
  /\ Set("dispatch", ToWalk(Plain("failed")))
  /\ BestEffort(Interrupt)
  /\ NoWrite /\ NoGhost

DispatchWorks ==
  /\ At("dispatch", "work")
  /\ IF CanMoveTo(row.state, "working")
     THEN /\ Set("dispatch", [Job("judge") EXCEPT !.snap = Judged("working", 0, row.reopened)])
          /\ Write("working", Plain("working"), FALSE)
     ELSE Set("dispatch", Resting) /\ NoWrite
  /\ NoAgent /\ NoGhost /\ UNCHANGED spent

-----------------------------------------------------------------------------
(* The follower: one event at a time, each about the open task it finds then, *)
(* a user message about the latest one.                                       *)

Open == row.bound /\ row.state \in OpenStates

FollowerJob(e) ==
  CASE e.kind = "user" /\ row.bound /\ row.state \in {"done", "failed"} /\ e.at > row.updated
         -> [Job("reopen") EXCEPT !.at = e.at]
    [] e.kind = "idle" /\ Open
         -> [Job("judge") EXCEPT !.snap = ReadToJudge]
    [] e.kind = "busy" /\ Open /\ (row.state = "idle_unconfirmed" \/ Blocked)
         -> ToHold(Resting, Plain("working"))
    [] e.kind = "asked" /\ Open /\ row.state # "waiting"
         -> ToHold(Resting, Plain("waiting"))
    [] e.kind = "resolved" /\ Open /\ row.state # "working"
         -> ToHold(Resting, Plain("working"))
    [] e.kind = "failed" /\ Open
         -> ToHold(Resting, Plain("failed"))
    [] e.kind = "interrupted" /\ Open
         -> ToHold(Resting, Plain("cancelled"))
    [] OTHER -> Resting

Follow ==
  /\ At("follower", "rest")
  /\ inbox # <<>>
  /\ Set("follower", FollowerJob(Head(inbox)))
  /\ inbox' = Tail(inbox)
  /\ idled' = (idled \/ (Head(inbox).kind = "idle" /\ Open))
  /\ Unwritten /\ NoGhost
  /\ UNCHANGED <<sess, heard, spent>>

-----------------------------------------------------------------------------
(* The driver's pass: the rows first, then each one's session.                *)

DriverLists ==
  /\ At("driver", "rest")
  /\ row.state # "cancelled"
  /\ Set("driver", [Job("ask") EXCEPT !.snap = Read])
  /\ NoWrite /\ NoAgent /\ NoGhost /\ UNCHANGED spent

(* User messages newer than the task's last write, as reopen_session reads    *)
(* them in the session's timeline.                                            *)
NewTurns(snap) == {at \in Times : at % 2 = 1 /\ at < 2 * sess.turn /\ at > snap.updated}

(* Mutant of NeverSent: only a task bound to nothing was never dispatched.    *)
NeverSentUnbound(snap) == ~snap.bound /\ snap.old

(* Left dispatching by a stop between the binding and the prompt.             *)
NeverSent(snap) == snap.state = "dispatching" /\ ~Running /\ snap.old

DriverJob(snap) ==
  LET fail == ToWalk(Plain("failed")) IN
  CASE IsTerminal(snap.state) ->
         IF snap.bound /\ NewTurns(snap) # {}
         THEN [Job("reopen") EXCEPT !.at = CHOOSE at \in NewTurns(snap) :
                                              \A other \in NewTurns(snap) : at <= other]
         ELSE Resting
    [] ~IsTerminal(snap.state) /\ ~snap.bound -> IF snap.old THEN fail ELSE Resting
    [] ~IsTerminal(snap.state) /\ snap.bound ->
         CASE ~SessionThere -> fail
           [] sess.status = "failed" -> fail
           [] Running /\ (snap.state = "idle_unconfirmed" \/ (snap.state = "waiting" /\ Blocked))
                -> ToHold(Resting, Plain("working"))
           [] ~FinishedSince(snap.reopened)
                -> IF NeverSent(snap) THEN fail ELSE Resting
           [] OTHER -> EndedTurn(snap)

DriverAsks ==
  /\ At("driver", "ask")
  /\ Set("driver", DriverJob(jobs["driver"].snap))
  /\ NoWrite /\ NoAgent /\ NoGhost /\ UNCHANGED spent

-----------------------------------------------------------------------------
(* tasks.wait: listens first, then reads the session as the events that would *)
(* have led to it, then goes through the events.                              *)

WaitStarts ==
  /\ At("wait", "rest")
  /\ Open
  /\ Spend("waits", MaxWaits)
  /\ Set("wait", [Job("look") EXCEPT !.snap = ReadToJudge])
  /\ heard' = <<>>
  /\ NoWrite /\ NoGhost /\ UNCHANGED <<sess, inbox>>

Snapshot(snap) ==
  (IF FinishedSince(snap.reopened) THEN <<Event("busy"), Event("idle")>> ELSE <<Event(sess.status)>>)
  \o (IF sess.asking THEN <<Event("asked")>>
      ELSE IF snap.state = "waiting" /\ Running THEN <<Event("resolved")>> ELSE <<>>)

WaitLooks ==
  LET job == jobs["wait"] IN
  /\ job.pc = "look"
  /\ Set("wait", IF SessionThere THEN [job EXCEPT !.pc = "listen", !.todo = Snapshot(job.snap)]
                 ELSE Resting)
  /\ NoWrite /\ NoAgent /\ NoGhost /\ UNCHANGED spent

(* Mutant of EndsTurn: an idle ends the turn though no busy was seen.         *)
EndsTurnUnseen(job) == TRUE

(* An idle says nothing before a busy was seen.                               *)
EndsTurn(job) == job.busy

(* What an event asks for.                                                    *)
Asks(job, e) ==
  CASE e.kind = "idle" /\ EndsTurn(job) -> {TurnEnd(job.snap)}
    [] e.kind = "asked"                  -> {Plain("waiting")}
    [] e.kind = "resolved"               -> {Plain("working")}
    [] e.kind = "failed"                 -> {Plain("failed")}
    [] e.kind = "interrupted"            -> {Plain("cancelled")}
    [] OTHER                             -> {}

(* Nothing to settle where the task already stands: a paused task is the      *)
(* answer; one moved since it was read is settled anew.                       *)
WaitHears(job, e) ==
  LET next == [job EXCEPT !.busy = @ \/ e.kind = "busy"] IN
  IF e.kind = "lagged" THEN [job EXCEPT !.pc = "look"]
  ELSE IF Asks(job, e) = {} THEN next
  ELSE LET ch == CHOOSE c \in Asks(job, e) : TRUE IN
       CASE ch.to # job.snap.state       -> ToHold(job, ch)
         [] ch.to = job.snap.state ->
              CASE row.state # ch.to                    -> ToHold(job, ch)
                [] row.state = ch.to /\ Paused(ch.to)   -> Resting
                [] row.state = ch.to /\ ~Paused(ch.to)  -> next

WaitTakes ==
  LET job == jobs["wait"] IN
  /\ job.pc = "listen"
  /\ IF job.todo # <<>>
     THEN Set("wait", WaitHears([job EXCEPT !.todo = Tail(@)], Head(job.todo))) /\ NoEmit
     ELSE /\ heard # <<>>
          /\ Set("wait", WaitHears(job, Head(heard)))
          /\ heard' = IF jobs'["wait"].pc = "rest" THEN <<>> ELSE Tail(heard)
          /\ inbox' = inbox
  /\ sess' = sess
  /\ NoWrite /\ NoGhost /\ UNCHANGED spent

(* The deadline, or the caller gone, whatever it was in the middle of.        *)
WaitEnds ==
  /\ Listening
  /\ Set("wait", Resting)
  /\ NoWrite /\ NoAgent /\ NoGhost /\ UNCHANGED spent

-----------------------------------------------------------------------------
(* The agent's own report (tasks.complete), from a running turn. A blocked    *)
(* report first forgets that the session was seen idle.                       *)

CanReport == Running /\ ~sess.asking /\ Open /\ At("complete", "rest")

CompleteDone ==
  /\ CanReport
  /\ Spend("calls", MaxCalls)
  /\ Set("complete", ToWalk(Plain("done")))
  /\ word' = TRUE
  /\ NoWrite /\ NoAgent /\ UNCHANGED blockedIn

(* Mutant of CompleteBlocked: the idle seen before the report still counts.   *)
CompleteBlockedKeepsIdle ==
  /\ CanReport
  /\ Spend("calls", MaxCalls)
  /\ Set("complete", ToWalk(Change("waiting", "complete_blocked", 0)))
  /\ blockedIn' = IF CaughtUp THEN sess.turn ELSE 0
  /\ NoWrite /\ NoAgent /\ UNCHANGED word

CompleteBlocked ==
  /\ CanReport
  /\ Spend("calls", MaxCalls)
  /\ Set("complete", ToWalk(Change("waiting", "complete_blocked", 0)))
  /\ idled' = FALSE
  /\ blockedIn' = IF CaughtUp THEN sess.turn ELSE 0
  /\ Unwritten /\ NoAgent /\ UNCHANGED word

(* The device confirms a paused task.                                         *)
Confirm ==
  /\ At("confirm", "rest")
  /\ Paused(row.state)
  /\ Spend("confirms", MaxConfirms)
  /\ Set("confirm", ToWalk(Plain("done")))
  /\ word' = TRUE
  /\ NoWrite /\ NoAgent /\ UNCHANGED blockedIn

(* The device cancels: the agent is interrupted as far as it can be reached,  *)
(* then the task is moved, whatever it is by then.                            *)
CancelReads ==
  /\ At("cancel", "rest")
  /\ row.state \in OpenStates
  /\ Spend("cancels", MaxCancels)
  /\ Set("cancel", [Job("interrupt") EXCEPT !.snap = [NoSnap EXCEPT !.bound = row.bound]])
  /\ NoWrite /\ NoAgent /\ NoGhost

CancelInterrupts ==
  /\ At("cancel", "interrupt")
  /\ Set("cancel", [Job("step") EXCEPT !.ch = Plain("cancelled"), !.path = <<"cancelled">>])
  /\ BestEffort(IF jobs["cancel"].snap.bound THEN Interrupt ELSE NoAgent)
  /\ NoWrite /\ NoGhost

-----------------------------------------------------------------------------
(* The agent, its user, the clock and the process.                            *)

(* A turn ends on a message with a marker or none, or on no message at all.   *)
EndTurn(mark) ==
  /\ Running /\ ~sess.asking /\ At("complete", "rest")
  /\ sess' = [sess EXCEPT !.status = "idle", !.idleAt = 2 * sess.turn,
                          !.said = IF mark = "silent" THEN @ ELSE sess.turn,
                          !.mark = IF mark = "silent" THEN @ ELSE mark]
  /\ Emit(<<Event("idle")>>)
  /\ word' = (word \/ mark = "done")
  /\ UNCHANGED <<row, idled, jobs, stale, old, spent, blockedIn>>

Aside == UNCHANGED <<row, idled, jobs, stale, old, word, blockedIn>>

UserTurn ==
  /\ sess.turn > 0 /\ SessionThere /\ ~Running
  /\ StartTurn
  /\ Aside /\ UNCHANGED spent

Ask ==
  /\ Running /\ ~sess.asking /\ At("complete", "rest")
  /\ Spend("asks", MaxAsks)
  /\ sess' = [sess EXCEPT !.asking = TRUE]
  /\ Emit(<<Event("asked")>>)
  /\ Aside

Answer ==
  /\ sess.asking
  /\ sess' = [sess EXCEPT !.asking = FALSE]
  /\ Emit(<<Event("resolved")>>)
  /\ Aside /\ UNCHANGED spent

(* A turn fails, or is interrupted from the agent's own screen.               *)
BreakTurn(how) ==
  /\ Running
  /\ Spend("faults", MaxFaults)
  /\ sess' = [sess EXCEPT !.status = how, !.asking = FALSE]
  /\ Emit(<<Event(how)>>)
  /\ Aside

(* The session is deleted in the agent.                                       *)
Vanish ==
  /\ SessionThere
  /\ Spend("faults", MaxFaults)
  /\ sess' = [sess EXCEPT !.status = "gone", !.asking = FALSE]
  /\ Aside /\ UNCHANGED <<inbox, heard>>

(* The events of other sessions push the oldest one out of the channel, of     *)
(* whoever has not taken it yet.                                               *)
Pushed(q) == IF q = <<>> \/ Head(q).kind = "lagged" THEN q ELSE <<Event("lagged")>> \o Tail(q)

Crowd ==
  /\ Spend("crowds", MaxCrowds)
  /\ inbox' = Pushed(inbox)
  /\ heard' = Pushed(heard)
  /\ inbox' # inbox
  /\ Aside /\ UNCHANGED sess

Age ==
  /\ ~old /\ row.state \in {"queued", "dispatching"}
  /\ old' = TRUE
  /\ UNCHANGED <<row, sess, inbox, heard, idled, jobs, stale, spent, word, blockedIn>>

(* The gateway starts anew: what lived in memory is gone.                     *)
Restart ==
  /\ Spend("restarts", MaxRestarts)
  /\ jobs' = [a \in Actors |-> Resting]
  /\ inbox' = <<>> /\ heard' = <<>> /\ idled' = FALSE /\ stale' = {} /\ blockedIn' = 0
  /\ row' = [row EXCEPT !.thisRun = FALSE]
  /\ UNCHANGED <<sess, old, word>>

-----------------------------------------------------------------------------
Dispatch == \/ DispatchCreates \/ DispatchBinds \/ DispatchSends \/ DispatchFailsToSend
            \/ DispatchStops \/ DispatchWorks

(* One step of what an actor is in the middle of.                             *)
Settle(a) == Hold(a) \/ Walk(a) \/ Step(a) \/ Refused(a) \/ Judge(a) \/ Reopen(a)

Next ==
  \/ Dispatch
  \/ Follow
  \/ DriverLists \/ DriverAsks
  \/ WaitStarts \/ WaitLooks \/ WaitTakes \/ WaitEnds
  \/ CompleteDone \/ CompleteBlocked
  \/ Confirm
  \/ CancelReads \/ CancelInterrupts
  \/ \E a \in Actors : Settle(a)
  \/ \E mark \in {"none", "done", "blocked", "silent"} : EndTurn(mark)
  \/ UserTurn \/ Ask \/ Answer
  \/ \E how \in {"failed", "interrupted"} : BreakTurn(how)
  \/ Vanish \/ Crowd \/ Age \/ Restart

Spec == Init /\ [][Next]_vars

(* The gateway's own tasks go on: the call that dispatches, the follower, the   *)
(* driver's passes. Nothing is asked of the agent, its user or the device. Each *)
(* is sequential, so one condition says all of it.                             *)
Fairness ==
  /\ WF_vars(Dispatch \/ Settle("dispatch"))
  /\ WF_vars(Follow \/ Settle("follower"))
  /\ WF_vars(DriverLists \/ DriverAsks \/ Settle("driver"))
  /\ WF_vars(Age)

FairSpec == Spec /\ Fairness

-----------------------------------------------------------------------------
(* PROPERTIES *)

(* A stop is not an end: a task is done only if the agent said so, in a marker *)
(* or by tasks.complete, or the device confirmed it (service.rs turn_end).     *)
DoneWasSaid == row.state = "done" => word

(* No task works, pauses or is done before its goal reached the agent: an idle *)
(* session says nothing before it ran (service.rs finished_since).             *)
WorksOnlyOnceSent == row.state \in ActiveStates \union {"done"} => sess.turn > 0

(* A task the agent or the user finished is taken up again only by a user       *)
(* message newer than its end, never by an observer that is late               *)
(* (service.rs reopen_session, reopen).                                        *)
ReopensOnlyOnNewTurn ==
  [][row.state \in {"done", "failed"} /\ row'.state # row.state =>
       row'.state = "working" /\ 2 * sess.turn - 1 > row.updated /\ row'.reopened > row.updated]_vars

(* A block outlasts the turn that reported it: while that turn runs no busy    *)
(* sign makes it work again, and no idle ever pauses it. A gateway started      *)
(* since the block takes the next turn it sees as the answer, so the block is   *)
(* one of this run (service.rs holds).                                         *)
Stands == row.state = "waiting" /\ row.last = "complete_blocked" /\ row.thisRun /\ blockedIn # 0
BlockOutlastsItsTurn ==
  [][Stands => /\ row'.state # "idle_unconfirmed"
               /\ row'.state = "working" => ~Running \/ sess.turn > blockedIn]_vars

(* Whoever moves the row, on whatever read: it lives as the ledger lets a task  *)
(* live, from its insertion on (TaskLifecycle; store_sqlite.rs transition).     *)
Life == INSTANCE TaskLifecycle WITH Tasks <- {"it"}, status <- [t \in {"it"} |-> row.state]
KeepsLifecycle == [][Life!Next]_(row.state)

(* A turn that ended does not leave its task working: the follower settles it, *)
(* or the driver after a lag or a restart (driver.rs reconcile).               *)
EndedTurnSettles ==
  [](sess.status = "idle" /\ row.state = "working" =>
       <>(sess.status # "idle" \/ row.state # "working"))

(* No task is left queued or dispatching while its session does nothing,       *)
(* whatever step the gateway stopped at (driver.rs NEVER_DISPATCHED).          *)
NeverStuckDispatching == []<>(row.state \notin {"queued", "dispatching"} \/ Running)

-----------------------------------------------------------------------------
(* What the sources say, and the code does not keep.                           *)

(* delegate: a dispatch that finds its task moved has nothing to interrupt.    *)
NothingToInterrupt ==
  [][At("dispatch", "work") /\ jobs'["dispatch"].pc = "rest" /\ IsTerminal(row.state) => ~Running]_vars

(* follow: a pending request makes its task wait, as it happens.               *)
PendingRequestWaits == sess.asking /\ CaughtUp /\ Open => row.state = "waiting"

(* spawn_follower: the driver settles whatever the skipped events moved.       *)
DriverSettlesSkipped ==
  [](sess.asking /\ row.state = "working" => <>(~sess.asking \/ row.state # "working"))
=============================================================================
