----------------------------- MODULE PeerMirror -----------------------------
(***************************************************************************)
(* A delegation to another of the owner's computers (fleet/mirror.rs): the *)
(* task runs there, and its mirror here is moved by three readers that     *)
(* know nothing of each other: the call that delegates, the follower of    *)
(* that computer's task socket, and the driver's pass. Each reads the      *)
(* mirror's row, has an answer or a frame, and applies the one to the      *)
(* other; answers take their time, frames are dropped, sockets close, the  *)
(* create may be taken without an answer, and the link may end.            *)
(*                                                                         *)
(* One mirror. What that computer does is modelled as its snapshots; what  *)
(* moves the mirror plans its walk (move_to) and makes it one transition   *)
(* at a time, each in the state the others have left it in.                *)
(***************************************************************************)
EXTENDS TaskStates

CONSTANTS
  MaxAt,      \* bound: moves of the task over there
  MaxWire,    \* bound: frames on the socket
  MaxFaults,  \* bound: answers lost and sockets closed
  MaxUser     \* bound: what the user does: cancels, ends the link on a side

ASSUME MirrorAssumption ==
  /\ {MaxAt, MaxFaults, MaxUser} \subseteq Nat
  /\ MaxWire \in Nat \ {0}

VARIABLES
  mirror,    \* the row here: state, reopen_count, summary, seq, and its binding:
             \* "none", "unknown" (bound to the peer, remote_task_id empty), "known"
  there,     \* the task over there, and how many times it moved
  sent,      \* the create is on its way
  socket,    \* whether it is up, and the frames on it
  link,      \* "linked", "revoked" (over there; unknown here) or "unlinked"
  jobs,      \* what the readers are in, the row and the answer they hold, and the
             \* states their walk has yet to take the mirror to
  cancel,    \* a cancel of the user, and the binding it read
  old,       \* ADOPT_WITHIN and NEVER_DISPATCHED_AFTER have passed
  spent,     \* how often each bounded thing happened
  shown,     \* ghost: the latest move of the task there that a reader applied, unless raced
  astray     \* ghost: "owed", the follower's last read got no answer and its socket is
             \* up; "raced", a reader judged a row that moved since, or by an older answer

vars == <<mirror, there, sent, socket, link, jobs, cancel, old, spent, shown, astray>>

Readers == {"delegate", "follower", "driver"}
Bindings == {"none", "unknown", "known"}
RemoteStates == States \union {"none", "gone"}

NoTask == [state |-> "none", gen |-> 0, ask |-> 0, at |-> 0]
Resync == [NoTask EXCEPT !.state = "resync"]

Row == [state: States, gen: 0..MaxAt, ask: 0..MaxAt, seq: Nat, bound: Bindings]
Snapshot == [state: RemoteStates, gen: 0..MaxAt, ask: 0..MaxAt, at: 0..MaxAt]
FirstRow == [state |-> "queued", gen |-> 0, ask |-> 0, seq |-> 1, bound |-> "none"]
Phases == {"rest", "create", "bind", "fail", "next", "asked", "got", "change", "step"}

TypeOK ==
  /\ mirror \in Row
  /\ there \in Snapshot
  /\ sent \in BOOLEAN
  /\ socket.up \in BOOLEAN /\ Len(socket.wire) <= MaxWire
  /\ link \in {"linked", "revoked", "unlinked"}
  /\ jobs \in [Readers -> [pc: Phases, row: Row, got: Snapshot, again: BOOLEAN, path: Seq(States)]]
  /\ cancel \in {"rest"} \union Bindings \union {"sent"}
  /\ old \in BOOLEAN /\ astray \in {"no", "owed", "raced"}
  /\ shown \in 0..there.at
  /\ mirror.gen <= there.gen

Job(pc) == [pc |-> pc, row |-> FirstRow, got |-> NoTask, again |-> FALSE, path |-> <<>>]

(* The call recorded the mirror; another mirror's follower may run already.   *)
Init ==
  /\ mirror = FirstRow
  /\ there = NoTask
  /\ sent = FALSE
  /\ socket = [up |-> FALSE, wire |-> <<>>]
  /\ link = "linked"
  /\ \E runs \in {"rest", "next"} :
       jobs = [a \in Readers |-> Job(CASE a = "delegate" -> "create"
                                       [] a = "follower" -> runs
                                       [] OTHER          -> "rest")]
  /\ cancel = "rest"
  /\ old = FALSE
  /\ spent = [faults |-> 0, user |-> 0]
  /\ shown = 0 /\ astray = "no"

At(a, pc) == jobs[a].pc = pc
Spend(what, max) == spent[what] < max /\ spent' = [spent EXCEPT ![what] = @ + 1]
Live == ~At("follower", "rest")
Down == [up |-> FALSE, wire |-> <<>>]

(* watched_mirrors: bound to the peer, open or ended but not cancelled.       *)
Watched == mirror.bound # "none" /\ mirror.state # "cancelled"

(* watch: a follower unless one runs.                                         *)
Watching(js) == IF js["follower"].pc = "rest" THEN [js EXCEPT !["follower"] = Job("next")] ELSE js

(* Where a reader goes once it is through: the call that delegates reads once *)
(* more, then it and the driver see to it that a follower runs.               *)
Through(a) ==
  CASE a = "follower" -> [jobs EXCEPT ![a] = Job("next")]
    [] a = "delegate" /\ ~jobs[a].again ->
         [jobs EXCEPT ![a] = [Job("asked") EXCEPT !.again = TRUE]]
    [] OTHER -> Watching([jobs EXCEPT ![a] = Job("rest")])

(* move_to: the walk is planned from the state the row has by now, and every  *)
(* transition on it is refused unless the row can make it then.               *)
Walk(to) == Append(StepsBetween[mirror.state][to], to)
Moved(to, ask, bound) ==
  [mirror EXCEPT !.state = to, !.ask = ask, !.bound = bound, !.seq = @ + 1]

(* record_failure, a transition at a time: only a mirror that is still queued *)
(* has one to make before it fails, and but for a cancel nobody else moves it.*)
Failing ==
  LET to == Head(Walk("failed")) IN
  mirror' = IF CanMoveTo(mirror.state, to)
            THEN Moved(to, mirror.ask, mirror.bound) ELSE mirror

-----------------------------------------------------------------------------
(* The computer over there. Every move of its task is a frame on the socket;  *)
(* frames it drops leave a resync.                                            *)

(* Mutant of Framed: the socket holds any number.                             *)
FramedUnbounded(snap) == IF ~socket.up THEN socket ELSE [socket EXCEPT !.wire = Append(@, snap)]
(* A full socket drops what it holds, this task's frames with the others'.    *)
Framed(snap) ==
  IF ~socket.up THEN socket
  ELSE [socket EXCEPT !.wire = IF Len(@) < MaxWire THEN Append(@, snap) ELSE <<Resync>>]

Becomes(snap) == there' = snap /\ socket' = Framed(snap)

Later == [there EXCEPT !.at = @ + 1]

ThereTakes ==
  /\ sent /\ there.state = "none" /\ link = "linked" /\ there.at < MaxAt
  /\ sent' = FALSE
  /\ Becomes([Later EXCEPT !.state = "dispatching"])
  /\ UNCHANGED <<mirror, link, jobs, cancel, old, spent, shown, astray>>

ThereMoves ==
  /\ there.at < MaxAt
  /\ \/ there.state \in {"dispatching", "waiting"} /\ Becomes([Later EXCEPT !.state = "working"])
     \/ there.state \in {"working", "waiting"}
        /\ \/ Becomes([Later EXCEPT !.state = "waiting", !.ask = @ + 1])
           \/ Becomes([Later EXCEPT !.state = "done"])
     \/ there.state = "done" /\ Becomes([Later EXCEPT !.state = "working", !.gen = @ + 1])
  /\ UNCHANGED <<mirror, sent, link, jobs, cancel, old, spent, shown, astray>>

(* Its retention, or its user, deletes the ended task.                        *)
ThereForgets ==
  /\ there.state \in TerminalStates
  /\ there' = [there EXCEPT !.state = "gone"]
  /\ UNCHANGED <<mirror, sent, socket, link, jobs, cancel, old, spent, shown, astray>>

Paid == IF astray = "owed" THEN "no" ELSE astray

(* A read is answered with the task as it is then, or as never made.          *)
ThereAnswers(a) ==
  /\ At(a, "asked") /\ link = "linked"
  /\ ~(a = "delegate" /\ there.state = "gone")
  /\ jobs' = [jobs EXCEPT ![a].pc = "got", ![a].got = there]
  /\ astray' = IF a = "follower" THEN Paid ELSE astray
  /\ UNCHANGED <<mirror, there, sent, socket, link, cancel, old, spent, shown>>

-----------------------------------------------------------------------------
(* The call that delegates.                                                   *)

DelegateSends ==
  /\ At("delegate", "create") /\ link = "linked"
  /\ sent' = TRUE
  /\ jobs' = [jobs EXCEPT !["delegate"].pc = "bind"]
  /\ UNCHANGED <<mirror, there, socket, link, cancel, old, spent, shown, astray>>

(* Nobody takes the request: the mirror fails, and the call says why. A peer   *)
(* that takes this computer no longer is marked so.                           *)
DelegateRefused ==
  /\ \/ At("delegate", "create") /\ link = "linked" /\ Spend("faults", MaxFaults)
     \/ At("delegate", "create") /\ link # "linked" /\ UNCHANGED spent
     \/ At("delegate", "bind") /\ link # "linked" /\ there.state = "none" /\ UNCHANGED spent
  /\ Failing
  /\ sent' = FALSE
  /\ LET call == Job(IF mirror.state = "queued" THEN "fail" ELSE "rest") IN
     IF link = "linked"
     THEN /\ jobs' = [jobs EXCEPT !["delegate"] = call]
          /\ UNCHANGED <<link, socket>>
     ELSE /\ jobs' = [jobs EXCEPT !["delegate"] = call, !["follower"] = Job("rest")]
          /\ link' = "unlinked" /\ socket' = Down
  /\ UNCHANGED <<there, cancel, old, shown, astray>>

DelegateFails ==
  /\ At("delegate", "fail")
  /\ Failing
  /\ jobs' = [jobs EXCEPT !["delegate"] = Job("rest")]
  /\ UNCHANGED <<there, sent, socket, link, cancel, old, spent, shown, astray>>

(* An answer names the task; without one it is still to be found.             *)
Binds(bound) ==
  IF CanMoveTo(mirror.state, "dispatching")
  THEN mirror' = Moved("dispatching", mirror.ask, bound)
  ELSE UNCHANGED mirror

FirstTask == [NoTask EXCEPT !.state = "dispatching", !.at = 1]

(* The create was answered when the task was made, however long ago that is.  *)
DelegateBinds ==
  /\ At("delegate", "bind") /\ there.state # "none"
  /\ Binds("known")
  /\ jobs' = IF CanMoveTo(mirror.state, "dispatching")
             THEN [jobs EXCEPT !["delegate"] =
                     [Job("got") EXCEPT !.row = mirror', !.got = FirstTask]]
             ELSE [jobs EXCEPT !["delegate"] = Job("rest")]
  /\ UNCHANGED <<there, sent, socket, link, cancel, old, spent, shown, astray>>

DelegateUnanswered ==
  /\ At("delegate", "bind")
  /\ Spend("faults", MaxFaults)
  /\ Binds("unknown")
  /\ sent' \in {sent, FALSE}
  /\ jobs' = IF CanMoveTo(mirror.state, "dispatching")
             THEN Watching([jobs EXCEPT !["delegate"] = Job("rest")])
             ELSE [jobs EXCEPT !["delegate"] = Job("rest")]
  /\ UNCHANGED <<there, socket, link, cancel, old, shown, astray>>

-----------------------------------------------------------------------------
(* What every reader does with its answer.                                    *)

(* The row is read when the request goes out; the call that delegates reads   *)
(* it again with the answer in hand.                                          *)
Held(a) == IF a = "delegate" /\ jobs[a].again THEN mirror ELSE jobs[a].row

(* A mirror bound to no task yet is looked for; one the peer lost fails; one  *)
(* nobody found in time fails.                                                *)
Adopting(a) == Held(a).bound = "unknown"

(* Mutant of Lost: nobody gives up looking.                                   *)
LostNever(a) == ~Adopting(a) /\ jobs[a].got.state = "gone"
Lost(a) ==
  \/ ~Adopting(a) /\ jobs[a].got.state = "gone"
  \/ Adopting(a) /\ jobs[a].got.state \in {"none", "gone"} /\ old

Ignores(row, got) == got.gen < row.gen

(* Mutant of Resumes: a turn the mirror has seen does too.                     *)
ResumesAny(row, got) == row.state # "cancelled" /\ got.state = "working" /\ row.state = "done"

(* apply, first: a turn the mirror has not seen makes it work again.          *)
Resumes(row, got) == row.state # "cancelled" /\ got.gen > row.gen

(* mirror_change: whether the answer says something the row does not.         *)
To(row, got) ==
  IF got.state \in {"queued", "dispatching"} THEN "dispatching" ELSE got.state
Says(row, got) ==
  /\ ~IsTerminal(row.state)
  /\ To(row, got) = "dispatching" => row.state = "queued"
  /\ To(row, got) # row.state \/ (got.state = "waiting" /\ got.ask # row.ask)

(* A move by an answer older than what is shown, or over a row it never saw:  *)
(* what is shown is then nobody's.                                            *)
Races(row, got) == row.seq # mirror.seq \/ got.at < shown
Shows(at, races) ==
  LET raced == races \/ astray = "raced" IN
  /\ astray' = IF raced THEN "raced" ELSE astray
  /\ shown' = IF raced THEN 0 ELSE at

ReaderDrops(a) ==
  /\ At(a, "got") /\ ~Lost(a)
  /\ \/ Adopting(a) /\ jobs[a].got.state \in {"none", "gone"}
     \/ ~Adopting(a) /\ Ignores(Held(a), jobs[a].got)
     \/ (Adopting(a) \/ ~Resumes(Held(a), jobs[a].got)) /\ ~Says(Held(a), jobs[a].got)
  /\ Shows(IF jobs[a].got.at > shown THEN jobs[a].got.at ELSE shown, Held(a).seq # mirror.seq)
  /\ jobs' = Through(a)
  /\ UNCHANGED <<mirror, there, sent, socket, link, cancel, old, spent>>

ReaderLoses(a) ==
  /\ At(a, "got") /\ Lost(a)
  /\ Failing
  /\ Shows(shown, Adopting(a) /\ Held(a).seq # mirror.seq)
  /\ jobs' = Through(a)
  /\ UNCHANGED <<there, sent, socket, link, cancel, old, spent>>

(* transition(reopen, expected_seq): refused if the row moved since.          *)
ReaderReopens(a) ==
  LET row == Held(a)  got == jobs[a].got IN
  /\ At(a, "got") /\ ~Lost(a) /\ ~Adopting(a)
  /\ ~Ignores(row, got) /\ Resumes(row, got)
  /\ IF row.seq = mirror.seq /\ mirror.state # "cancelled"
     THEN /\ mirror' = [Moved("working", mirror.ask, mirror.bound) EXCEPT !.gen = got.gen]
          /\ jobs' = IF Says(mirror', got) THEN [jobs EXCEPT ![a].pc = "change", ![a].row = mirror']
                     ELSE Through(a)
     ELSE /\ UNCHANGED mirror
          /\ jobs' = Through(a)
  /\ Shows(IF mirror' = mirror THEN shown ELSE got.at, Races(row, got))
  /\ UNCHANGED <<there, sent, socket, link, cancel, old, spent>>

(* The change, by what the row said when it was read: move_to reads the row    *)
(* as it is by now, and plans.                                                *)
ReaderMoves(a) ==
  LET row == IF At(a, "change") THEN jobs[a].row ELSE Held(a)
      got == jobs[a].got
  IN
  /\ \/ At(a, "change")
     \/ At(a, "got") /\ ~Lost(a)
        /\ \/ Adopting(a) /\ got.state \notin {"none", "gone"}
           \/ ~Adopting(a) /\ ~Ignores(row, got) /\ ~Resumes(row, got)
  /\ Says(row, got)
  /\ jobs' = [jobs EXCEPT ![a].pc = "step", ![a].row = mirror, ![a].path = Walk(To(row, got))]
  /\ Shows(shown, Races(row, got))
  /\ UNCHANGED <<mirror, there, sent, socket, link, cancel, old, spent>>

CanStep(a) == CanMoveTo(mirror.state, Head(jobs[a].path))
Arriving(a) == Tail(jobs[a].path) = <<>>

(* On the way only the state is written.                                      *)
ReaderSteps(a) ==
  /\ At(a, "step") /\ CanStep(a) /\ ~Arriving(a)
  /\ mirror' = Moved(Head(jobs[a].path), mirror.ask, mirror.bound)
  /\ jobs' = [jobs EXCEPT ![a].path = Tail(@), ![a].row = mirror']
  /\ Shows(shown, Races(jobs[a].row, jobs[a].got))
  /\ UNCHANGED <<there, sent, socket, link, cancel, old, spent>>

(* The last transition is the change: its line, and the task that was found.  *)
ReaderArrives(a) ==
  LET bound == IF jobs[a].row.bound = "unknown" THEN "known" ELSE mirror.bound IN
  /\ At(a, "step") /\ CanStep(a) /\ Arriving(a)
  /\ mirror' = Moved(Head(jobs[a].path), jobs[a].got.ask, bound)
  /\ jobs' = Through(a)
  /\ Shows(jobs[a].got.at, Races(jobs[a].row, jobs[a].got))
  /\ UNCHANGED <<there, sent, socket, link, cancel, old, spent>>

(* Refused: the rest of the walk is let go.                                   *)
ReaderStops(a) ==
  /\ At(a, "step") /\ ~CanStep(a)
  /\ jobs' = Through(a)
  /\ Shows(shown, Races(jobs[a].row, jobs[a].got))
  /\ UNCHANGED <<mirror, there, sent, socket, link, cancel, old, spent>>

(* No answer: the mirror keeps its state.                                     *)
ReaderUnanswered(a) ==
  /\ At(a, "asked")
  /\ Spend("faults", MaxFaults)
  /\ jobs' = IF a = "delegate" THEN Watching([jobs EXCEPT ![a] = Job("rest")]) ELSE Through(a)
  /\ astray' = IF a = "follower" /\ socket.up /\ astray = "no" THEN "owed" ELSE astray
  /\ UNCHANGED <<mirror, there, sent, socket, link, cancel, old, shown>>

(* Refused: the link is gone. The open mirrors fail, and the follower ends.   *)
Unlinking ==
  /\ IF mirror.bound # "none" /\ ~IsTerminal(mirror.state) THEN Failing ELSE UNCHANGED mirror
  /\ link' = "unlinked"
  /\ socket' = Down

ReaderRefused(a) ==
  /\ a # "delegate"
  /\ \/ link # "linked" /\ At(a, "asked")
     \/ link = "revoked" /\ a = "follower" /\ At(a, "next") /\ ~socket.up /\ Watched
  /\ Unlinking
  /\ jobs' = [jobs EXCEPT ![a] = Job("rest"), !["follower"] = Job("rest")]
  /\ UNCHANGED <<there, sent, cancel, old, spent, shown, astray>>

(* The call that delegates lets go of a read that is refused.                 *)
DelegateRefusedRead ==
  /\ At("delegate", "asked") /\ (link # "linked" \/ there.state = "gone")
  /\ jobs' = Watching([jobs EXCEPT !["delegate"] = Job("rest")])
  /\ UNCHANGED <<mirror, there, sent, socket, link, cancel, old, spent, shown, astray>>

-----------------------------------------------------------------------------
(* The follower of the peer's socket.                                         *)

(* Mutant of FollowerOpens: nothing is read once it is open.                  *)
FollowerOpensBlind ==
  /\ At("follower", "next") /\ ~socket.up /\ Watched /\ link = "linked"
  /\ socket' = [up |-> TRUE, wire |-> <<>>]
  /\ UNCHANGED <<mirror, there, sent, link, jobs, cancel, old, spent, shown, astray>>

FollowerOpens ==
  /\ At("follower", "next") /\ ~socket.up /\ Watched /\ link = "linked"
  /\ socket' = [up |-> TRUE, wire |-> <<Resync>>]
  /\ UNCHANGED <<mirror, there, sent, link, jobs, cancel, old, spent, shown, astray>>

Reads(a) == jobs' = [jobs EXCEPT ![a] = [Job("asked") EXCEPT !.row = mirror]]

(* A frame is taken with the row read after it; a resync, or a frame while a  *)
(* mirror looks for its task, is a read.                                      *)
FollowerTakes ==
  LET item == Head(socket.wire) IN
  /\ At("follower", "next") /\ socket.up /\ socket.wire # <<>> /\ Watched
  /\ socket' = [socket EXCEPT !.wire = Tail(@)]
  /\ IF item = Resync \/ mirror.bound = "unknown" THEN Reads("follower")
     ELSE jobs' = [jobs EXCEPT !["follower"].pc = "got", !["follower"].row = mirror,
                               !["follower"].got = item]
  /\ UNCHANGED <<mirror, there, sent, link, cancel, old, spent, shown, astray>>

(* Quiet, with a mirror that looks for its task; or the socket cannot open.   *)
FollowerReads ==
  /\ At("follower", "next") /\ Watched /\ link # "unlinked"
  /\ ~socket.up \/ (socket.wire = <<>> /\ mirror.bound = "unknown")
  /\ Reads("follower")
  /\ UNCHANGED <<mirror, there, sent, socket, link, cancel, old, spent, shown, astray>>

(* leave: nothing to watch, and nothing bound while it looked.                *)
FollowerLeaves ==
  /\ At("follower", "next") /\ ~Watched
  /\ jobs' = [jobs EXCEPT !["follower"] = Job("rest")]
  /\ socket' = Down
  /\ UNCHANGED <<mirror, there, sent, link, cancel, old, spent, shown, astray>>

(* The peer's row is gone, or takes this computer no longer.                  *)
FollowerEnds ==
  /\ At("follower", "next") /\ link = "unlinked"
  /\ jobs' = [jobs EXCEPT !["follower"] = Job("rest")]
  /\ UNCHANGED <<mirror, there, sent, socket, link, cancel, old, spent, shown, astray>>

SocketCloses ==
  /\ socket.up
  /\ \/ link = "revoked" /\ UNCHANGED spent
     \/ link = "linked" /\ Spend("faults", MaxFaults)
  /\ socket' = Down
  /\ astray' = Paid
  /\ UNCHANGED <<mirror, there, sent, link, jobs, cancel, old, shown>>

-----------------------------------------------------------------------------
(* The driver's pass.                                                         *)

(* converge: what no follower follows, and what still looks for its task.     *)
DriverReads ==
  /\ At("driver", "rest") /\ Watched /\ link # "unlinked"
  /\ ~Live \/ mirror.bound = "unknown"
  /\ Reads("driver")
  /\ UNCHANGED <<mirror, there, sent, socket, link, cancel, old, spent, shown, astray>>

(* An open mirror whose link is gone, or which was never bound.               *)
DriverFails ==
  /\ At("driver", "rest") /\ ~IsTerminal(mirror.state)
  /\ \/ mirror.bound # "none" /\ link = "unlinked"
     \/ mirror.bound = "none" /\ old
  /\ Failing
  /\ UNCHANGED <<there, sent, socket, link, jobs, cancel, old, spent, shown, astray>>

-----------------------------------------------------------------------------
(* The user, the clock, and a stop.                                           *)

CancelAsked ==
  /\ cancel = "rest" /\ ~IsTerminal(mirror.state)
  /\ Spend("user", MaxUser)
  /\ cancel' = mirror.bound
  /\ UNCHANGED <<mirror, there, sent, socket, link, jobs, old, shown, astray>>

(* forward_cancel: by the binding it read, looked up if need be, best effort. *)
CancelForwards ==
  /\ cancel \in Bindings
  /\ cancel' = "sent"
  /\ IF /\ cancel # "none" /\ link = "linked"
        /\ there.state \in OpenStates /\ there.at < MaxAt
     THEN Becomes([Later EXCEPT !.state = "cancelled"])
     ELSE UNCHANGED <<there, socket>>
  /\ UNCHANGED <<mirror, sent, link, jobs, old, spent, shown, astray>>

CancelMarks ==
  /\ cancel = "sent" /\ cancel' = "rest"
  /\ mirror' = IF CanMoveTo(mirror.state, "cancelled")
               THEN Moved("cancelled", mirror.ask, mirror.bound) ELSE mirror
  /\ UNCHANGED <<there, sent, socket, link, jobs, old, spent, shown, astray>>

Revoke ==
  /\ link = "linked" /\ Spend("user", MaxUser)
  /\ link' = "revoked"
  /\ UNCHANGED <<mirror, there, sent, socket, jobs, cancel, old, shown, astray>>

(* lose, and the peer's row goes.                                             *)
Unlink ==
  /\ link # "unlinked" /\ Spend("user", MaxUser)
  /\ Unlinking
  /\ jobs' = [jobs EXCEPT !["follower"] = Job("rest")]
  /\ UNCHANGED <<there, sent, cancel, old, shown, astray>>

(* A request takes a minute at most, and the two ages are longer. Nobody asks  *)
(* how old a mirror is that has found its task, unless by a row read before.  *)
GrowOld ==
  /\ ~old /\ jobs["delegate"].pc \notin {"create", "bind", "fail"}
  /\ mirror.bound # "known" \/ \E a \in Readers : jobs[a].row.bound = "unknown"
  /\ old' = TRUE
  /\ UNCHANGED <<mirror, there, sent, socket, link, jobs, cancel, spent, shown, astray>>

Restart ==
  /\ Spend("faults", MaxFaults)
  /\ jobs' = [a \in Readers |-> Job("rest")]
  /\ socket' = Down
  /\ cancel' = "rest"
  /\ astray' = Paid
  /\ UNCHANGED <<mirror, there, sent, link, old, shown>>

-----------------------------------------------------------------------------
Delegate ==
  DelegateSends \/ DelegateRefused \/ DelegateFails \/ DelegateBinds \/ DelegateRefusedRead
Reader(a) ==
  \/ ReaderDrops(a) \/ ReaderLoses(a) \/ ReaderReopens(a) \/ ReaderRefused(a)
  \/ ReaderMoves(a) \/ ReaderSteps(a) \/ ReaderArrives(a) \/ ReaderStops(a)
Follower == FollowerOpens \/ FollowerTakes \/ FollowerReads \/ FollowerLeaves \/ FollowerEnds
Driver == DriverReads \/ DriverFails

Next ==
  \/ ThereTakes \/ ThereMoves \/ ThereForgets
  \/ Delegate \/ DelegateUnanswered
  \/ \E a \in Readers : ThereAnswers(a) \/ Reader(a) \/ ReaderUnanswered(a)
  \/ Follower \/ SocketCloses
  \/ Driver
  \/ CancelAsked \/ CancelForwards \/ CancelMarks
  \/ Revoke \/ Unlink
  \/ GrowOld \/ Restart

Spec == Init /\ [][Next]_vars

(* Calls come to their end, the driver's pass runs every minute, the follower *)
(* runs, and a linked computer takes and answers what is asked of it, but for *)
(* the faults counted. Nothing makes the task there move.                     *)
Fairness ==
  /\ WF_vars(ThereTakes) /\ WF_vars(Delegate)
  /\ \A a \in Readers : WF_vars(ThereAnswers(a)) /\ WF_vars(Reader(a))
  /\ WF_vars(Follower) /\ WF_vars(Driver)
  /\ WF_vars(GrowOld)

FairSpec == Spec /\ Fairness

-----------------------------------------------------------------------------
(* PROPERTIES *)

(* An adopted mirror keeps the count of turns it had.                          *)
Agrees ==
  /\ mirror.bound = "known"
  /\ mirror.state = there.state
  /\ mirror.gen = there.gen \/ shown = there.at \/ astray = "raced"
  /\ mirror.state = "waiting" => mirror.ask = there.ask

(* The mirror's end without the task's: what can no longer be read.           *)
GivenUp ==
  \/ mirror.state = "cancelled"
  \/ link # "linked" \/ there.state = "gone"
  \/ mirror.state = "failed" /\ mirror.bound # "known"
Starting == there.state = "dispatching" /\ mirror.state = "dispatching"

(* Whatever was dropped, lost or closed meanwhile, the mirror comes to show    *)
(* the task as it is, unless the follower's own read got no answer or two      *)
(* readers got into each other's way (mirror.rs follow, refresh, apply).       *)
MirrorCatchesUp == []<>(Agrees \/ Starting \/ GivenUp \/ astray # "no")

(* A mirror of a link that ended, or of a create nobody confirmed, does not    *)
(* stay open (mirror.rs converge, adopt, unauthorized).                       *)
NothingStaysUnread ==
  []<>( \/ IsTerminal(mirror.state)
        \/ link # "unlinked" /\ (mirror.bound = "known" \/ there.state = "dispatching") )

(* A mirror that is over stays over unless the task there got a new turn; one  *)
(* that was cancelled stays so (mirror.rs apply).                             *)
OnlyANewTurnReopens ==
  [][ IsTerminal(mirror.state) /\ mirror' # mirror =>
        mirror.state # "cancelled" /\ mirror'.gen > mirror.gen ]_vars

(* No step takes the mirror back to an earlier turn of its task, or makes it   *)
(* lose the task it was bound to (mirror.rs apply, bind, adopt).              *)
NothingGoesBack ==
  [][ /\ mirror'.gen >= mirror.gen
      /\ mirror.bound = "known" => mirror'.bound = "known" ]_vars

(* Whichever reader moves the mirror, and whoever comes between two steps of   *)
(* its walk, its row lives as every task's does (TaskLifecycle; service.rs     *)
(* move_to, mirror.rs apply).                                                 *)
Life == INSTANCE TaskLifecycle WITH Tasks <- {"it"}, status <- [t \in {"it"} |-> mirror.state]
KeepsLifecycle == [][Life!Next]_(mirror.state)

-----------------------------------------------------------------------------
(* What the sources say, and the code does not keep.                           *)

(* mirror.rs: a mirror is moved by frames while a socket is up, and by reads   *)
(* when it is not: either way it comes to show the task as it is.             *)
AlwaysCatchesUp == []<>(Agrees \/ Starting \/ GivenUp)

(* mirror.rs apply: what an older turn ended with never moves a mirror that is *)
(* in a newer one.                                                            *)
OlderTurnMovesNothing ==
  [][ \A a \in Readers :
        /\ jobs[a].pc \in {"got", "change", "step"} /\ jobs'[a] # jobs[a]
        /\ mirror'.state # mirror.state /\ jobs[a].got.state # "gone"
        => jobs[a].got.gen >= mirror.gen ]_vars
=============================================================================
