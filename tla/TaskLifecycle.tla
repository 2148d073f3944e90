---------------------------- MODULE TaskLifecycle ----------------------------
(***************************************************************************)
(* What the ledger promises a reader about every task, whoever moves it:   *)
(* the life of a task from its insertion until it is forgotten             *)
(* (tasks/domain.rs TaskState::can_move_to, and the one exception the      *)
(* store allows, a verified new turn of an ended assignment).              *)
(***************************************************************************)
EXTENDS TaskStates

CONSTANT Tasks

VARIABLE status   \* of each task: a state, "unknown" before it and "forgotten" after it

Statuses == States \union {"unknown", "forgotten"}

Init == status = [t \in Tasks |-> "unknown"]

Become(t, s) == status' = [status EXCEPT ![t] = s]

Create(t) == status[t] = "unknown" /\ Become(t, "queued")

Advance(t, s) == CanMoveTo(status[t], s) /\ Become(t, s)

(* A new turn makes an ended task work again; a mirror of a remote task that *)
(* ended and was reopened between two reads works again from any open state. *)
Resume(t) ==
  /\ status[t] \in OpenStates \union {"done", "failed"}
  /\ Become(t, "working")

(* Retention forgets many at once; nothing still at work is ever among them. *)
Forget(gone) ==
  /\ \A t \in gone : status[t] \in States /\ Ended(status[t])
  /\ status' = [t \in Tasks |-> IF t \in gone THEN "forgotten" ELSE status[t]]

Next ==
  \/ \E t \in Tasks : Create(t) \/ Resume(t)
  \/ \E t \in Tasks, s \in States : Advance(t, s)
  \/ \E gone \in SUBSET Tasks : Forget(gone)

Spec == Init /\ [][Next]_status
=============================================================================
