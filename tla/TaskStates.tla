----------------------------- MODULE TaskStates -----------------------------
(***************************************************************************)
(* The states of a task and the moves between them: tasks/domain.rs, and   *)
(* the walk service.rs makes through them when a move is not direct.       *)
(***************************************************************************)
EXTENDS Naturals, Sequences

(* The states a task is still open in (OPEN_STATES), in the order of ALL.   *)
OpenOrder == <<"queued", "dispatching", "working", "waiting", "idle_unconfirmed">>
OpenStates == {"queued", "dispatching", "working", "waiting", "idle_unconfirmed"}
TerminalStates == {"done", "failed", "cancelled"}
States == OpenStates \union TerminalStates

IsTerminal(s) == s \in TerminalStates

(* Over as far as the user is concerned: the device may delete it.          *)
Ended(s) == IsTerminal(s) \/ s = "idle_unconfirmed"

(* Stopped short of an end.                                                 *)
Paused(s) == s \in {"waiting", "idle_unconfirmed"}

(* The states a parent is told about.                                       *)
ReportedStates == {"done", "failed", "cancelled", "waiting", "idle_unconfirmed"}

(* The states a task moves freely among once it works.                      *)
ActiveStates == {"working", "waiting", "idle_unconfirmed"}

CanMoveTo(from, to) ==
  \/ from = "queued"      /\ to \in {"dispatching", "cancelled"}
  \/ from = "dispatching" /\ to \in {"working", "failed", "cancelled"}
  \/ from = "waiting"     /\ to = "waiting"
  \/ from \in ActiveStates /\ to # from /\ to \in States \ {"queued", "dispatching"}

-----------------------------------------------------------------------------
(* steps_between: the open states a move passes on its way, by breadth-first *)
(* search in the order of ALL; none when the move is direct or impossible.   *)
(* No shortest walk passes more than MaxPassed states (queued, dispatching,  *)
(* working, end).                                                            *)
MaxPassed == 2

Rank(s) == CHOOSE i \in 1..Len(OpenOrder) : OpenOrder[i] = s

Walks(from, to, n) ==
  {w \in [1..n -> OpenStates] :
     LET path == <<from>> \o w \o <<to>> IN
       /\ \A i \in 1..(n + 1) : CanMoveTo(path[i], path[i + 1])
       /\ \A i, j \in 1..(n + 1) : i # j => path[i] # path[j]}

(* Of two walks of one length, the search finds first the one that turns     *)
(* first to the earlier state.                                               *)
FoundFirst(v, w) ==
  \/ v = w
  \/ \E i \in DOMAIN v : /\ Rank(v[i]) < Rank(w[i])
                         /\ \A j \in 1..(i - 1) : v[j] = w[j]

Passed(from, to) ==
  LET lengths == {n \in 0..MaxPassed : Walks(from, to, n) # {}} IN
  IF lengths = {} THEN <<>>
  ELSE LET n == CHOOSE n \in lengths : \A m \in lengths : n <= m
           ws == Walks(from, to, n)
       IN CHOOSE v \in ws : \A w \in ws : FoundFirst(v, w)

StepsBetween == [from \in States |-> [to \in States |-> Passed(from, to)]]
=============================================================================
