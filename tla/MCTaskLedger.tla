---------------------------- MODULE MCTaskLedger ----------------------------
(* Two tasks over one agent session and one remote task, one slow observer.  *)
EXTENDS TaskLedger, TLC

Symmetric == Permutations(Tasks)
=============================================================================
