------------------------ MODULE MCSessionDelegation ------------------------
(* One task, one session; each run chooses which actors come into play.      *)
EXTENDS SessionDelegation
=============================================================================
