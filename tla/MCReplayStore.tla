---------------------------- MODULE MCReplayStore ----------------------------
(* Two credentials, two nonces where one fits, a clock of a few readings.    *)
EXTENDS ReplayStore, TLC

CONSTANTS phone, tablet, n1, n2

SmallCredentials == {phone, tablet}
SmallNonces == {n1, n2}
SmallTimes == 0..3
Alike == Permutations(SmallCredentials) \union Permutations(SmallNonces)
=============================================================================
