---------------------------- MODULE MCTaskNotices ----------------------------
(* One child that asks, works on and ends; its parent's session.             *)
EXTENDS TaskNotices
=============================================================================
