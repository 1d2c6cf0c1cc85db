-------------------------- MODULE MCDeferredCommit --------------------------
(* One post, with the copies of its job that restarts of the API add.      *)
EXTENDS DeferredCommit

CONSTANTS c1, c2
=============================================================================
