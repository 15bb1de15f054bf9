-------------------------- MODULE MCRollbackHistory --------------------------
(* An instance of RollbackHistory small enough to fill the history.        *)
EXTENDS RollbackHistory
==============================================================================
