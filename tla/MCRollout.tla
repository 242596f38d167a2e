----------------------------- MODULE MCRollout -----------------------------
(* A small instance of Rollout for TLC: two replicas, old and new emails.  *)
EXTENDS Rollout
=============================================================================
