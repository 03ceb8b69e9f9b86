---------------------------- MODULE MCAutoReview ----------------------------
(* AutoReview with few projects and reviewing instances.                   *)
EXTENDS AutoReview
=============================================================================
