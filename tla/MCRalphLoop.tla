---------------------------- MODULE MCRalphLoop ----------------------------
(* RalphLoop on small boards.                                              *)
EXTENDS RalphLoop, TLC

OneProject == [t \in Tasks |-> CHOOSE p \in Projects : TRUE]

(* Tasks are only compared, and all belong to the same project.            *)
TaskSymmetry == Permutations(Tasks)
=============================================================================
