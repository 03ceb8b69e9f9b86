-------------------------- MODULE InstanceContract --------------------------
(***************************************************************************)
(* What the users of ProcessManager (the Ralph loop, the reviews, the      *)
(* renderer) are promised about one instance: it is created, its exit is   *)
(* announced, and only then is its record removed.  An instance need not   *)
(* exit, and its record may stay.                                          *)
(***************************************************************************)

VARIABLE life   \* "absent", "running", "exited" or "removed"

Init == life = "absent"

Create == life = "absent" /\ life' = "running"

Exit == life = "running" /\ life' = "exited"

Remove == life = "exited" /\ life' = "removed"

Next == Create \/ Exit \/ Remove

Spec == Init /\ [][Next]_life
=============================================================================
