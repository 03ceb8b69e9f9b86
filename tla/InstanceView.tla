---------------------------- MODULE InstanceView ----------------------------
(***************************************************************************)
(* What those who ask ProcessManager for an instance again and again, as   *)
(* AutoReview does, find over time: the relation between two looks at it.  *)
(*                                                                         *)
(* "absent": not created.  "working": any status but the final ones.       *)
(* "ended": completed or error, from which later output, input or a kill   *)
(* may bring it back.  "killed": killed, or otherwise beyond any of these. *)
(* "removed": its record is gone.                                          *)
(***************************************************************************)

View == {"absent", "working", "ended", "killed", "removed"}

After(v) ==
  CASE v = "absent"  -> {"working", "ended"}
    [] v = "working" -> {"ended", "killed"}
    [] v = "ended"   -> {"working", "killed", "removed"}
    [] v = "killed"  -> {"removed"}
    [] v = "removed" -> {}
=============================================================================
