------------------------ MODULE MCPermissionPrompt ------------------------
(* PermissionPrompt with two instances.                                    *)
EXTENDS PermissionPrompt
=============================================================================
