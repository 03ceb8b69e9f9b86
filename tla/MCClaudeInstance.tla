-------------------------- MODULE MCClaudeInstance --------------------------
(* ClaudeInstance with the setups to be checked.                           *)
EXTENDS ClaudeInstance

AnySetup == Setup

PooledStream == {[mode |-> "stream-json", pooled |-> TRUE]}
=============================================================================
