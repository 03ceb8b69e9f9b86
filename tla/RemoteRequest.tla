--------------------------- MODULE RemoteRequest ---------------------------
(***************************************************************************)
(* What the users of a cluster get of what they ask of another node (an    *)
(* instance, a shell, a kill, input): it is done at most as often as it is *)
(* allowed to, which is once, but for the requests of a primary that was   *)
(* started more than once; or it is lost.  A request that is lost is not   *)
(* done later, and nothing is done that nobody asked for.                  *)
(***************************************************************************)
EXTENDS Naturals

CONSTANTS
  Requests,
  Copies     \* how often a request may be done

VARIABLES
  asked,     \* the requests that were made
  open,      \* those of them that may still be done
  executed   \* how often a node has done what was asked

vars == <<asked, open, executed>>

Init ==
  /\ asked = {}
  /\ open = {}
  /\ executed = [k \in Requests |-> 0]

(* Without a connection the request is lost at once.                       *)
Ask(k) ==
  /\ k \notin asked
  /\ asked' = asked \cup {k}
  /\ open' \in {open, open \cup {k}}
  /\ UNCHANGED executed

Do(k) ==
  /\ k \in open
  /\ executed[k] < Copies[k]
  /\ executed' = [executed EXCEPT ![k] = @ + 1]
  /\ open' \in {open, open \ {k}}
  /\ UNCHANGED asked

(* A connection takes everything with it that it carries.                  *)
Lose ==
  /\ UNCHANGED <<asked, executed>>
  /\ open' \in SUBSET open

Next == Lose \/ \E k \in Requests : Ask(k) \/ Do(k)

Spec == Init /\ [][Next]_vars
=============================================================================
