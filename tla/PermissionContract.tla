------------------------ MODULE PermissionContract ------------------------
(***************************************************************************)
(* What the CLI and the user are promised about the permission prompts:    *)
(* every request gets one verdict, and gets it; a tool is allowed only     *)
(* with the user's consent to this very request.  Consent that comes too   *)
(* late changes nothing.                                                   *)
(***************************************************************************)
CONSTANT Requests

VARIABLES
  asked,    \* the requests that the CLI has made
  consent,  \* those to which the user has said yes
  verdict   \* of a request: "none", "allow" or "deny"

vars == <<asked, consent, verdict>>

Init ==
  /\ asked = {}
  /\ consent = {}
  /\ verdict = [r \in Requests |-> "none"]

Ask(r) ==
  /\ r \notin asked
  /\ asked' = asked \cup {r}
  /\ UNCHANGED <<consent, verdict>>

Consent(r) ==
  /\ r \in asked
  /\ consent' = consent \cup {r}
  /\ UNCHANGED <<asked, verdict>>

(* The user may be too late, or may have thought better of it.             *)
TooLate(r) ==
  /\ verdict[r] = "deny"
  /\ consent' = consent \ {r}
  /\ UNCHANGED <<asked, verdict>>

Decide(r) ==
  /\ r \in asked
  /\ verdict[r] = "none"
  /\ \E v \in {"allow", "deny"} :
       /\ v = "allow" => r \in consent
       /\ verdict' = [verdict EXCEPT ![r] = v]
  /\ UNCHANGED <<asked, consent>>

Next == \E r \in Requests : Ask(r) \/ Consent(r) \/ TooLate(r) \/ Decide(r)

Spec == Init /\ [][Next]_vars /\ \A r \in Requests : WF_vars(Decide(r))
=============================================================================
