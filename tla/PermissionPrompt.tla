------------------------- MODULE PermissionPrompt -------------------------
(***************************************************************************)
(* The permission prompts of the structured view, from the CLI's request   *)
(* to its answer.  PermissionPromptManager, in the main process, keeps the *)
(* pending requests and a timer for each; the renderer's store mirrors     *)
(* them as prompts, by events; StructuredView shows the PermissionBar for  *)
(* one instance at a time, with the prompt that a memoized selector finds; *)
(* what the user clicks goes back to the manager and the reply removes the *)
(* prompt.  Both sides act while messages between them are under way.      *)
(***************************************************************************)
EXTENDS Naturals, Sequences, FiniteSets, Functions

CONSTANTS
  Instances,
  None,         \* no instance
  MaxRequests,  \* bound on the requests that are made
  MaxClicks     \* bound on the clicks under way

ASSUME PromptAssumption ==
  /\ None \notin Instances
  /\ MaxRequests \in Nat
  /\ MaxClicks \in Nat

(* Requests are numbered as they come: this is the order of the store's    *)
(* Map, which the selector walks through.                                  *)
Requests == 1..MaxRequests
NoPrompt == 0

VARIABLES
  \* the main process
  instance,   \* of a request: the instance that made it, or None
  pending,    \* the requests in the manager's Map; each has its timer
  verdict,    \* what the tool's handler has answered: "none", "allow", "deny"
  \* between the processes
  events,     \* to the renderer: "request" and "timeout"
  responses,  \* to the main process: the user's
  replies,    \* to the renderer, for the responses
  \* the renderer
  prompts,    \* pendingPermissions of the store
  memo,       \* _memoPendingPermissionForInstance
  view,       \* the instance whose StructuredView is mounted, or None
  bar,        \* is the PermissionBar mounted in it?
  shown,      \* the prompt in the bar, or NoPrompt
  isSending   \* has the bar sent a response that is not replied to?

managerVars == <<instance, pending, verdict>>
viewVars == <<memo, view, bar, shown, isSending>>
vars == <<managerVars, events, responses, replies, prompts, viewVars>>

Made == {r \in Requests : instance[r] # None}

----------------------------------------------------------------------------
(* The first of the prompts that belongs to the instance.                  *)
Firsts(i, set) ==
  {r \in set : instance[r] = i /\ \A q \in set : instance[q] = i => r <= q}

Walk(i, set) ==
  IF Firsts(i, set) = {} THEN NoPrompt ELSE CHOOSE r \in Firsts(i, set) : TRUE

(* Defect: the selector's memo does not look at the instance.              *)
SelectedBySize(i, set) ==
  IF memo.size = Cardinality(set) THEN memo.result ELSE Walk(i, set)

(* What was found the last time, if it was for this instance and there     *)
(* were as many prompts then as there are now.                             *)
Selected(i, set) ==
  IF memo.instance = i /\ memo.size = Cardinality(set) THEN memo.result
                                                       ELSE Walk(i, set)

Memo(i, set) ==
  [instance |-> i, size |-> Cardinality(set), result |-> Selected(i, set)]

(* Only the bar subscribes to the prompts; StructuredView does not.        *)
ChangePrompts(set) ==
  /\ prompts' = set
  /\ IF bar
     THEN /\ shown' = Selected(view, set)
          /\ memo' = Memo(view, set)
     ELSE UNCHANGED <<shown, memo>>
  /\ UNCHANGED <<view, bar>>

----------------------------------------------------------------------------
Init ==
  /\ instance = [r \in Requests |-> None]
  /\ pending = {}
  /\ verdict = [r \in Requests |-> "none"]
  /\ events = <<>>
  /\ responses = <<>>
  /\ replies = <<>>
  /\ prompts = {}
  /\ memo = [instance |-> None, size |-> 0, result |-> NoPrompt]
  /\ view = None
  /\ bar = FALSE
  /\ shown = NoPrompt
  /\ isSending = FALSE

(* requestPermission, for the tool that the CLI calls.                     *)
RequestPermission(i) ==
  \E r \in Requests \ Made :
    /\ \A q \in Requests : q < r => q \in Made
    /\ instance' = [instance EXCEPT ![r] = i]
    /\ pending' = pending \cup {r}
    /\ events' = Append(events, [kind |-> "request", id |-> r])
    /\ UNCHANGED <<verdict, responses, replies, prompts, viewVars>>

(* Defect: the renderer is not told.                                       *)
TimeoutQuietly(r) ==
  /\ r \in pending
  /\ pending' = pending \ {r}
  /\ verdict' = [verdict EXCEPT ![r] = "deny"]
  /\ UNCHANGED <<instance, events, responses, replies, prompts, viewVars>>

(* The timer: the request is denied.                                       *)
Timeout(r) ==
  /\ r \in pending
  /\ pending' = pending \ {r}
  /\ verdict' = [verdict EXCEPT ![r] = "deny"]
  /\ events' = Append(events, [kind |-> "timeout", id |-> r])
  /\ UNCHANGED <<instance, responses, replies, prompts, viewVars>>

(* Defect: the answer goes to the first request of the Map.                *)
RespondToFirst ==
  /\ responses # <<>>
  /\ LET r == IF pending = {} THEN NoPrompt
             ELSE CHOOSE q \in pending : \A p \in pending : q <= p
     IN IF r \in pending
        THEN /\ pending' = pending \ {r}
             /\ verdict' = [verdict EXCEPT ![r] = Head(responses).answer]
        ELSE UNCHANGED <<pending, verdict>>
  /\ responses' = Tail(responses)
  /\ replies' = Append(replies, Head(responses).id)
  /\ UNCHANGED <<instance, events, prompts, viewVars>>

(* respondToPermission of the manager.  The renderer does not look at the  *)
(* result, which is false for a request that is no longer pending.         *)
Respond ==
  /\ responses # <<>>
  /\ LET r == Head(responses).id
     IN IF r \in pending
        THEN /\ pending' = pending \ {r}
             /\ verdict' = [verdict EXCEPT ![r] = Head(responses).answer]
        ELSE UNCHANGED <<pending, verdict>>
  /\ responses' = Tail(responses)
  /\ replies' = Append(replies, Head(responses).id)
  /\ UNCHANGED <<instance, events, prompts, viewVars>>

(* addPendingPermission and removePendingPermission of the store.          *)
Receive ==
  /\ events # <<>>
  /\ events' = Tail(events)
  /\ ChangePrompts(IF Head(events).kind = "request" THEN prompts \cup {Head(events).id}
                                                    ELSE prompts \ {Head(events).id})
  /\ UNCHANGED <<managerVars, responses, replies, isSending>>

(* respondToPermission of the store goes on.  Replies come in the order of *)
(* the responses, and the response a bar waits for is the last.            *)
Replied ==
  /\ replies # <<>>
  /\ replies' = Tail(replies)
  /\ ChangePrompts(prompts \ {Head(replies)})
  /\ isSending' = (isSending /\ (Len(replies) > 1 \/ responses # <<>>))
  /\ UNCHANGED <<managerVars, events, responses>>

(* StructuredView shows the bar if there is a prompt (no instance ever has *)
(* the status needs_permission), when the instance is not pending and has  *)
(* output.                                                                 *)
Show(i) ==
  /\ memo' = Memo(i, prompts)
  /\ \E hasOutput \in BOOLEAN : bar' = (hasOutput /\ Selected(i, prompts) # NoPrompt)
  /\ shown' = IF bar' THEN Selected(i, prompts) ELSE NoPrompt
  /\ isSending' = (isSending /\ bar /\ bar')

(* The user opens the structured view of an instance.                      *)
Open(i) ==
  /\ view = None
  /\ view' = i
  /\ Show(i)
  /\ UNCHANGED <<managerVars, events, responses, replies, prompts>>

(* It is rendered anew with its parent, for some change of the instances.  *)
Render ==
  /\ view # None
  /\ Show(view)
  /\ UNCHANGED <<managerVars, events, responses, replies, prompts, view>>

(* The user turns to something else.                                       *)
Leave ==
  /\ view # None
  /\ view' = None
  /\ bar' = FALSE
  /\ shown' = NoPrompt
  /\ isSending' = FALSE
  /\ UNCHANGED <<managerVars, events, responses, replies, prompts, memo>>

(* Allow and Deny in the bar.                                              *)
Click(answer) ==
  /\ Len(responses) + Len(replies) < MaxClicks
  /\ shown # NoPrompt
  /\ ~isSending
  /\ responses' = Append(responses, [id |-> shown, answer |-> answer])
  /\ isSending' = TRUE
  /\ UNCHANGED <<managerVars, events, replies, prompts, memo, view, bar, shown>>

Next ==
  \/ \E i \in Instances : RequestPermission(i) \/ Open(i)
  \/ \E r \in Requests : Timeout(r)
  \/ Respond \/ Receive \/ Replied \/ Render \/ Leave
  \/ \E answer \in {"allow", "deny"} : Click(answer)

(* A timer that is not cleared goes off.  Nothing makes the user answer.   *)
Fairness == \A r \in Requests : WF_vars(Timeout(r))

Spec == Init /\ [][Next]_vars /\ Fairness

----------------------------------------------------------------------------
TypeOK ==
  /\ instance \in [Requests -> Instances \cup {None}]
  /\ pending \subseteq Requests
  /\ verdict \in [Requests -> {"none", "allow", "deny"}]
  /\ events \in Seq([kind : {"request", "timeout"}, id : Requests])
  /\ responses \in Seq([id : Requests, answer : {"allow", "deny"}])
  /\ replies \in Seq(Requests)
  /\ prompts \subseteq Requests
  /\ memo \in [instance : Instances \cup {None}, size : Nat,
               result : Requests \cup {NoPrompt}]
  /\ view \in Instances \cup {None}
  /\ bar \in BOOLEAN
  /\ shown \in Requests \cup {NoPrompt}
  /\ isSending \in BOOLEAN

(* The store follows the manager: a request that is pending is a prompt or *)
(* about to become one, and a prompt that is answered or timed out is      *)
(* about to leave the store, whichever of a late answer and the timer came *)
(* first.                                                                  *)
PromptsFollow ==
  /\ \A r \in pending :
       r \in prompts \/ [kind |-> "request", id |-> r] \in Range(events)
  /\ \A r \in prompts \ pending :
       \/ [kind |-> "timeout", id |-> r] \in Range(events)
       \/ \E c \in Range(responses) : c.id = r
       \/ r \in Range(replies)

(* The prompt that the bar of an instance shows, and that its buttons      *)
(* answer, is this instance's, however the view and the prompts change and *)
(* whatever the selector has kept from another view.                       *)
AnswersStayHome ==
  shown # NoPrompt => instance[shown] = view

(* The requests that responses under way allow.                            *)
Allowed(list) == {c.id : c \in {c \in Range(list) : c.answer = "allow"}}

(* Every request of the CLI is answered once, and is answered; the tool is *)
(* allowed only if the user clicked Allow at this request before its timer *)
(* went off.                                                               *)
Contract == INSTANCE PermissionContract WITH
  asked <- Made,
  consent <- {r \in Requests : verdict[r] = "allow"} \cup Allowed(responses)

KeepsContract == Contract!Spec

(* "Check for pending MCP permission prompt": what the bar shows is a      *)
(* prompt that is in the store.                                            *)
ShownIsInStore ==
  shown # NoPrompt => shown \in prompts
=============================================================================
