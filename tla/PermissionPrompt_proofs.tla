---------------------- MODULE PermissionPrompt_proofs ----------------------
(***************************************************************************)
(* Proofs about PermissionPrompt, for every set of instances and every     *)
(* number of requests and clicks: the prompts of the store follow the      *)
(* requests of the manager, answers stay in their instance's view, and     *)
(* each step keeps what the CLI and the user are promised.                 *)
(***************************************************************************)
EXTENDS PermissionPrompt, FiniteSetTheorems, TLAPS

Event(kind, r) == [kind |-> kind, id |-> r]

EventSet == [kind : {"request", "timeout"}, id : Requests]
ResponseSet == [id : Requests, answer : {"allow", "deny"}]

----------------------------------------------------------------------------
(* Queues.                                                                 *)
LEMMA RangeAppend ==
  ASSUME NEW S, NEW s \in Seq(S), NEW e \in S
  PROVE  Range(Append(s, e)) = Range(s) \cup {e}
<1>1. \A x \in Range(s) : x \in Range(Append(s, e))
  <2> SUFFICES ASSUME NEW k \in DOMAIN s PROVE s[k] \in Range(Append(s, e))
    BY Zenon DEF Range
  <2>1. k \in DOMAIN Append(s, e) /\ Append(s, e)[k] = s[k]
    OBVIOUS
  <2> QED BY <2>1, Zenon DEF Range
<1>2. e \in Range(Append(s, e))
  <2>1. Len(s) + 1 \in DOMAIN Append(s, e) /\ Append(s, e)[Len(s) + 1] = e
    OBVIOUS
  <2> QED BY <2>1, Zenon DEF Range
<1>3. \A x \in Range(Append(s, e)) : x \in Range(s) \/ x = e
  <2> SUFFICES ASSUME NEW k \in DOMAIN Append(s, e)
               PROVE  Append(s, e)[k] \in Range(s) \/ Append(s, e)[k] = e
    BY Zenon DEF Range
  <2>1. (k \in DOMAIN s /\ Append(s, e)[k] = s[k]) \/ Append(s, e)[k] = e
    OBVIOUS
  <2> QED BY <2>1, Zenon DEF Range
<1> QED BY <1>1, <1>2, <1>3, Zenon

LEMMA RangeTail ==
  ASSUME NEW S, NEW s \in Seq(S), s # <<>>
  PROVE  /\ Head(s) \in S
         /\ Tail(s) \in Seq(S)
         /\ Range(s) = {Head(s)} \cup Range(Tail(s))
<1>0. Head(s) \in S /\ Tail(s) \in Seq(S)
  OBVIOUS
<1>1. Head(s) \in Range(s)
  <2>1. 1 \in DOMAIN s /\ s[1] = Head(s)
    OBVIOUS
  <2> QED BY <2>1, Zenon DEF Range
<1>2. \A x \in Range(Tail(s)) : x \in Range(s)
  <2> SUFFICES ASSUME NEW k \in DOMAIN Tail(s) PROVE Tail(s)[k] \in Range(s)
    BY Zenon DEF Range
  <2>1. k + 1 \in DOMAIN s /\ Tail(s)[k] = s[k + 1]
    OBVIOUS
  <2> QED BY <2>1, Zenon DEF Range
<1>3. \A x \in Range(s) : x = Head(s) \/ x \in Range(Tail(s))
  <2> SUFFICES ASSUME NEW k \in DOMAIN s
               PROVE  s[k] = Head(s) \/ s[k] \in Range(Tail(s))
    BY Zenon DEF Range
  <2>1. s[k] = Head(s) \/ (k - 1 \in DOMAIN Tail(s) /\ Tail(s)[k - 1] = s[k])
    OBVIOUS
  <2> QED BY <2>1, Zenon DEF Range
<1> QED BY <1>0, <1>1, <1>2, <1>3, Zenon

LEMMA RangeEmpty == Range(<<>>) = {}
BY DEF Range

LEMMA RangeType ==
  ASSUME NEW S, NEW s \in Seq(S)
  PROVE  Range(s) \subseteq S
BY DEF Range

LEMMA AllowedAppend ==
  ASSUME NEW s \in Seq(ResponseSet), NEW c \in ResponseSet
  PROVE  Allowed(Append(s, c)) = Allowed(s) \cup (IF c.answer = "allow" THEN {c.id} ELSE {})
<1>1. Range(Append(s, c)) = Range(s) \cup {c}
  BY RangeAppend
<1> QED BY <1>1, Zenon DEF Allowed

LEMMA AllowedTail ==
  ASSUME NEW s \in Seq(ResponseSet), s # <<>>
  PROVE  Allowed(s) = Allowed(Tail(s))
                        \cup (IF Head(s).answer = "allow" THEN {Head(s).id} ELSE {})
<1>1. Range(s) = {Head(s)} \cup Range(Tail(s))
  BY RangeTail
<1> QED BY <1>1, Zenon DEF Allowed

----------------------------------------------------------------------------
(* The selector.                                                           *)
LEMMA WalkFinds ==
  ASSUME NEW i, NEW set \in SUBSET Requests
  PROVE  /\ Walk(i, set) \in set \cup {NoPrompt}
         /\ Walk(i, set) # NoPrompt => instance[Walk(i, set)] = i
<1>1. CASE Firsts(i, set) = {}
  BY <1>1 DEF Walk
<1>2. CASE Firsts(i, set) # {}
  <2>1. Walk(i, set) \in Firsts(i, set)
    BY <1>2, Zenon DEF Walk
  <2> QED BY <2>1 DEF Firsts
<1> QED BY <1>1, <1>2

LEMMA CardinalityType ==
  ASSUME NEW set \in SUBSET Requests
  PROVE  Cardinality(set) \in Nat
<1>1. IsFiniteSet(Requests)
  BY PromptAssumption, FS_Interval DEF Requests
<1> QED BY <1>1, FS_Subset, FS_CardinalityType

LEMMA SelectedType ==
  ASSUME TypeOK, NEW i \in Instances \cup {None}, NEW set \in SUBSET Requests
  PROVE  /\ Selected(i, set) \in Requests \cup {NoPrompt}
         /\ Memo(i, set) \in [instance : Instances \cup {None}, size : Nat,
                              result : Requests \cup {NoPrompt}]
<1>1. Selected(i, set) \in Requests \cup {NoPrompt}
  BY WalkFinds, Zenon DEF Selected, TypeOK
<1> QED BY <1>1, CardinalityType DEF Memo

----------------------------------------------------------------------------
(* Types.                                                                  *)
LEMMA InitType == Init => TypeOK
<1> SUFFICES ASSUME Init PROVE TypeOK
  OBVIOUS
<1>1. instance \in [Requests -> Instances \cup {None}]
  BY DEF Init
<1>2. verdict \in [Requests -> {"none", "allow", "deny"}]
  BY DEF Init
<1>3. memo \in [instance : Instances \cup {None}, size : Nat,
               result : Requests \cup {NoPrompt}]
  BY DEF Init
<1>4. events = <<>> /\ responses = <<>> /\ replies = <<>>
  BY DEF Init
<1>5. /\ events \in Seq([kind : {"request", "timeout"}, id : Requests])
      /\ responses \in Seq([id : Requests, answer : {"allow", "deny"}])
      /\ replies \in Seq(Requests)
  BY <1>4
<1>6. pending = {} /\ prompts = {} /\ view = None /\ bar = FALSE /\ shown = NoPrompt
      /\ isSending = FALSE
  BY DEF Init
<1> QED BY <1>1, <1>2, <1>3, <1>5, <1>6, Zenon DEF TypeOK

LEMMA ChangeType ==
  ASSUME TypeOK, NEW set \in SUBSET Requests, ChangePrompts(set)
  PROVE  /\ prompts' \subseteq Requests
         /\ memo' \in [instance : Instances \cup {None}, size : Nat,
                      result : Requests \cup {NoPrompt}]
         /\ view' = view /\ bar' = bar
         /\ shown' \in Requests \cup {NoPrompt}
<1>1. view \in Instances \cup {None}
  BY DEF TypeOK
<1>2. prompts' = set /\ view' = view /\ bar' = bar
  BY Zenon DEF ChangePrompts
<1>3. CASE bar
  <2>1. shown' = Selected(view, set) /\ memo' = Memo(view, set)
    BY <1>3, Zenon DEF ChangePrompts
  <2> QED BY <1>1, <1>2, <2>1, SelectedType, Zenon
<1>4. CASE ~bar
  <2>1. shown' = shown /\ memo' = memo
    BY <1>4, Zenon DEF ChangePrompts
  <2> QED BY <1>2, <2>1, Zenon DEF TypeOK
<1> QED BY <1>3, <1>4, Zenon

LEMMA ShowType ==
  ASSUME TypeOK, NEW i \in Instances \cup {None}, Show(i)
  PROVE  /\ memo' \in [instance : Instances \cup {None}, size : Nat,
                      result : Requests \cup {NoPrompt}]
         /\ bar' \in BOOLEAN
         /\ shown' \in Requests \cup {NoPrompt}
         /\ isSending' \in BOOLEAN
<1>1. prompts \in SUBSET Requests
  BY DEF TypeOK
<1>2. bar' \in BOOLEAN
  BY Zenon DEF Show
<1>3. isSending' \in BOOLEAN
  BY Zenon DEF Show
<1> QED BY <1>1, <1>2, <1>3, SelectedType, Zenon DEF Show

LEMMA NextType == TypeOK /\ [Next]_vars => TypeOK'
<1> SUFFICES ASSUME TypeOK, [Next]_vars PROVE TypeOK'
  OBVIOUS
<1> USE DEF managerVars, viewVars
<1>1. CASE \E i \in Instances : RequestPermission(i)
  <2> PICK i \in Instances : RequestPermission(i)
    BY <1>1
  <2> QED BY DEF RequestPermission, Made, TypeOK
<1>2. CASE \E i \in Instances : Open(i)
  <2> PICK i \in Instances : Open(i)
    BY <1>2
  <2> QED BY ShowType DEF Open, TypeOK
<1>3. CASE \E r \in Requests : Timeout(r)
  <2> PICK r \in Requests : Timeout(r)
    BY <1>3
  <2> QED BY DEF Timeout, TypeOK
<1>4. CASE Respond
  <2>1. Head(responses) \in ResponseSet /\ Tail(responses) \in Seq(ResponseSet)
    BY <1>4, RangeTail DEF Respond, TypeOK, ResponseSet
  <2>2. /\ Head(responses).id \in Requests
        /\ Head(responses).answer \in {"allow", "deny"}
    BY <2>1 DEF ResponseSet
  <2>3. pending' \subseteq Requests /\ verdict' \in [Requests -> {"none", "allow", "deny"}]
    BY <1>4, <2>2 DEF Respond, TypeOK
  <2>4. responses' \in Seq(ResponseSet) /\ replies' \in Seq(Requests)
    BY <1>4, <2>1, <2>2 DEF Respond, TypeOK
  <2> QED BY <1>4, <2>3, <2>4 DEF Respond, TypeOK, ResponseSet
<1>5. CASE Receive
  <2>1. Head(events) \in EventSet /\ Tail(events) \in Seq(EventSet)
    BY <1>5, RangeTail DEF Receive, TypeOK, EventSet
  <2> DEFINE set == IF Head(events).kind = "request" THEN prompts \cup {Head(events).id}
                                                     ELSE prompts \ {Head(events).id}
  <2>2. set \in SUBSET Requests
    BY <2>1 DEF TypeOK, EventSet
  <2>3. ChangePrompts(set)
    BY <1>5, Zenon DEF Receive
  <2> HIDE DEF set
  <2> QED BY <1>5, <2>1, <2>2, <2>3, ChangeType DEF Receive, TypeOK, EventSet
<1>6. CASE Replied
  <2>1. Tail(replies) \in Seq(Requests)
    BY <1>6, RangeTail DEF Replied, TypeOK
  <2>2. prompts \ {Head(replies)} \in SUBSET Requests
    BY DEF TypeOK
  <2>3. isSending' \in BOOLEAN
    BY <1>6, Zenon DEF Replied
  <2>4. /\ prompts' \subseteq Requests
        /\ memo' \in [instance : Instances \cup {None}, size : Nat,
                     result : Requests \cup {NoPrompt}]
        /\ view' = view /\ bar' = bar
        /\ shown' \in Requests \cup {NoPrompt}
    BY <1>6, <2>2, ChangeType DEF Replied
  <2> QED BY <1>6, <2>1, <2>3, <2>4 DEF Replied, TypeOK
<1>7. CASE Render
  BY <1>7, ShowType DEF Render, TypeOK
<1>8. CASE Leave
  BY <1>8 DEF Leave, TypeOK, NoPrompt
<1>9. CASE \E answer \in {"allow", "deny"} : Click(answer)
  <2> PICK answer \in {"allow", "deny"} : Click(answer)
    BY <1>9
  <2> QED BY DEF Click, TypeOK
<1>10. CASE UNCHANGED vars
  BY <1>10 DEF vars, TypeOK
<1> QED BY <1>1, <1>2, <1>3, <1>4, <1>5, <1>6, <1>7, <1>8, <1>9, <1>10 DEF Next

(* Type correctness.                                                       *)
THEOREM TypeCorrect == Spec => []TypeOK
<1>1. Init => TypeOK
  BY InitType
<1>2. TypeOK /\ [Next]_vars => TypeOK'
  BY NextType
<1> QED BY <1>1, <1>2, PTL DEF Spec

----------------------------------------------------------------------------
(* The view: what is shown, and what the selector remembers, belongs to    *)
(* the instance that it was looked up for.                                 *)
ViewInv ==
  /\ bar => view # None
  /\ shown # NoPrompt => bar /\ instance[shown] = view
  /\ memo.result # NoPrompt => /\ memo.instance # None
                               /\ instance[memo.result] = memo.instance

LEMMA SelectedHome ==
  ASSUME ViewInv, NEW i, NEW set \in SUBSET Requests
  PROVE  /\ Selected(i, set) # NoPrompt => instance[Selected(i, set)] = i
         /\ Selected(i, set) \in set \cup {NoPrompt, memo.result}
<1>1. CASE memo.instance = i /\ memo.size = Cardinality(set)
  BY <1>1, Zenon DEF Selected, ViewInv
<1>2. CASE ~(memo.instance = i /\ memo.size = Cardinality(set))
  BY <1>2, WalkFinds, Zenon DEF Selected
<1> QED BY <1>1, <1>2, Zenon

LEMMA ChangeView ==
  ASSUME TypeOK, ViewInv, NEW set \in SUBSET Requests, ChangePrompts(set), instance' = instance
  PROVE  /\ ViewInv'
         /\ shown' \in set \cup {NoPrompt, memo.result, shown}
         /\ memo'.result \in set \cup {NoPrompt, memo.result}
<1>1. view' = view /\ bar' = bar
  BY Zenon DEF ChangePrompts
<1>2. CASE bar
  <2>1. shown' = Selected(view, set) /\ memo' = Memo(view, set)
    BY <1>2, Zenon DEF ChangePrompts
  <2>2. memo'.result = Selected(view, set) /\ memo'.instance = view
    BY <2>1 DEF Memo
  <2>3. view # None
    BY <1>2 DEF ViewInv
  <2> QED BY <1>1, <1>2, <2>1, <2>2, <2>3, SelectedHome, Zenon DEF ViewInv
<1>3. CASE ~bar
  <2>1. shown' = shown /\ memo' = memo
    BY <1>3, Zenon DEF ChangePrompts
  <2> QED BY <1>1, <2>1, Zenon DEF ViewInv
<1> QED BY <1>2, <1>3, Zenon

LEMMA ShowView ==
  ASSUME TypeOK, ViewInv, NEW i \in Instances, Show(i), view' = i, instance' = instance
  PROVE  /\ ViewInv'
         /\ shown' \in prompts \cup {NoPrompt, memo.result}
         /\ memo'.result \in prompts \cup {NoPrompt, memo.result}
<1>1. prompts \in SUBSET Requests /\ i # None
  BY PromptAssumption DEF TypeOK
<1>2. memo'.result = Selected(i, prompts) /\ memo'.instance = i
  BY DEF Show, Memo
<1>3. shown' = IF bar' THEN Selected(i, prompts) ELSE NoPrompt
  BY Zenon DEF Show
<1> QED BY <1>1, <1>2, <1>3, SelectedHome, Zenon DEF ViewInv

LEMMA InitView == Init => ViewInv
BY DEF Init, ViewInv

LEMMA NextView == TypeOK /\ ViewInv /\ [Next]_vars => ViewInv'
<1> SUFFICES ASSUME TypeOK, ViewInv, [Next]_vars PROVE ViewInv'
  OBVIOUS
<1> USE DEF managerVars, viewVars
<1>1. CASE \E i \in Instances : RequestPermission(i)
  <2> PICK i \in Instances : RequestPermission(i)
    BY <1>1
  <2> PICK r \in Requests \ Made : instance' = [instance EXCEPT ![r] = i]
    BY DEF RequestPermission
  <2>1. instance[r] = None
    BY DEF Made
  <2>2. \A q \in Requests : instance[q] # None => instance'[q] = instance[q]
    BY <2>1 DEF TypeOK
  <2>3. UNCHANGED <<memo, view, bar, shown>>
    BY DEF RequestPermission
  <2>4. /\ shown # NoPrompt => shown \in Requests
        /\ memo.result # NoPrompt => memo.result \in Requests
    BY DEF TypeOK
  <2> QED BY <2>2, <2>3, <2>4 DEF ViewInv
<1>2. CASE \E i \in Instances : Open(i)
  <2> PICK i \in Instances : Open(i)
    BY <1>2
  <2> QED BY ShowView DEF Open
<1>3. CASE \E r \in Requests : Timeout(r)
  BY <1>3 DEF Timeout, ViewInv
<1>4. CASE Respond
  BY <1>4 DEF Respond, ViewInv
<1>5. CASE Receive
  <2>1. Head(events) \in EventSet
    BY <1>5, RangeTail DEF Receive, TypeOK, EventSet
  <2> DEFINE set == IF Head(events).kind = "request" THEN prompts \cup {Head(events).id}
                                                     ELSE prompts \ {Head(events).id}
  <2>2. set \in SUBSET Requests
    BY <2>1 DEF TypeOK, EventSet
  <2>3. ChangePrompts(set) /\ instance' = instance
    BY <1>5, Zenon DEF Receive
  <2> QED BY <2>2, <2>3, ChangeView
<1>6. CASE Replied
  <2>1. prompts \ {Head(replies)} \in SUBSET Requests
    BY DEF TypeOK
  <2> QED BY <1>6, <2>1, ChangeView DEF Replied
<1>7. CASE Render
  <2>1. view \in Instances
    BY <1>7 DEF Render, TypeOK
  <2> QED BY <1>7, <2>1, ShowView DEF Render
<1>8. CASE Leave
  BY <1>8 DEF Leave, ViewInv
<1>9. CASE \E answer \in {"allow", "deny"} : Click(answer)
  BY <1>9 DEF Click, ViewInv
<1>10. CASE UNCHANGED vars
  BY <1>10 DEF vars, ViewInv
<1> QED BY <1>1, <1>2, <1>3, <1>4, <1>5, <1>6, <1>7, <1>8, <1>9, <1>10 DEF Next

----------------------------------------------------------------------------
(* The events under way.  Of a request comes at most one "request", before *)
(* anything in the renderer has heard of it, and if it is not pending its  *)
(* "timeout" follows; a "timeout" is of a request that is not pending.     *)
Orderly(ev, pend, heard) ==
  /\ \A k \in DOMAIN ev : ev[k].kind = "timeout" => ev[k].id \notin pend
  /\ \A k \in DOMAIN ev : ev[k].kind = "request" => ev[k].id \notin heard
  /\ \A k, j \in DOMAIN ev :
       ev[k].kind = "request" /\ ev[j].kind = "request" /\ j > k => ev[j].id # ev[k].id
  /\ \A k \in DOMAIN ev : ev[k].kind = "request" =>
       \/ ev[k].id \in pend
       \/ \E j \in DOMAIN ev : j > k /\ ev[j].kind = "timeout" /\ ev[j].id = ev[k].id

LEMMA OrderlyRequest ==
  ASSUME NEW ev \in Seq(EventSet), NEW pend, NEW heard, Orderly(ev, pend, heard),
         NEW r \in Requests, r \notin heard, \A k \in DOMAIN ev : ev[k].id # r
  PROVE  Orderly(Append(ev, Event("request", r)), pend \cup {r}, heard)
<1> DEFINE new == Append(ev, Event("request", r))
<1>1. \A k \in DOMAIN new :
        \/ k \in DOMAIN ev /\ new[k] = ev[k]
        \/ k = Len(ev) + 1 /\ new[k].kind = "request" /\ new[k].id = r
  BY DEF Event
<1>2. \A k \in DOMAIN ev : k \in DOMAIN new /\ new[k] = ev[k] /\ k \in 1..Len(ev)
  OBVIOUS
<1>3. DOMAIN new = 1..(Len(ev) + 1) /\ Len(ev) \in Nat
  OBVIOUS
<1> HIDE DEF new
<1>4. \A k \in DOMAIN new : new[k].kind = "timeout" => new[k].id \notin pend \cup {r}
  BY <1>1 DEF Orderly
<1>5. \A k \in DOMAIN new : new[k].kind = "request" => new[k].id \notin heard
  BY <1>1 DEF Orderly
<1>6. \A k, j \in DOMAIN new :
        new[k].kind = "request" /\ new[j].kind = "request" /\ j > k => new[j].id # new[k].id
  BY <1>1, <1>2, <1>3 DEF Orderly
<1>7. \A k \in DOMAIN new : new[k].kind = "request" =>
        \/ new[k].id \in pend \cup {r}
        \/ \E j \in DOMAIN new : j > k /\ new[j].kind = "timeout" /\ new[j].id = new[k].id
  BY <1>1, <1>2 DEF Orderly
<1> QED BY <1>4, <1>5, <1>6, <1>7 DEF Orderly, new

LEMMA OrderlyTimeout ==
  ASSUME NEW ev \in Seq(EventSet), NEW pend, NEW heard, Orderly(ev, pend, heard),
         NEW r \in Requests
  PROVE  Orderly(Append(ev, Event("timeout", r)), pend \ {r}, heard)
<1> DEFINE new == Append(ev, Event("timeout", r))
<1>1. \A k \in DOMAIN new :
        \/ k \in DOMAIN ev /\ new[k] = ev[k]
        \/ k = Len(ev) + 1 /\ new[k].kind = "timeout" /\ new[k].id = r
  BY DEF Event
<1>2. \A k \in DOMAIN ev : k \in DOMAIN new /\ new[k] = ev[k] /\ k \in 1..Len(ev)
  OBVIOUS
<1>3. /\ Len(ev) \in Nat /\ Len(ev) + 1 \in DOMAIN new
      /\ new[Len(ev) + 1].kind = "timeout" /\ new[Len(ev) + 1].id = r
  BY DEF Event
<1> HIDE DEF new
<1>4. \A k \in DOMAIN new : new[k].kind = "timeout" => new[k].id \notin pend \ {r}
  BY <1>1 DEF Orderly
<1>5. \A k \in DOMAIN new : new[k].kind = "request" => new[k].id \notin heard
  BY <1>1 DEF Orderly
<1>6. \A k, j \in DOMAIN new :
        new[k].kind = "request" /\ new[j].kind = "request" /\ j > k => new[j].id # new[k].id
  BY <1>1 DEF Orderly
<1>7. \A k \in DOMAIN new : new[k].kind = "request" =>
        \/ new[k].id \in pend \ {r}
        \/ \E j \in DOMAIN new : j > k /\ new[j].kind = "timeout" /\ new[j].id = new[k].id
  <2> SUFFICES ASSUME NEW k \in DOMAIN new, new[k].kind = "request", new[k].id \notin pend \ {r}
               PROVE  \E j \in DOMAIN new :
                        j > k /\ new[j].kind = "timeout" /\ new[j].id = new[k].id
    BY Zenon
  <2>1. k \in DOMAIN ev /\ new[k] = ev[k] /\ k \in 1..Len(ev)
    BY <1>1, <1>2
  <2>2. CASE new[k].id = r
    BY <2>1, <2>2, <1>3
  <2>3. CASE new[k].id # r
    BY <2>1, <2>3, <1>2 DEF Orderly
  <2> QED BY <2>2, <2>3
<1> QED BY <1>4, <1>5, <1>6, <1>7 DEF Orderly, new

LEMMA OrderlyTail ==
  ASSUME NEW ev \in Seq(EventSet), ev # <<>>, NEW pend, NEW heard, Orderly(ev, pend, heard)
  PROVE  Orderly(Tail(ev), pend,
                 heard \cup IF Head(ev).kind = "request" THEN {Head(ev).id} ELSE {})
<1> DEFINE new == Tail(ev)
           more == IF Head(ev).kind = "request" THEN {Head(ev).id} ELSE {}
<1>1. \A k \in DOMAIN new : k \in Nat /\ k + 1 \in DOMAIN ev /\ new[k] = ev[k + 1] /\ k + 1 > 1
  OBVIOUS
<1>2. \A k \in DOMAIN ev : k \in Nat /\ (k > 1 => k - 1 \in DOMAIN new /\ new[k - 1] = ev[k])
  OBVIOUS
<1>3. 1 \in DOMAIN ev /\ ev[1] = Head(ev)
  OBVIOUS
<1> HIDE DEF new
<1>4. \A k \in DOMAIN new : new[k].kind = "timeout" => new[k].id \notin pend
  BY <1>1 DEF Orderly
<1>5. \A k \in DOMAIN new : new[k].kind = "request" => new[k].id \notin heard \cup more
  <2> SUFFICES ASSUME NEW k \in DOMAIN new, new[k].kind = "request"
               PROVE  new[k].id \notin heard \cup more
    BY Zenon
  <2>1. new[k].id \notin heard
    BY <1>1 DEF Orderly
  <2>2. Head(ev).kind = "request" => new[k].id # Head(ev).id
    BY <1>1, <1>3 DEF Orderly
  <2> QED BY <2>1, <2>2
<1>6. \A k, j \in DOMAIN new :
        new[k].kind = "request" /\ new[j].kind = "request" /\ j > k => new[j].id # new[k].id
  <2> SUFFICES ASSUME NEW k \in DOMAIN new, NEW j \in DOMAIN new, j > k,
                      new[k].kind = "request", new[j].kind = "request"
               PROVE  new[j].id # new[k].id
    BY Zenon
  <2>1. j + 1 > k + 1
    BY <1>1
  <2> QED BY <2>1, <1>1 DEF Orderly
<1>7. \A k \in DOMAIN new : new[k].kind = "request" =>
        \/ new[k].id \in pend
        \/ \E j \in DOMAIN new : j > k /\ new[j].kind = "timeout" /\ new[j].id = new[k].id
  <2> SUFFICES ASSUME NEW k \in DOMAIN new, new[k].kind = "request", new[k].id \notin pend
               PROVE  \E j \in DOMAIN new :
                        j > k /\ new[j].kind = "timeout" /\ new[j].id = new[k].id
    BY Zenon
  <2>1. PICK j \in DOMAIN ev : j > k + 1 /\ ev[j].kind = "timeout" /\ ev[j].id = new[k].id
    BY <1>1 DEF Orderly
  <2>2. j - 1 \in DOMAIN new /\ new[j - 1] = ev[j] /\ j - 1 > k
    BY <2>1, <1>1, <1>2
  <2> QED BY <2>1, <2>2
<1> QED BY <1>4, <1>5, <1>6, <1>7 DEF Orderly, new

LEMMA OrderlyAnswered ==
  ASSUME NEW ev, NEW pend, NEW heard, Orderly(ev, pend, heard), NEW r \in heard
  PROVE  Orderly(ev, pend \ {r}, heard)
BY DEF Orderly

LEMMA OrderlyLess ==
  ASSUME NEW ev, NEW pend, NEW heard, Orderly(ev, pend, heard), NEW less \in SUBSET heard
  PROVE  Orderly(ev, pend, less)
BY DEF Orderly

----------------------------------------------------------------------------
(* The manager and what is under way: a request is pending until it has    *)
(* its verdict, and only of requests that were made is anything known.     *)
Ids(list) == {c.id : c \in Range(list)}

Heard == prompts \cup {NoPrompt, memo.result, shown} \cup Ids(responses)

MailInv ==
  /\ \A r \in Requests : r \in pending <=> r \in Made /\ verdict[r] = "none"
  /\ \A r \in Requests : r \in Made \/ verdict[r] = "none"
  /\ Ids(events) \cup Ids(responses) \cup Range(replies) \cup prompts \subseteq Made
  /\ Range(replies) \cap pending = {}
  /\ Orderly(events, pending, Heard)

LEMMA IdsAppend ==
  ASSUME NEW S, NEW s \in Seq(S), NEW e \in S
  PROVE  Ids(Append(s, e)) = Ids(s) \cup {e.id}
<1>1. Range(Append(s, e)) = Range(s) \cup {e}
  BY RangeAppend
<1> QED BY <1>1, Zenon DEF Ids

LEMMA IdsTail ==
  ASSUME NEW S, NEW s \in Seq(S), s # <<>>
  PROVE  Ids(s) = {Head(s).id} \cup Ids(Tail(s))
<1>1. Range(s) = {Head(s)} \cup Range(Tail(s))
  BY RangeTail
<1> QED BY <1>1, Zenon DEF Ids

LEMMA IdsIndex ==
  ASSUME NEW s, NEW k \in DOMAIN s
  PROVE  s[k].id \in Ids(s)
BY Zenon DEF Ids, Range

(* What the view knows of has been made.                                   *)
LEMMA HeardMade ==
  ASSUME TypeOK, ViewInv, MailInv
  PROVE  Heard \subseteq Made \cup {NoPrompt}
<1>1. shown # NoPrompt => shown \in Made
  BY DEF ViewInv, TypeOK, Made
<1>2. memo.result # NoPrompt => memo.result \in Made
  BY DEF ViewInv, TypeOK, Made
<1> QED BY <1>1, <1>2, Zenon DEF Heard, MailInv

LEMMA InitMail == Init => MailInv /\ PromptsFollow
<1> SUFFICES ASSUME Init PROVE MailInv /\ PromptsFollow
  OBVIOUS
<1>1. Made = {}
  BY DEF Init, Made
<1>2. events = <<>> /\ responses = <<>> /\ replies = <<>> /\ prompts = {} /\ pending = {}
  BY DEF Init
<1>3. \A r \in Requests : verdict[r] = "none"
  BY DEF Init
<1>4. Range(events) = {} /\ Range(responses) = {} /\ Range(replies) = {}
  BY <1>2, RangeEmpty
<1>5. Ids(events) = {} /\ Ids(responses) = {}
  BY <1>4 DEF Ids
<1>6. Orderly(events, pending, Heard)
  BY <1>2 DEF Orderly
<1>7. MailInv
  BY <1>1, <1>2, <1>3, <1>4, <1>5, <1>6 DEF MailInv
<1>8. PromptsFollow
  BY <1>2 DEF PromptsFollow
<1> QED BY <1>7, <1>8

LEMMA RequestMail ==
  ASSUME TypeOK, ViewInv, MailInv, PromptsFollow,
         NEW i \in Instances, RequestPermission(i)
  PROVE  MailInv' /\ PromptsFollow'
<1> PICK r \in Requests \ Made :
       /\ instance' = [instance EXCEPT ![r] = i]
       /\ pending' = pending \cup {r}
       /\ events' = Append(events, Event("request", r))
  BY DEF RequestPermission, Event
<1>0. UNCHANGED <<verdict, responses, replies, prompts, memo, shown>>
  BY DEF RequestPermission, viewVars
<1>1. Made' = Made \cup {r}
  BY PromptAssumption DEF Made, TypeOK
<1>2. events \in Seq(EventSet) /\ Event("request", r) \in EventSet
      /\ Event("request", r).id = r
  BY DEF TypeOK, EventSet, Event
<1>3. Range(events') = Range(events) \cup {Event("request", r)}
  BY <1>2, RangeAppend
<1>4. Ids(events') = Ids(events) \cup {r}
  BY <1>2, IdsAppend
<1>5. r \notin Heard /\ Heard' = Heard
  <2>1. r # NoPrompt
    BY PromptAssumption DEF Requests, NoPrompt
  <2>2. r \notin Heard
    BY <2>1, HeardMade, Zenon
  <2> QED BY <1>0, <2>2 DEF Heard
<1>6. \A k \in DOMAIN events : events[k].id # r
  BY IdsIndex, Zenon DEF MailInv
<1>7. Orderly(events', pending', Heard')
  BY <1>2, <1>5, <1>6, OrderlyRequest DEF MailInv
<1>8. /\ \A q \in Requests : q \in pending' <=> q \in Made' /\ verdict'[q] = "none"
      /\ \A q \in Requests : q \in Made' \/ verdict'[q] = "none"
  BY <1>0, <1>1, Zenon DEF MailInv
<1>9. /\ Ids(events') \cup Ids(responses') \cup Range(replies') \cup prompts' \subseteq Made'
      /\ Range(replies') \cap pending' = {}
  BY <1>0, <1>1, <1>4 DEF MailInv
<1>10. PromptsFollow'
  BY <1>0, <1>3, Zenon DEF PromptsFollow, Event
<1> QED BY <1>7, <1>8, <1>9, <1>10 DEF MailInv

LEMMA TimeoutMail ==
  ASSUME TypeOK, ViewInv, MailInv, PromptsFollow, NEW r \in Requests, Timeout(r)
  PROVE  MailInv' /\ PromptsFollow'
<1>0. /\ UNCHANGED <<instance, responses, replies, prompts, memo, shown>>
      /\ r \in pending /\ pending' = pending \ {r}
      /\ verdict' = [verdict EXCEPT ![r] = "deny"]
      /\ events' = Append(events, Event("timeout", r))
  BY DEF Timeout, viewVars, Event
<1>1. Made' = Made /\ Heard' = Heard
  BY <1>0 DEF Made, Heard
<1>2. events \in Seq(EventSet) /\ Event("timeout", r) \in EventSet
      /\ Event("timeout", r).id = r
  BY DEF TypeOK, EventSet, Event
<1>3. Range(events') = Range(events) \cup {Event("timeout", r)}
  BY <1>0, <1>2, RangeAppend
<1>4. Ids(events') = Ids(events) \cup {r}
  BY <1>0, <1>2, IdsAppend
<1>5. Orderly(events', pending', Heard')
  BY <1>0, <1>1, <1>2, OrderlyTimeout DEF MailInv
<1>6. r \in Made
  BY <1>0 DEF MailInv
<1>7. /\ \A q \in Requests : q \in pending' <=> q \in Made' /\ verdict'[q] = "none"
      /\ \A q \in Requests : q \in Made' \/ verdict'[q] = "none"
  BY <1>0, <1>1, <1>6 DEF MailInv, TypeOK
<1>8. /\ Ids(events') \cup Ids(responses') \cup Range(replies') \cup prompts' \subseteq Made'
      /\ Range(replies') \cap pending' = {}
  BY <1>0, <1>1, <1>4, <1>6 DEF MailInv
<1>9. PromptsFollow'
  BY <1>0, <1>3, Zenon DEF PromptsFollow, Event
<1> QED BY <1>5, <1>7, <1>8, <1>9 DEF MailInv

LEMMA RespondMail ==
  ASSUME TypeOK, ViewInv, MailInv, PromptsFollow, Respond
  PROVE  MailInv' /\ PromptsFollow'
<1> DEFINE r == Head(responses).id
<1>0. /\ UNCHANGED <<instance, events, prompts, memo, shown>>
      /\ responses # <<>> /\ responses' = Tail(responses)
      /\ replies' = Append(replies, r)
  BY DEF Respond, viewVars
<1>1. Made' = Made
  BY <1>0 DEF Made
<1>2. responses \in Seq(ResponseSet) /\ Head(responses) \in ResponseSet
  BY <1>0, RangeTail DEF TypeOK, ResponseSet
<1>3. r \in Requests /\ Head(responses).answer \in {"allow", "deny"}
  BY <1>2 DEF ResponseSet
<1>4. Ids(responses) = {r} \cup Ids(responses')
  BY <1>0, <1>2, IdsTail
<1>5. Range(responses) = {Head(responses)} \cup Range(responses')
  BY <1>0, <1>2, RangeTail
<1>6. Range(replies') = Range(replies) \cup {r}
  BY <1>0, <1>3, RangeAppend DEF TypeOK
<1>7. Heard' \subseteq Heard /\ r \in Heard
  BY <1>0, <1>4 DEF Heard
<1>8. r \in Made
  BY <1>4 DEF MailInv
<1>9. pending' = pending \ {r}
  BY DEF Respond
<1>10. /\ \A q \in Requests : q # r => verdict'[q] = verdict[q]
       /\ verdict'[r] # "none"
  <2>1. CASE r \in pending
    BY <2>1, <1>3 DEF Respond, TypeOK
  <2>2. CASE r \notin pending
    BY <2>2, <1>3, <1>8 DEF Respond, MailInv
  <2> QED BY <2>1, <2>2
<1> HIDE DEF r
<1>11. Orderly(events', pending', Heard')
  <2>1. Orderly(events, pending', Heard)
    BY <1>7, <1>9, OrderlyAnswered DEF MailInv
  <2> QED BY <1>0, <1>7, <2>1, OrderlyLess
<1>12. /\ \A q \in Requests : q \in pending' <=> q \in Made' /\ verdict'[q] = "none"
       /\ \A q \in Requests : q \in Made' \/ verdict'[q] = "none"
  BY <1>1, <1>8, <1>9, <1>10 DEF MailInv
<1>13. /\ Ids(events') \cup Ids(responses') \cup Range(replies') \cup prompts' \subseteq Made'
       /\ Range(replies') \cap pending' = {}
  BY <1>0, <1>1, <1>4, <1>6, <1>8, <1>9 DEF MailInv
<1>14. PromptsFollow'
  BY <1>0, <1>5, <1>6, <1>9, Zenon DEF PromptsFollow, r
<1> QED BY <1>11, <1>12, <1>13, <1>14 DEF MailInv

LEMMA ReceiveMail ==
  ASSUME TypeOK, ViewInv, MailInv, PromptsFollow, Receive
  PROVE  MailInv' /\ PromptsFollow'
<1> DEFINE r == Head(events).id
           more == IF Head(events).kind = "request" THEN {r} ELSE {}
           set == IF Head(events).kind = "request" THEN prompts \cup {r} ELSE prompts \ {r}
<1>0. /\ UNCHANGED <<instance, pending, verdict, responses, replies>>
      /\ events # <<>> /\ events' = Tail(events)
      /\ ChangePrompts(set)
  BY DEF Receive, managerVars
<1>1. Made' = Made
  BY <1>0 DEF Made
<1>2. events \in Seq(EventSet) /\ Head(events) \in EventSet
  BY <1>0, RangeTail DEF TypeOK, EventSet
<1>3. r \in Requests /\ Head(events).kind \in {"request", "timeout"}
  BY <1>2 DEF EventSet
<1>4. set \in SUBSET Requests /\ set \subseteq prompts \cup more
  BY <1>3 DEF TypeOK
<1>5. Ids(events) = {r} \cup Ids(events')
  BY <1>0, <1>2, IdsTail
<1>6. Range(events) = {Head(events)} \cup Range(events')
  BY <1>0, <1>2, RangeTail
<1>7. Orderly(events', pending', Heard \cup more)
  BY <1>0, <1>2, OrderlyTail DEF MailInv
<1>8. Head(events).kind = "timeout" => r \notin pending
  <2>1. 1 \in DOMAIN events /\ events[1] = Head(events)
    BY <1>0, <1>2
  <2> QED BY <2>1 DEF MailInv, Orderly
<1>9. Head(events).kind = "request" => r \in pending \/ Event("timeout", r) \in Range(events')
  <2> SUFFICES ASSUME Head(events).kind = "request", r \notin pending
               PROVE  Event("timeout", r) \in Range(events')
    OBVIOUS
  <2>1. 1 \in DOMAIN events /\ events[1] = Head(events)
    BY <1>0, <1>2
  <2>2. PICK j \in DOMAIN events : j > 1 /\ events[j].kind = "timeout" /\ events[j].id = r
    BY <2>1 DEF MailInv, Orderly
  <2>3. events[j] \in EventSet
    BY <1>2
  <2>4. events[j] = Event("timeout", r)
    BY <2>2, <2>3 DEF EventSet, Event
  <2>5. j - 1 \in DOMAIN events' /\ events'[j - 1] = events[j]
    BY <1>0, <1>2, <2>2
  <2> QED BY <2>4, <2>5, Zenon DEF Range
<1>10. Head(events) = Event(Head(events).kind, r)
  BY <1>2 DEF EventSet, Event
<1>11. prompts' = set
  BY <1>0, Zenon DEF ChangePrompts
<1>12. /\ shown' \in set \cup {NoPrompt, memo.result, shown}
       /\ memo'.result \in set \cup {NoPrompt, memo.result}
  BY <1>0, <1>4, ChangeView
<1> HIDE DEF set, more
<1>13. Orderly(events', pending', Heard')
  <2>1. Heard' \subseteq Heard \cup more
    BY <1>0, <1>4, <1>11, <1>12, Zenon DEF Heard
  <2> QED BY <1>7, <2>1, OrderlyLess
<1>14. /\ \A q \in Requests : q \in pending' <=> q \in Made' /\ verdict'[q] = "none"
       /\ \A q \in Requests : q \in Made' \/ verdict'[q] = "none"
  BY <1>0, <1>1 DEF MailInv
<1>15. /\ Ids(events') \cup Ids(responses') \cup Range(replies') \cup prompts' \subseteq Made'
       /\ Range(replies') \cap pending' = {}
  BY <1>0, <1>1, <1>5, <1>11 DEF MailInv, set
<1>16. PromptsFollow'
  <2>1. CASE Head(events).kind = "request"
    <3>1. Head(events) = Event("request", r) /\ prompts' = prompts \cup {r}
      BY <2>1, <1>10, <1>11 DEF set
    <3>2. \A q : Head(events) # Event("timeout", q)
      BY <3>1 DEF Event
    <3>3. \A q : Head(events) = Event("request", q) => q = r
      BY <3>1 DEF Event
    <3> HIDE DEF r
    <3> QED BY <1>0, <1>6, <1>9, <2>1, <3>1, <3>2, <3>3, Zenon DEF PromptsFollow, Event
  <2>2. CASE Head(events).kind = "timeout"
    <3>1. Head(events) = Event("timeout", r) /\ prompts' = prompts \ {r}
      BY <2>2, <1>10, <1>11 DEF set
    <3>2. \A q : Head(events) # Event("request", q)
      BY <3>1 DEF Event
    <3>3. \A q : Head(events) = Event("timeout", q) => q = r
      BY <3>1 DEF Event
    <3> HIDE DEF r
    <3> QED BY <1>0, <1>6, <1>8, <2>2, <3>1, <3>2, <3>3, Zenon DEF PromptsFollow, Event
  <2> QED BY <1>3, <2>1, <2>2
<1> QED BY <1>13, <1>14, <1>15, <1>16 DEF MailInv

LEMMA RepliedMail ==
  ASSUME TypeOK, ViewInv, MailInv, PromptsFollow, Replied
  PROVE  MailInv' /\ PromptsFollow'
<1> DEFINE r == Head(replies)
<1>0. /\ UNCHANGED <<instance, pending, verdict, events, responses>>
      /\ replies # <<>> /\ replies' = Tail(replies)
      /\ ChangePrompts(prompts \ {r})
  BY DEF Replied, managerVars
<1>1. Made' = Made
  BY <1>0 DEF Made
<1>2. prompts \ {r} \in SUBSET Requests
  BY DEF TypeOK
<1>3. Range(replies) = {r} \cup Range(replies')
  BY <1>0, RangeTail DEF TypeOK
<1>4. prompts' = prompts \ {r}
  BY <1>0, Zenon DEF ChangePrompts
<1>5. /\ shown' \in (prompts \ {r}) \cup {NoPrompt, memo.result, shown}
      /\ memo'.result \in (prompts \ {r}) \cup {NoPrompt, memo.result}
  BY <1>0, <1>2, ChangeView
<1>6. r \notin pending
  BY <1>3 DEF MailInv
<1> HIDE DEF r
<1>7. Orderly(events', pending', Heard')
  <2>1. Heard' \subseteq Heard
    BY <1>0, <1>4, <1>5, Zenon DEF Heard
  <2> QED BY <1>0, <2>1, OrderlyLess DEF MailInv
<1>8. /\ \A q \in Requests : q \in pending' <=> q \in Made' /\ verdict'[q] = "none"
      /\ \A q \in Requests : q \in Made' \/ verdict'[q] = "none"
  BY <1>0, <1>1 DEF MailInv
<1>9. /\ Ids(events') \cup Ids(responses') \cup Range(replies') \cup prompts' \subseteq Made'
      /\ Range(replies') \cap pending' = {}
  BY <1>0, <1>1, <1>3, <1>4 DEF MailInv
<1>10. PromptsFollow'
  BY <1>0, <1>3, <1>4, <1>6, Zenon DEF PromptsFollow
<1> QED BY <1>7, <1>8, <1>9, <1>10 DEF MailInv

(* What happens in the view only is about prompts that have been heard of. *)
LEMMA ViewMail ==
  ASSUME TypeOK, ViewInv, MailInv, PromptsFollow,
         UNCHANGED <<managerVars, events, responses, replies, prompts>>,
         shown' \in prompts \cup {NoPrompt, memo.result},
         memo'.result \in prompts \cup {NoPrompt, memo.result}
  PROVE  MailInv' /\ PromptsFollow'
<1>0. UNCHANGED <<instance, pending, verdict, events, responses, replies, prompts>>
  BY DEF managerVars
<1>1. Made' = Made /\ Ids(events') = Ids(events) /\ Ids(responses') = Ids(responses)
  BY <1>0 DEF Made, Ids
<1>2. Orderly(events', pending', Heard')
  <2>1. Heard' \subseteq Heard
    BY <1>0, <1>1, Zenon DEF Heard
  <2> QED BY <1>0, <2>1, OrderlyLess DEF MailInv
<1>3. PromptsFollow'
  BY <1>0, Zenon DEF PromptsFollow
<1> QED BY <1>0, <1>1, <1>2, <1>3 DEF MailInv

LEMMA ClickMail ==
  ASSUME TypeOK, ViewInv, MailInv, PromptsFollow, NEW answer \in {"allow", "deny"},
         Click(answer)
  PROVE  MailInv' /\ PromptsFollow'
<1> DEFINE c == [id |-> shown, answer |-> answer]
<1>0. /\ UNCHANGED <<instance, pending, verdict, events, replies, prompts, memo, shown>>
      /\ shown # NoPrompt /\ responses' = Append(responses, c)
  BY DEF Click, managerVars
<1>1. Made' = Made
  BY <1>0 DEF Made
<1>2. c \in ResponseSet /\ responses \in Seq(ResponseSet) /\ c.id = shown
  BY <1>0 DEF TypeOK, ResponseSet
<1>3. Ids(responses') = Ids(responses) \cup {shown}
  BY <1>0, <1>2, IdsAppend
<1>4. Range(responses') = Range(responses) \cup {c}
  BY <1>0, <1>2, RangeAppend
<1>5. shown \in Made
  BY <1>0, HeardMade DEF Heard
<1>6. Heard' = Heard
  BY <1>0, <1>3 DEF Heard
<1>7. PromptsFollow'
  BY <1>0, <1>4, Zenon DEF PromptsFollow
<1> QED BY <1>0, <1>1, <1>3, <1>5, <1>6, <1>7 DEF MailInv

LEMMA NextMail ==
  TypeOK /\ ViewInv /\ MailInv /\ PromptsFollow /\ [Next]_vars => MailInv' /\ PromptsFollow'
<1> SUFFICES ASSUME TypeOK, ViewInv, MailInv, PromptsFollow, [Next]_vars
             PROVE  MailInv' /\ PromptsFollow'
  OBVIOUS
<1>1. CASE \E i \in Instances : RequestPermission(i)
  BY <1>1, RequestMail
<1>2. CASE \E i \in Instances : Open(i)
  BY <1>2, ShowView, ViewMail DEF Open, managerVars
<1>3. CASE \E r \in Requests : Timeout(r)
  BY <1>3, TimeoutMail
<1>4. CASE Respond
  BY <1>4, RespondMail
<1>5. CASE Receive
  BY <1>5, ReceiveMail
<1>6. CASE Replied
  BY <1>6, RepliedMail
<1>7. CASE Render
  <2>1. view \in Instances
    BY <1>7 DEF Render, TypeOK
  <2> QED BY <1>7, <2>1, ShowView, ViewMail DEF Render, managerVars
<1>8. CASE Leave
  BY <1>8, ViewMail DEF Leave, managerVars
<1>9. CASE \E answer \in {"allow", "deny"} : Click(answer)
  BY <1>9, ClickMail
<1>10. CASE UNCHANGED vars
  <2>1. UNCHANGED <<instance, pending, verdict, events, responses, replies, prompts,
                    memo, shown>>
    BY <1>10 DEF vars, managerVars, viewVars
  <2>2. Made' = Made /\ Heard' = Heard
    BY <2>1 DEF Made, Heard, Ids
  <2> QED BY <2>1, <2>2 DEF MailInv, PromptsFollow, Ids
<1> QED BY <1>1, <1>2, <1>3, <1>4, <1>5, <1>6, <1>7, <1>8, <1>9, <1>10 DEF Next

(* These follow from the view, the messages and the prompts together.      *)
LEMMA PromptsCorrect == Spec => [](PromptsFollow /\ AnswersStayHome /\ MailInv)
<1> DEFINE I == TypeOK /\ ViewInv /\ MailInv /\ PromptsFollow
<1>1. Init => I
  BY InitType, InitView, InitMail
<1>2. I /\ [Next]_vars => I'
  BY NextType, NextView, NextMail
<1>3. I => PromptsFollow /\ AnswersStayHome /\ MailInv
  BY DEF ViewInv, AnswersStayHome
<1> QED BY <1>1, <1>2, <1>3, PTL DEF Spec

(* The prompts of the store follow the pending requests of the manager.    *)
THEOREM PromptsAreCurrent == Spec => []PromptsFollow
BY PromptsCorrect, PTL

(* The buttons of an instance's view answer this instance's requests.      *)
THEOREM AnswersGoHome == Spec => []AnswersStayHome
BY PromptsCorrect, PTL

(* Nothing is under way between the processes.                             *)
AllDelivered == events = <<>> /\ responses = <<>> /\ replies = <<>>

(* The store's pendingPermissions and the manager's pendingRequests are    *)
(* the same once every message has come, whatever order they came in.      *)
StoresAgree == AllDelivered => prompts = pending

(* Nothing that was asked or answered is left out between the processes.   *)
THEOREM StoresComeToAgree == Spec => []StoresAgree
<1>1. PromptsFollow => StoresAgree
  BY RangeEmpty DEF PromptsFollow, StoresAgree, AllDelivered
<1> QED BY <1>1, PromptsCorrect, PTL

(* A request that has no verdict is in pendingRequests, where its timer    *)
(* is: there is no request that only the user could answer.  This is the   *)
(* part of "every request is answered" that is a safety property; the rest *)
(* is that timers go off.                                                  *)
UnansweredHasTimer == \A r \in Made : verdict[r] = "none" => r \in pending

(* Every request without a verdict can still time out.                     *)
THEOREM UnansweredHaveTimers == Spec => []UnansweredHasTimer
<1>1. MailInv => UnansweredHasTimer
  BY DEF MailInv, UnansweredHasTimer, Made
<1> QED BY <1>1, PromptsCorrect, PTL

----------------------------------------------------------------------------
(* The contract.                                                           *)
Consents == {r \in Requests : verdict[r] = "allow"} \cup Allowed(responses)

LEMMA InitContract == Init => Contract!Init
<1> SUFFICES ASSUME Init PROVE Contract!Init
  OBVIOUS
<1>1. Made = {}
  BY DEF Init, Made
<1>2. Allowed(responses) = {}
  BY RangeEmpty DEF Init, Allowed
<1>3. verdict = [r \in Requests |-> "none"]
  BY DEF Init
<1> QED BY <1>1, <1>2, <1>3 DEF Contract!Init

LEMMA StepContract ==
  TypeOK /\ ViewInv /\ MailInv /\ [Next]_vars => [Contract!Next]_(Contract!vars)
<1> SUFFICES ASSUME TypeOK, ViewInv, MailInv, [Next]_vars
             PROVE  [Contract!Next]_(Contract!vars)
  OBVIOUS
<1>0. ASSUME UNCHANGED <<instance, verdict, responses>>
      PROVE  [Contract!Next]_(Contract!vars)
  <2>1. Made' = Made /\ Consents' = Consents
    BY <1>0 DEF Made, Consents, Allowed
  <2> QED BY <1>0, <2>1 DEF Contract!vars, Consents
<1>1. CASE \E i \in Instances : RequestPermission(i)
  <2> PICK i \in Instances : RequestPermission(i)
    BY <1>1
  <2> PICK r \in Requests \ Made : instance' = [instance EXCEPT ![r] = i]
    BY DEF RequestPermission
  <2>1. Made' = Made \cup {r}
    BY PromptAssumption DEF Made, TypeOK
  <2>2. UNCHANGED <<verdict, responses>>
    BY DEF RequestPermission
  <2>3. Consents' = Consents
    BY <2>2 DEF Consents, Allowed
  <2>4. Contract!Ask(r)
    BY <2>1, <2>2, <2>3 DEF Contract!Ask, Consents
  <2> QED BY <2>4 DEF Contract!Next
<1>2. CASE \E i \in Instances : Open(i)
  BY <1>0, <1>2 DEF Open, managerVars
<1>3. CASE \E r \in Requests : Timeout(r)
  <2> PICK r \in Requests : Timeout(r)
    BY <1>3
  <2>1. /\ UNCHANGED <<instance, responses>> /\ r \in pending
        /\ verdict' = [verdict EXCEPT ![r] = "deny"]
    BY DEF Timeout
  <2>2. r \in Made /\ verdict[r] = "none" /\ Made' = Made
    BY <2>1 DEF MailInv, Made
  <2>3. {q \in Requests : verdict'[q] = "allow"} = {q \in Requests : verdict[q] = "allow"}
    BY <2>1, <2>2 DEF TypeOK
  <2>4. Consents' = Consents
    BY <2>1, <2>3 DEF Consents, Allowed
  <2>5. Contract!Decide(r)
    BY <2>1, <2>2, <2>4 DEF Contract!Decide, Consents
  <2> QED BY <2>5 DEF Contract!Next
<1>4. CASE Respond
  <2> DEFINE r == Head(responses).id
             answer == Head(responses).answer
             allowed == {q \in Requests : verdict[q] = "allow"}
  <2>1. /\ UNCHANGED instance /\ responses # <<>> /\ responses' = Tail(responses)
        /\ r \in pending => verdict' = [verdict EXCEPT ![r] = answer]
        /\ r \notin pending => verdict' = verdict
    BY <1>4 DEF Respond
  <2>2. responses \in Seq(ResponseSet) /\ Head(responses) \in ResponseSet
    BY <2>1, RangeTail DEF TypeOK, ResponseSet
  <2>3. r \in Requests /\ answer \in {"allow", "deny"}
    BY <2>2 DEF ResponseSet
  <2>4. Made' = Made
    BY <2>1 DEF Made
  <2>5. r \in Made
    BY <2>1, <2>2, IdsTail DEF MailInv
  <2>6. Allowed(responses) = Allowed(responses') \cup (IF answer = "allow" THEN {r} ELSE {})
    BY <2>1, <2>2, AllowedTail
  <2>7. Consents = allowed \cup Allowed(responses)
        /\ Consents' = {q \in Requests : verdict'[q] = "allow"} \cup Allowed(responses')
    BY Zenon DEF Consents
  <2> HIDE DEF r, answer
  <2>8. CASE r \in pending
    <3>1. verdict[r] = "none" /\ verdict' = [verdict EXCEPT ![r] = answer]
      BY <2>1, <2>3, <2>8 DEF MailInv
    <3>2. {q \in Requests : verdict'[q] = "allow"}
            = allowed \cup (IF answer = "allow" THEN {r} ELSE {})
      BY <2>3, <3>1 DEF TypeOK
    <3>3. Consents' = Consents
      BY <2>6, <2>7, <3>2, Zenon
    <3>4. answer = "allow" => r \in Consents
      BY <2>6, <2>7, Zenon
    <3>5. Contract!Decide(r)
      BY <2>3, <2>4, <2>5, <3>1, <3>3, <3>4 DEF Contract!Decide, Consents
    <3> QED BY <2>3, <3>5 DEF Contract!Next
  <2>9. CASE r \notin pending
    <3>1. verdict' = verdict /\ verdict[r] # "none"
      BY <2>1, <2>3, <2>5, <2>9 DEF MailInv
    <3>2. CASE Consents' = Consents
      BY <2>4, <3>1, <3>2 DEF Contract!vars, Consents
    <3>3. CASE Consents' # Consents
      <4>1. Consents' = allowed \cup Allowed(responses')
        BY <2>7, <3>1, Zenon
      <4>2. answer = "allow" /\ r \notin Consents' /\ Consents = Consents' \cup {r}
        BY <2>6, <2>7, <3>3, <4>1
      <4>3. verdict[r] = "deny"
        BY <2>3, <3>1, <4>1, <4>2 DEF TypeOK
      <4>4. Consents' = Consents \ {r}
        BY <4>2
      <4>5. PICK q \in Requests : q = r
        BY <2>3
      <4>6. Contract!TooLate(q)
        BY <2>4, <3>1, <4>3, <4>4, <4>5 DEF Contract!TooLate, Consents
      <4> QED BY <4>6 DEF Contract!Next
    <3> QED BY <3>2, <3>3
  <2> QED BY <2>8, <2>9
<1>5. CASE Receive
  BY <1>0, <1>5 DEF Receive, managerVars
<1>6. CASE Replied
  BY <1>0, <1>6 DEF Replied, managerVars
<1>7. CASE Render
  BY <1>0, <1>7 DEF Render, managerVars
<1>8. CASE Leave
  BY <1>0, <1>8 DEF Leave, managerVars
<1>9. CASE \E answer \in {"allow", "deny"} : Click(answer)
  <2> PICK answer \in {"allow", "deny"} : Click(answer)
    BY <1>9
  <2> DEFINE c == [id |-> shown, answer |-> answer]
  <2>1. /\ UNCHANGED <<instance, verdict>> /\ shown # NoPrompt
        /\ responses' = Append(responses, c)
    BY DEF Click, managerVars
  <2>2. c \in ResponseSet /\ responses \in Seq(ResponseSet)
    BY <2>1 DEF TypeOK, ResponseSet
  <2>3. Allowed(responses')
          = Allowed(responses) \cup (IF c.answer = "allow" THEN {c.id} ELSE {})
    BY <2>1, <2>2, AllowedAppend
  <2>4. Made' = Made /\ shown \in Made /\ shown \in Requests
    BY <2>1, HeardMade DEF Made, Heard
  <2>5. CASE answer = "allow"
    <3>1. Consents' = Consents \cup {shown}
      BY <2>1, <2>3, <2>5 DEF Consents
    <3>2. PICK q \in Requests : q = shown
      BY <2>4
    <3>3. Contract!Consent(q)
      BY <2>1, <2>4, <3>1, <3>2 DEF Contract!Consent, Consents
    <3> QED BY <3>3 DEF Contract!Next
  <2>6. CASE answer = "deny"
    <3>1. Consents' = Consents
      BY <2>1, <2>3, <2>6 DEF Consents
    <3> QED BY <2>1, <2>4, <3>1 DEF Contract!vars, Consents
  <2> QED BY <2>5, <2>6
<1>10. CASE UNCHANGED vars
  BY <1>0, <1>10 DEF vars, managerVars
<1> QED BY <1>1, <1>2, <1>3, <1>4, <1>5, <1>6, <1>7, <1>8, <1>9, <1>10 DEF Next

(* No request gets two verdicts, none that nobody asked for, and "allow"   *)
(* only with the user's consent: each step is one of the contract, or      *)
(* changes nothing that it speaks of.  (That every request gets its        *)
(* verdict needs the timers' fairness and is checked, not proved.)         *)
THEOREM ContractKept == Spec => Contract!Init /\ [][Contract!Next]_(Contract!vars)
<1> DEFINE I == TypeOK /\ ViewInv /\ MailInv /\ PromptsFollow
<1>1. Init => I /\ Contract!Init
  BY InitType, InitView, InitMail, InitContract
<1>2. I /\ [Next]_vars => I' /\ [Contract!Next]_(Contract!vars)
  BY NextType, NextView, NextMail, StepContract
<1> QED BY <1>1, <1>2, PTL DEF Spec
=============================================================================
