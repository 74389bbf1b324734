------------------------ MODULE OperationalInboxProofs ------------------------
(***************************************************************************)
(* Proofs about OperationalInbox, for any sessions, targets, intents,      *)
(* events and orders of arrival.  The inductive invariant relates an item, *)
(* the decisions it does or did show, and the requests handed out: what a  *)
(* request was made on is settled, and an item shows an intent only from   *)
(* its recording to the next attention of the session.                     *)
(***************************************************************************)
EXTENDS OperationalInbox, TLAPS

\* A decision belongs to a session with an item, and the item's intent to a decision.
DecisionsHaveItems ==
    \A i \in IntentIds :
        decisions[i] # Absent => items[decisions[i].intent.session] # Absent
IntentsAreDecisions ==
    \A s \in Sessions : items[s] # Absent /\ items[s].intent # Absent =>
        /\ decisions[items[s].intent] # Absent
        /\ decisions[items[s].intent].intent.session = s

\* An item without a decision has no receipt, so recording an intent keeps none.
UndecidedHasNoReceipt ==
    \A s \in Sessions :
        items[s] # Absent /\ items[s].status = "NeedsDecision" => ~items[s].receipt

\* The request for the intent an item shows was made while it was this attention.
RequestedFor(i, sequence) ==
    \E n \in DOMAIN sent : sent[n].intent = i /\ sent[n].item.sequence = sequence
DispatchedWhileShown ==
    \A i \in IntentIds :
        LET item == items[decisions[i].intent.session]
        IN decisions[i] # Absent /\ decisions[i].dispatched /\ item.intent = i
            => RequestedFor(i, item.sequence)

\* An authorization is for the target and the policy revision of its intent.
AuthorizationsMatch ==
    \A i \in IntentIds :
        decisions[i] # Absent /\ decisions[i].authorization # Absent =>
            /\ decisions[i].authorization.target = decisions[i].intent.target
            /\ decisions[i].authorization.revision = decisions[i].intent.revision

\* A decision remembers that its request was handed out.
RequestsAreRemembered ==
    \A n \in DOMAIN sent :
        decisions[sent[n].intent] # Absent /\ decisions[sent[n].intent].dispatched

IInv ==
    /\ InboxTypeOK
    /\ DecisionsHaveItems /\ IntentsAreDecisions /\ UndecidedHasNoReceipt
    /\ DispatchedWhileShown /\ AuthorizationsMatch /\ RequestsAreRemembered
    /\ ReceiptsSettleTheirItem /\ RequestsAreAuthorized

------------------------------------------------------------------------------
(* Nothing is shown, decided or handed out at first. *)
LEMMA InitIInv == InboxInit => IInv
  <1> SUFFICES ASSUME InboxInit PROVE IInv
    OBVIOUS
  <1>1. InboxTypeOK
    BY DEF InboxInit, InboxTypeOK
  <1> QED
    BY <1>1, AbsentAssumption DEF InboxInit, IInv, DecisionsHaveItems, IntentsAreDecisions,
       UndecidedHasNoReceipt, DispatchedWhileShown, AuthorizationsMatch,
       RequestsAreRemembered, ReceiptsSettleTheirItem, RequestsAreAuthorized

\* What the types say of a decision.
LEMMA DecisionFields ==
    ASSUME InboxTypeOK, NEW i \in IntentIds, decisions[i] # Absent
    PROVE  /\ decisions[i] \in Decision
           /\ decisions[i].intent \in ActionIntent
           /\ decisions[i].intent.session \in Sessions
           /\ decisions[i].authorization \in Authorization \cup {Absent}
           /\ decisions[i].confirmed \in BOOLEAN /\ decisions[i].dispatched \in BOOLEAN
  BY DEF InboxTypeOK, Decision, ActionIntent

\* What the types say of an item.
LEMMA ItemFields ==
    ASSUME InboxTypeOK, NEW s \in Sessions, items[s] # Absent
    PROVE  /\ items[s] \in InboxItem
           /\ items[s].intent \in IntentIds \cup {Absent}
           /\ items[s].status \in ItemStatus /\ items[s].receipt \in BOOLEAN
           /\ items[s].risk \in Risks
  BY DEF InboxTypeOK, InboxItem

(* A newer attention replaces the item; decisions and requests stay as they are. *)
LEMMA AttentionKeepsIInv ==
    ASSUME IInv, NEW e \in Attentions, ApplyAttention(e) PROVE IInv'
  <1> USE AbsentAssumption DEF IInv, InboxTypeOK
  <1> DEFINE new == [target |-> e.target, risk |-> e.risk, sequence |-> e.sequence,
                     status |-> "NeedsDecision", intent |-> Absent, receipt |-> FALSE]
  <1>1. new \in InboxItem /\ e \in CanonicalEvent /\ e.session \in Sessions
    BY DEF Attentions, InboxItem, ItemStatus, CanonicalEvent
  <1>2. /\ items' = [items EXCEPT ![e.session] = new]
        /\ decisions' = decisions /\ sent' = sent
        /\ seen' = Append(seen, e)
    BY DEF ApplyAttention, AttentionItem, Apply
  <1>3. InboxTypeOK'
    BY <1>1, <1>2
  <1>4. new # Absent /\ new.intent = Absent /\ ~new.receipt
    BY <1>1
  <1> HIDE DEF new
  <1>5. DecisionsHaveItems' /\ IntentsAreDecisions'
    <2>1. DecisionsHaveItems'
      BY <1>1, <1>2, <1>4, DecisionFields DEF DecisionsHaveItems
    <2>2. IntentsAreDecisions'
      BY <1>1, <1>2, <1>4 DEF IntentsAreDecisions
    <2> QED
      BY <2>1, <2>2
  <1>6. UndecidedHasNoReceipt'
    BY <1>1, <1>2, <1>4 DEF UndecidedHasNoReceipt
  <1>7. DispatchedWhileShown'
    BY <1>1, <1>2, <1>4, DecisionFields DEF DispatchedWhileShown, RequestedFor
  <1>8. AuthorizationsMatch' /\ RequestsAreRemembered' /\ RequestsAreAuthorized'
    BY <1>2 DEF AuthorizationsMatch, RequestsAreRemembered, RequestsAreAuthorized, Approved
  <1>9. ReceiptsSettleTheirItem'
    BY <1>1, <1>2, <1>4 DEF ReceiptsSettleTheirItem
  <1> QED
    BY <1>3, <1>5, <1>6, <1>7, <1>8, <1>9

\* Changing the status of an item changes nothing else in it.
LEMMA StatusChange ==
    ASSUME NEW item \in InboxItem, NEW st \in ItemStatus
    PROVE  /\ [item EXCEPT !.status = st] \in InboxItem
           /\ [item EXCEPT !.status = st].status = st
           /\ [item EXCEPT !.status = st].intent = item.intent
           /\ [item EXCEPT !.status = st].receipt = item.receipt
           /\ [item EXCEPT !.status = st].sequence = item.sequence
  BY DEF InboxItem

(* An authorization is recorded once, for an intent that the item still shows. *)
LEMMA AuthorizationKeepsIInv ==
    ASSUME IInv, NEW a \in Authorization, ApplyAuthorization(a) PROVE IInv'
  <1> USE AbsentAssumption DEF IInv
  <1> DEFINE d == decisions[a.intent]
             s == d.intent.session
             st == AuthorizedStatus(a, items[s].risk, d.intent.action)
             newItem == [items[s] EXCEPT !.status = st]
             newD == [d EXCEPT !.authorization = a]
  <1>1. a.intent \in IntentIds /\ a \in CanonicalEvent
    BY DEF Authorization, CanonicalEvent
  <1>2. /\ d # Absent /\ d \in Decision /\ s \in Sessions /\ items[s] # Absent
        /\ items[s] \in InboxItem /\ d.authorization = Absent
    BY <1>1, DecisionFields, ItemFields
       DEF ApplyAuthorization, AuthorizationMatches, DecisionsHaveItems
  <1>3. /\ items' = [items EXCEPT ![s] = newItem]
        /\ decisions' = [decisions EXCEPT ![a.intent] = newD]
        /\ sent' = sent /\ seen' = Append(seen, a)
    BY <1>2 DEF ApplyAuthorization, Apply
  <1>4. st \in ItemStatus /\ st # "NeedsDecision"
    BY DEF AuthorizedStatus, ItemStatus
  <1>5. /\ newItem \in InboxItem /\ newItem # Absent /\ newItem.status # "NeedsDecision"
        /\ newItem.intent = items[s].intent /\ newItem.receipt = items[s].receipt
        /\ newItem.sequence = items[s].sequence
    <2> HIDE DEF st
    <2> QED BY <1>2, <1>4, StatusChange
  <1>6. /\ newD \in Decision /\ newD # Absent /\ newD.intent = d.intent
        /\ newD.dispatched = d.dispatched /\ newD.authorization = a
    BY <1>2 DEF Decision
  <1>7. a.target = d.intent.target /\ a.revision = d.intent.revision
    BY DEF ApplyAuthorization, AuthorizationMatches
  <1> HIDE DEF newItem, newD
  <1>8. InboxTypeOK'
    BY <1>1, <1>2, <1>3, <1>5, <1>6 DEF InboxTypeOK
  <1>9. DecisionsHaveItems'
    BY <1>1, <1>2, <1>3, <1>5, <1>6, DecisionFields DEF DecisionsHaveItems, InboxTypeOK
  <1>10. IntentsAreDecisions'
    BY <1>1, <1>2, <1>3, <1>5, <1>6, ItemFields DEF IntentsAreDecisions, InboxTypeOK
  <1>11. UndecidedHasNoReceipt'
    BY <1>2, <1>3, <1>5 DEF UndecidedHasNoReceipt, InboxTypeOK
  <1>12. DispatchedWhileShown'
    BY <1>1, <1>2, <1>3, <1>5, <1>6, DecisionFields
       DEF DispatchedWhileShown, RequestedFor, InboxTypeOK
  <1>13. AuthorizationsMatch'
    BY <1>1, <1>2, <1>3, <1>6, <1>7 DEF AuthorizationsMatch, InboxTypeOK
  <1>14. RequestsAreRemembered'
    BY <1>1, <1>2, <1>3, <1>6 DEF RequestsAreRemembered, InboxTypeOK
  <1>15. ReceiptsSettleTheirItem'
    BY <1>2, <1>3, <1>5 DEF ReceiptsSettleTheirItem, InboxTypeOK
  <1>16. RequestsAreAuthorized'
    <2>1. \A n \in DOMAIN sent : sent[n].intent # a.intent
      BY <1>2 DEF RequestsAreAuthorized, Approved
    <2> QED
      BY <1>1, <1>3, <2>1 DEF RequestsAreAuthorized, Approved, InboxTypeOK
  <1> QED
    BY <1>8, <1>9, <1>10, <1>11, <1>12, <1>13, <1>14, <1>15, <1>16

(* A receipt settles the item that shows its intent, whose request was handed out
   for this attention. *)
LEMMA ReceiptKeepsIInv ==
    ASSUME IInv, NEW r \in Receipts, ApplyReceipt(r) PROVE IInv'
  <1> USE AbsentAssumption DEF IInv
  <1> DEFINE s == decisions[r.intent].intent.session
             st == IF r.applied THEN "Applied" ELSE "FailedClosed"
             newItem == [items[s] EXCEPT !.receipt = TRUE, !.status = st]
  <1>1. r.intent \in IntentIds /\ r \in CanonicalEvent
    BY DEF Receipts, CanonicalEvent
  <1>2. /\ decisions[r.intent] # Absent /\ s \in Sessions /\ items[s] # Absent
        /\ items[s] \in InboxItem /\ items[s].intent = r.intent
        /\ decisions[r.intent].dispatched
    BY <1>1, DecisionFields, ItemFields DEF ApplyReceipt, ReceiptMatches, DecisionsHaveItems
  <1>3. /\ items' = [items EXCEPT ![s] = newItem]
        /\ decisions' = decisions /\ sent' = sent /\ seen' = Append(seen, r)
    BY <1>2 DEF ApplyReceipt, Apply
  <1>4. /\ newItem \in InboxItem /\ newItem # Absent /\ newItem.status # "NeedsDecision"
        /\ newItem.intent = items[s].intent /\ newItem.sequence = items[s].sequence
    BY <1>2 DEF InboxItem, ItemStatus
  <1>5. RequestedFor(r.intent, items[s].sequence)
    BY <1>1, <1>2 DEF DispatchedWhileShown
  <1> HIDE DEF newItem
  <1>6. InboxTypeOK'
    BY <1>1, <1>2, <1>3, <1>4 DEF InboxTypeOK
  <1>7. DecisionsHaveItems' /\ IntentsAreDecisions'
    <2>1. DecisionsHaveItems'
      BY <1>2, <1>3, <1>4, DecisionFields DEF DecisionsHaveItems, InboxTypeOK
    <2>2. IntentsAreDecisions'
      BY <1>2, <1>3, <1>4 DEF IntentsAreDecisions, InboxTypeOK
    <2> QED
      BY <2>1, <2>2
  <1>8. UndecidedHasNoReceipt'
    BY <1>2, <1>3, <1>4 DEF UndecidedHasNoReceipt, InboxTypeOK
  <1>9. DispatchedWhileShown'
    BY <1>2, <1>3, <1>4, DecisionFields DEF DispatchedWhileShown, RequestedFor, InboxTypeOK
  <1>10. AuthorizationsMatch' /\ RequestsAreRemembered' /\ RequestsAreAuthorized'
    BY <1>3 DEF AuthorizationsMatch, RequestsAreRemembered, RequestsAreAuthorized, Approved
  <1>11. ReceiptsSettleTheirItem'
    BY <1>2, <1>3, <1>4, <1>5 DEF ReceiptsSettleTheirItem, RequestedFor, InboxTypeOK
  <1> QED
    BY <1>6, <1>7, <1>8, <1>9, <1>10, <1>11

(* A recorded intent is new: no request was handed out for it. *)
LEMMA RecordKeepsIInv ==
    ASSUME IInv, NEW i \in IntentIds, NEW intent \in ActionIntent, record_intent(i, intent)
    PROVE  IInv'
  <1> USE AbsentAssumption DEF IInv
  <1> DEFINE s == intent.session
             newItem == [items[s] EXCEPT !.intent = i, !.status = "AwaitingAuthorization"]
             newD == [intent |-> intent, authorization |-> Absent,
                      confirmed |-> FALSE, dispatched |-> FALSE]
  <1>1. /\ decisions[i] = Absent /\ s \in Sessions /\ items[s] # Absent
        /\ items[s] \in InboxItem /\ ~items[s].receipt
    BY ItemFields DEF record_intent, FreshIntent, ActionIntent, UndecidedHasNoReceipt
  <1>2. /\ items' = [items EXCEPT ![s] = newItem]
        /\ decisions' = [decisions EXCEPT ![i] = newD]
        /\ sent' = sent /\ seen' = seen
    BY <1>1 DEF record_intent
  <1>3. /\ newItem \in InboxItem /\ newItem # Absent /\ newItem.status # "NeedsDecision"
        /\ newItem.intent = i /\ newItem.receipt = items[s].receipt
    BY <1>1 DEF InboxItem, ItemStatus
  <1>4. /\ newD \in Decision /\ newD # Absent /\ newD.intent.session = s
        /\ ~newD.dispatched /\ newD.authorization = Absent
    <2>1. newD \in Decision
      BY DEF Decision
    <2>2. newD.intent = intent /\ newD.dispatched = FALSE /\ newD.authorization = Absent
      OBVIOUS
    <2> HIDE DEF newD
    <2> QED
      BY <2>1, <2>2
  <1>5. \A n \in DOMAIN sent : sent[n].intent # i
    BY <1>1 DEF RequestsAreRemembered
  <1> HIDE DEF newItem, newD
  <1>6. InboxTypeOK'
    BY <1>1, <1>2, <1>3, <1>4 DEF InboxTypeOK
  <1>7. DecisionsHaveItems'
    BY <1>1, <1>2, <1>3, <1>4, DecisionFields DEF DecisionsHaveItems, InboxTypeOK
  <1>8. IntentsAreDecisions'
    BY <1>1, <1>2, <1>3, <1>4, ItemFields DEF IntentsAreDecisions, InboxTypeOK
  <1>9. UndecidedHasNoReceipt'
    BY <1>1, <1>2, <1>3 DEF UndecidedHasNoReceipt, InboxTypeOK
  <1>10. DispatchedWhileShown'
    BY <1>1, <1>2, <1>3, <1>4, DecisionFields
       DEF DispatchedWhileShown, RequestedFor, InboxTypeOK
  <1>11. AuthorizationsMatch'
    BY <1>2, <1>4 DEF AuthorizationsMatch, InboxTypeOK
  <1>12. RequestsAreRemembered'
    BY <1>2, <1>5 DEF RequestsAreRemembered, InboxTypeOK
  <1>13. ReceiptsSettleTheirItem'
    BY <1>1, <1>2, <1>3 DEF ReceiptsSettleTheirItem, InboxTypeOK
  <1>14. RequestsAreAuthorized'
    BY <1>2, <1>5 DEF RequestsAreAuthorized, Approved, InboxTypeOK
  <1> QED
    BY <1>6, <1>7, <1>8, <1>9, <1>10, <1>11, <1>12, <1>13, <1>14

(* A confirmation changes no verdict, and only the status of an item. *)
LEMMA ConfirmKeepsIInv ==
    ASSUME IInv, NEW i \in IntentIds, confirm(i) PROVE IInv'
  <1> USE AbsentAssumption DEF IInv
  <1> DEFINE d == decisions[i]
             s == d.intent.session
             newItem == [items[s] EXCEPT !.status = "ReadyToDispatch"]
             newD == [d EXCEPT !.confirmed = TRUE]
  <1>1. /\ d # Absent /\ d \in Decision /\ s \in Sessions /\ items[s] # Absent
        /\ items[s] \in InboxItem
    BY DecisionFields, ItemFields DEF confirm, DecisionsHaveItems
  <1>2. /\ items' = [items EXCEPT ![s] = newItem]
        /\ decisions' = [decisions EXCEPT ![i] = newD]
        /\ sent' = sent /\ seen' = seen
    BY <1>1 DEF confirm
  <1>3. /\ newItem \in InboxItem /\ newItem # Absent /\ newItem.status # "NeedsDecision"
        /\ newItem.intent = items[s].intent /\ newItem.receipt = items[s].receipt
        /\ newItem.sequence = items[s].sequence
    <2>1. "ReadyToDispatch" \in ItemStatus
      BY DEF ItemStatus
    <2> QED
      BY <1>1, <2>1, StatusChange
  <1>4. /\ newD \in Decision /\ newD # Absent /\ newD.intent = d.intent
        /\ newD.dispatched = d.dispatched /\ newD.authorization = d.authorization
    BY <1>1 DEF Decision
  <1> HIDE DEF newItem, newD
  <1>5. InboxTypeOK'
    BY <1>1, <1>2, <1>3, <1>4 DEF InboxTypeOK
  <1>6. DecisionsHaveItems'
    BY <1>1, <1>2, <1>3, <1>4, DecisionFields DEF DecisionsHaveItems, InboxTypeOK
  <1>7. IntentsAreDecisions'
    BY <1>1, <1>2, <1>3, <1>4, ItemFields DEF IntentsAreDecisions, InboxTypeOK
  <1>8. UndecidedHasNoReceipt'
    BY <1>1, <1>2, <1>3 DEF UndecidedHasNoReceipt, InboxTypeOK
  <1>9. DispatchedWhileShown'
    BY <1>1, <1>2, <1>3, <1>4, DecisionFields
       DEF DispatchedWhileShown, RequestedFor, InboxTypeOK
  <1>10. AuthorizationsMatch' /\ RequestsAreRemembered'
    BY <1>1, <1>2, <1>4 DEF AuthorizationsMatch, RequestsAreRemembered, InboxTypeOK
  <1>11. ReceiptsSettleTheirItem'
    BY <1>1, <1>2, <1>3 DEF ReceiptsSettleTheirItem, InboxTypeOK
  <1>12. RequestsAreAuthorized'
    BY <1>1, <1>2, <1>4 DEF RequestsAreAuthorized, Approved, InboxTypeOK
  <1> QED
    BY <1>5, <1>6, <1>7, <1>8, <1>9, <1>10, <1>11, <1>12

(* A request is handed out on an approved decision that had none before. *)
LEMMA DispatchKeepsIInv ==
    ASSUME IInv, NEW i \in IntentIds, take_dispatch(i) PROVE IInv'
  <1> USE AbsentAssumption DEF IInv
  <1> DEFINE d == decisions[i]
             s == d.intent.session
             newItem == [items[s] EXCEPT !.status = "AwaitingReceipt"]
             newD == [d EXCEPT !.dispatched = TRUE]
             request == [intent |-> i, decision |-> d.authorization.decision,
                         item |-> items[s], confirmed |-> d.confirmed]
  <1>1. /\ d # Absent /\ d \in Decision /\ s \in Sessions /\ items[s] # Absent
        /\ items[s] \in InboxItem /\ ~d.dispatched
        /\ d.authorization # Absent /\ d.authorization \in Authorization
        /\ d.authorization.approved /\ d.confirmed \in BOOLEAN
        /\ needs_confirmation(items[s].risk, d.intent.action) => d.confirmed
    BY DecisionFields, ItemFields
       DEF take_dispatch, Dispatchable, Approved, DecisionsHaveItems
  <1>2. /\ items' = [items EXCEPT ![s] = newItem]
        /\ decisions' = [decisions EXCEPT ![i] = newD]
        /\ sent' = Append(sent, request) /\ seen' = seen
    BY <1>1 DEF take_dispatch
  <1>3. /\ newItem \in InboxItem /\ newItem # Absent /\ newItem.status # "NeedsDecision"
        /\ newItem.intent = items[s].intent /\ newItem.receipt = items[s].receipt
        /\ newItem.sequence = items[s].sequence
    <2>1. "AwaitingReceipt" \in ItemStatus
      BY DEF ItemStatus
    <2> QED
      BY <1>1, <2>1, StatusChange
  <1>4. /\ newD \in Decision /\ newD # Absent /\ newD.intent = d.intent
        /\ newD.dispatched /\ newD.authorization = d.authorization
    BY <1>1 DEF Decision
  <1>5. /\ request \in DispatchRequest /\ request.intent = i /\ request.item = items[s]
        /\ request.decision = d.authorization.decision /\ request.confirmed = d.confirmed
    <2>1. d.authorization.decision \in DecisionIds
      BY <1>1 DEF Authorization
    <2> QED
      BY <1>1, <2>1 DEF DispatchRequest
  <1> HIDE DEF newItem, newD, request
  <1>6. InboxTypeOK'
    BY <1>1, <1>2, <1>3, <1>4, <1>5 DEF InboxTypeOK
  <1>7. /\ DOMAIN sent' = DOMAIN sent \cup {Len(sent) + 1}
        /\ \A n \in DOMAIN sent : sent'[n] = sent[n]
        /\ sent'[Len(sent) + 1] = request
    BY <1>2, <1>5 DEF InboxTypeOK
  <1>8. DecisionsHaveItems'
    BY <1>1, <1>2, <1>3, <1>4, DecisionFields DEF DecisionsHaveItems, InboxTypeOK
  <1>9. IntentsAreDecisions'
    BY <1>1, <1>2, <1>3, <1>4, ItemFields DEF IntentsAreDecisions, InboxTypeOK
  <1>10. UndecidedHasNoReceipt'
    BY <1>1, <1>2, <1>3 DEF UndecidedHasNoReceipt, InboxTypeOK
  <1>11. DispatchedWhileShown'
    <2>1. \A j \in IntentIds : \A q : RequestedFor(j, q) => RequestedFor(j, q)'
      BY <1>7 DEF RequestedFor
    <2>2. \A q : q = items[s].sequence => RequestedFor(i, q)'
      BY <1>5, <1>7 DEF RequestedFor
    <2> QED
      BY <1>1, <1>2, <1>3, <1>4, <2>1, <2>2, DecisionFields
         DEF DispatchedWhileShown, InboxTypeOK
  <1>12. AuthorizationsMatch'
    BY <1>1, <1>2, <1>4 DEF AuthorizationsMatch, InboxTypeOK
  <1>13. RequestsAreRemembered'
    BY <1>1, <1>2, <1>4, <1>5, <1>7 DEF RequestsAreRemembered, InboxTypeOK
  <1>14. ReceiptsSettleTheirItem'
    <2> SUFFICES ASSUME NEW t \in Sessions, items'[t] # Absent, items'[t].receipt
                 PROVE  \E n \in DOMAIN sent' : /\ sent'[n].intent = items'[t].intent
                                                 /\ sent'[n].item.sequence = items'[t].sequence
      BY DEF ReceiptsSettleTheirItem
    <2>1. /\ items[t] # Absent /\ items[t].receipt
          /\ items'[t].intent = items[t].intent /\ items'[t].sequence = items[t].sequence
      BY <1>1, <1>2, <1>3 DEF InboxTypeOK
    <2>2. PICK n \in DOMAIN sent : /\ sent[n].intent = items[t].intent
                                    /\ sent[n].item.sequence = items[t].sequence
      BY <2>1 DEF ReceiptsSettleTheirItem
    <2> QED
      BY <1>7, <2>1, <2>2
  <1>15. RequestsAreAuthorized'
    <2>1. /\ d.authorization.target = d.intent.target
          /\ d.authorization.revision = d.intent.revision
      BY <1>1 DEF AuthorizationsMatch
    <2> QED
      BY <1>1, <1>2, <1>4, <1>5, <1>7, <2>1 DEF RequestsAreAuthorized, Approved, InboxTypeOK
  <1> QED
    BY <1>6, <1>8, <1>9, <1>10, <1>11, <1>12, <1>13, <1>14, <1>15

(* Every call keeps the inductive invariant, a redelivered event trivially. *)
LEMMA NextKeepsIInv == IInv /\ [InboxNext]_inboxVars => IInv'
  <1> SUFFICES ASSUME IInv, [InboxNext]_inboxVars PROVE IInv'
    OBVIOUS
  <1>1. CASE UNCHANGED inboxVars
    BY <1>1 DEF inboxVars, IInv, InboxTypeOK, DecisionsHaveItems, IntentsAreDecisions,
       UndecidedHasNoReceipt, DispatchedWhileShown, RequestedFor, AuthorizationsMatch,
       RequestsAreRemembered, ReceiptsSettleTheirItem, RequestsAreAuthorized, Approved
  <1>2. ASSUME NEW id \in DOMAIN seen, ApplyAgain(id) PROVE IInv'
    BY <1>1, <1>2 DEF ApplyAgain
  <1> QED
    BY <1>1, <1>2, AttentionKeepsIInv, AuthorizationKeepsIInv, ReceiptKeepsIInv,
       RecordKeepsIInv, ConfirmKeepsIInv, DispatchKeepsIInv DEF InboxNext

(* The inductive invariant holds in every reachable state. *)
LEMMA IInvAlways == InboxSpec => []IInv
  BY InitIInv, NextKeepsIInv, PTL DEF InboxSpec

------------------------------------------------------------------------------
(* Type correctness of the reducer. *)
THEOREM InboxTypeCorrect == InboxSpec => []InboxTypeOK
  <1>1. IInv => InboxTypeOK
    BY DEF IInv
  <1> QED
    BY <1>1, IInvAlways, PTL

(* apply never lets a late receipt settle an attention that its request was not
   handed out for. *)
THEOREM ReceiptsSettle == InboxSpec => []ReceiptsSettleTheirItem
  <1>1. IInv => ReceiptsSettleTheirItem
    BY DEF IInv
  <1> QED
    BY <1>1, IInvAlways, PTL

(* take_dispatch hands out only what a human has approved, for the target and the
   revision of the intent, and confirmed where that is needed; nothing that comes
   later changes the decision. *)
THEOREM RequestsAuthorized == InboxSpec => []RequestsAreAuthorized
  <1>1. IInv => RequestsAreAuthorized
    BY DEF IInv
  <1> QED
    BY <1>1, IInvAlways, PTL

------------------------------------------------------------------------------
(* Refinement: what the gate sees of the inbox. *)
Requests == [n \in DOMAIN sent |-> sent[n].intent]

\* A step that keeps the authorizations and the requests is invisible to the gate.
LEMMA Invisible ==
    ASSUME sent' = sent,
           \A i \in IntentIds :
                /\ decisions'[i] = Absent <=> decisions[i] = Absent
                /\ decisions[i] # Absent =>
                        decisions'[i].authorization = decisions[i].authorization
    PROVE  UNCHANGED Gate!gateVars
  <1>1. \A i \in IntentIds : VerdictOf(i)' = VerdictOf(i)
    BY DEF VerdictOf
  <1> QED
    BY <1>1 DEF Gate!gateVars

(* Events about the items alone, confirmations and receipts are invisible. *)
LEMMA ItemStepsInvisible ==
    ASSUME IInv,
           \/ \E e \in Attentions : ApplyAttention(e)
           \/ \E r \in Receipts : ApplyReceipt(r)
           \/ \E i \in IntentIds : confirm(i)
    PROVE  UNCHANGED Gate!gateVars
  <1>1. ASSUME NEW e \in Attentions, ApplyAttention(e) PROVE UNCHANGED Gate!gateVars
    BY <1>1, Invisible DEF ApplyAttention
  <1>2. ASSUME NEW r \in Receipts, ApplyReceipt(r) PROVE UNCHANGED Gate!gateVars
    BY <1>2, Invisible DEF ApplyReceipt
  <1>3. ASSUME NEW i \in IntentIds, confirm(i) PROVE UNCHANGED Gate!gateVars
    <2> DEFINE newD == [decisions[i] EXCEPT !.confirmed = TRUE]
    <2>1. decisions[i] # Absent /\ decisions[i] \in Decision
      BY <1>3, DecisionFields DEF confirm, IInv
    <2>2. newD \in Decision /\ newD.authorization = decisions[i].authorization
      BY <2>1 DEF Decision
    <2>3. decisions' = [decisions EXCEPT ![i] = newD] /\ sent' = sent
      BY <1>3, <2>1 DEF confirm
    <2> HIDE DEF newD
    <2> QED
      BY <2>1, <2>2, <2>3, Invisible, AbsentAssumption DEF IInv, InboxTypeOK
  <1> QED
    BY <1>1, <1>2, <1>3

(* Recording an intent is Record of the gate. *)
LEMMA RecordRefines ==
    ASSUME IInv, NEW i \in IntentIds, NEW intent \in ActionIntent, record_intent(i, intent)
    PROVE  Gate!Record(i)
  <1> DEFINE newD == [intent |-> intent, authorization |-> Absent,
                      confirmed |-> FALSE, dispatched |-> FALSE]
  <1>1. decisions[i] = Absent /\ sent' = sent /\ decisions' = [decisions EXCEPT ![i] = newD]
    BY DEF record_intent, FreshIntent
  <1>2. newD # Absent /\ newD.authorization = Absent
    <2>1. newD \in Decision
      BY DEF Decision
    <2>2. newD.authorization = Absent
      OBVIOUS
    <2> HIDE DEF newD
    <2> QED
      BY <2>1, <2>2, AbsentAssumption
  <1> HIDE DEF newD
  <1>3. VerdictOf(i) = "unknown" /\ VerdictOf(i)' = "recorded"
    BY <1>1, <1>2 DEF VerdictOf, IInv, InboxTypeOK
  <1>4. \A j \in IntentIds \ {i} : VerdictOf(j)' = VerdictOf(j)
    BY <1>1 DEF VerdictOf, IInv, InboxTypeOK
  <1> QED
    BY <1>1, <1>3, <1>4 DEF Gate!Record

(* The first authorization of an intent is Decide. *)
LEMMA AuthorizationRefines ==
    ASSUME IInv, NEW a \in Authorization, ApplyAuthorization(a)
    PROVE  \E v \in {"approved", "rejected"} : Gate!Decide(a.intent, v)
  <1> DEFINE i == a.intent
             newD == [decisions[i] EXCEPT !.authorization = a]
             v == IF a.approved THEN "approved" ELSE "rejected"
  <1>1. i \in IntentIds /\ a # Absent
    BY AbsentAssumption DEF Authorization
  <1>2. decisions[i] # Absent /\ decisions[i].authorization = Absent /\ decisions[i] \in Decision
    BY <1>1, DecisionFields DEF ApplyAuthorization, AuthorizationMatches, IInv
  <1>3. sent' = sent /\ decisions' = [decisions EXCEPT ![i] = newD]
    BY <1>2 DEF ApplyAuthorization
  <1>4. newD # Absent /\ newD.authorization = a
    BY <1>2, AbsentAssumption DEF Decision
  <1> HIDE DEF newD
  <1>5. VerdictOf(i) = "recorded" /\ VerdictOf(i)' = v
    BY <1>1, <1>2, <1>3, <1>4 DEF VerdictOf, IInv, InboxTypeOK
  <1>6. \A j \in IntentIds \ {i} : VerdictOf(j)' = VerdictOf(j)
    BY <1>3 DEF VerdictOf, IInv, InboxTypeOK
  <1>7. v \in {"approved", "rejected"}
    OBVIOUS
  <1> HIDE DEF v
  <1> QED
    BY <1>1, <1>3, <1>5, <1>6, <1>7 DEF Gate!Decide

(* Handing out a request is Request: no other was made for the intent. *)
LEMMA DispatchRefines ==
    ASSUME IInv, NEW i \in IntentIds, take_dispatch(i)
    PROVE  Gate!Request(i)
  <1> DEFINE newD == [decisions[i] EXCEPT !.dispatched = TRUE]
             request == [intent |-> i, decision |-> decisions[i].authorization.decision,
                         item |-> items[decisions[i].intent.session],
                         confirmed |-> decisions[i].confirmed]
  <1>1. /\ decisions[i] # Absent /\ decisions[i] \in Decision /\ ~decisions[i].dispatched
        /\ decisions[i].authorization # Absent /\ decisions[i].authorization.approved
    BY DecisionFields DEF take_dispatch, Dispatchable, Approved, IInv
  <1>2. sent' = Append(sent, request) /\ decisions' = [decisions EXCEPT ![i] = newD]
    BY <1>1 DEF take_dispatch
  <1>3. newD # Absent /\ newD.authorization = decisions[i].authorization
    BY <1>1, AbsentAssumption DEF Decision
  <1>4. request.intent = i
    OBVIOUS
  <1> HIDE DEF newD, request
  <1>5. VerdictOf(i) = "approved"
    BY <1>1 DEF VerdictOf
  <1>6. \A j \in IntentIds : VerdictOf(j)' = VerdictOf(j)
    BY <1>1, <1>2, <1>3 DEF VerdictOf, IInv, InboxTypeOK
  <1>7. \A n \in DOMAIN sent : sent[n].intent # i
    BY <1>1 DEF IInv, RequestsAreRemembered
  <1>8. Requests' = Append(Requests, i)
    BY <1>2, <1>4 DEF Requests, IInv, InboxTypeOK
  <1> QED
    BY <1>5, <1>6, <1>7, <1>8 DEF Gate!Request, Requests

(* Every step of the inbox is a step of the gate or leaves it as it is. *)
LEMMA StepRefines ==
    IInv /\ [InboxNext]_inboxVars => [Gate!GateNext]_(Gate!gateVars)
  <1> SUFFICES ASSUME IInv, [InboxNext]_inboxVars PROVE [Gate!GateNext]_(Gate!gateVars)
    OBVIOUS
  <1>1. CASE UNCHANGED inboxVars
    BY <1>1, Invisible DEF inboxVars
  <1>2. ASSUME NEW id \in DOMAIN seen, ApplyAgain(id) PROVE UNCHANGED Gate!gateVars
    BY <1>2, Invisible DEF ApplyAgain, inboxVars
  <1>3. ASSUME NEW a \in Authorization, ApplyAuthorization(a) PROVE Gate!GateNext
    <2>1. a.intent \in IntentIds
      BY DEF Authorization
    <2> QED
      BY <1>3, <2>1, AuthorizationRefines DEF Gate!GateNext
  <1>4. ASSUME NEW i \in IntentIds,
               (\E intent \in ActionIntent : record_intent(i, intent)) \/ take_dispatch(i)
        PROVE  Gate!GateNext
    BY <1>4, RecordRefines, DispatchRefines DEF Gate!GateNext
  <1> QED
    BY <1>1, <1>2, <1>3, <1>4, ItemStepsInvisible DEF InboxNext

(* The inbox implements the dispatch gate: at most one request for each intent and
   only after the one verdict on it, an approval. *)
THEOREM InboxImplementsGate == InboxSpec => ImplementsGate
  <1>1. InboxInit => Gate!GateInit
    BY DEF InboxInit, Gate!GateInit, VerdictOf
  <1> QED
    BY <1>1, StepRefines, IInvAlways, PTL DEF InboxSpec, ImplementsGate, Gate!GateSpec
==============================================================================
