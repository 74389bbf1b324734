--------------------------- MODULE OperationalInbox ---------------------------
(***************************************************************************)
(* The operator inbox (simplicio-agent-client, OperationalInbox): a reducer*)
(* of events that arrive in any order and any number of times.  Each call  *)
(* takes &mut self, so it is one action.  A call that is refused (a field  *)
(* that fails validate_*, a stale, unknown or forged input) changes        *)
(* nothing, hence is a stuttering step; the guards say when a call is not  *)
(* refused.  Of an event the model keeps what the reducer decides on; the  *)
(* summary, the evidence and the sort keys of ordered_items are left out.  *)
(***************************************************************************)
EXTENDS Integers, Sequences

CONSTANTS
    Sessions, Targets,
    Risks,              \* a subset of 0..3, Low to Critical
    Actions,            \* a subset of OperatorAction
    IntentIds, DecisionIds,
    Revisions,          \* policy revisions
    SequenceNumbers,    \* of attention events
    MaxApplied,         \* bound: events with different ids that are applied
    Absent              \* Option::None

High == 2   \* Risk::High

ASSUME InboxAssumption ==
    /\ Risks \subseteq 0..3
    /\ SequenceNumbers \subseteq Nat
    /\ MaxApplied \in Nat

VARIABLES
    items,      \* session -> InboxItem, or Absent
    decisions,  \* intent id -> Decision, or Absent
    seen,       \* seen_events; an event id is its place in the order of arrival
    sent        \* history: the requests take_dispatch returned, with the item as it was

inboxVars == <<items, decisions, seen, sent>>

ItemStatus == {"NeedsDecision", "AwaitingAuthorization", "AwaitingConfirmation",
               "ReadyToDispatch", "AwaitingReceipt", "Applied", "Rejected",
               "FailedClosed"}
InboxItem == [target : Targets, risk : Risks, sequence : SequenceNumbers,
              status : ItemStatus, intent : IntentIds \cup {Absent},
              receipt : BOOLEAN]                    \* receipt_id.is_some()
ActionIntent == [session : Sessions, target : Targets, action : Actions,
                 revision : Revisions]
Authorization == [intent : IntentIds, decision : DecisionIds, target : Targets,
                  revision : Revisions, approved : BOOLEAN]
Decision == [intent : ActionIntent, authorization : Authorization \cup {Absent},
             confirmed : BOOLEAN, dispatched : BOOLEAN]

Attentions == [session : Sessions, target : Targets, risk : Risks,
               sequence : SequenceNumbers]
Receipts == [intent : IntentIds, decision : DecisionIds, target : Targets,
             revision : Revisions, applied : BOOLEAN]
CanonicalEvent == Attentions \cup Authorization \cup Receipts

ASSUME AbsentAssumption ==
    /\ Absent \notin IntentIds
    /\ Absent \notin InboxItem /\ Absent \notin Decision /\ Absent \notin Authorization

DispatchRequest == [intent : IntentIds, decision : DecisionIds, item : InboxItem,
                    confirmed : BOOLEAN]

needs_confirmation(risk, action) == risk >= High \/ action \in {"Cancel", "Redirect"}

Approved(d) == d.authorization # Absent /\ d.authorization.approved

InboxInit ==
    /\ items = [s \in Sessions |-> Absent]
    /\ decisions = [i \in IntentIds |-> Absent]
    /\ seen = <<>>
    /\ sent = <<>>

------------------------------------------------------------------------------
(* apply() *)

\* An event of a new id; the same event again, or another one under its id, is not applied.
Apply(event) ==
    /\ Len(seen) < MaxApplied
    /\ seen' = Append(seen, event)

\* Fault: the order of the attention events is not checked.
AcceptAnyAttention(e) == TRUE
NewerAttention(e) ==
    items[e.session] # Absent => e.sequence > items[e.session].sequence

AttentionItem(e) ==
    [target |-> e.target, risk |-> e.risk, sequence |-> e.sequence,
     status |-> "NeedsDecision", intent |-> Absent, receipt |-> FALSE]

ApplyAttention(e) ==
    /\ Apply(e)
    /\ NewerAttention(e)
    /\ items' = [items EXCEPT ![e.session] = AttentionItem(e)]
    /\ UNCHANGED <<decisions, sent>>

AuthorizedStatus(a, risk, action) ==
    IF ~a.approved THEN "Rejected"
    ELSE IF needs_confirmation(risk, action) THEN "AwaitingConfirmation"
    ELSE "ReadyToDispatch"

\* Fault: a second authorization replaces the first.
ReauthorizeIntent(a) ==
    /\ decisions[a.intent] # Absent
    /\ a.target = decisions[a.intent].intent.target
    /\ a.revision = decisions[a.intent].intent.revision
    /\ items[decisions[a.intent].intent.session].intent = a.intent
AuthorizationMatches(a) ==
    /\ decisions[a.intent] # Absent
    /\ a.target = decisions[a.intent].intent.target
    /\ a.revision = decisions[a.intent].intent.revision
    /\ items[decisions[a.intent].intent.session].intent = a.intent
    /\ decisions[a.intent].authorization = Absent

ApplyAuthorization(a) ==
    /\ Apply(a)
    /\ AuthorizationMatches(a)
    /\ LET d == decisions[a.intent]
           s == d.intent.session
       IN /\ decisions' = [decisions EXCEPT ![a.intent].authorization = a]
          /\ items' = [items EXCEPT ![s].status =
                          AuthorizedStatus(a, items[s].risk, d.intent.action)]
    /\ UNCHANGED sent

\* Fault: a receipt settles whatever the session shows now.
ReceiptOfDispatch(r) ==
    /\ decisions[r.intent] # Absent
    /\ decisions[r.intent].authorization # Absent
    /\ decisions[r.intent].dispatched
    /\ decisions[r.intent].authorization.decision = r.decision
    /\ decisions[r.intent].intent.target = r.target
    /\ decisions[r.intent].intent.revision = r.revision
    /\ ~items[decisions[r.intent].intent.session].receipt
ReceiptMatches(r) ==
    /\ decisions[r.intent] # Absent
    /\ decisions[r.intent].authorization # Absent
    /\ decisions[r.intent].dispatched
    /\ decisions[r.intent].authorization.decision = r.decision
    /\ decisions[r.intent].intent.target = r.target
    /\ decisions[r.intent].intent.revision = r.revision
    /\ items[decisions[r.intent].intent.session].intent = r.intent
    /\ ~items[decisions[r.intent].intent.session].receipt

ApplyReceipt(r) ==
    /\ Apply(r)
    /\ ReceiptMatches(r)
    /\ items' = [items EXCEPT ![decisions[r.intent].intent.session] =
                    [@ EXCEPT !.receipt = TRUE,
                              !.status = IF r.applied THEN "Applied" ELSE "FailedClosed"]]
    /\ UNCHANGED <<decisions, sent>>

\* A redelivered event changes nothing, whatever happened since.
ApplyAgain(id) ==
    /\ id \in DOMAIN seen
    /\ UNCHANGED inboxVars

------------------------------------------------------------------------------
(* record_intent(), confirm(), take_dispatch() *)

\* Fault: an intent id may be recorded again, which forgets its decision.
RecordAnyId(i, intent) == TRUE
FreshIntent(i, intent) == decisions[i] = Absent

record_intent(i, intent) ==
    /\ FreshIntent(i, intent)
    /\ items[intent.session] # Absent
    /\ items[intent.session].target = intent.target
    /\ items[intent.session].status = "NeedsDecision"
    /\ items' = [items EXCEPT ![intent.session] =
                    [@ EXCEPT !.intent = i, !.status = "AwaitingAuthorization"]]
    /\ decisions' = [decisions EXCEPT ![i] =
                        [intent |-> intent, authorization |-> Absent,
                         confirmed |-> FALSE, dispatched |-> FALSE]]
    /\ UNCHANGED <<seen, sent>>

\* confirm does not ask whether the session still shows this intent.
confirm(i) ==
    /\ decisions[i] # Absent
    /\ Approved(decisions[i])
    /\ decisions' = [decisions EXCEPT ![i].confirmed = TRUE]
    /\ items' = [items EXCEPT ![decisions[i].intent.session].status = "ReadyToDispatch"]
    /\ UNCHANGED <<seen, sent>>

\* Fault: the need for a confirmation is not looked at when the dispatch is taken.
DispatchableWhenReady(i) ==
    /\ decisions[i] # Absent
    /\ Approved(decisions[i])
    /\ ~decisions[i].dispatched
    /\ items[decisions[i].intent.session].status = "ReadyToDispatch"
Dispatchable(i) ==
    /\ decisions[i] # Absent
    /\ Approved(decisions[i])
    /\ needs_confirmation(items[decisions[i].intent.session].risk,
                          decisions[i].intent.action) => decisions[i].confirmed
    /\ ~decisions[i].dispatched
    /\ items[decisions[i].intent.session].status = "ReadyToDispatch"

take_dispatch(i) ==
    /\ Dispatchable(i)
    /\ LET d == decisions[i]
       IN /\ decisions' = [decisions EXCEPT ![i].dispatched = TRUE]
          /\ items' = [items EXCEPT ![d.intent.session].status = "AwaitingReceipt"]
          /\ sent' = Append(sent, [intent |-> i, decision |-> d.authorization.decision,
                                   item |-> items[d.intent.session],
                                   confirmed |-> d.confirmed])
    /\ UNCHANGED seen

InboxNext ==
    \/ \E e \in Attentions : ApplyAttention(e)
    \/ \E a \in Authorization : ApplyAuthorization(a)
    \/ \E r \in Receipts : ApplyReceipt(r)
    \/ \E id \in DOMAIN seen : ApplyAgain(id)
    \/ \E i \in IntentIds :
        \/ \E intent \in ActionIntent : record_intent(i, intent)
        \/ confirm(i)
        \/ take_dispatch(i)

InboxSpec == InboxInit /\ [][InboxNext]_inboxVars

------------------------------------------------------------------------------
(* Properties *)

\* The reducer's state keeps its shape.
InboxTypeOK ==
    /\ items \in [Sessions -> InboxItem \cup {Absent}]
    /\ decisions \in [IntentIds -> Decision \cup {Absent}]
    /\ seen \in Seq(CanonicalEvent)
    /\ sent \in Seq(DispatchRequest)

\* An item shows a receipt only when a request was handed out for the intent it
\* shows, and while it was the same attention: a late receipt of a decision that
\* a newer attention has replaced never settles that newer one.
ReceiptsSettleTheirItem ==
    \A s \in Sessions :
        items[s] # Absent /\ items[s].receipt =>
            \E n \in DOMAIN sent : /\ sent[n].intent = items[s].intent
                                   /\ sent[n].item.sequence = items[s].sequence

\* Every request was approved by the human it names, for the target and the policy
\* revision of its intent, and was confirmed where the risk shown at that moment,
\* or the action, asks for it; a rejection or a new authorization that comes later
\* does not change the decision a request was made on.
RequestsAreAuthorized ==
    \A n \in DOMAIN sent :
        LET d == decisions[sent[n].intent]
        IN /\ d # Absent
           /\ Approved(d)
           /\ d.authorization.decision = sent[n].decision
           /\ d.authorization.target = d.intent.target
           /\ d.authorization.revision = d.intent.revision
           /\ needs_confirmation(sent[n].item.risk, d.intent.action) => sent[n].confirmed

VerdictOf(i) ==
    IF decisions[i] = Absent THEN "unknown"
    ELSE IF decisions[i].authorization = Absent THEN "recorded"
    ELSE IF decisions[i].authorization.approved THEN "approved" ELSE "rejected"

Gate == INSTANCE DispatchGate WITH
            verdict <- [i \in IntentIds |-> VerdictOf(i)],
            requests <- [n \in DOMAIN sent |-> sent[n].intent]

\* The inbox implements the gate: one verdict for each intent, at most one request
\* for each, only after an approval, whatever is redelivered, recorded again,
\* confirmed twice or replaced by newer attention events.
ImplementsGate == Gate!GateSpec

\* What the test newer_attention_invalidates_old_authorization_and_receipt says of
\* dispatches: a request is handed out only for the intent the session shows.
DispatchMatchesItem ==
    \A n \in DOMAIN sent : sent[n].item.intent = sent[n].intent
==============================================================================
