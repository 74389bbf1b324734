------------------------- MODULE AgentHostCoordinator -------------------------
(***************************************************************************)
(* The Code-side adapter for one AgentHost (simplicio-agent-client,        *)
(* AgentHostCoordinator over AgentHostClient).  Its methods take &mut self *)
(* and block on one request, so they are atomic except start_turn, during  *)
(* which the host works and may restart: it is split at the blocking read. *)
(* A request may fail before it reaches the host, after the host acted on  *)
(* it, or by the read timeout while the host is still at it.  The host is  *)
(* external and modelled from the requests and answers of the client: it   *)
(* rejects requests that name another incarnation, runs a turn id at most  *)
(* once per incarnation, and forgets its turns when it restarts.  Calls    *)
(* that are rejected without any state change are stuttering steps.        *)
(***************************************************************************)
EXTENDS Integers, FiniteSets

CONSTANTS
    Turns,              \* turn ids (equal to their idempotency keys)
    Profiles,           \* profiles a host may announce
    OwnProfile,         \* the profile the coordinator was created for
    MaxIncarnation,     \* bound: host restarts
    MaxAdvisories,      \* bound: advisories per incarnation
    MaxPerPage,         \* MAX_ADVISORIES_PER_PAGE
    NoTurn              \* no turn

ASSUME CoordinatorAssumption ==
    /\ OwnProfile \in Profiles
    /\ MaxIncarnation \in Nat /\ MaxAdvisories \in Nat /\ MaxPerPage \in Nat \ {0}
    /\ NoTurn \notin Turns

VARIABLES
    state,      \* CoordinatorState
    active,     \* active_turn_id
    cursor,     \* advisory cursor
    caps,       \* client.capabilities: incarnation, profile, turn.cancel
    call,       \* the turn whose start_turn blocks on its answer, or NoTurn
    host,       \* what the running host announces
    advised,    \* number of advisories it has logged
    work,       \* turn -> where the running host is with it
    overtaken   \* history: turns reported not_found while their start was on its way

coordVars == <<state, active, cursor, caps, call>>
hostVars == <<host, advised, work>>
vars == <<coordVars, hostVars, overtaken>>

CoordinatorStates == {"Disconnected", "Ready", "Running", "AwaitingApproval",
                      "Cancelled", "Completed", "EffectUnknown", "Terminal"}
Outcomes == {"completed", "failed", "interrupted"}
Underway == {"sent", "running"}
WorkStates == {"none"} \cup Underway \cup Outcomes
Capabilities == [incarnation : Nat, profile : Profiles, cancel : BOOLEAN]

\* An answer of the running host passes validate_host_response.
SameHost == host.incarnation = caps.incarnation

------------------------------------------------------------------------------
(* The host, external. *)

HostRestart(profile, cancel) ==
    /\ host.incarnation < MaxIncarnation
    /\ host' = [incarnation |-> host.incarnation + 1, profile |-> profile,
                cancel |-> cancel]
    /\ advised' = 0
    /\ work' = [t \in Turns |-> "none"]
    /\ UNCHANGED <<coordVars, overtaken>>

HostAdvise ==
    /\ advised < MaxAdvisories
    /\ advised' = advised + 1
    /\ UNCHANGED <<coordVars, host, work, overtaken>>

HostBegin(t) ==
    /\ work[t] = "sent"
    /\ work' = [work EXCEPT ![t] = "running"]
    /\ UNCHANGED <<coordVars, host, advised, overtaken>>

HostFinish(t, outcome) ==
    /\ work[t] = "running"
    /\ work' = [work EXCEPT ![t] = outcome]
    /\ UNCHANGED <<coordVars, host, advised, overtaken>>

------------------------------------------------------------------------------
(* ensure_ready() *)

\* refresh_status: the running host is ready, and what it announces is adopted.
Refresh == caps' = host

\* The state after a refresh that found a host of the expected profile.
RefreshedState(changed) ==
    IF changed /\ active # NoTurn THEN "EffectUnknown"
    ELSE IF state = "Disconnected" THEN "Ready" ELSE state

EnsureReady ==
    /\ call = NoTurn
    /\ Refresh
    /\ state' = IF host.profile = caps.profile
                THEN RefreshedState(caps # host) ELSE state
    /\ UNCHANGED <<active, cursor, call, hostVars, overtaken>>

\* ensure_ready and reconnect when the status request fails.
RefreshFails ==
    /\ call = NoTurn
    /\ state' = "Disconnected"
    /\ UNCHANGED <<active, cursor, caps, call, hostVars, overtaken>>

------------------------------------------------------------------------------
(* start_turn() *)

\* Fault: an unresolved turn does not keep the next one from starting.
MayStartWhenNotRunning == state \notin {"Running", "AwaitingApproval"}
MayStart == active = NoTurn /\ state \notin {"Running", "AwaitingApproval"}

\* A turn may start once ensure_ready, called when Disconnected, returned Ok.
Negotiated ==
    \/ state # "Disconnected" /\ caps' = caps
    \/ state = "Disconnected" /\ host.profile = caps.profile /\ Refresh

\* The request is written; it may not reach the host that it names.
StartTurn(t) ==
    /\ call = NoTurn /\ MayStart
    /\ Negotiated
    /\ active' = t
    /\ state' = "Running"
    /\ call' = t
    /\ \/ UNCHANGED work
       \/ /\ caps'.incarnation = host.incarnation
          /\ work' = [work EXCEPT ![t] = IF @ = "none" THEN "sent" ELSE @]
    /\ UNCHANGED <<cursor, host, advised, overtaken>>

\* A blank message: with_identity fails after the turn became active.
StartBlankTurn(t) ==
    /\ call = NoTurn /\ MayStart
    /\ Negotiated
    /\ active' = t
    /\ state' = "Running"
    /\ UNCHANGED <<cursor, call, hostVars, overtaken>>

\* start_turn when Disconnected and the host now has another profile.
StartFindsOtherProfile ==
    /\ call = NoTurn /\ MayStart
    /\ state = "Disconnected" /\ host.profile # caps.profile
    /\ Refresh
    /\ UNCHANGED <<state, active, cursor, call, hostVars, overtaken>>

StateOfResult(outcome) ==
    CASE outcome = "completed" -> "Completed"
      [] outcome = "interrupted" -> "Cancelled"
      [] outcome = "failed" -> "Terminal"

TurnReturns ==
    /\ call # NoTurn
    /\ SameHost
    /\ work[call] \in Outcomes
    /\ state' = StateOfResult(work[call])
    /\ active' = NoTurn
    /\ call' = NoTurn
    /\ UNCHANGED <<cursor, caps, hostVars, overtaken>>

\* Fault: a failed start is taken for a turn that never ran.
TurnFailsForgotten ==
    /\ call # NoTurn
    /\ state' = "EffectUnknown"
    /\ active' = NoTurn
    /\ call' = NoTurn
    /\ UNCHANGED <<cursor, caps, hostVars, overtaken>>
\* Connection error, read timeout, mismatched or malformed answer.
TurnFails ==
    /\ call # NoTurn
    /\ state' = "EffectUnknown"
    /\ call' = NoTurn
    /\ UNCHANGED <<active, cursor, caps, hostVars, overtaken>>

------------------------------------------------------------------------------
(* cancel_turn() *)

CanCancel(t) == call = NoTurn /\ active = t /\ caps.cancel /\ SameHost

\* Fault: only a confirmed cancellation releases the turn.
ResolvedIfCancelled(outcome) == outcome = "cancelled"
\* Every outcome but Running ends the coordinator's interest in the turn.
Resolved(outcome) == outcome # "running"

\* The coordinator's part of cancel_turn, by the status in the answer.
CancelAnswered(outcome, newState) ==
    /\ state' = newState
    /\ active' = IF Resolved(outcome) THEN NoTurn ELSE active
    /\ UNCHANGED <<cursor, caps, call, host, advised>>

CancelStops(t) ==
    /\ CanCancel(t) /\ work[t] = "running"
    /\ work' = [work EXCEPT ![t] = "interrupted"]
    /\ CancelAnswered("cancelled", "Cancelled")
    /\ UNCHANGED overtaken

CancelStillRunning(t) ==
    /\ CanCancel(t) /\ work[t] = "running"
    /\ CancelAnswered("running", "Running")
    /\ UNCHANGED <<work, overtaken>>

CancelTooLate(t) ==
    /\ CanCancel(t) /\ work[t] \in Outcomes
    /\ CancelAnswered("terminal", "Terminal")
    /\ UNCHANGED <<work, overtaken>>

\* The host has not seen the turn: it never arrived, or is still on its way.
CancelNotFound(t) ==
    /\ CanCancel(t) /\ work[t] \in {"none", "sent"}
    /\ CancelAnswered("not_found", "EffectUnknown")
    /\ overtaken' = IF work[t] = "sent" THEN overtaken \cup {t} ELSE overtaken
    /\ UNCHANGED work

\* The host stops the turn but its answer is lost: cancel_turn returns Err.
CancelAnswerLost(t) ==
    /\ CanCancel(t) /\ work[t] = "running"
    /\ work' = [work EXCEPT ![t] = "interrupted"]
    /\ UNCHANGED <<coordVars, host, advised, overtaken>>

------------------------------------------------------------------------------
(* reconnect() and replay() *)

Reconnect ==
    /\ call = NoTurn
    /\ Refresh
    /\ cursor' = IF caps # host THEN 0 ELSE cursor
    /\ state' = RefreshedState(caps # host)
    /\ UNCHANGED <<active, call, hostVars, overtaken>>

\* parse_advisory_page: where a page after a cursor may end.  Its events follow
\* the cursor without a gap, unless the host says that it dropped the oldest.
PageEnds(after, truncated) ==
    {next \in after .. advised : truncated \/ next - after <= MaxPerPage}

\* A page of the running host after the caller's or the stored cursor.
Replay(after) ==
    /\ call = NoTurn
    /\ SameHost
    /\ \E truncated \in BOOLEAN : cursor' \in PageEnds(after, truncated)
    /\ UNCHANGED <<state, active, caps, call, hostVars, overtaken>>

------------------------------------------------------------------------------
Init ==
    /\ host \in [incarnation : {0}, profile : {OwnProfile}, cancel : BOOLEAN]
    /\ caps = host
    /\ state = "Ready" /\ active = NoTurn /\ cursor = 0 /\ call = NoTurn
    /\ advised = 0
    /\ work = [t \in Turns |-> "none"]
    /\ overtaken = {}

HostNext ==
    \/ \E p \in Profiles, c \in BOOLEAN : HostRestart(p, c)
    \/ HostAdvise
    \/ \E t \in Turns : HostBegin(t) \/ \E o \in Outcomes : HostFinish(t, o)

Cancel(t) ==
    \/ CancelStops(t) \/ CancelStillRunning(t) \/ CancelTooLate(t)
    \/ CancelNotFound(t) \/ CancelAnswerLost(t)

Next ==
    \/ HostNext
    \/ EnsureReady \/ RefreshFails \/ Reconnect
    \/ StartFindsOtherProfile \/ TurnReturns \/ TurnFails
    \/ \E t \in Turns : StartTurn(t) \/ StartBlankTurn(t) \/ Cancel(t)
    \/ \E after \in 0 .. MaxAdvisories : Replay(after)

Spec == Init /\ [][Next]_vars

(* The blocking read ends by its timeout at the latest; the host takes up and
   ends the turns it has received; a caller that finds a turn unresolved
   refreshes the host's identity and asks for cancellation again and again,
   and the exchange is not lost every time. *)
Fairness ==
    /\ WF_vars(TurnReturns \/ TurnFails)
    /\ WF_vars(\E t \in Turns : HostBegin(t) \/ \E o \in Outcomes : HostFinish(t, o))
    /\ SF_vars(active # NoTurn /\ Reconnect)
    /\ SF_vars(\E t \in Turns : CancelTooLate(t) \/ CancelNotFound(t))

FairSpec == Spec /\ Fairness

------------------------------------------------------------------------------
(* Every field holds a value of its type; a call is only under way for the
   active turn and in the Running state. *)
TypeOK ==
    /\ state \in CoordinatorStates /\ cursor \in Nat
    /\ active \in Turns \cup {NoTurn} /\ call \in {NoTurn, active}
    /\ call # NoTurn => state = "Running"
    /\ caps \in Capabilities /\ host \in Capabilities
    /\ advised \in Nat /\ work \in [Turns -> WorkStates]
    /\ overtaken \subseteq Turns

\* A turn that was never reported not_found is at work only while it is active.
UnderwayIsActive ==
    \A t \in Turns \ overtaken : work[t] \in Underway => active = t

(* The coordinator serializes turns at the host too: among the turns that no
   cancellation overtook, at most one has its start on its way or is running,
   however many calls timed out and hosts restarted in between. *)
TurnsSerialized ==
    \A t, u \in Turns \ overtaken :
        (work[t] \in Underway /\ work[u] \in Underway) => t = u

SettledStates == {"Completed", "Cancelled", "Terminal"}

(* A reported end is an end: when the coordinator shows Completed, Cancelled or
   Terminal, no turn it started is still on its way to the host or running
   there, and none is active. *)
SettledIsSettled ==
    state \in SettledStates =>
        /\ active = NoTurn
        /\ \A t \in Turns \ overtaken : work[t] \notin Underway

(* An unresolved turn does not block the coordinator for ever on a host that
   supports turn.cancel: it is resolved, or the host loses that capability. *)
TurnsGetResolved == []<>(active = NoTurn \/ ~host.cancel)

(* lib.rs: the coordinator "treats a reconnect before reconciliation as
   effect_unknown"; docs/COORDINATOR_PROTOCOL.md: "If the host disappears or
   its incarnation changes before the effect is reconciled, the adapter enters
   `effect_unknown`".  So it is never Ready while a turn runs. *)
ReadyMeansReconciled == state = "Ready" => \A t \in Turns : work[t] # "running"
==============================================================================
