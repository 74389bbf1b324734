---------------------- MODULE AgentHostCoordinatorProofs ----------------------
(***************************************************************************)
(* Proofs about AgentHostCoordinator, for any set of turns and profiles    *)
(* and any number of host restarts.  The inductive invariant adds to the   *)
(* types that only the active turn can be at work at the host, among the   *)
(* turns no cancellation overtook, and that a settled state has no active  *)
(* turn; serialization and settlement follow from it.                      *)
(***************************************************************************)
EXTENDS AgentHostCoordinator, TLAPS

\* A settled state has released its turn.
SettledIsReleased == state \in SettledStates => active = NoTurn

IInv == TypeOK /\ UnderwayIsActive /\ SettledIsReleased

------------------------------------------------------------------------------
(* The coordinator starts in Ready with no turn, against a host without work
   (from_client), so the inductive invariant holds initially. *)
LEMMA InitIInv == Init => IInv
  BY CoordinatorAssumption
     DEF Init, IInv, TypeOK, UnderwayIsActive, SettledIsReleased, SettledStates,
         CoordinatorStates, Capabilities, WorkStates, Underway, Outcomes

(* The steps of the host keep the inductive invariant: a restart forgets work,
   and a turn that begins or finishes was already the active one. *)
LEMMA HostKeepsIInv == IInv /\ HostNext => IInv'
  <1> SUFFICES ASSUME IInv, HostNext PROVE IInv'
    OBVIOUS
  <1> USE CoordinatorAssumption
      DEF IInv, TypeOK, UnderwayIsActive, SettledIsReleased, WorkStates,
          Underway, Outcomes, coordVars
  <1>1. ASSUME NEW p \in Profiles, NEW c \in BOOLEAN, HostRestart(p, c)
        PROVE  IInv'
    BY <1>1 DEF HostRestart, Capabilities
  <1>2. CASE HostAdvise
    BY <1>2 DEF HostAdvise
  <1>3. ASSUME NEW t \in Turns, HostBegin(t) PROVE IInv'
    BY <1>3 DEF HostBegin
  <1>4. ASSUME NEW t \in Turns, NEW o \in Outcomes, HostFinish(t, o) PROVE IInv'
    BY <1>4 DEF HostFinish
  <1> QED
    BY <1>1, <1>2, <1>3, <1>4 DEF HostNext

(* Refreshing the host's identity (ensure_ready, reconnect) keeps the inductive
   invariant: it never enters a settled state and never releases a turn. *)
LEMMA RefreshKeepsIInv ==
    IInv /\ (EnsureReady \/ RefreshFails \/ Reconnect \/ StartFindsOtherProfile)
        => IInv'
  <1> SUFFICES ASSUME IInv,
                      EnsureReady \/ RefreshFails \/ Reconnect
                        \/ StartFindsOtherProfile
               PROVE  IInv'
    OBVIOUS
  <1> USE CoordinatorAssumption
      DEF IInv, TypeOK, UnderwayIsActive, SettledIsReleased, SettledStates,
          CoordinatorStates, hostVars, Refresh
  <1>1. CASE EnsureReady
    BY <1>1 DEF EnsureReady, RefreshedState
  <1>2. CASE RefreshFails
    BY <1>2 DEF RefreshFails
  <1>3. CASE Reconnect
    <2>1. cursor' \in Nat
      BY <1>3 DEF Reconnect, Capabilities
    <2> QED
      BY <1>3, <2>1 DEF Reconnect, RefreshedState
  <1>4. CASE StartFindsOtherProfile
    BY <1>4 DEF StartFindsOtherProfile
  <1> QED
    BY <1>1, <1>2, <1>3, <1>4

(* A turn starts only when none is active, so no turn but those a cancellation
   overtook is then at work at the host; its end or failure leaves only itself. *)
LEMMA StartKeepsIInv ==
    ASSUME IInv, NEW t \in Turns,
           StartTurn(t) \/ StartBlankTurn(t) \/ TurnReturns \/ TurnFails
    PROVE  IInv'
  <1> USE CoordinatorAssumption
      DEF IInv, TypeOK, UnderwayIsActive, SettledIsReleased, SettledStates,
          CoordinatorStates, WorkStates, Underway, Outcomes, hostVars
  <1>1. CASE StartTurn(t)
    <2>1. caps' \in Capabilities
      BY <1>1 DEF StartTurn, Negotiated, Refresh
    <2>2. work' \in [Turns -> WorkStates]
      BY <1>1 DEF StartTurn
    <2>3. \A u \in Turns \ overtaken : work'[u] \in Underway => u = t
      BY <1>1 DEF StartTurn, MayStart
    <2> QED
      BY <1>1, <2>1, <2>2, <2>3 DEF StartTurn
  <1>2. CASE StartBlankTurn(t)
    <2>1. caps' \in Capabilities
      BY <1>2 DEF StartBlankTurn, Negotiated, Refresh
    <2> QED
      BY <1>2, <2>1 DEF StartBlankTurn, MayStart
  <1>3. CASE TurnReturns
    <2>1. state' \in SettledStates
      BY <1>3 DEF TurnReturns, StateOfResult
    <2> QED
      BY <1>3, <2>1 DEF TurnReturns
  <1>4. CASE TurnFails
    BY <1>4 DEF TurnFails
  <1> QED
    BY <1>1, <1>2, <1>3, <1>4

(* cancel_turn releases the active turn only when the host no longer works on
   it, or when the answer overtook the start, which the history records. *)
LEMMA CancelKeepsIInv == ASSUME IInv, NEW t \in Turns, Cancel(t) PROVE IInv'
  <1> USE CoordinatorAssumption
      DEF IInv, TypeOK, UnderwayIsActive, SettledIsReleased, SettledStates,
          CoordinatorStates, WorkStates, Underway, Outcomes, CanCancel,
          CancelAnswered, Resolved, coordVars
  <1>1. CASE CancelStops(t)
    BY <1>1 DEF CancelStops
  <1>2. CASE CancelStillRunning(t)
    BY <1>2 DEF CancelStillRunning
  <1>3. CASE CancelTooLate(t)
    BY <1>3 DEF CancelTooLate
  <1>4. CASE CancelNotFound(t)
    BY <1>4 DEF CancelNotFound
  <1>5. CASE CancelAnswerLost(t)
    BY <1>5 DEF CancelAnswerLost
  <1> QED
    BY <1>1, <1>2, <1>3, <1>4, <1>5 DEF Cancel

(* replay moves only the cursor. *)
LEMMA ReplayKeepsIInv ==
    ASSUME IInv, NEW after \in 0 .. MaxAdvisories, Replay(after) PROVE IInv'
  <1>1. cursor' \in Nat
    BY CoordinatorAssumption DEF Replay, PageEnds, IInv, TypeOK, Capabilities
  <1> QED
    BY <1>1 DEF Replay, IInv, TypeOK, UnderwayIsActive, SettledIsReleased, hostVars

(* Every step of the coordinator and of its host keeps the inductive invariant. *)
LEMMA NextKeepsIInv == IInv /\ [Next]_vars => IInv'
  <1> SUFFICES ASSUME IInv, [Next]_vars PROVE IInv'
    OBVIOUS
  <1>1. CASE UNCHANGED vars
    BY <1>1 DEF IInv, TypeOK, UnderwayIsActive, SettledIsReleased, vars,
                coordVars, hostVars
  <1>2. CASE TurnReturns \/ TurnFails
    <2>1. active \in Turns
      BY <1>2, CoordinatorAssumption DEF TurnReturns, TurnFails, IInv, TypeOK
    <2> QED
      BY <1>2, <2>1, StartKeepsIInv
  <1> QED
    BY <1>1, <1>2, HostKeepsIInv, RefreshKeepsIInv, StartKeepsIInv,
       CancelKeepsIInv, ReplayKeepsIInv
       DEF Next

(* The inductive invariant holds in every reachable state. *)
LEMMA IInvAlways == Spec => []IInv
  BY InitIInv, NextKeepsIInv, PTL DEF Spec

------------------------------------------------------------------------------
(* Type correctness: start_turn blocks only for the active turn and only in
   Running, whatever the host does meanwhile. *)
THEOREM TypeCorrect == Spec => []TypeOK
  <1>1. IInv => TypeOK
    BY DEF IInv
  <1> QED
    BY <1>1, IInvAlways, PTL

(* The coordinator serializes turns at the host: start_turn's guard on
   active_turn_id and the releases in start_turn and cancel_turn are enough,
   with timeouts, lost answers and any number of host restarts. *)
THEOREM SerializesTurns == Spec => []TurnsSerialized
  <1>1. IInv => TurnsSerialized
    BY DEF IInv, UnderwayIsActive, TurnsSerialized
  <1> QED
    BY <1>1, IInvAlways, PTL

(* What start_turn and cancel_turn report as Completed, Cancelled or Terminal
   is over at the host as well. *)
THEOREM SettlesTurns == Spec => []SettledIsSettled
  <1>1. IInv => SettledIsSettled
    BY CoordinatorAssumption
       DEF IInv, UnderwayIsActive, SettledIsReleased, SettledIsSettled
  <1> QED
    BY <1>1, IInvAlways, PTL
==============================================================================
