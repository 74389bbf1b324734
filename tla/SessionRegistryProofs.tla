------------------------ MODULE SessionRegistryProofs ------------------------
(***************************************************************************)
(* Proofs about SessionRegistry for any ids, capacities, replay limits and *)
(* reported statuses.  Every operation has one of five effects on the      *)
(* registry (lemma OperationEffect); the invariants, the action property   *)
(* and the refinement of ReplayStream are then proved from the effects     *)
(* alone.                                                                  *)
(***************************************************************************)
EXTENDS SessionReplay, FiniteSetTheorems, TLAPS

\* What every operation preserves of one record.
RecordOK(r) ==
    /\ r \in SessionRecord
    /\ PositionConsistent(r)
    /\ Announced(r)
    /\ Cardinality(r.clients) <= MaxClientsPerSession

\* What every operation preserves of the whole map.
RegistryOK(m) ==
    /\ IsRegistry(m)
    /\ DOMAIN m \subseteq ValidIds
    /\ Cardinality(DOMAIN m) <= MaxSessions
    /\ \A s \in DOMAIN m : RecordOK(m[s])

ReplyOK == reply \in [session : SessionIds \cup {None}, op : Operations, result : Results]

IInv == RegistryOK(sessions) /\ RegistryOK(saved) /\ ReplyOK

------------------------------------------------------------------------------
(* The effects an operation can have on the registry. *)

NoEffect == sessions' = sessions

CreateEffect(s) ==
    /\ s \notin Known /\ ValidId(s)
    /\ Cardinality(Known) < MaxSessions
    /\ \E h \in Hosts \cap ValidIds, now \in Nat :
         sessions' = [t \in Known \cup {s} |->
                        IF t = s THEN NewRecord(h, now) ELSE sessions[t]]

\* The record of s becomes q; `what` relates it to the record it replaces.
RecordEffect(s, q) == s \in Known /\ Put(s, q) /\ RecordOK(q)

SamePosition(r, q) ==
    /\ q.host = r.host /\ q.cursor = r.cursor
    /\ q.responseSequence = r.responseSequence

LaterPosition(r, q) ==
    /\ q.host = r.host
    /\ q.cursor - r.cursor \in 0 .. MaxReplayEvents
    /\ q.responseSequence > r.responseSequence

NewPosition(r, q) == q.host # r.host /\ q.cursor = 0 /\ q.resync

Effect(s) ==
    \/ NoEffect
    \/ CreateEffect(s)
    \/ \E q : /\ RecordEffect(s, q)
              /\ \/ SamePosition(sessions[s], q)
                 \/ /\ LaterPosition(sessions[s], q)
                    /\ reply'.op = "apply_replay" /\ reply'.result = "Ok"
                 \/ NewPosition(sessions[s], q)

\* An operation answers with one of its results and leaves the snapshot alone.
Answers(op) ==
    /\ ReplyOK' /\ reply'.op = op /\ op # "restore"
    /\ saved' = saved

------------------------------------------------------------------------------
(* attach, detach and the other lifecycle operations leave a record whose
   client set is within MAX_CLIENTS_PER_SESSION. *)
LEMMA ClientsFinite == ASSUME NEW r \in SessionRecord PROVE IsFiniteSet(r.clients)
  <1>1. r.clients \subseteq Clients
    BY DEF SessionRecord
  <1> QED
    BY <1>1, RegistryAssumption, FS_Subset

(* Adding a client that attach found room for respects the capacity. *)
LEMMA AttachFits ==
    ASSUME NEW r, RecordOK(r), NEW c, ~Full(r, c)
    PROVE  Cardinality(r.clients \cup {c}) <= MaxClientsPerSession
  <1>1. IsFiniteSet(r.clients)
    BY ClientsFinite DEF RecordOK
  <1>2. Cardinality(r.clients) \in Nat
    BY <1>1, FS_CardinalityType
  <1>3. CASE c \in r.clients
    <2>1. r.clients \cup {c} = r.clients
      BY <1>3
    <2> QED
      BY <2>1 DEF RecordOK
  <1>4. CASE c \notin r.clients
    <2>1. Cardinality(r.clients \cup {c}) = Cardinality(r.clients) + 1
      BY <1>1, <1>4, FS_AddElement
    <2> QED
      BY <1>2, <1>4, <2>1, RegistryAssumption DEF Full
  <1> QED
    BY <1>3, <1>4

(* Removing a client respects the capacity. *)
LEMMA DetachFits ==
    ASSUME NEW r, RecordOK(r), NEW c
    PROVE  Cardinality(r.clients \ {c}) <= MaxClientsPerSession
  <1>1. IsFiniteSet(r.clients)
    BY ClientsFinite DEF RecordOK
  <1>2. /\ Cardinality(r.clients \ {c}) <= Cardinality(r.clients)
        /\ IsFiniteSet(r.clients \ {c})
    BY <1>1, FS_Subset
  <1>3. Cardinality(r.clients \ {c}) \in Nat /\ Cardinality(r.clients) \in Nat
    BY <1>1, <1>2, FS_CardinalityType
  <1> QED
    BY <1>2, <1>3, RegistryAssumption DEF RecordOK

------------------------------------------------------------------------------
(* create opens a session with a validated id and host, or has no effect. *)
LEMMA CreateHasEffect ==
    ASSUME IInv, NEW s \in SessionIds, NEW h \in Hosts, NEW now \in Times,
           Create(s, h, now)
    PROVE  Effect(s) /\ Answers("create")
  <1> USE RegistryAssumption
      DEF Effect, NoEffect, Answers, ReplyOK, Refuse, Reply, Operations, Results
  <1>1. CASE s \notin Known /\ ValidId(s) /\ ValidId(h)
               /\ Cardinality(Known) < MaxSessions
               /\ reply' = [session |-> s, op |-> "create", result |-> "Ok"]
               /\ saved' = saved
               /\ sessions' = [t \in Known \cup {s} |->
                                 IF t = s THEN NewRecord(h, now) ELSE sessions[t]]
    <2>1. CreateEffect(s)
      BY <1>1 DEF CreateEffect, ValidId
    <2> QED
      BY <1>1, <2>1
  <1>2. CASE Refuse(s, "create", "CapacityExceeded")
               \/ Refuse(s, "create", "InvalidPayload")
               \/ Refuse(s, "create", "DuplicateSession")
    BY <1>2
  <1> QED
    BY <1>1, <1>2 DEF Create

(* A refused call has no effect. *)
LEMMA RefuseHasEffect ==
    ASSUME NEW s \in SessionIds, NEW op \in Operations \ {"restore"},
           NEW error \in Results, Refuse(s, op, error)
    PROVE  Effect(s) /\ Answers(op)
  BY DEF Refuse, Reply, Effect, NoEffect, Answers, ReplyOK

(* A call that replaces a record by one that keeps the replay position. *)
LEMMA PutHasEffect ==
    ASSUME NEW s \in SessionIds, s \in Known, NEW op \in Operations \ {"restore"},
           NEW result \in Results, NEW q, RecordOK(q), SamePosition(sessions[s], q),
           Put(s, q), Reply(s, op, result), saved' = saved
    PROVE  Effect(s) /\ Answers(op)
  BY DEF Reply, Effect, RecordEffect, Answers, ReplyOK

(* degrade() keeps a record well-formed: it touches neither position nor the
   announcements, and Degraded is not among the announced statuses. *)
LEMMA DegradeHasEffect ==
    ASSUME IInv, NEW s \in SessionIds, s \in Known,
           NEW op \in Operations \ {"restore"},
           NEW reason \in DegradedReasons, Degrade(s, op, reason)
    PROVE  Effect(s) /\ Answers(op)
  <1> DEFINE r == sessions[s]
             q == [r EXCEPT !.status = "Degraded", !.degraded = reason]
  <1>1. RecordOK(r)
    BY DEF IInv, RegistryOK, Known
  <1>2. RecordOK(q) /\ SamePosition(r, q)
    BY <1>1 DEF RecordOK, SessionRecord, SessionStatus, PositionConsistent,
                Announced, AnnouncedStatuses, SamePosition
  <1>3. reason \in Results
    BY DEF Results
  <1> QED
    BY <1>2, <1>3, PutHasEffect DEF Degrade

(* Later never goes back and is a time. *)
LEMMA LaterIsTime ==
    ASSUME NEW r \in SessionRecord, NEW now \in Times PROVE Later(r, now) \in Nat
  BY RegistryAssumption DEF Later, SessionRecord

(* attach adds a validated client within the capacity, or is refused. *)
LEMMA AttachHasEffect ==
    ASSUME IInv, NEW s \in SessionIds, NEW c \in Clients, NEW now \in Times,
           Attach(s, c, now)
    PROVE  Effect(s) /\ Answers("attach")
  <1>1. CASE \E error \in Results : Refuse(s, "attach", error)
    BY <1>1, RefuseHasEffect DEF Operations
  <1>2. ASSUME s \in Known, ValidId(c), ~Full(sessions[s], c),
               Accept(s, "attach",
                 [sessions[s] EXCEPT !.clients = @ \cup {c}, !.status = "Active",
                                     !.lastActivity = Later(sessions[s], now)])
        PROVE  Effect(s) /\ Answers("attach")
    <2> DEFINE r == sessions[s]
               q == [r EXCEPT !.clients = @ \cup {c}, !.status = "Active",
                              !.lastActivity = Later(r, now)]
    <2>1. RecordOK(r)
      BY <1>2 DEF IInv, RegistryOK, Known
    <2>2. Cardinality(r.clients \cup {c}) <= MaxClientsPerSession
      BY <1>2, <2>1, AttachFits
    <2>3. Later(r, now) \in Nat
      BY <2>1, LaterIsTime DEF RecordOK
    <2>4. RecordOK(q) /\ SamePosition(r, q)
      BY <1>2, <2>1, <2>2, <2>3
         DEF RecordOK, SessionRecord, SessionStatus, PositionConsistent,
             Announced, AnnouncedStatuses, SamePosition, ValidId
    <2> QED
      BY <1>2, <2>4, PutHasEffect DEF Accept, Operations, Results
  <1> QED
    BY <1>1, <1>2 DEF Attach, Unknown, Results

(* detach removes a client. *)
LEMMA DetachHasEffect ==
    ASSUME IInv, NEW s \in SessionIds, NEW c \in Clients, NEW now \in Times,
           Detach(s, c, now)
    PROVE  Effect(s) /\ Answers("detach")
  <1>1. CASE Unknown(s, "detach")
    BY <1>1, RefuseHasEffect DEF Unknown, Operations, Results
  <1>2. CASE ~Unknown(s, "detach")
    <2> DEFINE r == sessions[s]
               q == [r EXCEPT !.clients = r.clients \ {c},
                              !.status = IF r.clients \ {c} = {} /\ @ = "Active"
                                         THEN "Detached" ELSE @,
                              !.lastActivity = Later(r, now)]
    <2>1. s \in Known /\ Accept(s, "detach", q)
      BY <1>2 DEF Detach
    <2>2. RecordOK(r)
      BY <2>1 DEF IInv, RegistryOK, Known
    <2>3. Cardinality(r.clients \ {c}) <= MaxClientsPerSession
      BY <2>2, DetachFits
    <2>4. Later(r, now) \in Nat
      BY <2>2, LaterIsTime DEF RecordOK
    <2>5. RecordOK(q) /\ SamePosition(r, q)
      BY <2>2, <2>3, <2>4
         DEF RecordOK, SessionRecord, SessionStatus, PositionConsistent,
             Announced, AnnouncedStatuses, SamePosition
    <2> QED
      BY <2>1, <2>5, PutHasEffect DEF Accept, Operations, Results
  <1> QED
    BY <1>1, <1>2

(* transition() changes only the status, the activity time and, on close, the
   clients; its targets need no announcement. *)
LEMMA TransitionHasEffect ==
    ASSUME IInv, NEW s \in SessionIds, NEW op \in Operations \ {"restore"},
           NEW now \in Times, NEW allowed, NEW noop,
           NEW target \in {"Paused", "Cancelling", "Closed"},
           Transition(s, op, now, allowed, noop, target)
    PROVE  Effect(s) /\ Answers(op)
  <1>1. CASE \E error \in Results : Refuse(s, op, error)
    BY <1>1, RefuseHasEffect
  <1>2. ASSUME s \in Known,
               Accept(s, op,
                 [sessions[s] EXCEPT !.status = target,
                               !.lastActivity = Later(sessions[s], now),
                               !.clients = IF target = "Closed" THEN {} ELSE @])
        PROVE  Effect(s) /\ Answers(op)
    <2> DEFINE r == sessions[s]
               left == IF target = "Closed" THEN {} ELSE r.clients
               q == [r EXCEPT !.status = target, !.lastActivity = Later(r, now),
                              !.clients = left]
    <2>1. RecordOK(r)
      BY <1>2 DEF IInv, RegistryOK, Known
    <2>2. Later(r, now) \in Nat
      BY <2>1, LaterIsTime DEF RecordOK
    <2>3. /\ left \in SUBSET (Clients \cap ValidIds)
          /\ Cardinality(left) <= MaxClientsPerSession
      BY <2>1, FS_EmptySet, RegistryAssumption DEF RecordOK, SessionRecord
    <2>4. Accept(s, op, q)
      BY <1>2
    <2> HIDE DEF left
    <2>5. RecordOK(q) /\ SamePosition(r, q)
      BY <2>1, <2>2, <2>3
         DEF RecordOK, SessionRecord, SessionStatus, PositionConsistent,
             Announced, AnnouncedStatuses, SamePosition
    <2> QED
      BY <1>2, <2>4, <2>5, PutHasEffect DEF Accept, Results
  <1> QED
    BY <1>1, <1>2 DEF Transition, Unknown, Results

(* resume leaves Paused for Active or Detached. *)
LEMMA ResumeHasEffect ==
    ASSUME IInv, NEW s \in SessionIds, NEW now \in Times, Resume(s, now)
    PROVE  Effect(s) /\ Answers("resume")
  <1>1. CASE \E error \in Results : Refuse(s, "resume", error)
    BY <1>1, RefuseHasEffect DEF Operations
  <1> DEFINE r == sessions[s]
             q == [r EXCEPT !.status = IF r.clients = {} THEN "Detached" ELSE "Active",
                            !.lastActivity = Later(r, now)]
  <1>2. ASSUME s \in Known, Accept(s, "resume", q)
        PROVE  Effect(s) /\ Answers("resume")
    <2>1. RecordOK(r)
      BY <1>2 DEF IInv, RegistryOK, Known
    <2>2. Later(r, now) \in Nat
      BY <2>1, LaterIsTime DEF RecordOK
    <2>3. RecordOK(q) /\ SamePosition(r, q)
      BY <2>1, <2>2
         DEF RecordOK, SessionRecord, SessionStatus, PositionConsistent,
             Announced, AnnouncedStatuses, SamePosition
    <2> QED
      BY <1>2, <2>3, PutHasEffect DEF Accept, Operations, Results
  <1> QED
    BY <1>1, <1>2 DEF Resume, Unknown, Results

(* apply_status remembers the notification of the status it sets. *)
LEMMA ApplyStatusHasEffect ==
    ASSUME IInv, NEW s \in SessionIds, NEW status \in ReportedStatuses,
           NEW blocked \in BOOLEAN, NEW now \in Times,
           ApplyStatus(s, status, blocked, now)
    PROVE  Effect(s) /\ Answers("apply_status")
  <1>1. CASE \E error \in Results : Refuse(s, "apply_status", error)
    BY <1>1, RefuseHasEffect DEF Operations
  <1> DEFINE r == sessions[s]
             needs == blocked \/ status = "Blocked"
             q == [r EXCEPT !.status = status, !.blocked = needs,
                            !.lastActivity = Later(r, now), !.degraded = None,
                            !.emitted = EmittedAfter(r, status)]
  <1>2. ASSUME s \in Known, Put(s, q), saved' = saved,
               \E result \in Results : Reply(s, "apply_status", result)
        PROVE  Effect(s) /\ Answers("apply_status")
    <2>1. RecordOK(r)
      BY <1>2 DEF IInv, RegistryOK, Known
    <2>2. Later(r, now) \in Nat
      BY <2>1, LaterIsTime DEF RecordOK
    <2>3. /\ EmittedAfter(r, status) \in SUBSET NotificationKinds
          /\ status \in AnnouncedStatuses => status \in EmittedAfter(r, status)
      BY <2>1 DEF EmittedAfter, RecordOK, SessionRecord, AnnouncedStatuses,
                  NotificationKinds
    <2>4. needs \in BOOLEAN /\ (status = "Blocked" => needs)
      OBVIOUS
    <2>5. status \in SessionStatus
      BY RegistryAssumption
    <2> HIDE DEF needs
    <2>6. RecordOK(q) /\ SamePosition(r, q)
      BY <2>1, <2>2, <2>3, <2>4, <2>5
         DEF RecordOK, SessionRecord, PositionConsistent, Announced, SamePosition
    <2> QED
      BY <1>2, <2>6, PutHasEffect DEF Operations
  <1> QED
    BY <1>1, <1>2 DEF ApplyStatus, Unknown, Results

(* reconnect keeps the position, or binds the session to another validated
   incarnation at cursor zero with a resync pending. *)
LEMMA ReconnectHasEffect ==
    ASSUME IInv, NEW s \in SessionIds, NEW h \in Hosts, NEW after \in Cursors,
           NEW limit \in Limits, Reconnect(s, h, after, limit)
    PROVE  Effect(s) /\ Answers("reconnect")
  <1>1. CASE \E error \in Results : Refuse(s, "reconnect", error)
    BY <1>1, RefuseHasEffect DEF Operations
  <1>2. CASE s \in Known /\ \E reason \in DegradedReasons :
                                Degrade(s, "reconnect", reason)
    BY <1>2, DegradeHasEffect DEF Operations
  <1>3. ASSUME s \in Known, ValidId(h), sessions[s].host # h,
               Put(s, Rebound(sessions[s], h)), Reply(s, "reconnect", "Resync"),
               saved' = saved
        PROVE  Effect(s) /\ Answers("reconnect")
    <2> DEFINE r == sessions[s]
               q == Rebound(r, h)
    <2>1. RecordOK(r)
      BY <1>3 DEF IInv, RegistryOK, Known
    <2>2. RecordOK(q) /\ NewPosition(r, q)
      BY <1>3, <2>1
         DEF RecordOK, SessionRecord, PositionConsistent, Announced, NewPosition,
             Rebound, ValidId
    <2> QED
      BY <1>3, <2>2 DEF Effect, RecordEffect, Answers, ReplyOK, Reply,
                        Operations, Results
  <1> QED
    BY <1>1, <1>2, <1>3 DEF Reconnect, Unknown, Results, DegradedReasons

(* apply_replay keeps the position, or moves the cursor forward by a bounded
   batch under a greater response sequence. *)
LEMMA ApplyReplayHasEffect ==
    ASSUME IInv, NEW s \in SessionIds, NEW h \in Hosts, NEW seq \in Sequences,
           NEW from \in Cursors, NEW to \in Cursors,
           ApplyReplay(s, h, seq, from, to)
    PROVE  Effect(s) /\ Answers("apply_replay")
  <1>1. CASE \E error \in Results : Refuse(s, "apply_replay", error)
    BY <1>1, RefuseHasEffect DEF Operations
  <1>2. CASE s \in Known /\ \E reason \in DegradedReasons :
                                Degrade(s, "apply_replay", reason)
    BY <1>2, DegradeHasEffect DEF Operations
  <1>3. ASSUME s \in Known, NewerSequence(sessions[s], seq),
               from = sessions[s].cursor, to - from \in 0 .. MaxReplayEvents,
               Accept(s, "apply_replay", Replayed(sessions[s], seq, to))
        PROVE  Effect(s) /\ Answers("apply_replay")
    <2> DEFINE r == sessions[s]
               q == Replayed(r, seq, to)
    <2>1. RecordOK(r)
      BY <1>3 DEF IInv, RegistryOK, Known
    <2>2. r \in SessionRecord /\ r.responseSequence \in Nat /\ r.cursor \in Nat
      BY <2>1 DEF RecordOK, SessionRecord
    <2>3. seq \in Nat /\ to \in Nat /\ seq > r.responseSequence
      BY <1>3, RegistryAssumption DEF NewerSequence
    <2>4. q \in SessionRecord
      BY <2>2, <2>3 DEF SessionRecord, Replayed
    <2>5. q.cursor = to /\ q.responseSequence = seq /\ ~q.resync
            /\ q.host = r.host /\ q.status = r.status /\ q.emitted = r.emitted
            /\ q.blocked = r.blocked /\ q.clients = r.clients
      BY <2>2 DEF SessionRecord, Replayed
    <2> HIDE DEF q
    <2>6. LaterPosition(r, q)
      BY <1>3, <2>2, <2>3, <2>5 DEF LaterPosition
    <2>7. seq # 0
      BY <2>2, <2>3
    <2>8. RecordOK(q)
      BY <2>1, <2>4, <2>5, <2>7 DEF RecordOK, PositionConsistent, Announced
    <2> USE DEF q
    <2> QED
      BY <1>3, <2>6, <2>8 DEF Effect, RecordEffect, Answers, ReplyOK, Accept, Reply,
                        Operations, Results
  <1> QED
    BY <1>1, <1>2, <1>3 DEF ApplyReplay, Unknown, Results, DegradedReasons

(* Every operation on a session has one of the effects. *)
LEMMA OperationEffect ==
    ASSUME IInv, NEW s \in SessionIds, Lifecycle(s) \/ Replay(s)
    PROVE  Effect(s) /\ \E op \in Operations : Answers(op)
  <1>1. CASE Lifecycle(s)
    <2> PICK now \in Times :
          \/ \E h \in Hosts : Create(s, h, now)
          \/ \E c \in Clients : Attach(s, c, now) \/ Detach(s, c, now)
          \/ Pause(s, now) \/ Resume(s, now) \/ Cancel(s, now) \/ Close(s, now)
          \/ \E status \in ReportedStatuses, blocked \in BOOLEAN :
                ApplyStatus(s, status, blocked, now)
      BY <1>1 DEF Lifecycle
    <2>1. CASE Pause(s, now)
      <3>1. Answers("pause") /\ Effect(s)
        BY <2>1, TransitionHasEffect DEF Pause, Operations
      <3> QED
        BY <3>1 DEF Operations
    <2>2. CASE Cancel(s, now)
      <3>1. Answers("cancel") /\ Effect(s)
        BY <2>2, TransitionHasEffect DEF Cancel, Operations
      <3> QED
        BY <3>1 DEF Operations
    <2>3. CASE Close(s, now)
      <3>1. Answers("close") /\ Effect(s)
        BY <2>3, TransitionHasEffect DEF Close, Operations
      <3> QED
        BY <3>1 DEF Operations
    <2>4. CASE Resume(s, now)
      BY <2>4, ResumeHasEffect DEF Operations
    <2>5. CASE \E h \in Hosts : Create(s, h, now)
      BY <2>5, CreateHasEffect DEF Operations
    <2>6. CASE \E c \in Clients : Attach(s, c, now) \/ Detach(s, c, now)
      BY <2>6, AttachHasEffect, DetachHasEffect DEF Operations
    <2>7. CASE \E status \in ReportedStatuses, blocked \in BOOLEAN :
                 ApplyStatus(s, status, blocked, now)
      BY <2>7, ApplyStatusHasEffect DEF Operations
    <2> QED
      BY <2>1, <2>2, <2>3, <2>4, <2>5, <2>6, <2>7
  <1>2. CASE Replay(s)
    BY <1>2, ReconnectHasEffect, ApplyReplayHasEffect DEF Replay, Operations
  <1> QED
    BY <1>1, <1>2

------------------------------------------------------------------------------
(* A new session starts at a consistent position, unannounced and unattached. *)
LEMMA NewRecordOK ==
    ASSUME NEW h \in Hosts \cap ValidIds, NEW now \in Nat
    PROVE  RecordOK(NewRecord(h, now))
  <1>1. Cardinality({}) <= MaxClientsPerSession
    BY FS_EmptySet, RegistryAssumption
  <1> QED
    BY <1>1 DEF RecordOK, NewRecord, SessionRecord, SessionStatus,
                PositionConsistent, Announced, AnnouncedStatuses

(* Each effect keeps the registry well-formed. *)
LEMMA EffectKeepsRegistry ==
    ASSUME IInv, NEW s \in SessionIds, Effect(s)
    PROVE  RegistryOK(sessions)'
  <1> USE DEF IInv, RegistryOK, IsRegistry, Known
  <1>1. CASE NoEffect
    BY <1>1 DEF NoEffect
  <1>2. CASE CreateEffect(s)
    <2> PICK h \in Hosts \cap ValidIds, now \in Nat :
          sessions' = [t \in Known \cup {s} |->
                         IF t = s THEN NewRecord(h, now) ELSE sessions[t]]
      BY <1>2 DEF CreateEffect
    <2>1. DOMAIN sessions' = Known \cup {s}
      OBVIOUS
    <2>2. \A t \in Known \cup {s} : RecordOK(sessions'[t])
      BY NewRecordOK
    <2>3. IsFiniteSet(Known)
      BY RegistryAssumption, FS_Subset
    <2>4. Cardinality(Known \cup {s}) = Cardinality(Known) + 1
      BY <1>2, <2>3, FS_AddElement DEF CreateEffect
    <2>5. Cardinality(Known) \in Nat
      BY <2>3, FS_CardinalityType
    <2>6. Cardinality(DOMAIN sessions') <= MaxSessions
      BY <1>2, <2>1, <2>4, <2>5, RegistryAssumption DEF CreateEffect
    <2>7. sessions' \in [DOMAIN sessions' -> SessionRecord]
      BY <2>1, <2>2 DEF RecordOK
    <2> QED
      BY <1>2, <2>1, <2>2, <2>6, <2>7 DEF CreateEffect, ValidId
  <1>3. ASSUME NEW q, RecordEffect(s, q) PROVE RegistryOK(sessions)'
    <2>1. DOMAIN sessions' = DOMAIN sessions
      BY <1>3 DEF RecordEffect, Put
    <2>2. \A t \in DOMAIN sessions : RecordOK(sessions'[t])
      BY <1>3 DEF RecordEffect, Put
    <2>3. sessions' \in [DOMAIN sessions -> SessionRecord]
      BY <1>3 DEF RecordEffect, Put, RecordOK
    <2> QED
      BY <2>1, <2>2, <2>3
  <1> QED
    BY <1>1, <1>2, <1>3 DEF Effect

(* An empty registry is well-formed. *)
LEMMA InitIInv == Init => IInv
  <1> SUFFICES ASSUME Init PROVE IInv
    OBVIOUS
  <1>1. DOMAIN sessions = {} /\ DOMAIN saved = {}
    BY DEF Init
  <1>2. Cardinality({}) <= MaxSessions
    BY FS_EmptySet, RegistryAssumption
  <1> QED
    BY <1>1, <1>2 DEF Init, IInv, RegistryOK, IsRegistry, ReplyOK, Operations, Results

(* Every step keeps both the live registry and the kept snapshot well-formed. *)
LEMMA NextKeepsIInv == IInv /\ [Next]_vars => IInv'
  <1> SUFFICES ASSUME IInv, [Next]_vars PROVE IInv'
    OBVIOUS
  <1>1. ASSUME NEW s \in SessionIds, Lifecycle(s) \/ Replay(s) PROVE IInv'
    <2>1. RegistryOK(sessions)'
      BY <1>1, OperationEffect, EffectKeepsRegistry
    <2>2. ReplyOK' /\ saved' = saved
      BY <1>1, OperationEffect DEF Answers
    <2>3. RegistryOK(saved)'
      BY <2>2 DEF IInv, RegistryOK, IsRegistry
    <2> QED
      BY <2>1, <2>2, <2>3 DEF IInv
  <1>2. CASE Snapshot
    BY <1>2 DEF Snapshot, IInv, RegistryOK, IsRegistry, ReplyOK
  <1>3. CASE Restore
    BY <1>3 DEF Restore, IInv, RegistryOK, IsRegistry, ReplyOK, Operations, Results
  <1>4. CASE UNCHANGED vars
    BY <1>4 DEF vars, IInv, RegistryOK, IsRegistry, ReplyOK
  <1> QED
    BY <1>1, <1>2, <1>3, <1>4 DEF Next

(* The inductive invariant holds in every reachable state. *)
LEMMA IInvAlways == Spec => []IInv
  BY InitIInv, NextKeepsIInv, PTL DEF Spec

------------------------------------------------------------------------------
(* Type correctness: every stored record is well-formed and carries only
   validated ids, and every operation returns a declared result. *)
THEOREM TypeCorrect == Spec => []TypeOK
  <1>1. IInv => TypeOK
    BY DEF IInv, TypeOK, RegistryOK, ReplyOK
  <1> QED
    BY <1>1, IInvAlways, PTL

(* restore() accepts every snapshot this registry produced. *)
THEOREM SnapshotsRestore == Spec => []SnapshotRestorable
  <1>1. IInv => SnapshotRestorable
    BY DEF IInv, RegistryOK, IsRegistry, RecordOK, SessionRecord,
           SnapshotRestorable, RestoreAccepts, ValidId
  <1> QED
    BY <1>1, IInvAlways, PTL

(* A pending resync has applied nothing, and no cursor moved without a numbered
   response, in the registry and in the snapshot. *)
THEOREM PositionsSound == Spec => []ReplayPositionSound
  <1>1. IInv => ReplayPositionSound
    BY DEF IInv, RegistryOK, RecordOK, ReplayPositionSound, Known
  <1> QED
    BY <1>1, IInvAlways, PTL

(* No session waits for approval, blocks, fails or finishes unannounced. *)
THEOREM AttentionIsAnnounced == Spec => []AttentionAnnounced
  <1>1. IInv => AttentionAnnounced
    BY DEF IInv, RegistryOK, RecordOK, AttentionAnnounced, Known
  <1> QED
    BY <1>1, IInvAlways, PTL

------------------------------------------------------------------------------
\* The step that ResponsesApplyInOrder allows.
InOrderStep ==
    ~Restoring => \A s \in Known :
        LET r == sessions[s]
            q == sessions'[s]
        IN /\ q.host = r.host =>
                \/ q.cursor = r.cursor /\ q.responseSequence = r.responseSequence
                \/ /\ q.responseSequence > r.responseSequence
                   /\ q.cursor - r.cursor \in 0 .. MaxReplayEvents
                   /\ reply'.op = "apply_replay" /\ reply'.result = "Ok"
           /\ q.host # r.host => q.cursor = 0 /\ q.resync

(* An operation on one session moves no other session's cursor, and its own
   only as apply_replay and reconnect may. *)
LEMMA EffectInOrder ==
    ASSUME IInv, NEW s \in SessionIds, Effect(s) PROVE InOrderStep
  <1> USE DEF IInv, RegistryOK, IsRegistry, Known
  <1>1. CASE NoEffect
    BY <1>1 DEF NoEffect, InOrderStep
  <1>2. CASE CreateEffect(s)
    <2>1. \A t \in Known : sessions'[t] = sessions[t]
      BY <1>2 DEF CreateEffect
    <2> QED
      BY <2>1 DEF InOrderStep
  <1>3. ASSUME NEW q, RecordEffect(s, q),
               \/ SamePosition(sessions[s], q)
               \/ /\ LaterPosition(sessions[s], q)
                  /\ reply'.op = "apply_replay" /\ reply'.result = "Ok"
               \/ NewPosition(sessions[s], q)
        PROVE  InOrderStep
    <2>1. /\ s \in Known /\ sessions'[s] = q
          /\ \A t \in Known \ {s} : sessions'[t] = sessions[t]
      BY <1>3 DEF RecordEffect, Put
    <2> QED
      BY <1>3, <2>1 DEF InOrderStep, SamePosition, LaterPosition, NewPosition
  <1> QED
    BY <1>1, <1>2, <1>3 DEF Effect

(* Responses apply in order, by bounded batches, and rejected calls preserve
   the cursor, in every behaviour of the registry. *)
THEOREM RepliesApplyInOrder == Spec => ResponsesApplyInOrder
  <1>1. IInv /\ [Next]_vars => [InOrderStep]_vars
    <2> SUFFICES ASSUME IInv, Next PROVE InOrderStep \/ UNCHANGED vars
      OBVIOUS
    <2>1. ASSUME NEW s \in SessionIds, Lifecycle(s) \/ Replay(s) PROVE InOrderStep
      BY <2>1, OperationEffect, EffectInOrder
    <2>2. CASE Snapshot
      BY <2>2 DEF Snapshot, InOrderStep
    <2>3. CASE Restore
      BY <2>3 DEF Restore, InOrderStep, Restoring
    <2> QED
      BY <2>1, <2>2, <2>3 DEF Next
  <1>2. ResponsesApplyInOrder <=> [][InOrderStep]_vars
    BY DEF ResponsesApplyInOrder, InOrderStep
  <1> QED
    BY <1>1, <1>2, IInvAlways, PTL DEF Spec

------------------------------------------------------------------------------
(* An operation on the registry is a step of the abstract stream, or leaves the
   positions alone. *)
LEMMA EffectIsStreamStep ==
    ASSUME IInv, NEW s \in SessionIds, Effect(s), saved' = saved
    PROVE  [Stream!Next]_(Stream!streamVars)
  <1> USE DEF IInv, RegistryOK, IsRegistry, Known
  <1>1. Position(saved)' = Position(saved)
    BY DEF Position
  <1>2. CASE NoEffect
    BY <1>1, <1>2 DEF NoEffect, Position, Stream!streamVars
  <1>3. CASE CreateEffect(s)
    <2> PICK h \in Hosts \cap ValidIds, now \in Nat :
          sessions' = [t \in Known \cup {s} |->
                         IF t = s THEN NewRecord(h, now) ELSE sessions[t]]
      BY <1>3 DEF CreateEffect
    <2>1. Stream!Open(s, h)
      BY <1>1, <1>3 DEF CreateEffect, Stream!Open, Position, NewRecord
    <2> QED
      BY <2>1 DEF Stream!Next
  <1>4. ASSUME NEW q, RecordEffect(s, q) PROVE
          /\ s \in DOMAIN Position(sessions)
          /\ Position(sessions)' = [Position(sessions) EXCEPT ![s] =
                                      [host |-> q.host, cursor |-> q.cursor]]
    BY <1>4 DEF RecordEffect, Put, Position
  <1>5. ASSUME NEW q, RecordEffect(s, q), SamePosition(sessions[s], q)
        PROVE  Position(sessions)' = Position(sessions)
    BY <1>5 DEF RecordEffect, Put, Position, SamePosition
  <1>6. ASSUME NEW q, RecordEffect(s, q), NewPosition(sessions[s], q)
        PROVE  Stream!Rebind(s, q.host) /\ q.host \in Hosts
    <2>1. q.host \in Hosts
      BY <1>6 DEF RecordEffect, RecordOK, SessionRecord
    <2>2. Position(sessions)[s].host = sessions[s].host
      BY <1>6 DEF RecordEffect, Position
    <2> QED
      BY <1>1, <1>4, <1>6, <2>1, <2>2 DEF Stream!Rebind, NewPosition
  <1>7. ASSUME NEW q, RecordEffect(s, q), LaterPosition(sessions[s], q)
        PROVE  \/ Position(sessions)' = Position(sessions)
               \/ \E n \in 1 .. MaxReplayEvents : Stream!Advance(s, n)
    <2> DEFINE r == sessions[s]
               n == q.cursor - r.cursor
    <2>1. r \in SessionRecord /\ q \in SessionRecord /\ s \in Known
      BY <1>7 DEF RecordEffect, RecordOK
    <2>2. r.cursor \in Nat /\ q.cursor \in Nat
      BY <2>1 DEF SessionRecord
    <2>3. n \in 0 .. MaxReplayEvents /\ q.host = r.host
      BY <1>7 DEF LaterPosition
    <2>4. Position(sessions)[s] = [host |-> r.host, cursor |-> r.cursor]
      BY <2>1 DEF Position
    <2>5. CASE n = 0
      <3>1. q.cursor = r.cursor
        BY <2>2, <2>5
      <3> QED
        BY <1>7, <2>3, <3>1 DEF RecordEffect, Put, Position
    <2>6. CASE n # 0
      <3>1. n \in 1 .. MaxReplayEvents /\ r.cursor + n = q.cursor
        BY <2>2, <2>3, <2>6, RegistryAssumption
      <3>2. Position(sessions)' = [Position(sessions) EXCEPT ![s].cursor = @ + n]
        BY <1>4, <1>7, <2>3, <2>4, <3>1
      <3> QED
        BY <1>1, <1>4, <1>7, <3>1, <3>2 DEF Stream!Advance
    <2> QED
      BY <2>5, <2>6
  <1>8. ASSUME NEW q, RecordEffect(s, q),
               \/ SamePosition(sessions[s], q)
               \/ LaterPosition(sessions[s], q)
               \/ NewPosition(sessions[s], q)
        PROVE  [Stream!Next]_(Stream!streamVars)
    BY <1>1, <1>5, <1>6, <1>7, <1>8 DEF Stream!Next, Stream!streamVars
  <1> QED
    BY <1>2, <1>3, <1>8 DEF Effect

(* The registry implements the abstract replay stream: whatever callers and
   hosts do, a session's position moves only by contiguous bounded batches, a
   rebind to zero, or a return to the snapshot. *)
THEOREM RefinesStream == Spec => ImplementsStream
  <1>1. Init => Stream!Init
    BY DEF Init, Stream!Init, Position
  <1>2. IInv /\ [Next]_vars => [Stream!Next]_(Stream!streamVars)
    <2> SUFFICES ASSUME IInv, [Next]_vars
                 PROVE  [Stream!Next]_(Stream!streamVars)
      OBVIOUS
    <2>1. ASSUME NEW s \in SessionIds, Lifecycle(s) \/ Replay(s)
          PROVE  [Stream!Next]_(Stream!streamVars)
      BY <2>1, OperationEffect, EffectIsStreamStep DEF Answers
    <2>2. CASE Snapshot
      BY <2>2 DEF Snapshot, Position, Stream!Next, Stream!Checkpoint
    <2>3. CASE Restore
      BY <2>3 DEF Restore, Position, Stream!Next, Stream!Rollback
    <2>4. CASE UNCHANGED vars
      BY <2>4 DEF vars, Position, Stream!streamVars
    <2> QED
      BY <2>1, <2>2, <2>3, <2>4 DEF Next
  <1> QED
    BY <1>1, <1>2, IInvAlways, PTL DEF Spec, ImplementsStream, Stream!Spec
------------------------------------------------------------------------------
(* The registry between a host that restarts and surfaces whose discoveries and
   responses arrive late.  The property is not inductive by itself: the host must
   have logged what a response on the wire carries, and the responses of a host
   are numbered by the size of a set, which is a number because it is finite. *)

Response == [host : Hosts, from : Nat, to : Nat, seq : Nat]
Discovery == [host : Hosts \cap ValidIds, after : Nat]

\* The registry holds the session; the host and the surfaces keep their shape.
Surroundings ==
    /\ DOMAIN sessions = {Sid} /\ sessions = [s \in {Sid} |-> Record]
    /\ Record \in SessionRecord
    /\ live \in 1 .. Len(Incarnations)
    /\ log \in [Hosts -> Nat]
    /\ found \in [Clients -> {Nothing} \cup Discovery]
    /\ asked \subseteq [host : Hosts, from : Nat]
    /\ wire \subseteq Response /\ IsFiniteSet(wire)

\* A response carries events, and only events that its host has logged.
WireLogged == \A m \in wire : m.from < m.to /\ m.to <= log[m.host]

ReplayIInv == Surroundings /\ WireLogged /\ TakenIsPrefix

\* The running host is one of the incarnations.
LEMMA LiveHostIs ==
    ASSUME live \in 1 .. Len(Incarnations)
    PROVE  LiveHost \in Hosts \cap ValidIds
  BY ReplayAssumption DEF LiveHost

\* Taking the events of a response after the first ones gives the first ones.
LEMMA TakenExtended ==
    ASSUME NEW a \in Nat, NEW b \in Nat, a <= b
    PROVE  [i \in 1 .. a |-> i] \o [i \in 1 .. (b - a) |-> a + i] = [i \in 1 .. b |-> i]
  <1> DEFINE s == [i \in 1 .. a |-> i]
             e == [i \in 1 .. (b - a) |-> a + i]
  <1>1. s \in Seq(Nat) /\ Len(s) = a /\ e \in Seq(Nat) /\ Len(e) = b - a
    OBVIOUS
  <1>2. s \o e = [i \in 1 .. a + (b - a) |-> IF i <= a THEN s[i] ELSE e[i - a]]
    BY <1>1
  <1>3. \A i \in 1 .. b : (IF i <= a THEN s[i] ELSE e[i - a]) = i
    OBVIOUS
  <1>4. a + (b - a) = b
    OBVIOUS
  <1> HIDE DEF s, e
  <1>5. s \o e = [i \in 1 .. b |-> IF i <= a THEN s[i] ELSE e[i - a]]
    BY <1>2, <1>4
  <1>6. s \o e = [i \in 1 .. b |-> i]
    BY <1>3, <1>5
  <1> QED BY <1>6 DEF s, e

\* What a call of the registry does to the position of the session.
PositionKept ==
    /\ DOMAIN sessions' = {Sid} /\ sessions' = [s \in {Sid} |-> sessions'[Sid]]
    /\ sessions'[Sid] \in SessionRecord
    /\ sessions'[Sid].host = Record.host
    /\ sessions'[Sid].cursor = Record.cursor
    /\ sessions'[Sid].responseSequence = Record.responseSequence

LEMMA RefuseKeepsPosition ==
    ASSUME Surroundings, NEW op, NEW error, Refuse(Sid, op, error)
    PROVE  PositionKept
  BY DEF Refuse, Surroundings, PositionKept, Record

LEMMA DegradeKeepsPosition ==
    ASSUME Surroundings, NEW op, NEW reason \in DegradedReasons, Degrade(Sid, op, reason)
    PROVE  PositionKept
  <1> DEFINE q == [Record EXCEPT !.status = "Degraded", !.degraded = reason]
  <1>1. sessions' = [sessions EXCEPT ![Sid] = q]
    BY DEF Degrade, Put, Record
  <1>2. /\ q \in SessionRecord /\ q.host = Record.host /\ q.cursor = Record.cursor
        /\ q.responseSequence = Record.responseSequence
    BY DEF Surroundings, SessionRecord, SessionStatus
  <1>3. sessions' = [s \in {Sid} |-> q] /\ sessions'[Sid] = q
    BY <1>1 DEF Surroundings
  <1> QED BY <1>2, <1>3 DEF PositionKept

LEMMA ReconnectPosition ==
    ASSUME Surroundings, NEW h \in Hosts \cap ValidIds, NEW after \in Nat,
           Reconnect(Sid, h, after, Batch)
    PROVE  \/ PositionKept /\ reply'.result # "Resync"
           \/ /\ DOMAIN sessions' = {Sid} /\ sessions' = [s \in {Sid} |-> sessions'[Sid]]
              /\ sessions'[Sid] \in SessionRecord
              /\ sessions'[Sid].host = h
              /\ sessions'[Sid].cursor = 0
              /\ reply'.result = "Resync"
  <1>1. ValidId(h) /\ Batch \in 1 .. MaxReplayEvents /\ Sid \in Known
    BY ReplayAssumption DEF ValidId, Known, Surroundings
  <1>2. CASE /\ Put(Sid, Rebound(Record, h))
             /\ Reply(Sid, "reconnect", "Resync")
    <2> DEFINE q == Rebound(Record, h)
    <2>1. q \in SessionRecord /\ q.host = h /\ q.cursor = 0
      BY DEF Surroundings, SessionRecord, Rebound
    <2>2. sessions' = [s \in {Sid} |-> q] /\ sessions'[Sid] = q
      BY <1>2 DEF Put, Surroundings
    <2> HIDE DEF q
    <2> QED BY <1>2, <2>1, <2>2 DEF Reply
  <1>3. CASE \E reason \in {"StaleCursor", "FutureCursor"} : Degrade(Sid, "reconnect", reason)
    <2>1. PICK reason \in {"StaleCursor", "FutureCursor"} : Degrade(Sid, "reconnect", reason)
      BY <1>3
    <2>2. reason \in DegradedReasons /\ reason # "Resync"
      BY DEF DegradedReasons
    <2>3. PositionKept
      BY <2>1, <2>2, DegradeKeepsPosition
    <2> QED BY <2>1, <2>2, <2>3 DEF Degrade, Reply
  <1>4. CASE Refuse(Sid, "reconnect", "Replay")
    BY <1>4, RefuseKeepsPosition DEF Refuse, Reply
  <1>5. \/ Put(Sid, Rebound(Record, h)) /\ Reply(Sid, "reconnect", "Resync")
        \/ Degrade(Sid, "reconnect", "StaleCursor")
        \/ Degrade(Sid, "reconnect", "FutureCursor")
        \/ Refuse(Sid, "reconnect", "Replay")
    BY <1>1 DEF Reconnect, Unknown, Record
  <1> QED BY <1>2, <1>3, <1>4, <1>5

LEMMA ApplyReplayPosition ==
    ASSUME Surroundings, NEW m \in Response, ApplyReplay(Sid, m.host, m.seq, m.from, m.to)
    PROVE  \/ PositionKept
           \/ /\ DOMAIN sessions' = {Sid} /\ sessions' = [s \in {Sid} |-> sessions'[Sid]]
              /\ sessions'[Sid] \in SessionRecord
              /\ m.host = Record.host /\ m.from = Record.cursor
              /\ sessions'[Sid].host = Record.host
              /\ sessions'[Sid].cursor = m.to
              /\ sessions'[Sid].responseSequence # Record.responseSequence
  <1>1. Sid \in Known
    BY DEF Known, Surroundings
  <1>2. CASE /\ m.host = Record.host /\ m.from = Record.cursor
             /\ NewerSequence(Record, m.seq)
             /\ Put(Sid, Replayed(Record, m.seq, m.to))
    <2> DEFINE q == Replayed(Record, m.seq, m.to)
    <2>1. m.seq \in Nat /\ m.to \in Nat /\ Record.responseSequence \in Nat
      BY DEF Response, Surroundings, SessionRecord
    <2>2. /\ q \in SessionRecord /\ q.host = Record.host /\ q.cursor = m.to
          /\ q.responseSequence = m.seq
      BY <2>1 DEF Surroundings, SessionRecord, Replayed
    <2>3. m.seq # Record.responseSequence
      BY <1>2, <2>1 DEF NewerSequence
    <2>4. sessions' = [s \in {Sid} |-> q] /\ sessions'[Sid] = q
      BY <1>2 DEF Put, Surroundings
    <2> HIDE DEF q
    <2> QED BY <1>2, <2>2, <2>3, <2>4
  <1>3. CASE \E reason \in DegradedReasons : Degrade(Sid, "apply_replay", reason)
    BY <1>3, DegradeKeepsPosition
  <1>4. CASE \E error \in {"Ok", "StaleCursor"} : Refuse(Sid, "apply_replay", error)
    BY <1>4, RefuseKeepsPosition
  <1>5. \/ /\ m.host = Record.host /\ m.from = Record.cursor
           /\ NewerSequence(Record, m.seq)
           /\ Accept(Sid, "apply_replay", Replayed(Record, m.seq, m.to))
        \/ \E reason \in DegradedReasons : Degrade(Sid, "apply_replay", reason)
        \/ \E error \in {"Ok", "StaleCursor"} : Refuse(Sid, "apply_replay", error)
    BY <1>1 DEF ApplyReplay, Unknown, Record, DegradedReasons
  <1> QED BY <1>2, <1>3, <1>4, <1>5 DEF Accept

LEMMA ReplayInitIInv == ReplayInit => ReplayIInv
  <1> SUFFICES ASSUME ReplayInit PROVE ReplayIInv
    OBVIOUS
  <1>1. 1 \in 1 .. Len(Incarnations) /\ Incarnations[1] \in Hosts \cap ValidIds
    BY ReplayAssumption
  <1>2. NewRecord(Incarnations[1], 0) \in SessionRecord
    BY <1>1, NewRecordOK DEF RecordOK
  <1>3. Record = NewRecord(Incarnations[1], 0)
    BY DEF ReplayInit, Record
  <1>4. Record.cursor = 0 /\ Record.host = Incarnations[1]
    BY <1>3 DEF NewRecord
  <1>5. TakenIsPrefix
    BY <1>1, <1>4 DEF TakenIsPrefix, ReplayInit
  <1>6. IsFiniteSet({})
    BY FS_EmptySet
  <1> QED BY <1>1, <1>2, <1>3, <1>5, <1>6 DEF ReplayIInv, Surroundings, WireLogged, ReplayInit

LEMMA ReplayNextIInv == ReplayIInv /\ [ReplayNext]_replayVars => ReplayIInv'
  <1> SUFFICES ASSUME ReplayIInv, [ReplayNext]_replayVars PROVE ReplayIInv'
    OBVIOUS
  <1> USE DEF ReplayIInv
  <1>0. LiveHost \in Hosts \cap ValidIds
    BY LiveHostIs DEF Surroundings
  <1>1. Record.cursor \in Nat /\ Record.host \in Hosts
    BY DEF Surroundings, SessionRecord
  <1>2. CASE HostAppend
    <2>1. log' \in [Hosts -> Nat] /\ \A h \in Hosts : log[h] <= log'[h]
      BY <1>0, <1>2 DEF HostAppend, Surroundings
    <2>2. Surroundings'
      BY <1>2, <2>1 DEF HostAppend, vars, Surroundings, Record
    <2>3. WireLogged'
      <3> SUFFICES ASSUME NEW m \in wire PROVE m.from < m.to /\ m.to <= log'[m.host]
        BY <1>2 DEF WireLogged, HostAppend
      <3>1. m.host \in Hosts /\ m.from \in Nat /\ m.to \in Nat
        BY DEF Surroundings, Response
      <3> QED BY <2>1, <3>1 DEF WireLogged, Surroundings
    <2>4. TakenIsPrefix'
      <3>1. Record' = Record /\ taken' = taken
        BY <1>2 DEF HostAppend, vars, Record
      <3>2. Record.cursor <= log'[Record.host]
        BY <1>1, <2>1 DEF TakenIsPrefix, Surroundings
      <3> QED BY <3>1, <3>2 DEF TakenIsPrefix
    <2> QED BY <2>2, <2>3, <2>4
  <1>3. CASE HostRestart
    <2>1. Surroundings'
      BY <1>3, ReplayAssumption DEF HostRestart, vars, Surroundings, Record
    <2> QED BY <1>3, <2>1 DEF HostRestart, vars, WireLogged, TakenIsPrefix, Record
  <1>4. ASSUME NEW c \in Clients, Discover(c)
        PROVE  ReplayIInv'
    <2>1. [host |-> LiveHost, after |-> Record.cursor] \in Discovery
      BY <1>0, <1>1 DEF Discovery
    <2>2. found' \in [Clients -> {Nothing} \cup Discovery]
      BY <1>4, <2>1 DEF Discover, Surroundings
    <2>3. Surroundings'
      BY <1>4, <2>2 DEF Discover, vars, Surroundings, Record
    <2> QED BY <1>4, <2>3 DEF Discover, vars, WireLogged, TakenIsPrefix, Record
  <1>5. ASSUME NEW c \in Clients, ReconnectFrom(c)
        PROVE  ReplayIInv'
    <2> DEFINE h == found[c].host
               a == found[c].after
    <2>1. h \in Hosts \cap ValidIds /\ a \in Nat
      BY <1>5 DEF ReconnectFrom, Surroundings, Discovery
    <2>2. Reconnect(Sid, h, a, Batch)
      BY <1>5 DEF ReconnectFrom
    <2> HIDE DEF h, a
    <2>3. \/ PositionKept /\ reply'.result # "Resync"
          \/ /\ DOMAIN sessions' = {Sid} /\ sessions' = [s \in {Sid} |-> sessions'[Sid]]
             /\ sessions'[Sid] \in SessionRecord
             /\ sessions'[Sid].host = h
             /\ sessions'[Sid].cursor = 0
             /\ reply'.result = "Resync"
      BY <2>1, <2>2, ReconnectPosition
    <2>4. /\ DOMAIN sessions' = {Sid} /\ sessions' = [s \in {Sid} |-> sessions'[Sid]]
          /\ sessions'[Sid] \in SessionRecord
      BY <2>3 DEF PositionKept
    <2>5. sessions'[Sid].cursor \in Nat
      BY <2>4 DEF SessionRecord
    <2>6. asked' \subseteq [host : Hosts, from : Nat]
      <3>1. asked' = asked \/ asked' = asked \cup {[host |-> h, from |-> sessions'[Sid].cursor]}
        BY <1>5 DEF ReconnectFrom, Record, h
      <3> QED BY <2>1, <2>5, <3>1 DEF Surroundings
    <2>7. found' \in [Clients -> {Nothing} \cup Discovery]
      BY <1>5 DEF ReconnectFrom, Surroundings
    <2>8. Surroundings'
      BY <1>5, <2>4, <2>6, <2>7 DEF ReconnectFrom, Surroundings, Record
    <2>9. TakenIsPrefix'
      <3>1. CASE PositionKept /\ reply'.result # "Resync"
        BY <1>5, <3>1 DEF ReconnectFrom, PositionKept, TakenIsPrefix, Record
      <3>2. CASE sessions'[Sid].host = h /\ sessions'[Sid].cursor = 0 /\ reply'.result = "Resync"
        <4>1. taken' = <<>> /\ log' = log
          BY <1>5, <3>2 DEF ReconnectFrom
        <4>2. 0 <= log[h]
          BY <2>1 DEF Surroundings
        <4> QED BY <3>2, <4>1, <4>2 DEF TakenIsPrefix, Record
      <3> QED BY <2>3, <3>1, <3>2
    <2> QED BY <1>5, <2>8, <2>9 DEF ReconnectFrom, WireLogged
  <1>6. ASSUME NEW q \in asked, Answer(q)
        PROVE  ReplayIInv'
    <2> DEFINE others == {m \in wire : m.host = q.host}
    <2>1. q.host \in Hosts /\ q.from \in Nat
      BY DEF Surroundings
    <2>2. PICK to \in q.from + 1 .. q.from + Batch :
             /\ to <= log[q.host]
             /\ wire' = wire \cup {[host |-> q.host, from |-> q.from, to |-> to,
                                    seq |-> Cardinality(others) + 1]}
      BY <1>6 DEF Answer
    <2>3. Cardinality(others) \in Nat
      BY FS_Subset, FS_CardinalityType DEF Surroundings
    <2> DEFINE new == [host |-> q.host, from |-> q.from, to |-> to,
                       seq |-> Cardinality(others) + 1]
    <2>4. to \in Nat /\ q.from < to
      BY <2>1, ReplayAssumption
    <2>5. new \in Response /\ new.from < new.to /\ new.to <= log[new.host]
      BY <2>1, <2>2, <2>3, <2>4 DEF Response
    <2>6. wire' = wire \cup {new}
      BY <2>2
    <2> HIDE DEF new, others
    <2>7. IsFiniteSet(wire')
      BY <2>6, FS_AddElement DEF Surroundings
    <2>8. Surroundings'
      BY <1>6, <2>5, <2>6, <2>7 DEF Answer, vars, Surroundings, Record
    <2>9. WireLogged'
      BY <1>6, <2>5, <2>6 DEF Answer, WireLogged
    <2> QED BY <1>6, <2>8, <2>9 DEF Answer, vars, TakenIsPrefix, Record
  <1>7. ASSUME NEW m \in wire, Deliver(m)
        PROVE  ReplayIInv'
    <2>1. m \in Response /\ m.from < m.to /\ m.to <= log[m.host]
      BY DEF Surroundings, WireLogged
    <2>2. m.from \in Nat /\ m.to \in Nat
      BY <2>1 DEF Response
    <2>3. \/ PositionKept
          \/ /\ DOMAIN sessions' = {Sid} /\ sessions' = [s \in {Sid} |-> sessions'[Sid]]
             /\ sessions'[Sid] \in SessionRecord
             /\ m.host = Record.host /\ m.from = Record.cursor
             /\ sessions'[Sid].host = Record.host
             /\ sessions'[Sid].cursor = m.to
             /\ sessions'[Sid].responseSequence # Record.responseSequence
      BY <1>7, <2>1, ApplyReplayPosition DEF Deliver
    <2>4. /\ DOMAIN sessions' = {Sid} /\ sessions' = [s \in {Sid} |-> sessions'[Sid]]
          /\ sessions'[Sid] \in SessionRecord
      BY <2>3 DEF PositionKept
    <2>5. Surroundings'
      BY <1>7, <2>4 DEF Deliver, Surroundings, Record
    <2>6. TakenIsPrefix'
      <3>1. CASE PositionKept
        BY <1>7, <3>1 DEF Deliver, PositionKept, TakenIsPrefix, Record
      <3>2. CASE /\ m.host = Record.host /\ m.from = Record.cursor
                 /\ sessions'[Sid].host = Record.host
                 /\ sessions'[Sid].cursor = m.to
                 /\ sessions'[Sid].responseSequence # Record.responseSequence
        <4>1. taken' = taken \o [i \in 1 .. (m.to - m.from) |-> m.from + i] /\ log' = log
          BY <1>7, <3>2 DEF Deliver, Record
        <4>2. taken = [i \in 1 .. m.from |-> i]
          BY <3>2 DEF TakenIsPrefix
        <4>3. taken' = [i \in 1 .. m.to |-> i]
          BY <2>1, <2>2, <4>1, <4>2, TakenExtended
        <4> QED BY <2>1, <3>2, <4>1, <4>3 DEF TakenIsPrefix, Record
      <3> QED BY <2>3, <3>1, <3>2
    <2> QED BY <1>7, <2>5, <2>6 DEF Deliver, WireLogged
  <1>8. CASE UNCHANGED replayVars
    BY <1>8 DEF replayVars, Surroundings, WireLogged, TakenIsPrefix, Record
  <1> QED BY <1>2, <1>3, <1>4, <1>5, <1>6, <1>7, <1>8 DEF ReplayNext

(* Between two resyncs a session has taken exactly the first events of the host it
   is bound to, in order, and none that the host did not log: for any number of
   incarnations, surfaces, events and responses, delivered late, repeatedly, in any
   order or never. *)
THEOREM TakesPrefixOfLog == ReplaySpec => []TakenIsPrefix
  <1>1. ReplayIInv => TakenIsPrefix
    BY DEF ReplayIInv
  <1> QED BY <1>1, ReplayInitIInv, ReplayNextIInv, PTL DEF ReplaySpec
==============================================================================
