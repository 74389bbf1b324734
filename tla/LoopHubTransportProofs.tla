------------------------ MODULE LoopHubTransportProofs ------------------------
(***************************************************************************)
(* Proofs about LoopHubTransport, for any callers, workflows, methods and  *)
(* number of broken connections.  The inductive invariant says who may use *)
(* the channel (the holder of the mutex, while it waits) and relates how   *)
(* far the call of an effect is to what the channel carries for it and to  *)
(* how often the hub has carried it out.                                   *)
(***************************************************************************)
EXTENDS LoopHubTransport, TLAPS

Waiting == {"wait", "rewait"}

\* Only the call that holds the mutex and waits has something on the channel.
WireInUse == wire # "empty" => lock \in Callers /\ pc[lock] \in Waiting

\* A progress call has a job whose cursor it sends.
PollHasJob == \A c \in Callers : (pc[c] # "idle" /\ op[c] = "progress") => job[c] \in Nat

\* How often the call of an effect was carried out, by how far it is.
EffectCounted(c) ==
    /\ served[c] <= 1
    /\ pc[c] \notin {"resend", "rewait", "store"}
    /\ pc[c] # "idle" => result[c] = "pending"
    /\ pc[c] = "send" => served[c] = 0
    /\ (pc[c] = "wait" /\ wire \in {"request", "rejection"}) => served[c] = 0
    /\ (pc[c] = "wait" /\ wire = "answer") => served[c] = 1
    /\ result[c] = "ok" => served[c] = 1
    /\ result[c] = "rejected" => served[c] = 0

EffectsCounted == \A c \in Callers : op[c] \in EffectOps => EffectCounted(c)

IInv == TypeOK /\ WireInUse /\ PollHasJob /\ EffectsCounted

------------------------------------------------------------------------------
(* The states of a channel that connecting, attaching and breaking it produce. *)
LEMMA NewChannels ==
    /\ NewChannel \in Channels /\ NewChannel.up /\ ~NewChannel.refused
    /\ Attached \in Channels /\ Attached.attached
    /\ Broken \in Channels /\ ~Broken.up
  BY DEF NewChannel, Attached, Broken, Channels

(* A handshake or attach that fails leaves a channel that is broken or refused. *)
LEMMA FailedAttachment ==
    ASSUME conn \in Channels, AttachmentFails
    PROVE  conn' \in Channels /\ (conn'.up => conn'.refused)
  BY DEF AttachmentFails, Channels

(* Nothing was called or sent before the first connection, so the inductive
   invariant holds initially. *)
LEMMA InitIInv == Init => IInv
  <1> SUFFICES ASSUME Init PROVE IInv
    OBVIOUS
  <1>1. TypeOK
    BY HubAssumption, NewChannels DEF Init, TypeOK, EffectOps, Labels
  <1>2. WireInUse /\ PollHasJob /\ EffectsCounted
    BY DEF Init, WireInUse, PollHasJob, EffectsCounted, EffectCounted
  <1> QED
    BY <1>1, <1>2 DEF IInv

(* LoopHubClient::connect and the start of a call keep the inductive invariant:
   a call begins with the mutex free, so with nothing on the channel. *)
LEMMA BeginKeepsIInv ==
    IInv /\ (Connect \/ Begin) => IInv'
  <1> SUFFICES ASSUME IInv, Connect \/ Begin PROVE IInv'
    OBVIOUS
  <1> USE HubAssumption DEF IInv, TypeOK, WireInUse, PollHasJob, EffectsCounted,
                            callVars, transportVars, hubVars
  <1>1. CASE Connect
    BY <1>1, NewChannels DEF Connect, EffectCounted
  <1>2. ASSUME NEW c \in Callers, NEW o \in Ops, Call(c, o) PROVE IInv'
    <2>1. TypeOK'
      BY <1>2 DEF Call, Goto, Result, Labels
    <2>2. wire = "empty"
      BY <1>2 DEF Call
    <2>3. PollHasJob'
      BY <1>2 DEF Call, Goto, Result, Callable
    <2>4. EffectsCounted'
      BY <1>2, <2>2 DEF Call, Goto, Result, EffectCounted
    <2> QED
      BY <1>2, <2>1, <2>2, <2>3, <2>4 DEF Call
  <1> QED
    BY <1>1, <1>2 DEF Begin

(* The exchanges of a call keep the inductive invariant: an effect is sent once
   and never again, and returns what the one answer to it says. *)
LEMMA StepKeepsIInv ==
    ASSUME IInv, NEW c \in Callers, Step(c) \/ Store(c) PROVE IInv'
  <1> USE HubAssumption DEF IInv, TypeOK, WireInUse, PollHasJob, EffectsCounted,
                            EffectCounted, Goto, Result, Return, Labels, Waiting,
                            transportVars, hubVars
  <1>1. CASE Send(c)
    BY <1>1 DEF Send
  <1>2. CASE IoFails(c)
    BY <1>2 DEF IoFails, OnIo
  <1>3. CASE ReadAnswer(c)
    <2>1. lock = c
      BY <1>3 DEF ReadAnswer
    <2>2. job' \in [Callers -> Nat \cup {None}]
      BY <1>3 DEF ReadAnswer, JobAfter
    <2>3. \A d \in Callers : job[d] \in Nat => job'[d] \in Nat
      BY <1>3 DEF ReadAnswer, JobAfter
    <2>4. op[c] = "progress" => op[c] \notin EffectOps
      BY DEF EffectOps
    <2> QED
      BY <1>3, <2>1, <2>2, <2>3, <2>4 DEF ReadAnswer
  <1>4. CASE ReadRejection(c)
    BY <1>4 DEF ReadRejection
  <1>5. CASE ConnectFails(c)
    BY <1>5 DEF ConnectFails
  <1>6. CASE Reconnect(c)
    BY <1>6, NewChannels DEF Reconnect
  <1>7. CASE Rehandshake(c)
    BY <1>7 DEF Rehandshake
  <1>8. CASE Reattach(c)
    <2>1. conn' \in Channels
      BY <1>8, NewChannels DEF Reattach
    <2>2. op[c] \in EffectOps => ~ReplaySafe(op[c])
      BY DEF ReplaySafe, ReadOps, EffectOps
    <2>3. lock = c
      BY <1>8 DEF Reattach
    <2> QED
      BY <1>8, <2>1, <2>2, <2>3 DEF Reattach
  <1>9. CASE ReattachFails(c)
    BY <1>9, FailedAttachment DEF ReattachFails
  <1>10. CASE RehandshakeFails(c)
    BY <1>10, FailedAttachment DEF RehandshakeFails
  <1>11. CASE Store(c)
    BY <1>11 DEF Store
  <1> QED
    BY <1>1, <1>2, <1>3, <1>4, <1>5, <1>6, <1>7, <1>8, <1>9, <1>10,
       <1>11 DEF Step

(* The hub keeps the inductive invariant: it carries out the request on the
   channel, which is that of the call holding the mutex, and answers it once. *)
LEMMA HubKeepsIInv == IInv /\ HubNext => IInv'
  <1> SUFFICES ASSUME IInv, HubNext PROVE IInv'
    OBVIOUS
  <1> USE HubAssumption DEF IInv, TypeOK, WireInUse, PollHasJob, EffectsCounted,
                            EffectCounted, Waiting, Answers, callVars,
                            transportVars, hubVars
  <1>1. ASSUME NEW w \in Workflows, HubAppend(w) PROVE IInv'
    BY <1>1 DEF HubAppend
  <1>2. CASE HubServes
    <2>1. lock \in Callers /\ pc[lock] \in Waiting
      BY <1>2 DEF HubServes
    <2>2. got' \in [Callers -> Nat]
      BY <1>2, <2>1 DEF HubServes
    <2>3. served' = [served EXCEPT ![lock] = served[lock] + 1]
      BY <1>2 DEF HubServes
    <2>4. op[lock] \in EffectOps => served[lock] = 0
      BY <1>2, <2>1 DEF HubServes
    <2>5. TypeOK'
      <3>1. served' \in [Callers -> Nat]
        BY <2>1, <2>3
      <3> QED
        BY <1>2, <2>2, <3>1 DEF HubServes
    <2>6. EffectsCounted'
      BY <1>2, <2>1, <2>3, <2>4 DEF HubServes
    <2> QED
      BY <1>2, <2>1, <2>5, <2>6 DEF HubServes
  <1>3. CASE HubRejects
    BY <1>3 DEF HubRejects
  <1>4. CASE HubBreaks
    BY <1>4, NewChannels DEF HubBreaks
  <1> QED
    BY <1>1, <1>2, <1>3, <1>4 DEF HubNext

(* Every step of the callers and of the hub keeps the inductive invariant. *)
LEMMA NextKeepsIInv == IInv /\ [Next]_vars => IInv'
  <1> SUFFICES ASSUME IInv, [Next]_vars PROVE IInv'
    OBVIOUS
  <1>1. CASE UNCHANGED vars
    BY <1>1 DEF IInv, TypeOK, WireInUse, PollHasJob, EffectsCounted, EffectCounted,
                vars, callVars, transportVars, hubVars
  <1> QED
    BY <1>1, BeginKeepsIInv, StepKeepsIInv, HubKeepsIInv DEF Next

(* The inductive invariant holds in every reachable state. *)
LEMMA IInvAlways == Spec => []IInv
  BY InitIInv, NextKeepsIInv, PTL DEF Spec

------------------------------------------------------------------------------
(* Type correctness and mutual exclusion: the mutex of the transport is held by
   exactly the call that is between its first write and its last read. *)
THEOREM TypeCorrect == Spec => []TypeOK
  <1>1. IInv => TypeOK
    BY DEF IInv
  <1> QED
    BY <1>1, IInvAlways, PTL

(* rpc never duplicates an effect: with any number of callers and of broken
   connections, each submit, cancel, resume and process call is carried out at
   most once, once if it returned Ok and not at all if it was rejected. *)
THEOREM EffectsAtMostOnce == Spec => []EffectAtMostOnce
  <1>1. IInv => EffectAtMostOnce
    BY DEF IInv, EffectsCounted, EffectCounted, EffectAtMostOnce
  <1> QED
    BY <1>1, IInvAlways, PTL

------------------------------------------------------------------------------
\* A usable channel that is neither attached nor refused is still reconnecting.
AttachInv ==
    (conn.up /\ ~conn.attached /\ ~conn.refused) =>
        lock \in Callers /\ pc[lock] \in {"handshake", "attach"}

(* reconnect_locked hands the channel back attached, broken or refused, and no
   other call has the channel before that. *)
LEMMA NextKeepsAttachInv ==
    ASSUME IInv, AttachInv, [Next]_vars PROVE AttachInv'
  <1> USE HubAssumption DEF IInv, TypeOK, AttachInv, callVars, transportVars, hubVars
  <1>1. CASE UNCHANGED vars
    BY <1>1 DEF vars
  <1>2. CASE Connect
    BY <1>2, NewChannels DEF Connect
  <1>3. ASSUME NEW c \in Callers, NEW o \in Ops, Call(c, o) PROVE AttachInv'
    BY <1>3 DEF Call
  <1>4. ASSUME NEW c \in Callers, Step(c) \/ Store(c) PROVE AttachInv'
    <2> USE DEF Goto, Return, Result
    <2>1. CASE Send(c)
      BY <2>1 DEF Send
    <2>2. CASE IoFails(c)
      BY <2>2 DEF IoFails, OnIo
    <2>3. CASE ReadAnswer(c)
      BY <2>3 DEF ReadAnswer
    <2>4. CASE ReadRejection(c)
      BY <2>4 DEF ReadRejection
    <2>5. CASE ConnectFails(c)
      BY <2>5 DEF ConnectFails
    <2>6. CASE Reconnect(c)
      BY <2>6 DEF Reconnect
    <2>7. CASE Rehandshake(c)
      BY <2>7 DEF Rehandshake
    <2>8. CASE Reattach(c)
      BY <2>8, NewChannels DEF Reattach
    <2>9. CASE ReattachFails(c)
      BY <2>9, FailedAttachment DEF ReattachFails
    <2>10. CASE RehandshakeFails(c)
      BY <2>10, FailedAttachment DEF RehandshakeFails
    <2>11. CASE Store(c)
      BY <2>11 DEF Store
    <2> QED
      BY <1>4, <2>1, <2>2, <2>3, <2>4, <2>5, <2>6, <2>7, <2>8, <2>9, <2>10,
         <2>11 DEF Step
  <1>5. CASE HubNext
    <2>1. ASSUME NEW w \in Workflows, HubAppend(w) PROVE AttachInv'
      BY <2>1 DEF HubAppend
    <2>2. CASE HubServes
      BY <2>2 DEF HubServes
    <2>3. CASE HubRejects
      BY <2>3 DEF HubRejects
    <2>4. CASE HubBreaks
      BY <2>4, NewChannels DEF HubBreaks
    <2> QED
      BY <1>5, <2>1, <2>2, <2>3, <2>4 DEF HubNext
  <1> QED
    BY <1>1, <1>2, <1>3, <1>4, <1>5 DEF Next, Begin

(* No effect is carried out on a channel that reconnect_locked has not attached,
   unless the hub refused its handshake or attach, for any callers, breaks and
   refusals. *)
THEOREM EffectsAttached == Spec => []EffectsRunAttached
  <1>1. Init => AttachInv
    BY NewChannels DEF Init, AttachInv
  <1>2. IInv /\ AttachInv /\ [Next]_vars => AttachInv'
    BY NextKeepsAttachInv
  <1>3. IInv /\ AttachInv => EffectsRunAttached
    BY DEF IInv, WireInUse, Waiting, AttachInv, EffectsRunAttached, EffectOnChannel
  <1> QED
    BY <1>1, <1>2, <1>3, IInvAlways, PTL DEF Spec

------------------------------------------------------------------------------
\* The snapshot that a progress call was sent is not behind its job.
Snapshot(c) == job[c] \in Nat /\ job[c] <= got[c]

SnapshotsFollow ==
    /\ \A c \in Callers : got[c] <= log[WorkflowOf[c]]
    /\ \A c \in Callers : (pc[c] = "store" /\ op[c] = "progress") => Snapshot(c)
    /\ (wire = "answer" /\ op[lock] = "progress") => Snapshot(lock)

\* Only progress stores a cursor.
StoresProgress == \A c \in Callers : pc[c] = "store" => op[c] = "progress"

CursorInv == SnapshotsFollow /\ StoresProgress /\ AttachCursorsSound

(* Both locks of progress keep the cursors: the snapshot it waits to store is one
   of the job's workflow and not behind the job, whoever has the mutex meanwhile. *)
LEMMA NextKeepsCursorInv ==
    ASSUME IInv, CursorInv, [Next]_vars PROVE CursorInv'
  <1> USE HubAssumption DEF IInv, TypeOK, WireInUse, PollHasJob, CursorInv, Snapshot,
                            SnapshotsFollow, StoresProgress, AttachCursorsSound,
                            Waiting, callVars, transportVars, hubVars
  <1>1. CASE UNCHANGED vars
    BY <1>1 DEF vars
  <1>2. CASE Connect
    BY <1>2 DEF Connect
  <1>3. ASSUME NEW c \in Callers, NEW o \in Ops, Call(c, o) PROVE CursorInv'
    BY <1>3 DEF Call, Goto, Result
  <1>4. ASSUME NEW c \in Callers, Step(c) \/ Store(c) PROVE CursorInv'
    <2> USE DEF Goto, Return, Result
    <2>1. CASE Send(c)
      BY <2>1 DEF Send
    <2>2. CASE IoFails(c)
      BY <2>2 DEF IoFails, OnIo
    <2>3. CASE ReadAnswer(c)
      <3>1. lock = c
        BY <2>3 DEF ReadAnswer
      <3>2. \A d \in Callers : job'[d] = job[d] \/ job'[d] = 0
        BY <2>3 DEF ReadAnswer, JobAfter
      <3>3. \A d \in Callers : pc'[d] = "store" => job'[d] = job[d]
        BY <2>3 DEF ReadAnswer, JobAfter
      <3> QED
        BY <2>3, <3>1, <3>2, <3>3 DEF ReadAnswer
    <2>4. CASE ReadRejection(c)
      BY <2>4 DEF ReadRejection
    <2>5. CASE ConnectFails(c)
      BY <2>5 DEF ConnectFails
    <2>6. CASE Reconnect(c)
      BY <2>6 DEF Reconnect
    <2>7. CASE Rehandshake(c)
      BY <2>7 DEF Rehandshake
    <2>8. CASE Reattach(c)
      BY <2>8 DEF Reattach
    <2>9. CASE ReattachFails(c)
      BY <1>4, <2>9 DEF ReattachFails
    <2>10. CASE RehandshakeFails(c)
      BY <1>4, <2>10 DEF RehandshakeFails
    <2>11. CASE Store(c)
      BY <2>11 DEF Store
    <2> QED
      BY <1>4, <2>1, <2>2, <2>3, <2>4, <2>5, <2>6, <2>7, <2>8, <2>9, <2>10,
         <2>11 DEF Step
  <1>5. CASE HubNext
    <2>1. ASSUME NEW w \in Workflows, HubAppend(w) PROVE CursorInv'
      BY <2>1 DEF HubAppend
    <2>2. CASE HubServes
      BY <2>2 DEF HubServes
    <2>3. CASE HubRejects
      BY <2>3 DEF HubRejects
    <2>4. CASE HubBreaks
      BY <2>4 DEF HubBreaks, Answers
    <2> QED
      BY <1>5, <2>1, <2>2, <2>3, <2>4 DEF HubNext
  <1> QED
    BY <1>1, <1>2, <1>3, <1>4, <1>5 DEF Next, Begin

(* A re-attachment never names a cursor behind what a job has taken over or beyond
   what the hub has, for any callers, workflows and breaks of the connection. *)
THEOREM AttachCursors == Spec => []AttachCursorsSound
  <1>1. Init => CursorInv
    BY HubAssumption DEF Init, CursorInv, SnapshotsFollow, StoresProgress, AttachCursorsSound
  <1>2. IInv /\ CursorInv /\ [Next]_vars => CursorInv'
    BY NextKeepsCursorInv
  <1>3. CursorInv => AttachCursorsSound
    BY DEF CursorInv
  <1> QED
    BY <1>1, <1>2, <1>3, IInvAlways, PTL DEF Spec
==============================================================================
