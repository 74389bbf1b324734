--------------------------- MODULE LoopHubTransport ---------------------------
(***************************************************************************)
(* The connection that all clones of a LoopHubClient share                 *)
(* (simplicio-runtime-client, SocketPipeHubTransport), with the HubJobs    *)
(* that poll, cancel and resume through it.  A call holds the mutex from   *)
(* its first write to its last read, reconnection included, and progress   *)
(* takes it a second time to store its cursor; a call is modelled from the *)
(* moment it has the mutex, one action per exchange with the hub.  The     *)
(* hub is external: it serves or rejects a request, breaks connections     *)
(* before or after serving, and may refuse a handshake or an attach.       *)
(***************************************************************************)
EXTENDS Integers

CONSTANTS
    Callers,        \* threads, each with its own HubJob
    Workflows,      \* workflow ids
    WorkflowOf,     \* caller -> the workflow its submit is admitted to
    Ops,            \* the methods that are called
    MaxLog,         \* bound: progress events per workflow
    MaxBreaks,      \* bound: broken connections
    None            \* nobody holds the mutex; no job

EffectOps == {"submit", "cancel", "resume", "runtime_execute", "process_start",
              "process_cancel"}
ReadOps == {"progress", "process_status", "process_wait"}
Answers == {"answer", "rejection", "garbled"}

ASSUME HubAssumption ==
    /\ WorkflowOf \in [Callers -> Workflows]
    /\ Ops \subseteq EffectOps \cup ReadOps
    /\ MaxLog \in Nat /\ MaxBreaks \in Nat
    /\ None \notin Callers /\ None \notin Nat

VARIABLES
    request,    \* handshake_request is Some
    handshake,  \* handshake is Some
    cursors,    \* workflow -> after_sequence
    lock,       \* the caller that holds the mutex, or None
    pc,         \* caller -> what its call does next
    op,         \* caller -> the method of its last call
    got,        \* caller -> next_sequence of the last snapshot sent to it
    job,        \* caller -> next_sequence of its HubJob, or None
    result,     \* caller -> how its last call ended
    conn,       \* the channel: usable, attached, or its handshake or attach refused
    wire,       \* what the channel carries for the call that is blocked on it
    log,        \* workflow -> progress events the hub has
    served,     \* caller -> how often the hub carried out its last call
    breaks      \* broken connections so far

callVars == <<lock, pc, op, got, job, result>>
transportVars == <<request, handshake, cursors>>
hubVars == <<log, served, breaks>>
vars == <<callVars, transportVars, conn, wire, hubVars>>

Channels == [up : BOOLEAN, attached : BOOLEAN, refused : BOOLEAN]
\* Channel::connect; nothing has been exchanged yet.
NewChannel == [up |-> TRUE, attached |-> FALSE, refused |-> FALSE]
Attached == [NewChannel EXCEPT !.attached = TRUE]
Broken == [NewChannel EXCEPT !.up = FALSE]

Goto(c, label) == pc' = [pc EXCEPT ![c] = label]
Result(c, r) == result' = [result EXCEPT ![c] = r]

\* The call returns and drops the mutex guard.
Return(c, r) == Goto(c, "idle") /\ Result(c, r) /\ lock' = None

\* Fault: every request is sent again after a reconnection.
AlwaysReplaySafe(o) == TRUE
\* The replay_safe argument of rpc.
ReplaySafe(o) == o \in ReadOps

------------------------------------------------------------------------------
\* LoopHubClient::connect: connect, handshake and attach with reconnect=false.
\* Nobody else sees the transport before that; a failure drops it.
Connect ==
    /\ ~request
    /\ request' = TRUE /\ handshake' = TRUE
    /\ conn' = Attached
    /\ UNCHANGED <<callVars, cursors, wire, hubVars>>

\* A method of HubJob needs a job; submit and the process methods do not.
Callable(c, o) == o \in {"progress", "cancel", "resume"} => job[c] # None

Call(c, o) ==
    /\ request
    /\ pc[c] = "idle" /\ lock = None
    /\ Callable(c, o)
    /\ lock' = c
    /\ op' = [op EXCEPT ![c] = o]
    /\ served' = [served EXCEPT ![c] = 0]
    /\ Goto(c, "send") /\ Result(c, "pending")
    /\ UNCHANGED <<got, job, transportVars, conn, wire, log, breaks>>

\* rpc_once writes the request, the first time or after a reconnection.
Send(c) ==
    /\ conn.up
    /\ \/ pc[c] = "send" /\ Goto(c, "wait")
       \/ pc[c] = "resend" /\ Goto(c, "rewait")
    /\ wire' = "request"
    /\ UNCHANGED <<lock, op, got, job, result, transportVars, conn, hubVars>>

\* Fault: a broken connection is reported but not replaced.
GiveUpOnIo(c) ==
    /\ pc[c] \in {"send", "wait", "resend", "rewait"}
    /\ Return(c, "unknown")
    /\ UNCHANGED <<op, got, job>>
\* RpcFailure::Io: the first attempt reconnects, the second one gives up.
OnIo(c) ==
    /\ \/ pc[c] \in {"send", "wait"} /\ Goto(c, "connect") /\ UNCHANGED <<lock, result>>
       \/ pc[c] \in {"resend", "rewait"} /\ Return(c, "unknown")
    /\ UNCHANGED <<op, got, job>>

IoFails(c) ==
    /\ ~conn.up
    /\ OnIo(c)
    /\ wire' = "empty"
    /\ UNCHANGED <<transportVars, conn, hubVars>>

\* The job after an answer to one of its calls; progress updates it in Store.
JobAfter(c) ==
    IF op[c] \in {"submit", "resume"} THEN [job EXCEPT ![c] = 0] ELSE job

\* Fault: the job takes the snapshot over before the transport has stored its cursor.
ReadAnswerAhead(c) ==
    /\ pc[c] \in {"wait", "rewait"} /\ wire = "answer"
    /\ \/ /\ op[c] = "progress"
          /\ Goto(c, "store") /\ lock' = None
          /\ job' = [job EXCEPT ![c] = got[c]]
          /\ UNCHANGED result
       \/ /\ op[c] # "progress"
          /\ Return(c, "ok") /\ job' = JobAfter(c)
    /\ wire' = "empty"
    /\ UNCHANGED <<op, got, transportVars, conn, hubVars>>
ReadAnswer(c) ==
    /\ pc[c] \in {"wait", "rewait"} /\ wire = "answer"
    /\ \/ /\ op[c] = "progress"
          /\ Goto(c, "store") /\ lock' = None
          /\ UNCHANGED <<result, job>>
       \/ /\ op[c] # "progress"
          /\ Return(c, "ok") /\ job' = JobAfter(c)
    /\ wire' = "empty"
    /\ UNCHANGED <<op, got, transportVars, conn, hubVars>>

\* RpcFailure::Protocol: an answer with ok = false, or one that is cut off, does
\* not match the request or holds an invalid receipt or snapshot.
ReadRejection(c) ==
    /\ pc[c] \in {"wait", "rewait"}
    /\ \/ wire = "rejection" /\ Return(c, "rejected")
       \/ wire = "garbled" /\ Return(c, "invalid")
    /\ wire' = "empty"
    /\ UNCHANGED <<op, got, job, transportVars, conn, hubVars>>

\* progress locks the state again and stores the cursor; then poll() takes it
\* over, or refuses the events of the snapshot.
Store(c) ==
    /\ pc[c] = "store" /\ lock = None
    /\ cursors' = [cursors EXCEPT ![WorkflowOf[c]] = got[c]]
    /\ \/ job' = [job EXCEPT ![c] = got[c]] /\ Result(c, "ok")
       \/ UNCHANGED job /\ Result(c, "invalid")
    /\ Goto(c, "idle")
    /\ UNCHANGED <<lock, op, got, request, handshake, conn, wire, hubVars>>

------------------------------------------------------------------------------
(* reconnect_locked() *)

ConnectFails(c) ==
    /\ pc[c] = "connect"
    /\ Return(c, "unknown")
    /\ UNCHANGED <<op, got, job, transportVars, conn, wire, hubVars>>

\* Fault: the new channel is used without handshake and attach.
ReconnectOnly(c) ==
    /\ pc[c] = "connect"
    /\ conn' = NewChannel
    /\ Return(c, "unknown")
    /\ UNCHANGED <<op, got, job, transportVars, wire, hubVars>>
Reconnect(c) ==
    /\ pc[c] = "connect"
    /\ conn' = NewChannel
    /\ handshake' = FALSE
    /\ Goto(c, "handshake")
    /\ UNCHANGED <<lock, op, got, job, result, request, cursors, wire, hubVars>>

Rehandshake(c) ==
    /\ pc[c] = "handshake" /\ conn.up
    /\ handshake' = TRUE
    /\ Goto(c, "attach")
    /\ UNCHANGED <<lock, op, got, job, result, request, cursors, conn, wire, hubVars>>

\* Fault: the reconnection is tried again without end, with the mutex held.
ReattachAgain(c) ==
    /\ pc[c] = "attach" /\ conn.up
    /\ conn' = Attached
    /\ Goto(c, "connect")
    /\ UNCHANGED <<lock, op, got, job, result, transportVars, wire, hubVars>>
\* attach with reconnect=true and all cursors, then what rpc does after it.
Reattach(c) ==
    /\ pc[c] = "attach" /\ conn.up
    /\ conn' = Attached
    /\ \/ /\ ReplaySafe(op[c])
          /\ Goto(c, "resend") /\ UNCHANGED <<lock, result>>
       \/ /\ ~ReplaySafe(op[c])
          /\ Return(c, "unknown")
    /\ UNCHANGED <<op, got, job, transportVars, wire, hubVars>>

\* The connection breaks again, or the answer is a rejection, cannot be read or
\* does not validate: then the new channel stays in place, usable and unattached.
AttachmentFails ==
    \/ ~conn.up /\ UNCHANGED conn
    \/ conn.up /\ conn' = [conn EXCEPT !.refused = TRUE]

RehandshakeFails(c) ==
    /\ pc[c] = "handshake"
    /\ AttachmentFails
    /\ Return(c, "unknown")
    /\ UNCHANGED <<op, got, job, transportVars, wire, hubVars>>

\* The same for the attach receipt; the new handshake has been stored by then.
ReattachFails(c) ==
    /\ pc[c] = "attach"
    /\ AttachmentFails
    /\ Return(c, "unknown")
    /\ UNCHANGED <<op, got, job, transportVars, wire, hubVars>>

------------------------------------------------------------------------------
(* The hub, external. *)

HubAppend(w) ==
    /\ log[w] < MaxLog
    /\ log' = [log EXCEPT ![w] = @ + 1]
    /\ UNCHANGED <<callVars, transportVars, conn, wire, served, breaks>>

\* It carries out the request and answers, correctly or not; a snapshot may hold
\* all its events.
HubServes ==
    /\ conn.up /\ wire = "request"
    /\ wire' \in {"answer", "garbled"}
    /\ served' = [served EXCEPT ![lock] = @ + 1]
    /\ \/ op[lock] # "progress" /\ UNCHANGED got
       \/ /\ op[lock] = "progress"
          /\ \E next \in job[lock] .. log[WorkflowOf[lock]] :
               got' = [got EXCEPT ![lock] = next]
    /\ UNCHANGED <<lock, pc, op, job, result, transportVars, conn, log, breaks>>

HubRejects ==
    /\ conn.up /\ wire = "request"
    /\ wire' = "rejection"
    /\ UNCHANGED <<callVars, transportVars, conn, hubVars>>

\* An answer on its way is lost with the connection, cut off, or still read.
HubBreaks ==
    /\ conn.up /\ breaks < MaxBreaks
    /\ breaks' = breaks + 1
    /\ conn' = Broken
    /\ wire' \in {"empty"} \cup (IF wire \in Answers THEN {wire, "garbled"} ELSE {})
    /\ UNCHANGED <<callVars, transportVars, log, served>>

------------------------------------------------------------------------------
Init ==
    /\ request = FALSE /\ handshake = FALSE
    /\ cursors = [w \in Workflows |-> 0]
    /\ lock = None
    /\ pc = [c \in Callers |-> "idle"] /\ op = [c \in Callers |-> "submit"]
    /\ got = [c \in Callers |-> 0] /\ job = [c \in Callers |-> None]
    /\ result = [c \in Callers |-> "none"]
    /\ conn = Broken /\ wire = "empty"
    /\ log = [w \in Workflows |-> 0]
    /\ served = [c \in Callers |-> 0]
    /\ breaks = 0

Begin == \E c \in Callers, o \in Ops : Call(c, o)

\* The rest of a call that holds the mutex.
Step(c) ==
    \/ Send(c) \/ IoFails(c) \/ ReadAnswer(c) \/ ReadRejection(c)
    \/ ConnectFails(c) \/ Reconnect(c) \/ Rehandshake(c) \/ Reattach(c)
    \/ RehandshakeFails(c) \/ ReattachFails(c)

HubNext == (\E w \in Workflows : HubAppend(w)) \/ HubServes \/ HubRejects \/ HubBreaks

Next ==
    \/ Connect
    \/ Begin
    \/ \E c \in Callers : Step(c) \/ Store(c)
    \/ HubNext

Spec == Init /\ [][Next]_vars

(* The client is connected and keeps being called; a call goes on; a mutex that
   stays free is taken by one of those that wait for it; the hub answers what
   reaches it and is not unreachable for ever. *)
Fairness ==
    /\ WF_vars(Connect) /\ WF_vars(Begin)
    /\ \A c \in Callers : WF_vars(Step(c)) /\ SF_vars(Reconnect(c))
    /\ WF_vars(\E c \in Callers : Store(c))
    /\ WF_vars(HubServes \/ HubRejects)

FairSpec == Spec /\ Fairness

------------------------------------------------------------------------------
Labels == {"idle", "send", "wait", "connect", "handshake", "attach", "resend",
           "rewait", "store"}

(* Every variable has its type, and the mutex is held by the one caller whose
   call is between its first write and its last read, by nobody else. *)
TypeOK ==
    /\ request \in BOOLEAN /\ handshake \in BOOLEAN
    /\ cursors \in [Workflows -> Nat] /\ log \in [Workflows -> Nat]
    /\ lock \in Callers \cup {None} /\ pc \in [Callers -> Labels]
    /\ op \in [Callers -> EffectOps \cup ReadOps]
    /\ got \in [Callers -> Nat] /\ job \in [Callers -> Nat \cup {None}]
    /\ result \in [Callers -> {"none", "pending", "ok", "rejected", "invalid", "unknown"}]
    /\ conn \in Channels
    /\ wire \in {"empty", "request"} \cup Answers
    /\ served \in [Callers -> Nat] /\ breaks \in Nat
    /\ \A c \in Callers : lock = c <=> pc[c] \notin {"idle", "store"}

(* Submit, cancel, resume and the process effects are carried out at most once
   per call, and exactly once when the call returned Ok, not at all when the
   hub rejected it, whenever the connection broke ("Submit, cancel, and resume
   are never retried after a broken connection"). *)
EffectAtMostOnce ==
    \A c \in Callers : op[c] \in EffectOps =>
        /\ served[c] <= 1
        /\ result[c] = "ok" => served[c] = 1
        /\ result[c] = "rejected" => served[c] = 0

\* The hub has just carried out an effect that came through this channel.
EffectOnChannel ==
    conn.up /\ wire \in {"answer", "garbled"} /\ op[lock] \in EffectOps

(* An effect is carried out only on a channel that its own handshake and attach
   have attached, whoever's call reconnected it and whenever it broke again in
   between, except on one whose handshake or attach the hub has refused:
   reconnect_locked has then put the new channel in place already. *)
EffectsRunAttached == EffectOnChannel => conn.attached \/ conn.refused

(* docs/LOOP_HUB_CLIENT.md: "A handshake or attach mismatch blocks the client".
   No effect is carried out through a channel whose handshake or attach was
   refused. *)
MismatchBlocksEffects == EffectOnChannel => ~conn.refused

(* A re-attachment, whenever another caller triggers it, also between the two
   locks of progress, never names a cursor behind the events a job has already
   taken over, nor one beyond the events of the workflow.  Jobs that share a
   workflow may set its cursor back and are left out. *)
AttachCursorsSound ==
    \A c \in Callers :
        /\ cursors[WorkflowOf[c]] <= log[WorkflowOf[c]]
        /\ job[c] # None /\ (\A d \in Callers \ {c} : WorkflowOf[d] # WorkflowOf[c])
            => job[c] <= cursors[WorkflowOf[c]]

(* No caller blocks the others for ever: the mutex is always released again,
   although progress takes it twice and reconnection holds it throughout. *)
LockReleased == []<>(lock = None)

(* The transport repairs itself: as long as it is used, each channel that broke
   is followed by one that is attached again or on which the hub has refused
   that.  A refused channel is not replaced before it breaks: only
   RpcFailure::Io reconnects. *)
Reattaches == []<>(conn.up /\ (conn.attached \/ conn.refused))
==============================================================================
