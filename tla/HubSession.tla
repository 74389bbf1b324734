------------------------------ MODULE HubSession ------------------------------
(***************************************************************************)
(* One session of a computer hub tool server (xai-computer-hub-sdk): the   *)
(* demux that routes its frames, the loop that dispatches them, the tasks  *)
(* of its calls, the registry that cancels them, the admission semaphores, *)
(* and bind_session_local / unbind_session, which install and remove all   *)
(* of these.  Every full bind makes a new generation: an inbox, a registry *)
(* and a loop of its own.  The maps keyed by session hold the generation   *)
(* they refer to, 0 for no entry.  A semaphore is named after the          *)
(* generation that created it; 0 is the private one of a straggler.        *)
(* The tasks run on several threads, so each access to shared state is an  *)
(* action of its own.  What happens between two accesses is part of the    *)
(* second one.                                                             *)
(***************************************************************************)
EXTENDS Integers, Sequences, FiniteSets

CONSTANTS
    Calls,          \* tool_call_ids; the hub requests each one once
    Straggler,      \* the id of a call that ended before its Cancel arrived
    MaxBinds,       \* bound: generations
    InboxCap,       \* SESSION_INBOX_BUFFER
    MaxTombstones,  \* MAX_PENDING_TOMBSTONES
    None

ASSUME HubAssumption ==
    /\ Straggler \notin Calls
    /\ MaxBinds \in Nat /\ InboxCap \in Nat /\ MaxTombstones \in Nat \ {0}

VARIABLES
    inbox,      \* demux.sessions
    registry,   \* inner.cancels
    session_handle, \* inner.session_handles
    sem,        \* admission.session_sems
    gens,       \* generations created so far
    loops,      \* generation -> its loop: where it is, its inbox, whether it was aborted
    closed,     \* the generations whose registry is closed
    live,       \* generation -> CancelRegistry.map: the calls with a token
    pending,    \* generation -> CancelRegistry.pending: the tombstones
    calls,      \* call -> where it is, its generation, semaphore, cancelled token
    op,         \* the bind or unbind that holds session_bind_mu, or None
    reader,     \* the frame being routed with the sender it was given, or None
    drained,    \* history: the generations that cancel_all has drained
    asked       \* history: <<g, c>> once loop g handled a Cancel of c

maps == <<inbox, registry, session_handle, sem>>
tokens == <<closed, live, pending>>
vars == <<maps, gens, loops, tokens, calls, op, reader, drained, asked>>

Generations == 1..MaxBinds
RegisterSteps == {"reg_closed", "reg_pending", "reg_insert", "reg_recheck"}
TailSteps == {"tail_close", "tail_drain", "tail_sem", "tail_registry"}
LoopSteps == {"none", "recv", "dead"} \cup RegisterSteps \cup TailSteps
InFlight == {"spawned", "waiting", "starting", "running"}
CallSteps == {"unsent", "routing", "queued", "taken", "finished", "done", "lost"}
                \cup InFlight
OpSteps == {"alive", "open", "inbox", "sem", "registry", "close", "drain", "spawn", "abort"}
Frames == [kind : {"request", "cancel"}, call : Calls]

\* A bind or an unbind: its next step, what it has read and what it installs.
OpRecord == [kind : {"bind", "unbind"}, at : OpSteps, alive : BOOLEAN,
             gen : 0..MaxBinds, old : 0..MaxBinds]

ASSUME NoneAssumption == None \notin OpRecord

Init ==
    /\ inbox = 0 /\ registry = 0 /\ session_handle = 0 /\ sem = 0 /\ gens = 0
    /\ loops = [g \in Generations |-> [at |-> "none", queue |-> <<>>, aborted |-> FALSE]]
    /\ closed = {} /\ live = [g \in Generations |-> {}]
    /\ pending = [g \in Generations |-> {}]
    /\ calls = [c \in Calls |-> [at |-> "unsent", gen |-> 0, sem |-> 0, cancelled |-> FALSE]]
    /\ op = None /\ reader = None
    /\ drained = {} /\ asked = {}

LoopAt(g, step) == loops' = [loops EXCEPT ![g].at = step]
CallAt(c, step) == calls' = [calls EXCEPT ![c].at = step]

\* calls after the tokens of the set S are cancelled.
Cancelled(S) == [c \in Calls |-> IF c \in S THEN [calls[c] EXCEPT !.cancelled = TRUE]
                                 ELSE calls[c]]

------------------------------------------------------------------------------
(* CancelRegistry::cancel_all, in two steps *)

\* Fault: the registry is drained and never closed.
LeaveOpen(g) == UNCHANGED closed
CloseRegistry(g) == closed' = closed \cup {g}

DrainRegistry(g) ==
    /\ calls' = Cancelled(live[g])
    /\ live' = [live EXCEPT ![g] = {}]
    /\ pending' = [pending EXCEPT ![g] = {}]
    /\ drained' = drained \cup {g}

------------------------------------------------------------------------------
(* bind_session_local_with_metadata and unbind_session, under session_bind_mu *)

OpAt(step) == op' = [op EXCEPT !.at = step]
InOp(kind, step) == op # None /\ op.kind \in kind /\ op.at = step

\* The handlers are resolved and refreshed, or the bind fails and changes nothing.
BindBegin ==
    /\ op = None /\ gens < MaxBinds
    /\ op' = [kind |-> "bind", at |-> "alive", alive |-> FALSE, gen |-> 0, old |-> 0]
    /\ UNCHANGED <<maps, gens, loops, tokens, calls, reader, drained, asked>>

BindAlive ==
    /\ InOp({"bind"}, "alive")
    /\ op' = [op EXCEPT !.at = "open",
                        !.alive = session_handle # 0 /\ loops[session_handle].at # "dead"]
    /\ UNCHANGED <<maps, gens, loops, tokens, calls, reader, drained, asked>>

\* A soft rebind ends here; a full one makes a new generation.
BindOpen ==
    /\ InOp({"bind"}, "open")
    /\ \/ /\ op.alive /\ registry # 0 /\ registry \notin closed
          /\ op' = None
          /\ UNCHANGED gens
       \/ /\ ~(op.alive /\ registry # 0 /\ registry \notin closed)
          /\ gens' = gens + 1
          /\ op' = [op EXCEPT !.at = "inbox", !.gen = gens + 1]
    /\ UNCHANGED <<maps, loops, tokens, calls, reader, drained, asked>>

\* register_session_inbox replaces the sender; unregister_session_inbox removes it.
OpInbox ==
    /\ InOp({"bind", "unbind"}, "inbox")
    /\ inbox' = op.gen
    /\ OpAt("sem")
    /\ UNCHANGED <<registry, session_handle, sem, gens, loops, tokens, calls, reader, drained, asked>>

ensure_session == sem' = IF sem = 0 THEN op.gen ELSE sem
remove_session == sem' = 0

BindSem ==
    /\ InOp({"bind"}, "sem")
    /\ ensure_session
    /\ OpAt("registry")
    /\ UNCHANGED <<inbox, registry, session_handle, gens, loops, tokens, calls, reader, drained, asked>>

\* The registry is replaced or removed; the one that was there is then cancelled.
OpRegistry ==
    /\ InOp({"bind", "unbind"}, "registry")
    /\ registry' = op.gen
    /\ op' = [op EXCEPT !.old = registry,
                        !.at = IF registry # 0 THEN "close"
                               ELSE IF op.kind = "bind" THEN "spawn" ELSE "abort"]
    /\ UNCHANGED <<inbox, session_handle, sem, gens, loops, tokens, calls, reader, drained, asked>>

OpClose ==
    /\ InOp({"bind", "unbind"}, "close")
    /\ CloseRegistry(op.old)
    /\ OpAt("drain")
    /\ UNCHANGED <<maps, gens, loops, live, pending, calls, reader, drained, asked>>

OpDrain ==
    /\ InOp({"bind", "unbind"}, "drain")
    /\ DrainRegistry(op.old)
    /\ OpAt(IF op.kind = "bind" THEN "spawn" ELSE "abort")
    /\ UNCHANGED <<maps, gens, loops, closed, reader, asked>>

\* Replacing the handle aborts the loop it belonged to.
BindSpawn ==
    /\ InOp({"bind"}, "spawn")
    /\ loops' = [g \in Generations |->
                    IF g = op.gen THEN [loops[g] EXCEPT !.at = "recv"]
                    ELSE IF g = session_handle THEN [loops[g] EXCEPT !.aborted = TRUE]
                    ELSE loops[g]]
    /\ session_handle' = op.gen
    /\ op' = None
    /\ UNCHANGED <<inbox, registry, sem, gens, tokens, calls, reader, drained, asked>>

UnbindBegin ==
    /\ op = None
    /\ op' = [kind |-> "unbind", at |-> "registry", alive |-> FALSE, gen |-> 0, old |-> 0]
    /\ UNCHANGED <<maps, gens, loops, tokens, calls, reader, drained, asked>>

UnbindAbort ==
    /\ InOp({"unbind"}, "abort")
    /\ loops' = [g \in Generations |->
                    IF g = session_handle THEN [loops[g] EXCEPT !.aborted = TRUE] ELSE loops[g]]
    /\ session_handle' = 0
    /\ OpAt("inbox")
    /\ UNCHANGED <<inbox, registry, sem, gens, tokens, calls, reader, drained, asked>>

UnbindSem ==
    /\ InOp({"unbind"}, "sem")
    /\ remove_session
    /\ op' = None
    /\ UNCHANGED <<inbox, registry, session_handle, gens, loops, tokens, calls, reader, drained, asked>>

------------------------------------------------------------------------------
(* Demux::route_session, on the connection's reader *)

\* The hub sends a frame; the reader clones the session's sender, if there is one.
RouteLookup(f) ==
    /\ reader = None
    /\ IF f.kind = "request" THEN calls[f.call].at = "unsent"
       ELSE \A g \in Generations : <<g, f.call>> \notin asked
    /\ \/ /\ inbox # 0
          /\ reader' = [frame |-> f, gen |-> inbox, at |-> "send"]
          /\ IF f.kind = "request" THEN CallAt(f.call, "routing") ELSE UNCHANGED calls
       \/ /\ inbox = 0 /\ f.kind = "request"
          /\ UNCHANGED reader
          /\ CallAt(f.call, "lost")
    /\ UNCHANGED <<maps, gens, loops, tokens, op, drained, asked>>

IsRequest == reader.frame.kind = "request"

\* try_send: a full inbox rejects a request with tool_busy and drops a notification.
RouteSend ==
    /\ reader # None /\ reader.at = "send"
    /\ LET g == reader.gen
           c == reader.frame.call
       IN \/ /\ loops[g].at # "dead" /\ Len(loops[g].queue) < InboxCap
             /\ loops' = [loops EXCEPT ![g].queue = Append(@, reader.frame)]
             /\ IF IsRequest THEN CallAt(c, "queued") ELSE UNCHANGED calls
             /\ reader' = None
          \/ /\ loops[g].at # "dead" /\ Len(loops[g].queue) >= InboxCap
             /\ IF IsRequest THEN CallAt(c, "done") ELSE UNCHANGED calls
             /\ reader' = None
             /\ UNCHANGED loops
          \/ /\ loops[g].at = "dead"
             /\ IF IsRequest THEN CallAt(c, "lost") ELSE UNCHANGED calls
             /\ reader' = [reader EXCEPT !.at = "evict"]
             /\ UNCHANGED loops
    /\ UNCHANGED <<maps, gens, tokens, op, drained, asked>>

\* The receiver was gone: the session's entry is removed, whichever it is by now.
RouteEvict ==
    /\ reader # None /\ reader.at = "evict"
    /\ inbox' = 0
    /\ reader' = None
    /\ UNCHANGED <<registry, session_handle, sem, gens, loops, tokens, calls, op, drained, asked>>

------------------------------------------------------------------------------
(* run_session_loop *)

\* No sender is left: neither the demux nor the reader holds one.
Eof(g) == inbox # g /\ (reader # None => reader.gen # g)

\* An abort takes effect where the loop yields, that is while it waits for a frame
\* or for a hook; a loop that was not yet waiting goes on instead.
Abort(g) ==
    /\ loops[g].at = "recv" /\ loops[g].aborted
    /\ LoopAt(g, "dead")
    /\ UNCHANGED <<maps, gens, tokens, calls, op, reader, drained, asked>>

Receives(g, kind) ==
    /\ loops[g].at = "recv"
    /\ loops[g].queue # <<>>
    /\ Head(loops[g].queue).kind = kind

TakeRequest(g) ==
    /\ Receives(g, "request")
    /\ loops' = [loops EXCEPT ![g].at = "reg_closed", ![g].queue = Tail(@)]
    /\ calls' = [calls EXCEPT ![Head(loops[g].queue).call].at = "taken",
                              ![Head(loops[g].queue).call].gen = g]
    /\ UNCHANGED <<maps, gens, tokens, op, reader, drained, asked>>

\* Fault: tombstones are not bounded.
EvictNone(g, c) == {c}
\* At the cap a new tombstone costs another one, any one.
Evictable(g, c) ==
    IF Cardinality(pending[g]) >= MaxTombstones THEN pending[g] ELSE {c}

\* CancelRegistry::cancel of an id without a token: it is tombstoned.
Tombstone(g, c) ==
    \E evicted \in Evictable(g, c) :
        /\ pending' = [pending EXCEPT ![g] = (@ \ {evicted}) \cup {c}]
        /\ asked' = (asked \ {<<g, evicted>>}) \cup ({g} \X ({c} \cap Calls))

\* handle_notification of a Cancel: a live token is cancelled.
TakeCancel(g) ==
    /\ Receives(g, "cancel")
    /\ LET c == Head(loops[g].queue).call
       IN \/ /\ c \in live[g]
             /\ live' = [live EXCEPT ![g] = @ \ {c}]
             /\ calls' = Cancelled({c})
             /\ asked' = asked \cup {<<g, c>>}
             /\ UNCHANGED pending
          \/ /\ c \notin live[g]
             /\ Tombstone(g, c)
             /\ UNCHANGED <<live, calls>>
    /\ loops' = [loops EXCEPT ![g].queue = Tail(@)]
    /\ UNCHANGED <<maps, gens, closed, op, reader, drained>>

\* The Cancel of a call that has ended, and is not followed any further here.
TakeLateCancel(g) ==
    /\ loops[g].at = "recv" /\ Straggler \notin pending[g]
    /\ Tombstone(g, Straggler)
    /\ UNCHANGED <<maps, gens, loops, closed, live, calls, op, reader, drained>>

\* The call the loop is registering.
Taken(g) == CHOOSE c \in Calls : calls[c].at = "taken" /\ calls[c].gen = g

\* After register the task of the call is spawned.
Spawn(g, cancelled) ==
    /\ LoopAt(g, "recv")
    /\ calls' = [calls EXCEPT ![Taken(g)].at = "spawned",
                              ![Taken(g)].cancelled = @ \/ cancelled]

RegisterClosed(g) ==
    /\ loops[g].at = "reg_closed"
    /\ \/ g \in closed /\ Spawn(g, TRUE)
       \/ g \notin closed /\ LoopAt(g, "reg_pending") /\ UNCHANGED calls
    /\ UNCHANGED <<maps, gens, tokens, op, reader, drained, asked>>

\* Fault: a tombstone is left where it is.
IgnoreTombstone(g) == UNCHANGED <<pending, calls>>
ConsumeTombstone(g) ==
    /\ pending' = [pending EXCEPT ![g] = @ \ {Taken(g)}]
    /\ calls' = Cancelled({Taken(g)} \cap pending[g])

RegisterPending(g) ==
    /\ loops[g].at = "reg_pending"
    /\ ConsumeTombstone(g)
    /\ LoopAt(g, "reg_insert")
    /\ UNCHANGED <<maps, gens, closed, live, op, reader, drained, asked>>

RegisterInsert(g) ==
    /\ loops[g].at = "reg_insert"
    /\ live' = [live EXCEPT ![g] = @ \cup {Taken(g)}]
    /\ LoopAt(g, "reg_recheck")
    /\ UNCHANGED <<maps, gens, closed, pending, calls, op, reader, drained, asked>>

\* Fault: the registry is not looked at again after the insert.
NoRecheck(g) == Spawn(g, FALSE) /\ UNCHANGED live
RecheckClosed(g) ==
    \/ g \notin closed /\ Spawn(g, FALSE) /\ UNCHANGED live
    \/ /\ g \in closed
       /\ Spawn(g, Taken(g) \in live[g])
       /\ live' = [live EXCEPT ![g] = @ \ {Taken(g)}]

RegisterRecheck(g) ==
    /\ loops[g].at = "reg_recheck"
    /\ RecheckClosed(g)
    /\ UNCHANGED <<maps, gens, closed, pending, op, reader, drained, asked>>

LoopEnds(g) ==
    /\ loops[g].at = "recv" /\ loops[g].queue = <<>> /\ Eof(g)
    /\ LoopAt(g, "tail_close")
    /\ UNCHANGED <<maps, gens, tokens, calls, op, reader, drained, asked>>

TailClose(g) ==
    /\ loops[g].at = "tail_close"
    /\ CloseRegistry(g)
    /\ LoopAt(g, "tail_drain")
    /\ UNCHANGED <<maps, gens, live, pending, calls, op, reader, drained, asked>>

TailDrain(g) ==
    /\ loops[g].at = "tail_drain"
    /\ DrainRegistry(g)
    /\ LoopAt(g, "tail_sem")
    /\ UNCHANGED <<maps, gens, closed, op, reader, asked>>

TailSem(g) ==
    /\ loops[g].at = "tail_sem"
    /\ remove_session
    /\ LoopAt(g, "tail_registry")
    /\ UNCHANGED <<inbox, registry, session_handle, gens, tokens, calls, op, reader, drained, asked>>

\* Fault: the entry is removed without a look at whose it is.
RemoveRegistry(g) == registry' = 0
RemoveOwnRegistry(g) == registry' = IF registry = g THEN 0 ELSE registry

TailRegistry(g) ==
    /\ loops[g].at = "tail_registry"
    /\ RemoveOwnRegistry(g)
    /\ LoopAt(g, "dead")
    /\ UNCHANGED <<inbox, session_handle, sem, gens, tokens, calls, op, reader, drained, asked>>

------------------------------------------------------------------------------
(* execute_call and Admission::admit, one task per call *)

\* A request that names no handler, or does not decode, is answered with an error.
RejectCall(c) ==
    /\ calls[c].at = "spawned"
    /\ CallAt(c, "finished")
    /\ UNCHANGED <<maps, gens, loops, tokens, op, reader, drained, asked>>

AdmitBegin(c) ==
    /\ calls[c].at = "spawned"
    /\ calls' = [calls EXCEPT ![c].at = "waiting", ![c].sem = sem]
    /\ UNCHANGED <<maps, gens, loops, tokens, op, reader, drained, asked>>

\* The permits of the session, the connection and the process, in this order.  The
\* calls they are shared with are not modelled: they may be free now or never.
Admitted(c) ==
    /\ calls[c].at = "waiting"
    /\ CallAt(c, "starting")
    /\ UNCHANGED <<maps, gens, loops, tokens, op, reader, drained, asked>>

\* The deadline that the three acquisitions share passes.
AdmitTimeout(c) ==
    /\ calls[c].at = "waiting"
    /\ CallAt(c, "finished")
    /\ UNCHANGED <<maps, gens, loops, tokens, op, reader, drained, asked>>

\* The select is biased: a cancelled call never reaches its handler.
StartHandler(c) ==
    /\ calls[c].at = "starting" /\ ~calls[c].cancelled
    /\ CallAt(c, "running")
    /\ UNCHANGED <<maps, gens, loops, tokens, op, reader, drained, asked>>

\* Fault: a handler that has started is waited for.
CancellableBeforeStart == {"starting"}
Cancellable == {"starting", "running"}

DropHandler(c) ==
    /\ calls[c].at \in Cancellable /\ calls[c].cancelled
    /\ CallAt(c, "finished")
    /\ UNCHANGED <<maps, gens, loops, tokens, op, reader, drained, asked>>

HandlerEnds(c) ==
    /\ calls[c].at = "running"
    /\ CallAt(c, "finished")
    /\ UNCHANGED <<maps, gens, loops, tokens, op, reader, drained, asked>>

deregister(c) ==
    /\ calls[c].at = "finished"
    /\ live' = [live EXCEPT ![calls[c].gen] = @ \ {c}]
    /\ CallAt(c, "done")
    /\ UNCHANGED <<maps, gens, loops, closed, pending, op, reader, drained, asked>>

------------------------------------------------------------------------------

BindStep == BindAlive \/ BindOpen \/ OpInbox \/ BindSem \/ OpRegistry \/ OpClose
                \/ OpDrain \/ BindSpawn \/ UnbindAbort \/ UnbindSem
ReaderStep == RouteSend \/ RouteEvict
LoopStep(g) ==
    \/ Abort(g) \/ TakeRequest(g) \/ TakeCancel(g)
    \/ RegisterClosed(g) \/ RegisterPending(g) \/ RegisterInsert(g) \/ RegisterRecheck(g)
    \/ LoopEnds(g) \/ TailClose(g) \/ TailDrain(g) \/ TailSem(g) \/ TailRegistry(g)
TaskStep(c) ==
    \/ RejectCall(c) \/ AdmitBegin(c) \/ Admitted(c) \/ AdmitTimeout(c)
    \/ StartHandler(c) \/ DropHandler(c)
    \/ deregister(c)

Next ==
    \/ BindBegin \/ UnbindBegin \/ BindStep
    \/ \E f \in Frames : RouteLookup(f)
    \/ ReaderStep
    \/ \E g \in Generations : LoopStep(g) \/ TakeLateCancel(g)
    \/ \E c \in Calls : TaskStep(c) \/ HandlerEnds(c)

Spec == Init /\ [][Next]_vars

\* Spawned tasks and timers make progress; handlers, the hub and the callers of
\* bind and unbind need not do anything.
Fairness ==
    /\ WF_vars(BindStep)
    /\ WF_vars(ReaderStep)
    /\ \A g \in Generations : WF_vars(LoopStep(g))
    /\ \A c \in Calls : WF_vars(TaskStep(c))

FairSpec == Spec /\ Fairness

------------------------------------------------------------------------------
(* Properties *)

\* The maps, the loops, the registries and the calls keep their shape; inboxes and
\* tombstones their bounds.
TypeOK ==
    /\ {inbox, registry, session_handle, sem, gens} \subseteq 0..MaxBinds
    /\ loops \in [Generations -> [at : LoopSteps, queue : Seq(Frames), aborted : BOOLEAN]]
    /\ closed \subseteq Generations /\ drained \subseteq Generations
    /\ live \in [Generations -> SUBSET Calls]
    /\ pending \in [Generations -> SUBSET (Calls \cup {Straggler})]
    /\ calls \in [Calls -> [at : CallSteps, gen : 0..MaxBinds, sem : 0..MaxBinds,
                            cancelled : BOOLEAN]]
    /\ op = None \/ op \in OpRecord
    /\ \/ reader = None
       \/ reader \in [frame : Frames, gen : Generations, at : {"send", "evict"}]
    /\ asked \subseteq Generations \X Calls
    /\ \A g \in Generations : /\ Len(loops[g].queue) <= InboxCap
                              /\ Cardinality(pending[g]) <= MaxTombstones

\* No call escapes a teardown: once cancel_all has drained a registry, every call
\* that was, or is from then on, spawned by its loop has its token cancelled,
\* however register, deregister and the drain interleave.
NoOrphans ==
    \A c \in Calls :
        calls[c].gen \in drained /\ calls[c].at \in InFlight => calls[c].cancelled

\* A Cancel is not lost, whether its loop handles it before or after the request
\* of its call: a call in flight that was asked to stop has its token cancelled,
\* unless its tombstone had to make room for another.
CancelReaches ==
    \A c \in Calls :
        <<calls[c].gen, c>> \in asked /\ calls[c].at \in InFlight => calls[c].cancelled

\* The loop of a bound session is the one whose registry the server would cancel,
\* also while the previous loop is still at its exit: remove_if leaves the entry of
\* its successor alone.
RegistryOfLiveLoop ==
    op = None /\ session_handle # 0 /\ loops[session_handle].at \notin TailSteps \cup {"dead"}
        => registry = session_handle

\* A cancelled call ends although its handler never returns, and although it may
\* be waiting for a permit when the token is cancelled.
CancelledCallsEnd ==
    \A c \in Calls :
        calls[c].at \in InFlight /\ calls[c].cancelled ~> calls[c].at = "done"

\* server.rs: the semaphore's lifetime is tied to the session loop, "created here,
\* removed on unbind / loop exit".  So a bound session whose loop runs has one.
LoopHasSemaphore ==
    op = None /\ session_handle # 0 /\ loops[session_handle].at \notin TailSteps \cup {"dead"}
        => sem # 0
==============================================================================
