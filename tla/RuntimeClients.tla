---------------------------- MODULE RuntimeClients ----------------------------
(* The Runtime child process that the surfaces of one process share for one
   workspace: SharedRuntimeClient with its table of weak references, and the
   RuntimeClient in its mutex, from the spawn through the handshake with its
   watchdog to the requests and the end of the child.

   A request is its id, a line of the child's output the id it answers.  That an
   answer is refused (an error, an unexpected server, a text that does not parse)
   is a choice of the child.  The Runtime is external: it answers each request
   once and in order, may print other lines, and may exit at any time. *)
EXTENDS Naturals, Sequences

CONSTANTS
    Surfaces,       \* threads that use the shared client
    SharedSessions, \* identities of SharedRuntimeSession values
    Pids,           \* process ids; one is used again after its child is reaped
    Nothing,        \* no session, no child, no thread
    MaxRequestId,   \* bound: requests written to one child
    MaxLines        \* bound: lines of output that wait to be read

ASSUME RuntimeAssumption ==
    /\ SharedSessions # {}
    /\ Nothing \notin Surfaces \cup SharedSessions \cup Pids
    /\ MaxRequestId \in Nat
    /\ MaxLines \in Nat

VARIABLES
    registered, \* the session that SHARED_RUNTIME_CLIENTS refers to, weakly
    handle,     \* the session of the SharedRuntimeClient each surface has
    slot,       \* the child of the RuntimeClient in each session's mutex
    guard,      \* the surface that holds each session's mutex
    child,      \* each process id: the process, its pipes and the next request id
    doing,      \* what each surface is doing
    watchdog    \* the watcher thread of each surface's handshake request

runtimeVars == <<registered, handle, slot, guard, child, doing, watchdog>>

Line == [answers : Nat, result : BOOLEAN]
ChildProcess == [state : {"none", "alive", "spared", "dead"}, stdin : Seq(Nat), stdout : Seq(Line),
                 nextId : Nat \ {0}]
Activity == [pc : {"idle", "operating", "sending", "reading", "joining", "returning", "dropping"},
             pid : Pids \cup {Nothing}, stage : {"initialize", "list", "operation"},
             id : Nat, got : Nat]

NoChild == [state |-> "none", stdin |-> <<>>, stdout |-> <<>>, nextId |-> 1]
Idle == [pc |-> "idle", pid |-> Nothing, stage |-> "operation", id |-> 0, got |-> 0]
NoWatcher == [state |-> "off", pid |-> Nothing]

Alive(s) == \E c \in Surfaces : handle[c] = s
Running(p) == child[p].state \in {"alive", "spared"}   \* spared: a kill of it has failed
InCall(c) == doing[c].pc \notin {"idle", "dropping"}   \* inside with_client, before any drop

RuntimeInit ==
    /\ registered = Nothing
    /\ handle = [c \in Surfaces |-> Nothing]
    /\ slot = [s \in SharedSessions |-> Nothing]
    /\ guard = [s \in SharedSessions |-> Nothing]
    /\ child = [p \in Pids |-> NoChild]
    /\ doing = [c \in Surfaces |-> Idle]
    /\ watchdog = [c \in Surfaces |-> NoWatcher]

------------------------------------------------------------------------------
(* The table of sessions *)

\* Fault: every surface gets a session of its own.
NewSession == CHOOSE s \in SharedSessions : ~Alive(s)

\* The session connect_in answers with: the registered one while somebody has a
\* handle on it, otherwise a new one.
Upgraded ==
    IF registered # Nothing /\ Alive(registered)
    THEN registered
    ELSE CHOOSE s \in SharedSessions : ~Alive(s)

\* SharedRuntimeClient::connect_in, under the lock of the table.
ConnectIn(c) ==
    /\ doing[c].pc = "idle"
    /\ handle[c] = Nothing
    /\ registered' = Upgraded
    /\ handle' = [handle EXCEPT ![c] = Upgraded]
    /\ UNCHANGED <<slot, guard, child, doing, watchdog>>

\* The surface is about to drop a RuntimeClient: Drop kills and reaps its child.
GiveUp(c, p) == doing' = [doing EXCEPT ![c] = [Idle EXCEPT !.pc = "dropping", !.pid = p]]

\* A handle goes away.  With the last one the session goes, and its client; the
\* weak reference fails from here on, before the child has been killed.
DropHandle(c) ==
    /\ doing[c].pc = "idle"
    /\ handle[c] # Nothing
    /\ handle' = [handle EXCEPT ![c] = Nothing]
    /\ IF slot[handle[c]] # Nothing /\ \A d \in Surfaces \ {c} : handle[d] # handle[c]
       THEN /\ slot' = [slot EXCEPT ![handle[c]] = Nothing]
            /\ GiveUp(c, slot[handle[c]])
       ELSE UNCHANGED <<slot, doing>>
    /\ UNCHANGED <<registered, guard, child, watchdog>>

------------------------------------------------------------------------------
(* SharedRuntimeClient::with_client and RuntimeClient::spawn_in *)

\* A surface takes the mutex of its session, when nobody has it.
Locks(c) ==
    /\ doing[c].pc = "idle"
    /\ handle[c] # Nothing
    /\ guard[handle[c]] = Nothing
    /\ guard' = [guard EXCEPT ![handle[c]] = c]

\* Fault: tools/list is sent by request, which has no watcher.
WatchInitializeOnly(c, p, stage) ==
    /\ doing' = [doing EXCEPT ![c] = [Idle EXCEPT !.pc = "sending", !.pid = p, !.stage = stage]]
    /\ watchdog' = [watchdog EXCEPT ![c] =
                       IF stage = "initialize" THEN [state |-> "armed", pid |-> p] ELSE NoWatcher]

\* request_with_timeout starts its watcher, then the request.
StartHandshake(c, p, stage) ==
    /\ doing' = [doing EXCEPT ![c] = [Idle EXCEPT !.pc = "sending", !.pid = p, !.stage = stage]]
    /\ watchdog' = [watchdog EXCEPT ![c] = [state |-> "armed", pid |-> p]]

\* with_client finds no client: spawn_in starts a child.  (A spawn that fails
\* returns at once and changes nothing.)
SpawnIn(c) ==
    /\ Locks(c)
    /\ slot[handle[c]] = Nothing
    /\ \E p \in Pids :
          /\ child[p].state = "none"
          /\ child' = [child EXCEPT ![p] = [NoChild EXCEPT !.state = "alive"]]
          /\ StartHandshake(c, p, "initialize")
    /\ UNCHANGED <<registered, handle, slot>>

\* with_client finds the client of an earlier call.
Reuse(c) ==
    /\ Locks(c)
    /\ slot[handle[c]] # Nothing
    /\ doing' = [doing EXCEPT ![c] = [Idle EXCEPT !.pc = "operating", !.pid = slot[handle[c]]]]
    /\ UNCHANGED <<registered, handle, slot, child, watchdog>>

\* SharedRuntimeClient::invalidate.
Invalidate(c) ==
    /\ Locks(c)
    /\ slot[handle[c]] # Nothing
    /\ slot' = [slot EXCEPT ![handle[c]] = Nothing]
    /\ GiveUp(c, slot[handle[c]])
    /\ UNCHANGED <<registered, handle, child, watchdog>>

\* Fault: the client of a failed operation stays in place.
KeepClient(c) ==
    /\ doing' = [doing EXCEPT ![c] = [Idle EXCEPT !.pc = "returning"]]
    /\ UNCHANGED slot

\* An operation fails: with_client puts None in place of the client.
Discard(c) ==
    /\ slot' = [slot EXCEPT ![handle[c]] = Nothing]
    /\ GiveUp(c, doing[c].pid)

\* request returns, with the id its line answers or with 0 for an Err.  A
\* handshake request then tells its watcher that it is done; an operation is over.
Answered(c, got) ==
    IF doing[c].stage # "operation"
    THEN /\ doing' = [doing EXCEPT ![c].pc = "joining", ![c].got = got]
         /\ UNCHANGED slot
    ELSE IF got = 0
    THEN Discard(c)
    ELSE /\ doing' = [doing EXCEPT ![c].pc = "returning", ![c].got = got]
         /\ UNCHANGED slot

\* call_tool sends its request, or the operation is refused before it sends one:
\* a path, an argument or a missing capability.
Operate(c) ==
    /\ doing[c].pc = "operating"
    /\ \/ /\ child[doing[c].pid].nextId =< MaxRequestId
          /\ doing' = [doing EXCEPT ![c].pc = "sending"]
          /\ UNCHANGED slot
       \/ Discard(c)
    /\ UNCHANGED <<registered, handle, guard, child, watchdog>>

\* send: the pipe takes the request, or it is broken.
Send(c) ==
    LET p == doing[c].pid IN
    /\ doing[c].pc = "sending"
    /\ IF Running(p)
       THEN /\ child' = [child EXCEPT ![p].stdin = Append(@, child[p].nextId),
                                      ![p].nextId = @ + 1]
            /\ doing' = [doing EXCEPT ![c].pc = "reading", ![c].id = child[p].nextId]
            /\ UNCHANGED slot
       ELSE Answered(c, 0) /\ UNCHANGED child
    /\ UNCHANGED <<registered, handle, guard, watchdog>>

\* request reads one line and takes it for the answer; no id is compared.
ReadLine(c) ==
    LET p == doing[c].pid  line == Head(child[p].stdout) IN
    /\ doing[c].pc = "reading"
    /\ child[p].stdout # <<>>
    /\ child' = [child EXCEPT ![p].stdout = Tail(@)]
    /\ Answered(c, IF line.result THEN line.answers ELSE 0)
    /\ UNCHANGED <<registered, handle, guard, watchdog>>

\* The end of the output of a child that has exited.
ReadEof(c) ==
    /\ doing[c].pc = "reading"
    /\ child[doing[c].pid].stdout = <<>>
    /\ ~Running(doing[c].pid)
    /\ Answered(c, 0)
    /\ UNCHANGED <<registered, handle, guard, child, watchdog>>

\* Fault: the watcher is not joined.
NotJoined(c) == doing[c].pc = "joining"

\* The watcher has ended, which request_with_timeout waits for.
Joined(c) == doing[c].pc = "joining" /\ watchdog[c].state = "off"

\* The handshake goes on: initialize is followed by a notification and
\* tools/list, after which the client is put in place.
HandshakeStep(c) ==
    /\ Joined(c)
    /\ doing[c].got # 0
    /\ IF doing[c].stage = "initialize"
       THEN Running(doing[c].pid) /\ StartHandshake(c, doing[c].pid, "list") /\ UNCHANGED slot
       ELSE /\ slot' = [slot EXCEPT ![handle[c]] = doing[c].pid]
            /\ doing' = [doing EXCEPT ![c] = [Idle EXCEPT !.pc = "operating", !.pid = doing[c].pid]]
            /\ UNCHANGED watchdog
    /\ UNCHANGED <<registered, handle, guard, child>>

\* spawn_in fails, the notification to a child that has exited included, and
\* drops the client it was building.
HandshakeFails(c) ==
    /\ Joined(c)
    /\ \/ doing[c].got = 0
       \/ doing[c].stage = "initialize" /\ ~Running(doing[c].pid)
    /\ GiveUp(c, doing[c].pid)
    /\ UNCHANGED <<registered, handle, slot, guard, child, watchdog>>

Unlocked(c) == [s \in SharedSessions |-> IF guard[s] = c THEN Nothing ELSE guard[s]]

\* with_client returns Ok.
Return(c) ==
    /\ doing[c].pc = "returning"
    /\ doing' = [doing EXCEPT ![c] = Idle]
    /\ guard' = Unlocked(c)
    /\ UNCHANGED <<registered, handle, slot, child, watchdog>>

\* Drop for RuntimeClient kills and reaps the child; the mutex is released after.
DropClient(c) ==
    /\ doing[c].pc = "dropping"
    /\ child' = [child EXCEPT ![doing[c].pid] = NoChild]
    /\ doing' = [doing EXCEPT ![c] = Idle]
    /\ guard' = Unlocked(c)
    /\ UNCHANGED <<registered, handle, slot, watchdog>>

------------------------------------------------------------------------------
(* The watcher of a handshake request *)

Watches(c, state) ==
    watchdog' = [watchdog EXCEPT ![c] = IF state = "off" THEN NoWatcher ELSE [@ EXCEPT !.state = state]]

\* It sees done, at any of its looks.
WatcherEnds(c) ==
    /\ watchdog[c].state = "armed"
    /\ doing[c].pc \notin {"sending", "reading"}
    /\ Watches(c, "off")
    /\ UNCHANGED <<registered, handle, slot, guard, child, doing>>

\* The deadline has passed and done is not set yet.
WatcherDecides(c) ==
    /\ watchdog[c].state = "armed"
    /\ doing[c].pc \in {"sending", "reading"}
    /\ Watches(c, "decided")
    /\ UNCHANGED <<registered, handle, slot, guard, child, doing>>

\* kill_pid, for a process that is still there: it runs the system's kill command
\* and ignores it when that cannot be started or fails.
WatcherKills(c) ==
    LET p == watchdog[c].pid IN
    /\ watchdog[c].state = "decided"
    /\ \E outcome \in IF Running(p) THEN {"dead", "spared"} ELSE {child[p].state} :
          child' = [child EXCEPT ![p].state = outcome]
    /\ Watches(c, "off")
    /\ UNCHANGED <<registered, handle, slot, guard, doing>>

------------------------------------------------------------------------------
(* The Runtime *)

Prints(p, line) ==
    /\ Running(p)
    /\ Len(child[p].stdout) < MaxLines
    /\ child' = [child EXCEPT ![p].stdout = Append(@, line),
                              ![p].stdin = IF line.answers = 0 THEN @ ELSE Tail(@)]
    /\ UNCHANGED <<registered, handle, slot, guard, doing, watchdog>>

RuntimeAnswers(p) ==
    /\ child[p].stdin # <<>>
    /\ \E ok \in BOOLEAN : Prints(p, [answers |-> Head(child[p].stdin), result |-> ok])

\* A line that is no answer, which request takes for an Err.
RuntimePrints(p) == Prints(p, [answers |-> 0, result |-> FALSE])

RuntimeExits(p) ==
    /\ Running(p)
    /\ child' = [child EXCEPT ![p].state = "dead"]
    /\ UNCHANGED <<registered, handle, slot, guard, doing, watchdog>>

------------------------------------------------------------------------------
\* What a surface that is inside a call does next.
Proceeds(c) ==
    \/ Operate(c) \/ Send(c) \/ ReadLine(c) \/ ReadEof(c)
    \/ HandshakeStep(c) \/ HandshakeFails(c) \/ Return(c) \/ DropClient(c)

Watcher(c) == WatcherEnds(c) \/ WatcherDecides(c) \/ WatcherKills(c)

RuntimeNext ==
    \/ \E c \in Surfaces :
          \/ ConnectIn(c) \/ DropHandle(c) \/ SpawnIn(c) \/ Reuse(c) \/ Invalidate(c)
          \/ Proceeds(c) \/ Watcher(c)
    \/ \E p \in Pids : RuntimeAnswers(p) \/ RuntimePrints(p) \/ RuntimeExits(p)

RuntimeSpec == RuntimeInit /\ [][RuntimeNext]_runtimeVars

\* Threads are scheduled and time passes; the Runtime need not answer.
RuntimeFairness ==
    \A c \in Surfaces : WF_runtimeVars(Proceeds(c)) /\ WF_runtimeVars(Watcher(c))

RuntimeFairSpec == RuntimeSpec /\ RuntimeFairness

------------------------------------------------------------------------------
(* Properties *)

\* Types, and that a surface inside with_client holds the mutex of its session.
RuntimeTypeOK ==
    /\ registered \in SharedSessions \cup {Nothing}
    /\ handle \in [Surfaces -> SharedSessions \cup {Nothing}]
    /\ slot \in [SharedSessions -> Pids \cup {Nothing}]
    /\ guard \in [SharedSessions -> Surfaces \cup {Nothing}]
    /\ child \in [Pids -> ChildProcess]
    /\ doing \in [Surfaces -> Activity]
    /\ watchdog \in [Surfaces -> [state : {"off", "armed", "decided"}, pid : Pids \cup {Nothing}]]
    /\ \A c \in Surfaces : InCall(c) => handle[c] # Nothing /\ guard[handle[c]] = c

\* request compares no ids, and yet what it returns is the answer to the request
\* it sent: with_client discards a client whose operation failed, so that no line
\* of an earlier request is left in the pipe.
AnswersAreOwn ==
    \A c \in Surfaces :
       doing[c].pc \in {"joining", "returning"} /\ doing[c].got # 0 => doing[c].got = doing[c].id

\* The process id that the watcher is going to kill is its own child, not yet
\* reaped: request_with_timeout joins the watcher before the client can be dropped
\* and the id be used for another process.
KillsOwnChild ==
    \A c \in Surfaces :
       watchdog[c].state = "decided" =>
          /\ child[watchdog[c].pid].state # "none"
          /\ doing[c].pid = watchdog[c].pid

\* Every child that has not been reaped belongs to the client of a session that
\* somebody has a handle on, or to a surface at work on it, and at most one of
\* them is not about to be killed: surfaces open no second Runtime for the
\* workspace, and none is left behind.
OneRuntime ==
    LET unreaped == {p \in Pids : child[p].state # "none"}
        serving == {slot[s] : s \in {t \in SharedSessions : Alive(t)}}
                   \cup {doing[c].pid : c \in {d \in Surfaces : doing[d].pc # "dropping"}}
    IN  /\ unreaped \subseteq serving \cup {doing[c].pid : c \in Surfaces}
        /\ \A p, q \in serving \ {Nothing} : p = q

InHandshake(c) == doing[c].pc \in {"sending", "reading", "joining"} /\ doing[c].stage # "operation"
KillFailed(c) == child[doing[c].pid].state = "spared"

\* Both requests of a handshake come to an end even when the Runtime never
\* answers, whatever the order of deadline, answer and exit: the watcher kills the
\* child, which ends the read.  A kill that fails is the one exception.
HandshakesEndUnlessKillFails ==
    \A c \in Surfaces : InHandshake(c) ~> (~InHandshake(c) \/ KillFailed(c))

\* The comment on kill_pid: "a failure to kill is not itself fatal (the caller has
\* already decided to report a timeout either way)".  Every handshake comes to an
\* end, whether or not the kill works.
HandshakesEnd == \A c \in Surfaces : InHandshake(c) ~> ~InHandshake(c)
==============================================================================
