---------------------------- MODULE ExternalWorkers ----------------------------
(***************************************************************************)
(* A view of a workflow that the Loop Hub runs with external workers       *)
(* (simplicio-runtime-client, ExternalWorkerRun over                       *)
(* SocketWorkerHubTransport).  The Hub is external: it appends events to a *)
(* durable log, also events of workers it has superseded, and answers a    *)
(* status request with the events after a cursor.  It may repeat or        *)
(* reorder them within an answer; it does not leave one out.  poll() holds *)
(* &mut self while it applies an answer event by event, so no other call   *)
(* on the run happens in between, but the Hub goes on and the process may  *)
(* be restarted.  A request holds the transport's mutex from its send to   *)
(* its answer, and is atomic here with every outcome it can have.  Refused *)
(* calls that change nothing are stuttering steps.                         *)
(***************************************************************************)
EXTENDS Integers, Sequences, FiniteSets

CONSTANTS
    Tasks,          \* task ids of the workflow
    DeliveryTasks,  \* those with WorkerRole::Delivery
    WorkerEvents,   \* the events the Hub may log
    MaxLog,         \* bound: events of the log
    MaxEvents,      \* bound: events of an answer
    MaxCalls,       \* bound: delegate, cancel and deliver calls
    None            \* Option::None

WorkerState == {"Waiting", "Working", "Blocked", "Failed", "Done", "Cancelled"}

(* A lease is the worktree it names (worktree_id, branch and path_token go *)
(* together); valid says whether the event passes the checks that need no  *)
(* view: done carries a receipt, the lease names the fence and worktree of *)
(* its attempt.                                                            *)
ASSUME WorkersAssumption ==
    /\ IsFiniteSet(Tasks) /\ DeliveryTasks \subseteq Tasks
    /\ None \notin WorkerEvents
    /\ \A e \in WorkerEvents :
        /\ e.task \in Tasks /\ e.state \in WorkerState
        /\ e.attempt \in Nat /\ e.fence \in Nat /\ e.valid \in BOOLEAN
    /\ MaxLog \in Nat /\ MaxEvents \in Nat /\ MaxCalls \in Nat

VARIABLES
    log,        \* the Hub's durable event log, external; sequence n is log[n + 1]
    attached,   \* whether the process holds an ExternalWorkerRun
    next,       \* next_sequence
    statuses,   \* task -> the event its status was reduced from, or None
    poll,       \* the answer poll() is applying, or None
    channel,    \* "up", or "down" once the transport has lost its connection
    plan,       \* the dependencies of the last delegation the Hub accepted, or None
    calls,      \* number of delegate, cancel and deliver calls
    handled     \* those calls as the Hub got them, in order

viewVars == <<attached, next, statuses, poll>>
workersVars == <<log, viewVars, channel, plan, calls, handled>>

HubRequest == [method : {"delegate", "cancel"}] \cup
              [method : {"deliver"}, task : Tasks, attempt : Nat, fence : Nat]

Blank == [t \in Tasks |-> None]

WorkersInit ==
    /\ log = <<>>
    /\ attached = FALSE /\ next = 0 /\ statuses = Blank /\ poll = None
    /\ channel = "up"
    /\ plan = None /\ calls = 0 /\ handled = <<>>

\* The Hub logs an event, also one of a worker that lost its attempt.
HubLogs(e) ==
    /\ Len(log) < MaxLog
    /\ log' = Append(log, e)
    /\ UNCHANGED <<viewVars, channel, plan, calls, handled>>

------------------------------------------------------------------------------
(* SocketWorkerHubTransport::rpc: how many times the Hub handles a request,  *)
(* whether the caller gets its answer, and what becomes of the connection.   *)

\* A request over a broken connection does not reach the Hub.
Reaches == IF channel = "up" THEN {0, 1} ELSE {0}

rpc(replay_safe, handledTimes, answered) ==
    \/ \* an answer, or an answer that cannot be read
       /\ channel = "up" /\ handledTimes = 1
       /\ answered \in BOOLEAN
       /\ channel' = "up"
    \/ \* an I/O failure, and no new connection
       /\ handledTimes \in Reaches /\ ~answered
       /\ channel' = "down"
    \/ \* an I/O failure and a new connection, on which only a read is repeated
       /\ ~replay_safe
       /\ handledTimes \in Reaches /\ ~answered
       /\ channel' = "up"
    \/ /\ replay_safe
       /\ \E first \in Reaches, second \in {0, 1} :
            /\ handledTimes = first + second
            /\ answered => second = 1
       /\ channel' \in (IF answered THEN {"up"} ELSE {"up", "down"})

------------------------------------------------------------------------------
(* attach(), delegate(), cancel(), deliver() *)

\* detect_cycle: a depth-first visit must never come back to a task it is visiting.
\* visit[visiting] is the set of the tasks it may go on to from there.  The code also
\* remembers the tasks it is done with; that saves visits and decides nothing, since
\* what is reachable from such a task is done too and never being visited again.
NoCycle(dependencies) ==
    LET visit[visiting \in SUBSET Tasks] ==
            {t \in Tasks \ visiting :
                \A d \in dependencies[t] : d \in visit[visiting \cup {t}]}
    IN visit[{}] = Tasks

\* Fault: only dependencies of a task on itself are looked for.
NoSelfDependency(dependencies) == \A t \in Tasks : t \notin dependencies[t]
validate(dependencies) ==
    /\ \A t \in Tasks : t \notin dependencies[t]
    /\ NoCycle(dependencies)

\* A view that starts over: a process that was restarted, or a new run.
Fresh ==
    /\ attached' = TRUE /\ next' = 0 /\ statuses' = Blank /\ poll' = None

attach ==
    /\ Fresh
    /\ UNCHANGED <<log, channel, plan, calls, handled>>

\* The process stops with the view, in the middle of a poll or not.
Restart ==
    /\ attached
    /\ attached' = FALSE /\ next' = 0 /\ statuses' = Blank /\ poll' = None
    /\ UNCHANGED <<log, channel, plan, calls, handled>>

\* Fault: every request is sent again after an I/O failure.
MutatingReplayed == TRUE
MutatingReplaySafe == FALSE

\* A call that the Hub may act on: it gets the request as often as rpc sends it.
Call(request, answered) ==
    /\ calls < MaxCalls
    /\ calls' = calls + 1
    /\ \E times \in 0..2 :
        /\ rpc(MutatingReplaySafe, times, answered)
        /\ handled' = handled \o [n \in 1..times |-> request]

\* The Hub must accept every task, or there is no run.
delegate(dependencies, answered, complete) ==
    /\ ~attached
    /\ validate(dependencies)
    /\ Call([method |-> "delegate"], answered)
    /\ plan' = IF handled' # handled THEN dependencies ELSE plan
    /\ IF answered /\ complete THEN Fresh ELSE UNCHANGED viewVars
    /\ UNCHANGED log

cancel(answered) ==
    /\ attached /\ poll = None
    /\ Call([method |-> "cancel"], answered)
    /\ UNCHANGED <<log, viewVars, plan>>

\* Fault: a task may be delivered in any state.
MayDeliverAny(t) == t \in DeliveryTasks /\ statuses[t] # None
MayDeliver(t) ==
    /\ t \in DeliveryTasks
    /\ statuses[t] # None
    /\ statuses[t].state = "Done"

deliver(t, answered) ==
    /\ attached /\ poll = None
    /\ MayDeliver(t)
    /\ Call([method |-> "deliver", task |-> t, attempt |-> statuses[t].attempt,
             fence |-> statuses[t].fence], answered)
    /\ UNCHANGED <<log, viewVars, plan>>

------------------------------------------------------------------------------
(* poll() and apply_event() *)

\* The answers to a request with cursor next: positions in the log, each one up
\* to the answer's next_sequence at least once, in any order.
Answers(upto) ==
    {s \in UNION {[1..k -> 1..Len(log)] : k \in 0..MaxEvents} :
        next + 1..upto \subseteq {s[n] : n \in DOMAIN s}}

\* previous_sequence starts at the cursor.
BeginPoll(upto, positions) ==
    /\ attached /\ poll = None
    /\ upto >= next
    /\ \E times \in 0..2 : rpc(TRUE, times, TRUE)
    /\ poll' = [upto |-> upto, todo |-> positions, previous |-> next]
    /\ UNCHANGED <<log, attached, next, statuses, plan, calls, handled>>

PollFails ==
    /\ attached /\ poll = None
    /\ \E times \in 0..2 : rpc(TRUE, times, FALSE)
    /\ UNCHANGED <<log, viewVars, plan, calls, handled>>

valid_transition(from, to) ==
    \/ from = to
    \/ from = "Waiting" /\ to \in {"Working", "Blocked", "Cancelled"}
    \/ from = "Working" /\ to \in {"Blocked", "Failed", "Done", "Cancelled"}
    \/ from = "Blocked" /\ to \in {"Waiting", "Working", "Failed", "Cancelled"}

SameFence(e, current) == e.attempt = current.attempt /\ e.fence = current.fence
LostFence(e, current) ==
    \/ e.attempt < current.attempt
    \/ e.attempt = current.attempt /\ e.fence < current.fence

\* Fault: only the attempt is compared, not the fence.
FollowsAttempt(e, current) ==
    /\ e.attempt >= current.attempt
    /\ SameFence(e, current) => valid_transition(current.state, e.state)
Follows(e, current) ==
    /\ ~LostFence(e, current)
    /\ SameFence(e, current) => valid_transition(current.state, e.state)

\* Fault: only a worker that works holds its worktree.
WorkingCollides(e) ==
    /\ e.lease # None
    /\ \E t \in Tasks \ {e.task} :
        /\ statuses[t] # None
        /\ statuses[t].lease = e.lease
        /\ statuses[t].state = "Working"
Collides(e) ==
    /\ e.lease # None
    /\ \E t \in Tasks \ {e.task} :
        /\ statuses[t] # None
        /\ statuses[t].lease = e.lease
        /\ statuses[t].state \notin {"Cancelled", "Failed"}

\* The next event of the answer is in sequence and apply_event takes it.
InSequence(p) == p > next /\ p <= poll.upto /\ p > poll.previous
Applicable(e) ==
    /\ statuses[e.task] # None => Follows(e, statuses[e.task])
    /\ e.valid
    /\ ~Collides(e)

ApplyEvent ==
    /\ poll # None /\ poll.todo # <<>>
    /\ LET p == Head(poll.todo)
       IN /\ InSequence(p)
          /\ Applicable(log[p])
          /\ statuses' = [statuses EXCEPT ![log[p].task] = log[p]]
          /\ poll' = [poll EXCEPT !.todo = Tail(@), !.previous = p]
    /\ UNCHANGED <<log, attached, next, channel, plan, calls, handled>>

\* Fault: the cursor moves past the answer although an event was refused.
SkippedCursor == poll.upto
RefusedCursor == next

\* One refused event ends the poll: what was applied before it stays, the cursor too.
RefuseEvent ==
    /\ poll # None /\ poll.todo # <<>>
    /\ InSequence(Head(poll.todo)) => ~Applicable(log[Head(poll.todo)])
    /\ next' = RefusedCursor
    /\ poll' = None
    /\ UNCHANGED <<log, attached, statuses, channel, plan, calls, handled>>

AnsweredCursor == poll.upto

EndPoll ==
    /\ poll # None /\ poll.todo = <<>>
    /\ next' = AnsweredCursor
    /\ poll' = None
    /\ UNCHANGED <<log, attached, statuses, channel, plan, calls, handled>>

WorkersNext ==
    \/ \E e \in WorkerEvents : HubLogs(e)
    \/ attach
    \/ Restart
    \/ \E dependencies \in [Tasks -> SUBSET Tasks], answered, complete \in BOOLEAN :
        delegate(dependencies, answered, complete)
    \/ \E answered \in BOOLEAN : cancel(answered)
    \/ \E t \in Tasks, answered \in BOOLEAN : deliver(t, answered)
    \/ \E upto \in 0..Len(log) :
        \E positions \in Answers(upto) : BeginPoll(upto, positions)
    \/ PollFails
    \/ ApplyEvent
    \/ RefuseEvent
    \/ EndPoll

WorkersSpec == WorkersInit /\ [][WorkersNext]_workersVars

------------------------------------------------------------------------------
(* Properties *)

\* The view, the log and the calls keep their shape.
WorkersTypeOK ==
    /\ log \in Seq(WorkerEvents)
    /\ attached \in BOOLEAN
    /\ next \in 0..Len(log)
    /\ statuses \in [Tasks -> WorkerEvents \cup {None}]
    /\ \/ poll = None
       \/ poll \in [upto : next..Len(log), todo : Seq(1..Len(log)),
                    previous : next..Len(log)]
    /\ channel \in {"up", "down"}
    /\ plan \in [Tasks -> SUBSET Tasks] \cup {None}
    /\ calls \in Nat
    /\ handled \in Seq(HubRequest)

\* The task of the event at position p shows that event or a later one of the log.
ShownSince(p) ==
    LET t == log[p].task
    IN \E q \in p..Len(log) : log[q].task = t /\ statuses[t] = log[q]

\* Every event the cursor has passed is in the view or was replaced by a later
\* one of its task, whatever polls failed half way, were repeated, or answered
\* out of order.  In particular a view at the end of the log shows the last event
\* of every task.
ViewNotBehindCursor == \A p \in 1..next : ShownSince(p)

\* No two tasks are shown as holding the same worktree, unless one of them has
\* failed or was cancelled, after any order of attempts, late events and repeats.
LeasesExclusive ==
    \A t, u \in Tasks :
        /\ t # u
        /\ statuses[t] # None /\ statuses[u] # None
        /\ statuses[t].lease # None
        /\ statuses[t].lease = statuses[u].lease
        => \/ statuses[t].state \in {"Cancelled", "Failed"}
           \/ statuses[u].state \in {"Cancelled", "Failed"}

\* A delivery is requested only for an attempt and a fence that the durable log
\* says were done, however stale the view is by then.
DeliveriesWereDone ==
    \A n \in DOMAIN handled : handled[n].method = "deliver" =>
        \E p \in 1..Len(log) :
            /\ log[p].task = handled[n].task /\ log[p].state = "Done" /\ log[p].valid
            /\ log[p].attempt = handled[n].attempt /\ log[p].fence = handled[n].fence

\* The Hub gets a delegation, cancellation or delivery at most once for each call,
\* also when the connection breaks and is replaced in the middle of it.
MutationsNotRepeated == Len(handled) <= calls

\* The tasks have an order in which each one comes after those it depends on.
Schedulable(dependencies) ==
    \E rank \in [Tasks -> 1..Cardinality(Tasks)] :
        \A t \in Tasks : \A d \in dependencies[t] : rank[d] < rank[t]

\* A plan that delegate() sent to the Hub can be scheduled.
PlanIsSchedulable == plan # None => Schedulable(plan)

\* The view of a task changes to no older attempt or fence, and leaves Done, Failed
\* or Cancelled only for a newer one.
MovesOn(before, after) ==
    before # None /\ after # None =>
        /\ ~LostFence(after, before)
        /\ SameFence(after, before) /\ before.state \in {"Done", "Failed", "Cancelled"}
            => after.state = before.state

\* In one view no task goes back to an older attempt or fence or out of a final state
\* of its attempt, although failed polls replay events that were already applied.
NoComeback == [][\A t \in Tasks : MovesOn(statuses[t], statuses'[t])]_workersVars
==============================================================================
