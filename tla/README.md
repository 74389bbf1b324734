# TLA+ verification of simplicio-code

`simplicio-code` is a terminal coding agent.  The agent loop, the runtime and
the hosts it drives are separate processes; what this repository owns is the
*Code side* of their protocols: registries, coordinators, transports and
breakers that have to stay correct while hosts restart, connections break and
answers come late.  This directory models that core, checks it with TLC and
proves part of it with TLAPS.

- [Inventory](#inventory)
- [Modules and their code](#modules-and-their-code)
- [Runs](#runs)
- [Fairness](#fairness)
- [Proofs](#proofs)
- [Findings and observations](#findings-and-observations)
- [Plan](#plan)
- [Not modelled](#not-modelled)

Paths below are relative to `src/`.  `SR` is
`crates/codegen/simplicio-runtime-client/src/session_registry.rs`, `LT` the
transport `.../loop_hub_transport.rs`, `AW` the worker runs
`.../agent_workers.rs` and `RL` the Runtime client `.../lib.rs` of the same crate,
`AC` `crates/codegen/simplicio-agent-client/src/lib.rs`, `OI` the inbox
`.../operational_inbox.rs` next to it, `CB`
`crates/common/xai-circuit-breaker/src/breaker.rs`, and `HS`
`crates/common/xai-computer-hub-sdk/src/`.

## Inventory

| component | state | operations | talks to | what is hard |
|---|---|---|---|---|
| Session registry (SR) | map session id -> record (status, clients, host incarnation, cursor, response sequence, emitted notifications), last saved snapshot | create, attach, detach, pause, resume, cancel, close, apply_status, reconnect, apply_replay, snapshot, restore | surfaces (TUI, ACP, desktop), the host's event log, a persistence adapter | responses late, repeated, out of order or of an earlier incarnation; stale discoveries; rollback on restart |
| Circuit breaker (CB, `window.rs`) | five atomics and a mutex-protected window | check, record, error_rate, is_open | every HTTP client thread | lock-free interleavings, dropped requests, a wrapping counter, unordered samples |
| AgentHost coordinator (AC) | coordinator state, active turn, advisory cursor, cached capabilities | ensure_ready, start_turn, cancel_turn, reconnect, replay | one AgentHost process over a socket | timeouts while the host works, lost answers, host restarts |
| Loop Hub transport and jobs (LT, `loop_hub.rs`) | connection, handshake, cursors under one mutex; a cursor per job | connect, rpc (submit, progress, cancel, resume, process_*), reconnect_locked, HubJob poll/cancel/resume | the Loop Hub, all clones of the client | broken connections at every point of an exchange; effects that must not be repeated; a mutex that is taken twice |
| External worker runs (AW) | per task: state, attempt, fence, lease; next sequence; the connection | delegate, attach, poll, cancel, deliver | the Loop Hub's durable log, worktrees | an answer applied event by event and refused half way; superseded attempts and fences; a view behind the log |
| Workspace observations and advisories (AC) | bounded history, cursor, generation, truncation mark | observe, apply page | AgentHost | pages kept, repeated, out of order; a host that forgets |
| Operational inbox (OI) | attention items, decisions, seen events | apply (attention, authorization, receipt), record_intent, confirm, take_dispatch | surfaces, the human authority, the Runtime gate | events in any order and any number of times; an authorization used after it went stale |
| Shared Runtime client (RL) | weak table, handles, a client in a mutex, a child process with its pipes | connect_in, with_client, invalidate, spawn_in, request_with_timeout, drop | the Runtime child, its watchdog thread | watchdog against a late answer; requests without ids compared; who kills which child |
| Project map cache (`map_cache.rs`) | files per repository | put, load, migrate_legacy, invalidate_repo | file system | crash between two writes |
| Code gateway, account client, native agent | authorization and quotas; idempotency keys; stdio host | - | HTTP, billing webhooks | redelivery |
| Computer hub SDK (HS) | session routes, inboxes, cancel registries, semaphores, loops and call tasks | bind, unbind, route, dispatch, cancel, admit, finish | the hub, tool handlers | several threads; a loop that exits while its successor is installed; Cancel before its request |
| Interjections, chat state, agent shell | buffers, conversation, sessions, leader and auth locks | - | the user, the model API | very large, mostly I/O |
| TUI, markdown, telemetry, releases, routing, fast surfaces | display state, pure validation | - | - | no protocol |

What makes each correct:

- *Session registry*: every session consumes its host's event log as a
  contiguous stream, whatever the wire does; it catches up; snapshots can be
  read back; nothing that needs attention is silent; terminal stays terminal.
- *Circuit breaker*: the failure counter is that of the window; it is never
  stranded.  It should never half-open early nor admit too many probes, and its
  mirror should agree with the state; with two threads the code keeps none of
  these three (see the findings).
- *Coordinator*: turns are serialized at the host; a reported end is an end; an
  unresolved turn is not reported as reconciled and does not block for ever.
- *Loop Hub transport*: effects happen at most once, and none on a channel whose
  handshake and attach are still to come; the mutex is always released; a broken
  connection is repaired, and a re-attachment names a cursor that loses and invents
  nothing.  A channel that the hub refused to attach should not be used; the code
  uses it (see the findings).
- *External workers*: the cursor passes no event the view does not show; no task
  comes back; no worktree has two owners; a mutation is requested once, and a
  delivery only of what was done; a delegated plan can be scheduled.
- *Workspace views*: a history without a truncation mark is the whole stream; one
  with it is in order; a surface that keeps asking catches up.
- *Inbox*: one request at most for an intent, after its approval and, where the
  risk asks for it, its confirmation; a receipt settles the attention it is for.
- *Runtime client*: one child serves a workspace and none is left behind; an
  answer is that of its request; the watchdog kills its own child or none, and
  ends every handshake, if its kill works.
- *Hub session*: no call escapes a teardown or a Cancel; what a session's maps
  hold is its live loop's; a cancelled call ends.

`PROJECT.json` lists the components with their files, and the hazards, each at
the line where it bites.

## Modules and their code

**SessionRegistry** - one action per public `&mut self` operation of SR; the
disjuncts of an action are its early returns in the order the code tests them.
`Transition` is `fn transition` with the early `Ok` of cancel and close,
`Degrade` is `fn degrade`.  `reply` is the operation that ran last and its
result.  `Snapshot` is what the persistence adapter keeps; `Restore` is a
process restart, with the validation of `restore` in `RestoreAccepts`.  Records
leave out what no operation branches on: kind, title, workspace and the other
display fields.  Ids are strings of which `ValidIds` passes `validate_id`.

**ReplayStream** - the abstract specification: a position per session in the
log of one incarnation, with `Open`, `Advance` by at most a page, `Rebind` at
zero, `Checkpoint` and `Rollback`.  `SessionRegistry!ImplementsStream` is the
refinement (host and cursor of each record; host and cursor of each saved one).

**SessionReplay** - the registry composed with its surroundings (external,
modelled from the arguments of reconnect and apply_replay): a host that appends
and restarts, surfaces that discover the host and use what they read later, a
wire that keeps every response for ever, so that each can be delivered late,
again, or never.

**CircuitBreaker** - one action per atomic access or locked section of `check`,
`check_open`, `try_half_open_probe`, `record`, `trip`, `close`; `pc` names the
access that comes next and `loc` the local variables that live across it.
`SlidingWindow::push` and `evict` are `PushAndEvict`, with the incremental
counter kept apart from the entries.  The probe counter wraps at `UsizeMod`.
Requests are only counted; `Abandon` drops one without a record.
**BreakerHistory** adds the time of the last trip and the clock readings of the
probes admitted so far, in their order, for `ProbeLimitKept` and `CoolDownKept`.

**AgentHostCoordinator** - the methods block on one request and take
`&mut self`, so they are atomic, except `start_turn`, which is split at the
blocking read (`StartTurn`, then `TurnReturns` or `TurnFails`).  The host is
external: it refuses requests that name another incarnation, runs a turn id at
most once per incarnation and forgets its turns when it restarts.  `overtaken`
records the turns whose cancellation was answered `not_found` while their start
was still on its way; the coordinator forgets such a turn by design and shows
EffectUnknown.

**LoopHubTransport** - a call holds the mutex from its first write to its last
read, reconnection included, so it is modelled from the moment it has the
mutex, one action per exchange; `Store` is the second `lock()` of `progress`,
followed by the job taking the cursor over.  `ReplaySafe` is the argument of
`rpc`.  The hub (external) serves, rejects, answers garbage, or breaks the
connection before or after serving, and may refuse any re-handshake or re-attach.
`conn` is the channel in use: up or broken, attached by its own handshake and
attach, or refused.  `AttachmentFails` is what a failing handshake or attach leaves
behind: a broken channel, or one that is up and refused, since `reconnect_locked`
puts it in place before it validates anything; only a broken channel is replaced.
`cursors` is what a re-attachment would name, in every state another caller may
trigger one; jobs that share a workflow may set its cursor back, and
`AttachCursorsSound` leaves them out.

**OperationalInbox** - each call of the reducer takes `&mut self`, so it is one
action: `ApplyAttention`, `ApplyAuthorization`, `ApplyReceipt` and `ApplyAgain`
(the variants of `apply`, and an event id it has seen), `record_intent`, `confirm`,
`take_dispatch`.  A refused call changes
nothing, hence stutters.  `sent` is a history of the requests handed out, each
with the item as it was.  **DispatchGate** is the abstract specification: a
verdict per intent and the requests in order; `ImplementsGate` is the refinement.

**ExternalWorkers** - a run over its socket transport.  `BeginPoll` gets an
answer of the Hub (external: events after the cursor, repeated or reordered),
`ApplyEvent` / `RefuseEvent` are the iterations of `poll`'s loop and `EndPoll`
moves the cursor; between them the Hub logs on and the process may restart.
Delegate, cancel and deliver are one exchange each, with every outcome of a
broken connection.  `plan` is the dependency graph of a delegation; `NoCycle` is
the recursion of `detect_cycle`, without the set of finished tasks that saves it
visits.

**WorkspaceViews** - `apply_page` of the observation state (the advisory state
applies pages in the same way) with a host that logs, forgets and may answer with
any page, and a surface that keeps a page as long as it likes.

**HubSession** - one session of a tool server, one action per access to shared
state of its concurrent tasks: the reader (`demux.rs`), bind and unbind, the
session loop and its tail (`server.rs`), `register` / `cancel` / `deregister` /
`cancel_all` (`cancel.rs`), admission (`admission.rs`) and the call tasks.  Every
full bind makes a new *generation* of inbox, registry and loop; the maps keyed by
session hold the generation they refer to.  The hub, the handlers and the callers
of bind are external.

**RuntimeClients** - `SharedRuntimeClient` and the `RuntimeClient` in its mutex:
`ConnectIn` and `DropHandle` are the table of weak references, `SpawnIn`, `Reuse`
and `Invalidate` take the mutex, `Operate`, `Send`, `ReadLine`, `ReadEof` are
`request`, `HandshakeStep` and `HandshakeFails` the two requests of `spawn_in`,
`Return` and `DropClient` the ends of a call.  The watcher thread of
`request_with_timeout` looks, decides and kills in separate steps; the kill runs a
system command whose failure is ignored, which leaves the child `spared`, that is,
running as before.  `Drop`'s own kill and wait are taken to work.  A process id
is free again once its child is reaped.  The Runtime (external) answers in order,
prints other lines, or exits, at any time.

**MCInProcess** (SessionRegistry, CircuitBreaker), **MCToolCalls** (RuntimeClients,
HubSession) and **MCClientViews** (AgentHostCoordinator, OperationalInbox,
ExternalWorkers, WorkspaceViews) put components side by side that share no state: a
behaviour is one of a single component while the others stay as they began, and the
run explores the sum of the state spaces.  A component that stays as it began has no
step that fairness asks for, so its fairness excludes no behaviour of the others;
the breaker's clock, which would, is fair only where the behaviour is the breaker's.

The definitions commented `Fault:` are not part of a specification: each is a
plausible mistake in the definition it precedes, and shows that a property is
sensitive to it.

## Runs

Each run is a `.cfg`; the constants are small sets and the bounds are named
constants in guards.

| run | shows | bounds, and why they suffice |
|---|---|---|
| `in_process` | registry: `ReplayPositionSound`, `AttentionAnnounced`, `ResponsesApplyInOrder`; breaker, two threads: types (the counter stays in its width), `WindowSound`, `Recovers` | one session (operations touch one record; the proofs cover any number), two hosts and an invalid id, two clients for one place, cursors and sequences 0..2 with pages of 1, so that each is below, at and above its limit; all interleavings of two threads at atomic granularity, through trip, half-open, lease and close, with a window of two so that it drops its oldest sample |
| `session_restart` | `SnapshotRestorable` and the refinement of `ReplayStream`, with snapshots and restarts | two sessions for one place and two clients for one place, so that a rejected create or attach and a snapshot of a full registry happen; an invalid client and host id and a replay limit of 0; snapshot and restore at any time. States that differ only in `reply` are identified (`VIEW`): no operation reads it and neither property does |
| `session_replay` | `TakenIsPrefix`; `CatchesUp` | two incarnations, two events each, two surfaces: a surface can be stale while the other moves the cursor or the host restarts |
| `breaker_probes` (violation) | two probes admitted at once | two threads, one slot, a cool-down of 2 and a clock that reaches it |
| `runtime_handshake` (violation) | a handshake that never ends after a failed kill | two surfaces, two process ids, three request ids and one unread line |
| `coordinator_ready` (violation) | Ready while a turn runs | two turns, two incarnations |
| `loop_hub` | `EffectAtMostOnce`, `EffectsRunAttached`, `AttachCursorsSound`, `LockReleased`, `Reattaches` | two callers, two workflows, two breaks: the second one hits the reconnection of the first, or comes after the hub refused it |
| `loop_hub_mismatch` (violation) | an effect on a channel whose handshake was refused | as `loop_hub` |
| `client_views` | coordinator: `TurnsSerialized`, `SettledIsSettled`, `TurnsGetResolved`; inbox: `ReceiptsSettleTheirItem`, `RequestsAreAuthorized`, refinement of `DispatchGate`; workers: `ViewNotBehindCursor`, `LeasesExclusive`, `DeliveriesWereDone`, `MutationsNotRepeated`, `PlanIsSchedulable`, `NoComeback`; observations: `HistorySound`, `ViewCatchesUp` | coordinator: two turns, two profiles, three incarnations, two advisories with pages of one; inbox: one session, two targets, two intents, two risks (one needs confirmation), five events: an attention, its authorization, a newer attention and what is late; workers: two tasks for one worktree, seven events (two attempts, two fences, a refused one), a log of three and answers of two; views: three events, pages and history of two, so that the history overflows |
| `inbox_stale` (violation) | the request of a superseded decision is handed out | the inbox of `client_views` |
| `tool_calls` | Runtime child: `AnswersAreOwn`, `KillsOwnChild`, `OneRuntime`, `HandshakesEndUnlessKillFails`; hub session: types, `NoOrphans`, `CancelReaches`, `RegistryOfLiveLoop`, `CancelledCallsEnd` | two surfaces, two sessions, two process ids, so that an id is used again, four request ids (the handshake's two and two operations) and two unread lines; one call and the Cancel of one that is over, two generations, inbox and tombstones of one: a rebind while the first loop exits, a full inbox, an evicted tombstone |
| `hub_semaphore` (violation) | an exiting loop removes its successor's semaphore | the hub of `tool_calls` |

The type invariants (which also say who holds a mutex) are theorems; the runs
repeat those of `CircuitBreaker`, `WorkspaceViews` (a part of `HistorySound`) and
`HubSession`.  The inductive invariants of the proofs were checked by TLC on the
runs' instances before they were proved.

The proofs cover any number of sessions, surfaces, callers, threads, calls and
tasks.  A larger
instance that takes too long to be a run, three surfaces for the Runtime child,
was explored to 1.5 million states without an error.

Symmetry is not used: most runs check liveness or refinement, where it would be
unsound or buys little.

Deadlock is checked in every run; no system here stops: a registry or
coordinator always accepts another call, and threads keep calling the breaker.

## Fairness

- `session_replay`: surfaces keep reconnecting, the running host answers, and
  the response that continues the cursor is not withheld for ever.  Appends and
  restarts get no fairness.  SR has no timer of its own; its callers reconnect
  on every discovery, and without them nothing in SR makes progress.
- `in_process`, breaker: a thread finishes the operation it began (the code has no
  loop and no wait besides the window's mutex), each request ends by a record or by
  being dropped, the clock advances; that callers keep asking is the hypothesis of
  `Recovers`.  The clock is bounded, so `Recovers` excludes a cool-down or lease that
  ends beyond the bound.
- `client_views`, coordinator: the blocking read ends by its timeout at the latest; the host
  takes up and ends the turns it got; a caller that sees an unresolved turn
  keeps reconnecting and cancelling, and not every exchange is lost (strong
  fairness).  The last is an assumption on callers: nothing in AC retries.
- `loop_hub`: the client is connected and used; a call goes on; a free mutex is
  taken by some caller that waits for it; the hub answers what reaches it; and
  it is not unreachable for ever (strong fairness of `Reconnect`).  The code
  reads without a timeout (LT), so `LockReleased` depends on the hub answering
  or the connection breaking.
- `client_views`, observations: a surface that keeps asking gets the host's honest page again
  and again and applies a page that advances (strong fairness of both); the host
  need not log or forget anything.  Inbox and workers are checked for safety
  only: nothing in them acts by itself.
- `tool_calls`, hub session: the tasks of the executor run (weak fairness of a bind or unbind
  that began, of the reader, the loops and the call tasks, the deadline of an
  admission included).  Handlers, the hub and callers need not do anything.
- `tool_calls`, Runtime child: threads are scheduled and the deadline passes (weak
  fairness of a surface inside a call and of the watcher).  The Runtime need not
  answer, and each kill may fail: `HandshakesEndUnlessKillFails` excepts a handshake
  whose child has survived one, `runtime_handshake` does not.

## Proofs

TLAPS checks, for every value of the constants (so also without the bounds of
the runs):

- `SessionRegistryProofs`: `TypeCorrect`, `SnapshotsRestore`, `PositionsSound`,
  `AttentionIsAnnounced`, `RepliesApplyInOrder`, and `RefinesStream`, that the
  registry implements `ReplayStream`.  The inductive invariant says of the live
  registry and of the saved snapshot alike that every record is well-formed,
  consistent and announced and that the limits hold: a restore makes the saved
  records live, so nothing about the live ones is inductive without the same
  fact about the saved ones; and `SnapshotRestorable` needs the live registry to
  be within its limits, because the next snapshot is a copy of it.  The
  capacity steps use the finite-set theorems on adding and removing one element.
  `TakesPrefixOfLog` is about the composition `SessionReplay`: `WireLogged` (a
  response on the wire carries events, and only events that its host has logged)
  makes `TakenIsPrefix` inductive, and the wire must be finite, because the host
  numbers its responses by counting them.
- `CircuitBreakerProofs`: for any number of threads `BreakerTypeCorrect` and
  `BreakerWindowSound`.  The window's counter is maintained by adding and
  subtracting one; that it is the number of failed entries rests on lemmas about
  the cardinality of the failed indices under Append, Tail and SubSeq (what
  `evict` removes is a prefix; its length is the least index that is kept, which
  exists because the naturals are well-founded).
- `AgentHostCoordinatorProofs`: `TypeCorrect`, `SerializesTurns`,
  `SettlesTurns`.  `TurnsSerialized` is not inductive: a second turn could start
  while a forgotten one is on its way.  `UnderwayIsActive` (a turn that is on
  its way or running is the active one) and `SettledIsReleased` make it so.
- `LoopHubTransportProofs`: `TypeCorrect`, `EffectsAtMostOnce`, and
  `EffectsAttached`.  The strengthening ties
  what the wire carries to the call that holds the mutex (`WireInUse`), gives
  every progress call a job (`PollHasJob`), and counts how often a call can
  have been served at each label of its way (`EffectsCounted`); for attachment,
  `AttachInv` says that a channel that is up is attached or refused unless a
  reconnection is between its connect and its attach.
- `LoopHubTransportProofs` also has `AttachCursors`, from `CursorInv`: a snapshot
  that `progress` has read and not stored yet is of the job's workflow, within its
  events and not behind the job, whoever has the mutex between its two locks.
- `OperationalInboxProofs`: `InboxTypeCorrect`, `ReceiptsSettle`,
  `RequestsAuthorized`, and `InboxImplementsGate`, that the inbox implements
  `DispatchGate`.  The invariant ties items, decisions and requests together: an
  item's intent has a decision of its session, a request that was handed out is
  remembered by its decision, and a decision dispatched while its item shows it
  was dispatched for that very attention.
- `ExternalWorkersProofs`: `WorkersTypeCorrect`, `CursorLosesNothing`,
  `WorktreesExclusive`, `DeliveriesDone`, `CallsNotRepeated`, `TasksMoveOn`.
  `ViewNotBehindCursor` says nothing of a poll half way; `PollCovers` (what lies
  between the cursor and the end of the answer is still to be applied or is
  shown) makes it inductive, and `StatusesLogged` ties the view to the log.
  `PlansSchedulable` rests on `CycleCheckExact`: the search accepts a dependency
  graph exactly if its tasks can be ranked.  The recursive function is shown to
  exist as the largest solution of its equation (no induction is needed for that);
  of any set of accepted tasks one depends on none of the others, because
  otherwise what is being visited grows without end in a finite set, and the rank
  is built from such first tasks by a smallest counterexample.  Conversely, in a
  ranked graph a task of lowest rank that is refused would depend on a lower one.
  The module also has `WorkspaceHistorySound`, of `WorkspaceViews`: of a page kept
  for later it is enough that its events were logged (`PageLogged`), since
  `apply_page` checks the rest against the view as it then is.  The order between
  neighbours is carried to all pairs, and "one more than the one before" to the
  position in the stream, again by a smallest counterexample.
- `HubSessionProofs`: `HubTypeCorrect`, `HubNoOrphans`, `HubCancelReaches`,
  `HubRegistryOfLiveLoop`, for any number of calls and binds.  `NoOrphans` follows
  from `TokenReachable` (a call in flight whose token is not cancelled is in the map
  of a generation that is not drained, and a call about to recheck the closed flag
  is in the map already), which is inductive because a registry is closed before it
  is drained (`ClosedFirst`) and a loop registers one call at a time (`OneTaken`,
  `RequestsOnce`).  `CancelReaches` needs `CancelKept`: a Cancel that was handled
  has cancelled the token, or its tombstone waits for the call, or the registry was
  drained.  `RegistryOfLiveLoop` says nothing while a bind or unbind is under way;
  `OpFits` and `RegistryFits` say at each of its steps what it has replaced.
- `RuntimeClientsProofs`: `RuntimeTypeCorrect`, `AnswersOwn`, `KillsOwn`,
  `OneRuntimeServes`.  The invariant has two halves.  `Ownership`: all handles are
  on the registered session, a busy surface has a child that is not reaped and is
  nobody else's, a slot is filled only for a session with a handle, and a child
  being dropped is in no slot.  `Exchange`: by what a call is doing, its pipes are
  quiet or hold the answer to its own request and no other, and a watcher runs
  only for the child of its handshake.  `OneRuntime` follows from the first half,
  `AnswersAreOwn` and `KillsOwnChild` from the second with the first: that an
  answer is one's own depends on who may have written to the child before.

The assumptions are the named `ASSUME`s of the modules, which TLC evaluates in
the runs: limits are positive naturals, sets of times and cursors contain
naturals, the sets of ids are finite, a workflow has finitely many tasks, and the
values that stand for nothing (`None`, `NoTurn`, `Nothing`, `Absent`) are none of the ids and,
in `HubSession`, no bind or unbind.

Every safety property of a passing run is a theorem, for all values of the
constants.  Only model-checked: all liveness (`CatchesUp`, `Recovers`,
`TurnsGetResolved`, `LockReleased`, `Reattaches`, `ViewCatchesUp`,
`CancelledCallsEnd`, `HandshakesEndUnlessKillFails`), which needs fairness and
ENABLED; and the six violations, which are counterexamples.

## Findings and observations

The six violation runs are disagreements between the code and what a test, a
comment or a document of the repository says; `PROJECT.json` quotes both sides.

1. `coordinator_ready`: a failed refresh replaces EffectUnknown by
   Disconnected, and the next successful one by Ready, with the turn running.
2. `inbox_stale`: confirm and take_dispatch do not compare the item's intent with
   the one they are given, so a newer attention does not invalidate the older
   authorization.
3. `hub_semaphore`: the exit of a session loop removes the admission entry by
   session id, also when it is that of the next bind.
4. `breaker_probes`: trip zeroes the probe counter after it has published Open; a
   probe admitted in between is forgotten, and another one is admitted.
5. `loop_hub_mismatch`: a refused re-handshake or re-attach leaves the new channel in
   place, and the next caller's effects go through it.
6. `runtime_handshake`: the watchdog's kill is what ends a read that hangs; when it
   fails, no timeout is reported, and the mutex stays taken.

Two more races of the breaker have a property that fails in the instance of
`BreakerProbes.cfg` (name the property there in place of `ProbeLimitKept`):

- `CoolDownKept`: trip publishes Open before `opened_at` (CB:249-254); a thread that
  reads the old `opened_at` (CB:204) finds the cool-down over at once.
- `MirrorAgrees`: the last store of a trip (CB:257) comes after another thread's step
  to HalfOpen, and `is_open()` answers true until the next transition.

Met while modelling, without a run:

- Registry: apply_replay refuses a range whose end is before its start without
  degrading the session (SR:538), unlike every other rejection
  (`docs/SESSION_REGISTRY.md:25-26`).  reconnect compares incarnation ids only
  for equality (SR:465), so a surface with a stale discovery binds the session
  back to an incarnation it has left, and its events are taken again from zero.
  apply_status(Closed) keeps the attached clients; close drops them.  A closed
  session is revived: `degrade` (SR:589) overwrites any status, Closed included, and
  attach accepts Degraded.
- Breaker: `ProbeLimitKept` has a second way to fail, also from a trip that is
  complete: a slot is taken (CB:279) before its claim time is stored (CB:281), and a
  thread that comes in between sees the claim of before and takes the slot over as
  abandoned.  The comment that the probe counter "is already 0" on entering HalfOpen
  (CB:211) does not hold either when a thread that saw the previous HalfOpen
  increments it late; `Recovers` shows that this strands nobody.
- Coordinator: ensure_ready adopts a new incarnation and keeps the advisory
  cursor of the old one (AC:936); reconnect resets it.  ensure_ready compares the
  announced profile with the cached capabilities, which the refusal has just
  replaced (AC:976): a second call accepts the other profile.  A blank message
  makes start_turn fail after the turn became active, with nothing sent.
- Loop Hub: progress stores its cursor after releasing the mutex (LT:453), so a
  re-attachment in between carries the cursor before it; resume resets the job's
  cursor, not the transport's, which may then be ahead of the job.  Answers are
  read without a timeout (LT:207).  The session keeps the handshake of the first
  hub after a reconnection.
- Inbox: confirm after the receipt was applied puts the item back to an earlier
  status.  A dispatch after a newer attention of lower risk needs no confirmation
  where the decision's own attention would have asked for one.
- Workers: after a refused event the cursor stays, and every later poll replays
  the events before it; the view may then go from Working back to Blocked of the
  same fence, and stays behind until the run is attached anew.  An event the Hub
  leaves out cannot be told.  A Done task keeps its lease.
- Workspace views: the state carries no host incarnation, so a host that starts
  numbering again is taken for one that sends repeats; that is sound only for a
  log that is durable per workspace, which `WorkspaceViews` assumes.
- Hub SDK: route_session evicts the inbox of a session after a send to a closed
  receiver, also if a bind has replaced it (`demux.rs:413`); the live loop then
  ends at EOF.  A second request with the id of a running call deregisters the
  first one's token (`server.rs:2165`).  Admission is awaited outside the select
  on the token (`server.rs:2080`).  A Cancel whose tombstone was evicted is lost.
  A loop that is aborted elsewhere than at its await still runs its tail.
- Runtime client: the watchdog may kill the child after the answer arrived; the
  call returns Ok with a dead child, which the next operation replaces.  Dropping
  the last handle fails the weak reference before the child is killed, so an old
  and a new child overlap for a moment.  Any error of an operation, also a refusal
  that never reached the child, discards a healthy child.  Tool requests have no
  timeout.  A panic inside an operation poisons the mutex for good.

## Plan

Done, in this order: SessionRegistry with ReplayStream and SessionReplay (the
largest state machine the repository owns), CircuitBreaker (its most concurrent
code), AgentHostCoordinator, LoopHubTransport; then OperationalInbox with
DispatchGate, ExternalWorkers, WorkspaceViews, HubSession, RuntimeClients; then the
proofs, now of the safety properties of all nine.

Next, modelling:

1. *MapCache* (`map_cache.rs`) with crashes between its file writes.
2. *AccountIdempotency* with redelivered webhooks; the gateway's quotas.
3. The rest of the hub SDK: the connection with its reconnection, the response
   and progress waiters of the demux, the pool's reference counts, shutdown; the
   harness composed with `HubSession`.
4. The native agent as the counterpart of the coordinator, in place of the
   external host of `AgentHostCoordinator`.

Next, proving:

1. What the breaker still guarantees with several threads: a bound on the probes
   of a lease by the number of threads that can be between a slot and its claim
   time.
2. An abstract specification of the hub session (a set of calls, each ended or
   cancelled when its bind ends) and the refinement.
3. An abstract specification of the Runtime table (at most one server per
   workspace, requests answered in order) implemented by `RuntimeClients`.

## Not modelled

- Weak memory: the breaker's interleavings are sequentially consistent, although
  some of its accesses are ordered more weakly.
- A disabled breaker, the `force_half_open` test hook, observer callbacks, and
  poisoned locks.
- Field-by-field validation of receipts and answers: an answer is accepted,
  rejected or invalid.
- The process-wide table `HUB_SESSIONS` and endpoint discovery.
- Of the inbox, the summaries, the evidence and the order in which items are
  listed; of a worker's event, the receipt and the lease beyond their validity and
  worktree; of a Runtime request, its tool, arguments and result; the
  fire-and-forget spawn of `start_workspace_map`.
- Components marked `not_modelled` in `PROJECT.json`, with the reason there:
  rendering and telemetry have no protocol, validators are pure functions over
  large records, and the rest is on the plan above.
