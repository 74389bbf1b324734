---------------------------- MODULE CircuitBreaker ----------------------------
(***************************************************************************)
(* The shared HTTP circuit breaker (crates/common/xai-circuit-breaker).    *)
(* Its fields are separate atomics next to a mutex-protected window, so    *)
(* check() and record() are modelled as one action per atomic access, per  *)
(* thread; pc names the access that comes next.  Interleavings are         *)
(* sequentially consistent.  Only an enabled breaker is modelled.          *)
(***************************************************************************)
EXTENDS Integers, Sequences, FiniteSetsExt

CONSTANTS
    Threads,            \* threads that call the breaker
    OpenDuration,       \* open_duration, also the lease of a probe
    WindowDuration,     \* window_duration
    MinSamples,         \* min_samples
    RateNum, RateDen,   \* error_rate_threshold = RateNum / RateDen
    MaxProbes,          \* half_open_max_probes after with_clock clamped it
    MaxWindowEntries,   \* MAX_WINDOW_ENTRIES
    UsizeMod,           \* 2^w of the usize probe counter
    MaxTime,            \* bound: the clock stops here
    MaxRequests         \* bound: no check starts with this many in flight

ASSUME BreakerAssumption ==
    /\ OpenDuration \in Nat \ {0} /\ WindowDuration \in Nat
    /\ MinSamples \in Nat \ {0} /\ MaxProbes \in Nat \ {0}
    /\ RateNum \in Nat /\ RateDen \in Nat \ {0}
    /\ MaxWindowEntries \in Nat \ {0} /\ UsizeMod \in Nat /\ UsizeMod > MaxProbes
    /\ MaxTime \in Nat /\ MaxRequests \in Nat \ {0}

VARIABLES
    state,      \* AtomicU8
    openedAt,   \* opened_at_millis
    probes,     \* half_open_probes
    claimedAt,  \* probe_claimed_at_millis
    fast,       \* is_open_fast
    entries,    \* SlidingWindow.entries
    failures,   \* SlidingWindow.failures
    clock,      \* the monotonic clock, from baseline
    requests,   \* admitted requests whose outcome is not yet recorded
    pc,         \* thread -> next access
    loc         \* thread -> its local variables

shared == <<state, openedAt, probes, claimedAt, fast, entries, failures>>
breakerVars == <<state, openedAt, probes, claimedAt, fast, entries, failures, clock,
          requests, pc, loc>>

States == {"Closed", "Open", "HalfOpen"}
Idle == [now |-> 0, seen |-> 0, failed |-> FALSE]

\* saturating_sub of two clock readings.
Elapsed(now, since) == IF now > since THEN now - since ELSE 0

Goto(t, label) == pc' = [pc EXCEPT ![t] = label]
Keep(t, field, value) == loc' = [loc EXCEPT ![t][field] = value]
Return(t) == Goto(t, "idle") /\ loc' = [loc EXCEPT ![t] = Idle]
Admit(t) == Goto(t, "admitted") /\ loc' = [loc EXCEPT ![t] = Idle]

------------------------------------------------------------------------------
(* check() *)

\* Where check() goes on, by the state it loads.
AfterLoad(s) == CASE s = "Closed" -> "admitted"
                  [] s = "Open" -> "open_load"
                  [] s = "HalfOpen" -> "probe_now"

Check(t) ==
    /\ pc[t] = "idle"
    /\ requests < MaxRequests
    /\ Goto(t, AfterLoad(state))
    /\ UNCHANGED <<shared, clock, requests, loc>>

OpenLoad(t) ==
    /\ pc[t] = "open_load"
    /\ Keep(t, "seen", openedAt)
    /\ Goto(t, "open_now")
    /\ UNCHANGED <<shared, clock, requests>>

\* elapsed >= open_duration.
CoolDownOver(since) == Elapsed(clock, since) >= OpenDuration

OpenNow(t) ==
    /\ pc[t] = "open_now"
    /\ \/ /\ CoolDownOver(loc[t].seen)
          /\ Goto(t, "open_cas") /\ UNCHANGED loc
       \/ /\ ~CoolDownOver(loc[t].seen)
          /\ Return(t)
    /\ UNCHANGED <<shared, clock, requests>>

OpenCas(t) ==
    /\ pc[t] = "open_cas"
    /\ \/ /\ state = "Open"
          /\ state' = "HalfOpen"
          /\ Goto(t, "open_fast")
       \/ /\ state # "Open"
          /\ Goto(t, "open_reload") /\ UNCHANGED state
    /\ UNCHANGED <<openedAt, probes, claimedAt, fast, entries, failures, clock,
                   requests, loc>>

OpenFast(t) ==
    /\ pc[t] = "open_fast"
    /\ fast' = FALSE
    /\ Goto(t, "probe_now")
    /\ UNCHANGED <<state, openedAt, probes, claimedAt, entries, failures, clock,
                   requests, loc>>

\* The lost compare-exchange: an Open state now means a rejection.
OpenReload(t) ==
    /\ pc[t] = "open_reload"
    /\ \/ /\ state = "Open"
          /\ Return(t)
       \/ /\ state # "Open"
          /\ Goto(t, AfterLoad(state)) /\ UNCHANGED loc
    /\ UNCHANGED <<shared, clock, requests>>

------------------------------------------------------------------------------
(* try_half_open_probe() *)

ProbeNow(t) ==
    /\ pc[t] = "probe_now"
    /\ Keep(t, "now", clock)
    /\ Goto(t, "probe_add")
    /\ UNCHANGED <<shared, clock, requests>>

\* prev < half_open_max_probes.
SlotFree(prev) == prev < MaxProbes

ProbeAdd(t) ==
    /\ pc[t] = "probe_add"
    /\ probes' = (probes + 1) % UsizeMod
    /\ Goto(t, IF SlotFree(probes) THEN "probe_claim" ELSE "probe_sub")
    /\ UNCHANGED <<state, openedAt, claimedAt, fast, entries, failures, clock,
                   requests, loc>>

ProbeClaim(t) ==
    /\ pc[t] = "probe_claim"
    /\ claimedAt' = loc[t].now
    /\ Admit(t)
    /\ UNCHANGED <<state, openedAt, probes, fast, entries, failures, clock,
                   requests>>

\* Fault: the subtraction is taken for one that cannot wrap.
ProbeSubUnwrapped(t) ==
    /\ pc[t] = "probe_sub"
    /\ probes' = probes - 1
    /\ Goto(t, "lease_load")
    /\ UNCHANGED <<state, openedAt, claimedAt, fast, entries, failures, clock,
                   requests, loc>>
ProbeSub(t) ==
    /\ pc[t] = "probe_sub"
    /\ probes' = (probes + UsizeMod - 1) % UsizeMod
    /\ Goto(t, "lease_load")
    /\ UNCHANGED <<state, openedAt, claimedAt, fast, entries, failures, clock,
                   requests, loc>>

\* Fault: an abandoned claim is never reclaimed.
LeaseNeverOver(now, claimed) == FALSE
\* The claim is old enough to count as abandoned.
LeaseOver(now, claimed) == Elapsed(now, claimed) >= OpenDuration

LeaseLoad(t) ==
    /\ pc[t] = "lease_load"
    /\ \/ /\ LeaseOver(loc[t].now, claimedAt)
          /\ Keep(t, "seen", claimedAt)
          /\ Goto(t, "lease_cas")
       \/ /\ ~LeaseOver(loc[t].now, claimedAt)
          /\ Return(t)
    /\ UNCHANGED <<shared, clock, requests>>

LeaseCas(t) ==
    /\ pc[t] = "lease_cas"
    /\ \/ /\ claimedAt = loc[t].seen
          /\ claimedAt' = loc[t].now
          /\ Admit(t)
       \/ /\ claimedAt # loc[t].seen
          /\ Return(t)
          /\ UNCHANGED claimedAt
    /\ UNCHANGED <<state, openedAt, probes, fast, entries, failures, clock,
                   requests>>

\* check() returns Ok and the caller sends its request.
Send(t) ==
    /\ pc[t] = "admitted"
    /\ requests' = requests + 1
    /\ Return(t)
    /\ UNCHANGED <<shared, clock>>

------------------------------------------------------------------------------
(* record() *)

\* A request ends; the thread that runs it calls record and reads the clock.
Record(t, failed) ==
    /\ pc[t] = "idle"
    /\ requests > 0
    /\ requests' = requests - 1
    /\ loc' = [loc EXCEPT ![t] = [now |-> clock, seen |-> 0, failed |-> failed]]
    /\ Goto(t, "record_load")
    /\ UNCHANGED <<shared, clock>>

\* The future of a request is dropped: its outcome is never recorded.
Abandon ==
    /\ requests > 0
    /\ requests' = requests - 1
    /\ UNCHANGED <<shared, clock, pc, loc>>

RecordLoad(t) ==
    /\ pc[t] = "record_load"
    /\ Goto(t, CASE state = "Closed" -> "push_closed"
                 [] state = "Open" -> "push_open"
                 [] state = "HalfOpen" ->
                      IF loc[t].failed THEN "trip_state" ELSE "close_state")
    /\ UNCHANGED <<shared, clock, requests, loc>>

Failed(w) == Cardinality({i \in DOMAIN w : w[i].failed})
Dropped(w, n) == SubSeq(w, 1, n)

\* fn push, without the counter: a full window loses its oldest entry.
Pushed(w, e) == Append(IF Len(w) >= MaxWindowEntries THEN Tail(w) ELSE w, e)

\* fn evict: how many entries at the front are older than the window.
Expired(w, now) ==
    LET kept == {i \in DOMAIN w : w[i].at + WindowDuration >= now}
    IN IF kept = {} THEN Len(w) ELSE Min(kept) - 1

\* Fault: the entry that a full window loses stays counted.
FailuresPushedOnly(w, n, failed) == n + (IF failed THEN 1 ELSE 0)
\* The incremental failure counter after push.
FailuresPushed(w, n, failed) ==
    n - (IF Len(w) >= MaxWindowEntries THEN Failed(Dropped(w, 1)) ELSE 0)
      + (IF failed THEN 1 ELSE 0)

\* Under the window's mutex: push, then evict.
PushAndEvict(t) ==
    LET w == Pushed(entries, [at |-> loc[t].now, failed |-> loc[t].failed])
        n == Expired(w, loc[t].now)
    IN /\ entries' = SubSeq(w, n + 1, Len(w))
       /\ failures' = FailuresPushed(entries, failures, loc[t].failed)
                        - Failed(Dropped(w, n))

ShouldTrip(w, n) == Len(w) >= MinSamples /\ n * RateDen >= RateNum * Len(w)

PushClosed(t) ==
    /\ pc[t] = "push_closed"
    /\ PushAndEvict(t)
    /\ \/ /\ ShouldTrip(entries', failures')
          /\ Goto(t, "trip_state") /\ UNCHANGED loc
       \/ /\ ~ShouldTrip(entries', failures')
          /\ Return(t)
    /\ UNCHANGED <<state, openedAt, probes, claimedAt, fast, clock, requests>>

PushOpen(t) ==
    /\ pc[t] = "push_open"
    /\ PushAndEvict(t)
    /\ Return(t)
    /\ UNCHANGED <<state, openedAt, probes, claimedAt, fast, clock, requests>>

\* error_rate() evicts under the mutex too, by a clock it read before it waited.
ErrorRate(t) ==
    /\ pc[t] = "idle"
    /\ \E now \in 0 .. clock :
         LET n == Expired(entries, now)
         IN /\ entries' = SubSeq(entries, n + 1, Len(entries))
            /\ failures' = failures - Failed(Dropped(entries, n))
    /\ UNCHANGED <<state, openedAt, probes, claimedAt, fast, clock, requests,
                   pc, loc>>

------------------------------------------------------------------------------
(* trip() and close(): four stores each, in this order; trip reads the clock *)

TripState(t) ==
    /\ pc[t] = "trip_state"
    /\ state' = "Open"
    /\ Goto(t, "trip_now")
    /\ UNCHANGED <<openedAt, probes, claimedAt, fast, entries, failures, clock,
                   requests, loc>>

TripNow(t) ==
    /\ pc[t] = "trip_now"
    /\ Keep(t, "now", clock)
    /\ Goto(t, "trip_opened")
    /\ UNCHANGED <<shared, clock, requests>>

TripOpened(t) ==
    /\ pc[t] = "trip_opened"
    /\ openedAt' = loc[t].now
    /\ Goto(t, "trip_probes")
    /\ UNCHANGED <<state, probes, claimedAt, fast, entries, failures, clock,
                   requests, loc>>

TripProbes(t) ==
    /\ pc[t] = "trip_probes"
    /\ probes' = 0
    /\ Goto(t, "trip_fast")
    /\ UNCHANGED <<state, openedAt, claimedAt, fast, entries, failures, clock,
                   requests, loc>>

TripFast(t) ==
    /\ pc[t] = "trip_fast"
    /\ fast' = TRUE
    /\ Return(t)
    /\ UNCHANGED <<state, openedAt, probes, claimedAt, entries, failures, clock,
                   requests>>

CloseState(t) ==
    /\ pc[t] = "close_state"
    /\ state' = "Closed"
    /\ Goto(t, "close_window")
    /\ UNCHANGED <<openedAt, probes, claimedAt, fast, entries, failures, clock,
                   requests, loc>>

CloseWindow(t) ==
    /\ pc[t] = "close_window"
    /\ entries' = <<>> /\ failures' = 0
    /\ Goto(t, "close_probes")
    /\ UNCHANGED <<state, openedAt, probes, claimedAt, fast, clock, requests,
                   loc>>

CloseProbes(t) ==
    /\ pc[t] = "close_probes"
    /\ probes' = 0
    /\ Goto(t, "close_fast")
    /\ UNCHANGED <<state, openedAt, claimedAt, fast, entries, failures, clock,
                   requests, loc>>

CloseFast(t) ==
    /\ pc[t] = "close_fast"
    /\ fast' = FALSE
    /\ Return(t)
    /\ UNCHANGED <<state, openedAt, probes, claimedAt, entries, failures, clock,
                   requests>>

------------------------------------------------------------------------------
Tick ==
    /\ clock < MaxTime
    /\ clock' = clock + 1
    /\ UNCHANGED <<shared, requests, pc, loc>>

BreakerInit ==
    /\ state = "Closed" /\ openedAt = 0 /\ probes = 0 /\ claimedAt = 0
    /\ fast = FALSE
    /\ entries = <<>> /\ failures = 0
    /\ clock = 0 /\ requests = 0
    /\ pc = [t \in Threads |-> "idle"]
    /\ loc = [t \in Threads |-> Idle]

\* The rest of an operation that a thread has begun.
Step(t) ==
    \/ OpenLoad(t) \/ OpenNow(t) \/ OpenCas(t) \/ OpenFast(t) \/ OpenReload(t)
    \/ ProbeNow(t) \/ ProbeAdd(t) \/ ProbeClaim(t) \/ ProbeSub(t)
    \/ LeaseLoad(t) \/ LeaseCas(t) \/ Send(t)
    \/ RecordLoad(t) \/ PushClosed(t) \/ PushOpen(t)
    \/ TripState(t) \/ TripNow(t) \/ TripOpened(t) \/ TripProbes(t) \/ TripFast(t)
    \/ CloseState(t) \/ CloseWindow(t) \/ CloseProbes(t) \/ CloseFast(t)

Finish(t) == \E failed \in BOOLEAN : Record(t, failed)

BreakerNext ==
    \/ \E t \in Threads : Check(t) \/ Step(t) \/ Finish(t) \/ ErrorRate(t)
    \/ Abandon
    \/ Tick

BreakerSpec == BreakerInit /\ [][BreakerNext]_breakerVars

(* A thread finishes the operation it began; every request ends, recorded or
   abandoned.  Time passes besides: WF_breakerVars(Tick). *)
BreakerFairness ==
    /\ \A t \in Threads : WF_breakerVars(Step(t))
    /\ WF_breakerVars((\E t \in Threads : Finish(t)) \/ Abandon)

------------------------------------------------------------------------------
Labels == {"idle", "admitted", "open_load", "open_now", "open_cas", "open_fast",
           "open_reload", "probe_now", "probe_add", "probe_claim", "probe_sub",
           "lease_load", "lease_cas", "record_load", "push_closed", "push_open",
           "trip_state", "trip_now", "trip_opened", "trip_probes", "trip_fast",
           "close_state", "close_window", "close_probes", "close_fast"}
Quiet == \A t \in Threads : pc[t] = "idle"

(* Every atomic holds a value of its type, and no clock reading that was
   stored in the breaker lies in the future. *)
BreakerTypeOK ==
    /\ state \in States /\ fast \in BOOLEAN
    /\ openedAt \in 0 .. clock /\ claimedAt \in 0 .. clock
    /\ probes \in 0 .. UsizeMod - 1
    /\ entries \in Seq([at : 0 .. clock, failed : BOOLEAN])
    /\ clock \in 0 .. MaxTime /\ requests \in Nat
    /\ pc \in [Threads -> Labels]
    /\ loc \in [Threads -> [now : 0 .. clock, seen : 0 .. clock, failed : BOOLEAN]]

(* The incremental failure counter of the window is the number of failures in
   it (no underflow, no drift) and the window stays within MAX_WINDOW_ENTRIES,
   with pushes, evictions and clears of several threads in any order. *)
WindowSound ==
    /\ failures = Failed(entries)
    /\ Len(entries) <= MaxWindowEntries

(* The breaker is never stranded: while callers keep asking, it keeps
   admitting requests, also when probes are lost without a record(), except
   for the rest of a cool-down or a lease that the bounded clock cuts off. *)
Cooling ==
    \/ state = "Open" /\ openedAt + OpenDuration > MaxTime
    \/ state = "HalfOpen" /\ claimedAt + OpenDuration > MaxTime
Recovers ==
    []<>(\E t \in Threads : pc[t] # "idle")
        => []<>(\E t \in Threads : pc[t] = "admitted") \/ <>[]Cooling

(* Between operations is_open_fast equals state = Open (breaker.rs: "Lock-free
   mirror of `state == Open`"). *)
MirrorAgrees == Quiet => (fast <=> state = "Open")
==============================================================================
