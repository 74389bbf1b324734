---------------------------- MODULE BreakerHistory ----------------------------
(***************************************************************************)
(* CircuitBreaker with two history variables, for the properties that      *)
(* speak of past admissions and trips.  They never influence a step.       *)
(***************************************************************************)
EXTENDS CircuitBreaker

VARIABLES
    lastTrip,    \* when state last became Open
    probeTimes   \* the clock readings of the probes admitted so far, in their order

historyVars == <<breakerVars, lastTrip, probeTimes>>

Moves(t, from, to) == pc[t] = from /\ pc'[t] = to

\* try_half_open_probe returned Ok to t: by a free slot or by the lease.
ProbeAdmitted(t) ==
    Moves(t, "probe_claim", "admitted") \/ Moves(t, "lease_cas", "admitted")

Observe ==
    /\ lastTrip' = IF \E t \in Threads : Moves(t, "trip_state", "trip_now")
                   THEN clock ELSE lastTrip
    /\ \/ \E t \in Threads :
            /\ ProbeAdmitted(t)
            /\ probeTimes' = Append(probeTimes, loc[t].now)
       \/ /\ ~\E t \in Threads : ProbeAdmitted(t)
          /\ UNCHANGED probeTimes

HistoryInit == BreakerInit /\ lastTrip = 0 /\ probeTimes = <<>>

HistorySpec == HistoryInit /\ [][BreakerNext /\ Observe]_historyVars

------------------------------------------------------------------------------
(* The breaker never half-opens before open_duration has passed since it last
   tripped (breaker_tests/state_machine.rs, open_to_half_open_after_duration: a
   check right after the trip is refused; only the test hook force_half_open
   "bypasses the open-duration timer"). *)
CoolDownKept ==
    [][(state = "Open" /\ state' = "HalfOpen") =>
         Elapsed(clock, lastTrip) >= OpenDuration]_historyVars

SameLease(a, b) == Elapsed(a, b) < OpenDuration /\ Elapsed(b, a) < OpenDuration

(* Within one lease no more than half_open_max_probes probes are admitted, however
   many threads call check (breaker_tests/half_open.rs: "Spawn many threads
   simultaneously. Only one probe slot; exactly one Ok overall."). *)
ProbeLimitKept ==
    \A i \in DOMAIN probeTimes :
        Cardinality({j \in 1 .. i : SameLease(probeTimes[j], probeTimes[i])}) <= MaxProbes
==============================================================================
