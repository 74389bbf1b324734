----------------------------- MODULE MCInProcess -----------------------------
(* What a process keeps without a peer of its own: the index of external sessions
   and the circuit breaker.  They share no state, so a behaviour of this instance
   is one of either. *)
EXTENDS SessionRegistry, CircuitBreaker

MCValidIds == {"s1", "tui", "acp", "hostA", "hostB"}

VARIABLE part       \* the part this behaviour is about

MCInit == Init /\ BreakerInit /\ part \in {"sessions", "breaker"}

MCNext ==
    \/ part = "sessions" /\ Next /\ UNCHANGED <<breakerVars, part>>
    \/ part = "breaker" /\ BreakerNext /\ UNCHANGED <<vars, part>>

MCSpec ==
    /\ MCInit
    /\ [][MCNext]_<<vars, breakerVars, part>>
    /\ BreakerFairness /\ WF_breakerVars(part = "breaker" /\ Tick)
==============================================================================
