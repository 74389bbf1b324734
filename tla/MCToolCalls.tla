----------------------------- MODULE MCToolCalls -----------------------------
(* The two places where tool calls are carried out: the Runtime child that the
   surfaces of a workspace share, and a session of a computer hub's tool server.
   They share no state, so a behaviour of this instance is one of either. *)
EXTENDS RuntimeClients, HubSession

VARIABLE place      \* the place this behaviour is about

MCInit == RuntimeInit /\ Init /\ place \in {"runtime", "hub"}

MCNext ==
    \/ place = "runtime" /\ RuntimeNext /\ UNCHANGED <<vars, place>>
    \/ place = "hub" /\ Next /\ UNCHANGED <<runtimeVars, place>>

MCSpec ==
    /\ MCInit
    /\ [][MCNext]_<<runtimeVars, vars, place>>
    /\ RuntimeFairness
    /\ Fairness
==============================================================================
