----------------------------- MODULE DispatchGate -----------------------------
(***************************************************************************)
(* What the operator inbox promises the Runtime gate, whatever the items   *)
(* on the screen are: an action intent gets one verdict, a human one, and  *)
(* at most one request for it is ever handed out, after its approval.      *)
(***************************************************************************)
EXTENDS Sequences

CONSTANT IntentIds

VARIABLES
    verdict,    \* intent -> what the human authority has said of it
    requests    \* the intents handed to the gate, in order

gateVars == <<verdict, requests>>

Verdicts == {"unknown", "recorded", "approved", "rejected"}

GateInit ==
    /\ verdict = [i \in IntentIds |-> "unknown"]
    /\ requests = <<>>

Record(i) ==
    /\ verdict[i] = "unknown"
    /\ verdict' = [verdict EXCEPT ![i] = "recorded"]
    /\ UNCHANGED requests

Decide(i, v) ==
    /\ verdict[i] = "recorded"
    /\ verdict' = [verdict EXCEPT ![i] = v]
    /\ UNCHANGED requests

Request(i) ==
    /\ verdict[i] = "approved"
    /\ \A n \in DOMAIN requests : requests[n] # i
    /\ requests' = Append(requests, i)
    /\ UNCHANGED verdict

GateNext ==
    \E i \in IntentIds :
        \/ Record(i)
        \/ \E v \in {"approved", "rejected"} : Decide(i, v)
        \/ Request(i)

GateSpec == GateInit /\ [][GateNext]_gateVars
==============================================================================
