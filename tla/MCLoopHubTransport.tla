-------------------------- MODULE MCLoopHubTransport --------------------------
(* Small instances of LoopHubTransport for TLC: two callers with a workflow
   each. *)
EXTENDS LoopHubTransport, TLC

CONSTANTS c1, c2

MCWorkflowOf == (c1 :> "w1") @@ (c2 :> "w2")
==============================================================================
