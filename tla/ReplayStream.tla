----------------------------- MODULE ReplayStream -----------------------------
(***************************************************************************)
(* What a session's event replay promises: per session a position in the   *)
(* log of one host incarnation.  The position moves forward over           *)
(* contiguous batches of bounded size, starts again at zero when the       *)
(* session is bound to another incarnation, and returns to the last        *)
(* checkpoint as a whole.  SessionRegistry implements it.                  *)
(***************************************************************************)
EXTENDS Integers

CONSTANTS Ids, Hosts, MaxBatch

VARIABLES
    position,     \* session id -> [host, cursor]
    checkpoint    \* the positions that a restore returns to

streamVars == <<position, checkpoint>>

Init ==
    /\ position = [s \in {} |-> [host |-> "none", cursor |-> 0]]
    /\ checkpoint = position

Open(s, h) ==
    /\ s \notin DOMAIN position
    /\ position' = [t \in DOMAIN position \cup {s} |->
                      IF t = s THEN [host |-> h, cursor |-> 0] ELSE position[t]]
    /\ UNCHANGED checkpoint

Advance(s, n) ==
    /\ s \in DOMAIN position
    /\ position' = [position EXCEPT ![s].cursor = @ + n]
    /\ UNCHANGED checkpoint

Rebind(s, h) ==
    /\ s \in DOMAIN position
    /\ h # position[s].host
    /\ position' = [position EXCEPT ![s] = [host |-> h, cursor |-> 0]]
    /\ UNCHANGED checkpoint

Checkpoint == checkpoint' = position /\ UNCHANGED position

Rollback == position' = checkpoint /\ UNCHANGED checkpoint

Next ==
    \/ \E s \in Ids, h \in Hosts : Open(s, h) \/ Rebind(s, h)
    \/ \E s \in Ids, n \in 1 .. MaxBatch : Advance(s, n)
    \/ Checkpoint
    \/ Rollback

Spec == Init /\ [][Next]_streamVars
==============================================================================
