----------------------------- MODULE MCHubSession -----------------------------
(* Small instances of HubSession for TLC. *)
EXTENDS HubSession
==============================================================================
