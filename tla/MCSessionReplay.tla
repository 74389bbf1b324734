--------------------------- MODULE MCSessionReplay ---------------------------
(* Small instances of SessionReplay for TLC: two incarnations of the host and
   two surfaces that reconnect independently. *)
EXTENDS SessionReplay

MCIncarnations == <<"hostA", "hostB">>
MCIds == {"s1", "tui", "acp", "hostA", "hostB"}
==============================================================================
