--------------------------- MODULE MCBreakerHistory ---------------------------
(* Small instances of BreakerHistory for TLC. *)
EXTENDS BreakerHistory
==============================================================================
