-------------------------- MODULE MCSessionRegistry --------------------------
(* Small instances of SessionRegistry for TLC: two sessions for one place, two
   clients for one place, and an id that validate_id refuses. *)
EXTENDS SessionRegistry

MCValidIds == {"s1", "s2", "tui", "acp", "hostA"}

\* No operation reads what an earlier one returned, and neither do the
\* properties that are checked with this view.
MCView == <<sessions, saved>>
==============================================================================
