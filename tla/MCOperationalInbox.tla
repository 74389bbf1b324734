-------------------------- MODULE MCOperationalInbox --------------------------
(* Small instances of OperationalInbox for TLC. *)
EXTENDS OperationalInbox
==============================================================================
