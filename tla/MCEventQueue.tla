---------------------------- MODULE MCEventQueue ----------------------------
(* TLC instance of EventQueue. *)
EXTENDS EventQueue
=============================================================================
