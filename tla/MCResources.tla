---------------------------- MODULE MCResources ----------------------------
(* TLC instances of Resources. *)
EXTENDS Resources, TLC

CONSTANTS p1, p2

(* A UART may take either pin, both, or none that there is. *)
MCWiring == SUBSET Pin

(* The pins are interchangeable. *)
Symmetry == Permutations(Pin)
=============================================================================
