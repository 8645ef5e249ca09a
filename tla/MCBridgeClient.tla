--------------------------- MODULE MCBridgeClient ---------------------------
(* TLC instances of BridgeClient. *)
EXTENDS BridgeClient

(* The callers are interchangeable. *)
Symmetry == Permutations(Caller)
=============================================================================
