---------------------------- MODULE MCEventWindow ----------------------------
(* A small instance of EventWindow: two namespaces, four events at three    *)
(* times, a horizon of two and room for three events.                       *)
EXTENDS EventWindow, TLC

CONSTANTS a, b, e0, e1, e2, e4

MCNamespaces == {a, b}
MCEvents == {e0, e1, e2, e4}
MCTs == (e0 :> 0) @@ (e1 :> 2) @@ (e2 :> 2) @@ (e4 :> 4)
MCBatches == UNION {[1..n -> MCEvents] : n \in 0..2}
MCReferences == {3, 5, 7}

(* The code never compares namespace names except to iterate over them all. *)
MCSymmetry == Permutations({a, b})
=============================================================================
