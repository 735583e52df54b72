----------------------------- MODULE MCPayments -----------------------------
(***************************************************************************)
(* Payments on small instances.  Requests, deliveries, event keys and row    *)
(* ids are interchangeable: nothing in the model compares them but for       *)
(* equality, and no property of these runs names one of them.                *)
(***************************************************************************)
EXTENDS Payments, FiniteSets, TLC

Symmetry == Permutations(Calls) \cup Permutations(Hooks)
            \cup Permutations(EventKeys) \cup Permutations(TxIds)
            \cup Permutations(Users)

\* Bound: any two requests race; a third one starts when one of them is over.
Pairwise == Cardinality(InFlight) <= 2

=============================================================================
