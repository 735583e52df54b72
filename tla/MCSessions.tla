----------------------------- MODULE MCSessions -----------------------------
(***************************************************************************)
(* Sessions on small instances.  Nothing in the model tells two rows, two    *)
(* requests, two sign-ins, two names or two codes apart.                     *)
(***************************************************************************)
EXTENDS Sessions, TLC

Symmetry == Permutations(Emails) \cup Permutations(Names) \cup Permutations(Codes)
            \cup Permutations(RowIds) \cup Permutations(SignIns)
            \cup Permutations(Requests)

=============================================================================
