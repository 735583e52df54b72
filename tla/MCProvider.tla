----------------------------- MODULE MCProvider -----------------------------
(***************************************************************************)
(* Provider on a small instance: an event key is a row and a status.        *)
(***************************************************************************)
EXTENDS Provider, TLC

Keys == TxIds \X Statuses

\* A payment that is a cent short is within the tolerance.
CentShort == {<<a, a - 1>> : a \in Amounts}

=============================================================================
