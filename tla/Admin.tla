------------------------------- MODULE Admin -------------------------------
(***************************************************************************)
(* AdminService.patchUser: an optional freeze or unfreeze, then an optional *)
(* change of the balance, each written by itself.  A patch that is refused  *)
(* because the balance would become negative has already changed            *)
(* accountFrozen.                                                           *)
(***************************************************************************)
EXTENDS Store

CONSTANT Patches    \* PATCH /admin/users requests that may be in flight at once

VARIABLE patch      \* per request: NoPatch, or what its handler holds

NoPatch == [at |-> "idle"]

\* body.accountFrozen: true, false or undefined.
Freezes == {"freeze", "unfreeze", "unset"}

Deltas == UNION {{-a, 0, a} : a \in Amounts}    \* 0: no balanceDelta

PatchStates == [at : {"freeze", "reread", "write"}, user : Users,
                freeze : Freezes, delta : Deltas, seen : Decimals]

AdminTypeOK == patch \in [Patches -> PatchStates \cup {NoPatch}]

AdminInit == patch = [p \in Patches |-> NoPatch]

\* The first findUnique of patchUser.  The balance it reads is used only when
\* there is no freeze to write.
ReadTarget(p) ==
    /\ patch[p] = NoPatch
    /\ \E u \in Users, f \in Freezes, d \in Deltas :
        /\ f # "unset" \/ d # 0
        /\ patch' = [patch EXCEPT ![p] =
               [at |-> IF f = "unset" THEN "write" ELSE "freeze",
                user |-> u, freeze |-> f, delta |-> d,
                seen |-> IF f = "unset" THEN balance[u] ELSE 0]]
    /\ UNCHANGED storeVars

\* user.update of accountFrozen, committed on its own.
WriteFreeze(p) ==
    /\ patch[p].at = "freeze"
    /\ accountFrozen' = [accountFrozen EXCEPT ![patch[p].user] =
                                            patch[p].freeze = "freeze"]
    /\ patch' = [patch EXCEPT ![p].at = "reread", ![p].freeze = "unset"]
    /\ UNCHANGED <<balance, tx, ledger>>

\* findUniqueOrThrow: the balance the delta is applied to.  Without a delta
\* the request is over.
RereadTarget(p) ==
    /\ patch[p].at = "reread"
    /\ patch' = [patch EXCEPT ![p] =
           IF @.delta = 0 THEN NoPatch
           ELSE [@ EXCEPT !.at = "write", !.seen = balance[patch[p].user]]]
    /\ UNCHANGED storeVars

\* The batch of admin_credit or admin_debit; a negative result is refused.
AdjustBalance(p) ==
    LET next == patch[p].seen + patch[p].delta
    IN  /\ patch[p].at = "write"
        /\ next >= 0
        /\ Post(patch[p].user, patch[p].delta, next)
        /\ patch' = [patch EXCEPT ![p] = NoPatch]
        /\ UNCHANGED accountFrozen

\* "Balance would become negative", a rejected query, an overflow or the end
\* of the process: what was written stays, the rest never happens.
AbortPatch(p) ==
    /\ patch[p] # NoPatch
    /\ patch' = [patch EXCEPT ![p] = NoPatch]
    /\ UNCHANGED storeVars

PatchStep(p) ==
    \/ ReadTarget(p)
    \/ WriteFreeze(p)
    \/ RereadTarget(p)
    \/ AdjustBalance(p)
    \/ AbortPatch(p)

=============================================================================
