------------------------------ MODULE Webhooks ------------------------------
(***************************************************************************)
(* PaymentWebhookService: what a payment provider's webhook does to a row   *)
(* of `transactions` and to the balance of its owner.                       *)
(*                                                                          *)
(* Every handler looks its event up in webhook_deliveries, reads the row    *)
(* (and, to move money, the owner), and then commits one batch that starts  *)
(* by recording the event.  The lookup does not protect the commit: only    *)
(* the unique index on event_key does.  A delivery that is answered before  *)
(* any write (a duplicate, an unknown row, a settled row) is not an action  *)
(* of its own unless an await of the handler has already passed.            *)
(***************************************************************************)
EXTENDS Store

CONSTANTS
    Hooks,          \* deliveries that may be handled at once
    EventKeys,      \* eventId values; the sender chooses them
    Reported,       \* amounts that a delivery may report as paid or refunded
    CentOff         \* <<expected, paid>>: a cent apart, and within AMOUNT_TOLERANCE

\* The unit is a cent, and AMOUNT_TOLERANCE is one too: whether a payment that is
\* a cent off is within it depends on the rounding of the difference of doubles
\* (10.01 is within 0.01 of 10, 20.01 is not of 20).
ASSUME WebhooksAssumption ==
    /\ Reported \subseteq Nat \ {0}
    /\ \A p \in CentOff : p[1] - p[2] \in {-1, 1}

VARIABLES
    webhookDelivery,    \* event keys recorded in webhook_deliveries
    hook                \* per delivery: NoHook, or what its handler holds

hookVars == <<webhookDelivery, hook>>

NoHook == [at |-> "idle"]

Kinds == {"deposit-confirmed", "deposit-failed", "deposit-refunded",
          "withdraw-confirmed", "withdraw-failed"}

\* The row type each handler insists on.
SubjectType(kind) ==
    IF kind \in {"withdraw-confirmed", "withdraw-failed"} THEN "withdraw" ELSE "deposit"

\* The optional amount of a delivery: 0 stands for paidAmount undefined, and a
\* refund must be positive.
Unpaid == 0

PaidAmounts(kind) ==
    CASE kind = "deposit-confirmed" -> Reported \cup {Unpaid}
      [] kind = "deposit-refunded" -> Reported
      [] OTHER -> {Unpaid}

\* A row's owner, type and amount never change, so the handler's copy of them
\* is the row's own; its copy of the balance is `seen`.
HookStates == [at : {"row", "owner", "commit", "skip"}, kind : Kinds, key : EventKeys,
               t : TxIds, paid : Reported \cup {Unpaid}, seen : Decimals]

WebhooksTypeOK ==
    /\ webhookDelivery \subseteq EventKeys
    /\ hook \in [Hooks -> HookStates \cup {NoHook}]

WebhooksInit ==
    /\ webhookDelivery = {}
    /\ hook = [h \in Hooks |-> NoHook]

\* Mutation of AmountsMatch: no absolute value, so that any excess will do.
AmountsSuffice(expected, paid) ==
    paid = Unpaid \/ paid >= expected \/ <<expected, paid>> \in CentOff

\* The amount is compared only if one was reported.
AmountsMatch(expected, paid) ==
    paid \in {Unpaid, expected} \/ <<expected, paid>> \in CentOff

AmountOf(t) == IF tx[t].amount < 0 THEN -tx[t].amount ELSE tx[t].amount

LesserOf(a, b) == IF a < b THEN a ELSE b

\* Mutation of Outcome: a payout is confirmed without looking at the balance.
OutcomeUnfunded(r) ==
    CASE r.kind = "deposit-refunded" -> "refund"
      [] r.kind = "deposit-confirmed" /\ AmountsMatch(AmountOf(r.t), r.paid) -> "credit"
      [] r.kind = "withdraw-confirmed" -> "debit"
      [] OTHER -> "fail"

\* Mutation of Outcome: a payout that is not covered is refused, not failed.
OutcomeRefused(r) ==
    CASE r.kind = "deposit-refunded" -> "refund"
      [] r.kind = "deposit-confirmed" /\ AmountsMatch(AmountOf(r.t), r.paid) -> "credit"
      [] r.kind = "withdraw-confirmed" ->
             IF r.seen >= AmountOf(r.t) THEN "debit" ELSE "refused"
      [] OTHER -> "fail"

\* What a handler that has its reads goes on to do to the row.
Outcome(r) ==
    CASE r.kind = "deposit-refunded" -> "refund"
      [] r.kind = "deposit-confirmed" /\ AmountsMatch(AmountOf(r.t), r.paid) -> "credit"
      [] r.kind = "withdraw-confirmed" /\ r.seen >= AmountOf(r.t) -> "debit"
      [] OTHER -> "fail"

-----------------------------------------------------------------------------

\* webhookDelivery.findUnique of an event not recorded yet.  A delivery names
\* a row that was created: an id that was never handed out is refused.
LookUp(h, kind, key, t, paid) ==
    /\ hook[h] = NoHook
    /\ key \notin webhookDelivery
    /\ tx[t] # NoRow
    /\ hook' = [hook EXCEPT ![h] = [at |-> "row", kind |-> kind, key |-> key,
                                   t |-> t, paid |-> paid, seen |-> 0]]
    /\ UNCHANGED <<webhookDelivery, storeVars>>

\* A delivery arrives, of any kind and about any row.
LookUpDelivery(h) ==
    \E kind \in Kinds, key \in EventKeys, t \in TxIds :
        \E paid \in PaidAmounts(kind) : LookUp(h, kind, key, t, paid)

\* Mutation of AfterRow: the status of the row is not looked at.
AfterAnyRow(r) ==
    IF tx[r.t].type # SubjectType(r.kind) THEN "refused"
    ELSE IF r.kind \in {"deposit-failed", "withdraw-failed"} THEN "commit"
    ELSE "owner"

\* Mutation of AfterRow: a refund too insists on a pending row.
AfterPendingRow(r) ==
    LET row == tx[r.t]
    IN  IF row.type # SubjectType(r.kind) THEN "refused"
        ELSE IF row.txStatus # "pending"
             THEN IF r.kind = "deposit-refunded" THEN "skip" ELSE "refused"
        ELSE IF r.kind \in {"deposit-failed", "withdraw-failed"} THEN "commit"
        ELSE "owner"

\* Where the row read by r's handler sends it.  Only a refund goes on from a
\* row that is not pending.
AfterRow(r) ==
    LET row == tx[r.t]
    IN  IF row.type # SubjectType(r.kind) THEN "refused"
        ELSE IF r.kind = "deposit-refunded"
             THEN IF row.txStatus = "completed" THEN "owner" ELSE "skip"
        ELSE IF row.txStatus # "pending" THEN "refused"
        ELSE IF r.kind \in {"deposit-failed", "withdraw-failed"} THEN "commit"
        ELSE "owner"

\* transaction.findUnique and the checks on the row.
ReadRow(h) ==
    /\ hook[h].at = "row"
    /\ LET next == AfterRow(hook[h])
       IN  hook' = [hook EXCEPT ![h] = IF next = "refused" THEN NoHook
                                       ELSE [@ EXCEPT !.at = next]]
    /\ UNCHANGED <<webhookDelivery, storeVars>>

\* The user row that include: { user: true } loads with a second query.
ReadOwner(h) ==
    /\ hook[h].at = "owner"
    /\ hook' = [hook EXCEPT ![h].at = "commit",
                            ![h].seen = balance[tx[hook[h].t].user]]
    /\ UNCHANGED <<webhookDelivery, storeVars>>

\* Mutation of RecordDelivery: no unique index on event_key.
RecordDeliveryAgain(h) ==
    /\ webhookDelivery' = webhookDelivery \cup {hook[h].key}
    /\ hook' = [hook EXCEPT ![h] = NoHook]

\* The first statement of every batch: the unique index refuses a second one.
RecordDelivery(h) ==
    /\ hook[h].key \notin webhookDelivery
    /\ webhookDelivery' = webhookDelivery \cup {hook[h].key}
    /\ hook' = [hook EXCEPT ![h] = NoHook]

\* handleDepositConfirmed: the balance read before plus the row's amount.
CreditDeposit(h) ==
    LET r == hook[h]
    IN  /\ r.at = "commit" /\ Outcome(r) = "credit"
        /\ RecordDelivery(h)
        /\ SetBalance(tx[r.t].user, r.seen + AmountOf(r.t))
        /\ SetStatus(r.t, "completed")
        /\ UNCHANGED accountFrozen

\* handleWithdrawConfirmed: the balance read before less the row's amount.
DebitWithdrawal(h) ==
    LET r == hook[h]
    IN  /\ r.at = "commit" /\ Outcome(r) = "debit"
        /\ RecordDelivery(h)
        /\ SetBalance(tx[r.t].user, r.seen - AmountOf(r.t))
        /\ SetStatus(r.t, "completed")
        /\ UNCHANGED accountFrozen

\* The batches that mark a row failed: the two -failed events, a paid amount
\* that does not match, a balance too small for the payout.
MarkFailed(h) ==
    /\ hook[h].at = "commit" /\ Outcome(hook[h]) = "fail"
    /\ RecordDelivery(h)
    /\ SetStatus(hook[h].t, "failed")
    /\ UNCHANGED <<balance, accountFrozen>>

\* Mutation of RefundDeposit: the row books the refund that was asked for, the
\* balance only what was left of it.
RefundUncapped(h) ==
    LET r == hook[h]
    IN  /\ r.at = "commit" /\ Outcome(r) = "refund"
        /\ RecordDelivery(h)
        /\ Post(tx[r.t].user, -r.paid, r.seen - LesserOf(r.paid, r.seen))
        /\ UNCHANGED accountFrozen

\* handleDepositRefunded: the debit is capped by the balance read before, and
\* booked as a completed row of its own; the deposit stays completed.
RefundDeposit(h) ==
    LET r == hook[h]
        debit == LesserOf(r.paid, r.seen)
    IN  /\ r.at = "commit" /\ Outcome(r) = "refund"
        /\ RecordDelivery(h)
        /\ Post(tx[r.t].user, -debit, r.seen - debit)
        /\ UNCHANGED accountFrozen

\* A refund of a deposit that is not completed consumes its event.
SkipRefund(h) ==
    /\ hook[h].at = "skip"
    /\ RecordDelivery(h)
    /\ UNCHANGED storeVars

\* The event was recorded meanwhile or the balance overflows, and the batch is
\* rolled back; or a query is rejected or the process dies.  The provider sees
\* no success and may deliver the event again.
AbortHook(h) ==
    /\ hook[h] # NoHook
    /\ hook' = [hook EXCEPT ![h] = NoHook]
    /\ UNCHANGED <<webhookDelivery, storeVars>>

HookStep(h) ==
    \/ LookUpDelivery(h)
    \/ ReadRow(h)
    \/ ReadOwner(h)
    \/ CreditDeposit(h)
    \/ DebitWithdrawal(h)
    \/ MarkFailed(h)
    \/ RefundDeposit(h)
    \/ SkipRefund(h)
    \/ AbortHook(h)

=============================================================================
