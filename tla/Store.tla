------------------------------- MODULE Store -------------------------------
(***************************************************************************)
(* The rows of the PostgreSQL database that the wallet, the payment         *)
(* webhooks, the admin API and the game share, and the writes they make to  *)
(* them.  A prisma.$transaction([...]) batch commits atomically, so it is   *)
(* one action; every await before it is a point where other requests run.   *)
(*                                                                          *)
(* Money is counted in cents.  A `transactions` row is kept                 *)
(* in tx only when it is born pending (deposit, withdraw): rows born        *)
(* completed are never read again by a handler and live on in ledger alone. *)
(***************************************************************************)
EXTENDS Integers, Functions

CONSTANTS
    Users,          \* ids of the users table
    TxIds,          \* ids that transactions.create may hand out
    Amounts,        \* amounts that the request DTOs accept
    MaxBalance,     \* largest magnitude of users.balance, a Decimal(12,2)
    MaxPosted       \* bound: TLC stops a user's ledger at +-MaxPosted

ASSUME StoreAssumption ==
    /\ Amounts \subseteq Nat \ {0}
    /\ MaxBalance \in Nat
    /\ MaxPosted \in Nat

VARIABLES
    balance,        \* users.balance
    accountFrozen,  \* users.account_frozen
    tx,             \* transactions born pending, by id
    ledger          \* opening balance + sum of the user's completed rows

storeVars == <<balance, accountFrozen, tx, ledger>>

Decimals == -MaxBalance .. MaxBalance

NoRow == [txStatus |-> "absent"]

Rows == [user : Users, type : {"deposit", "withdraw"}, amount : Int,
         txStatus : {"pending", "completed", "failed"}]

StoreTypeOK ==
    /\ balance \in [Users -> Decimals]
    /\ accountFrozen \in [Users -> BOOLEAN]
    /\ tx \in [TxIds -> Rows \cup {NoRow}]
    /\ ledger \in [Users -> Int]

StoreInit ==
    /\ balance \in [Users -> 0 .. MaxBalance]
    /\ accountFrozen = [u \in Users |-> FALSE]
    /\ tx = [t \in TxIds |-> NoRow]
    /\ ledger = balance

-----------------------------------------------------------------------------

\* What a row contributes to its owner's ledger.
Settled(row) == IF row.txStatus = "completed" THEN row.amount ELSE 0

\* transaction.create of a row that waits for a webhook.
CreatePending(u, type, amount) ==
    /\ \E t \in TxIds :
        /\ tx[t] = NoRow
        /\ tx' = [tx EXCEPT ![t] = [user |-> u, type |-> type,
                                    amount |-> amount, txStatus |-> "pending"]]
    /\ UNCHANGED ledger

\* transaction.update of txStatus, whatever the row's present status is.
SetStatus(t, status) ==
    LET row == [tx[t] EXCEPT !.txStatus = status]
    IN  /\ tx' = [tx EXCEPT ![t] = row]
        /\ ledger' = [ledger EXCEPT ![row.user] =
                                        @ + Settled(row) - Settled(tx[t])]

\* Mutation of SetBalance: a column without a precision.
SetBalanceUnlimited(u, b) == balance' = [balance EXCEPT ![u] = b]

\* user.update of balance to a value computed earlier; a value too large for
\* the column makes the update, and its whole batch, fail.
SetBalance(u, b) ==
    /\ b \in Decimals
    /\ balance' = [balance EXCEPT ![u] = b]

\* user.update of balance to b with transaction.create of a completed row.
Post(u, amount, b) ==
    /\ SetBalance(u, b)
    /\ ledger[u] + amount \in -MaxPosted .. MaxPosted
    /\ ledger' = [ledger EXCEPT ![u] = @ + amount]
    /\ UNCHANGED tx

PendingWithdrawalsOf(u) ==
    {t \in TxIds : /\ tx[t].txStatus = "pending"
                   /\ tx[t].type = "withdraw"
                   /\ tx[t].user = u}

\* The sum that transaction.aggregate returns, made positive.
Reserved(u) == SumFunction([t \in PendingWithdrawalsOf(u) |-> -tx[t].amount])

-----------------------------------------------------------------------------

\* No interleaving of deposits, payouts, refunds, bets and admin debits
\* overdraws an account: every handler checks the balance it read and writes
\* from the same copy, so a stale copy can lose money but not go below zero.
NoOverdraft == \A u \in Users : balance[u] >= 0

\* What the balance holds beyond the ledger of completed rows.
Drift(u) == balance[u] - ledger[u]

=============================================================================
