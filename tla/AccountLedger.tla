--------------------------- MODULE AccountLedger ---------------------------
(***************************************************************************)
(* What the wallet promises, whatever its handlers do to keep it: an        *)
(* account whose funds always equal what was posted to it, and payments     *)
(* that are opened once and end once.  Every action is one indivisible      *)
(* event, as a user or an accountant sees it.                               *)
(***************************************************************************)
EXTENDS Integers

CONSTANTS
    Users, PaymentIds, Amounts, MaxBalance,
    Total(_)    \* the sum of the values of a function

VARIABLES
    funds,      \* what the user may play with
    posted,     \* opening funds + everything booked since
    suspended,  \* users that may open no payment
    payment     \* payments by id

ledgerVars == <<funds, posted, suspended, payment>>

Unused == [txStatus |-> "absent"]

Init ==
    /\ funds \in [Users -> 0 .. MaxBalance]
    /\ posted = funds
    /\ suspended = [u \in Users |-> FALSE]
    /\ payment = [p \in PaymentIds |-> Unused]

Promised(u) ==
    LET open == {p \in PaymentIds : /\ payment[p].txStatus = "pending"
                                    /\ payment[p].type = "withdraw"
                                    /\ payment[p].user = u}
    IN  Total([p \in open |-> -payment[p].amount])

Book(u, amount) ==
    /\ funds[u] + amount \in 0 .. MaxBalance
    /\ funds' = [funds EXCEPT ![u] = @ + amount]
    /\ posted' = [posted EXCEPT ![u] = @ + amount]

Open(u, type, amount) ==
    \E p \in PaymentIds :
        /\ payment[p] = Unused
        /\ payment' = [payment EXCEPT ![p] =
               [user |-> u, type |-> type, amount |-> amount, txStatus |-> "pending"]]

OpenDeposit(u, a) ==
    /\ ~suspended[u]
    /\ Open(u, "deposit", a)
    /\ UNCHANGED <<funds, posted, suspended>>

RequestPayout(u, a) ==
    /\ ~suspended[u]
    /\ funds[u] - Promised(u) >= a
    /\ Open(u, "withdraw", -a)
    /\ UNCHANGED <<funds, posted, suspended>>

Settle(p) ==
    /\ payment[p].txStatus = "pending"
    /\ Book(payment[p].user, payment[p].amount)
    /\ payment' = [payment EXCEPT ![p].txStatus = "completed"]
    /\ UNCHANGED suspended

Reject(p) ==
    /\ payment[p].txStatus = "pending"
    /\ payment' = [payment EXCEPT ![p].txStatus = "failed"]
    /\ UNCHANGED <<funds, posted, suspended>>

\* Instant deposits, refunds and administrative adjustments.
Adjust(u) ==
    /\ \E amount \in -MaxBalance .. MaxBalance : Book(u, amount)
    /\ UNCHANGED <<suspended, payment>>

Suspend(u) ==
    /\ suspended' = [suspended EXCEPT ![u] = ~@]
    /\ UNCHANGED <<funds, posted, payment>>

Next ==
    \/ \E u \in Users, a \in Amounts : OpenDeposit(u, a) \/ RequestPayout(u, a)
    \/ \E p \in PaymentIds : Settle(p) \/ Reject(p)
    \/ \E u \in Users : Adjust(u) \/ Suspend(u)

Spec == Init /\ [][Next]_ledgerVars

=============================================================================
