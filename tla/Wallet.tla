------------------------------- MODULE Wallet -------------------------------
(***************************************************************************)
(* WalletService: POST /wallet/deposit and POST /wallet/withdraw.           *)
(*                                                                          *)
(* A request is a slot of call that walks through the awaits of its         *)
(* handler.  It keeps what it read: `seen`, the balance of the user row,    *)
(* is what it writes from later on.  A request that is refused before it    *)
(* wrote anything changes nothing and is not an action.                     *)
(***************************************************************************)
EXTENDS Store

CONSTANT Calls      \* wallet requests that may be in flight at once

VARIABLE call       \* per request: Idle, or what its handler holds

Idle == [at |-> "idle"]

\* Where the handler waits: for the aggregate, or for its final write.
CallStates == [at : {"aggregate", "write"}, op : {"deposit", "instant", "withdraw"},
               user : Users, amount : Amounts, seen : Decimals]

WalletTypeOK == call \in [Calls -> CallStates \cup {Idle}]

WalletInit == call = [c \in Calls |-> Idle]

\* user.findUnique at the head of both handlers: suspended accounts are
\* refused.  A withdrawal goes on to getAvailableBalance, a deposit to its
\* write; "instant" is the deposit that PAYMENT_SIMULATION completes at once.
\* Bound: no request for a row when TxIds are used up.
ReadCaller(c) ==
    /\ call[c] = Idle
    /\ \E u \in Users, a \in Amounts, op \in {"deposit", "instant", "withdraw"} :
        /\ ~accountFrozen[u]
        /\ op # "instant" => \E t \in TxIds : tx[t] = NoRow     \* bound
        /\ call' = [call EXCEPT ![c] =
               [at |-> IF op = "withdraw" THEN "aggregate" ELSE "write",
                op |-> op, user |-> u, amount |-> a, seen |-> balance[u]]]
    /\ UNCHANGED storeVars

\* Mutation of CheckAvailable: the whole balance counts as available.
CheckBalanceOnly(c) ==
    /\ call[c].at = "aggregate"
    /\ call' = [call EXCEPT ![c] =
           IF @.seen >= @.amount THEN [@ EXCEPT !.at = "write"] ELSE Idle]
    /\ UNCHANGED storeVars

\* getAvailableBalance: the pending withdrawals, against the balance read
\* before.  Too little is "Insufficient balance".
CheckAvailable(c) ==
    /\ call[c].at = "aggregate"
    /\ call' = [call EXCEPT ![c] =
           IF @.seen - Reserved(@.user) >= @.amount
           THEN [@ EXCEPT !.at = "write"] ELSE Idle]
    /\ UNCHANGED storeVars

\* depositSentinelGate and depositLegacy, up to the row that waits for the
\* provider.  The checkout session and its referenceId leave these rows alone.
CreateDeposit(c) ==
    /\ call[c].at = "write" /\ call[c].op = "deposit"
    /\ CreatePending(call[c].user, "deposit", call[c].amount)
    /\ call' = [call EXCEPT ![c] = Idle]
    /\ UNCHANGED <<balance, accountFrozen>>

\* depositLegacy when simulateInstant holds: one batch with the new balance.
DepositInstantly(c) ==
    /\ call[c].at = "write" /\ call[c].op = "instant"
    /\ Post(call[c].user, call[c].amount, call[c].seen + call[c].amount)
    /\ call' = [call EXCEPT ![c] = Idle]
    /\ UNCHANGED accountFrozen

\* withdraw: the row is created with the negated amount, nothing is debited.
CreateWithdrawal(c) ==
    /\ call[c].at = "write" /\ call[c].op = "withdraw"
    /\ CreatePending(call[c].user, "withdraw", -call[c].amount)
    /\ call' = [call EXCEPT ![c] = Idle]
    /\ UNCHANGED <<balance, accountFrozen>>

\* A query of the handler is rejected, its final write overflows, or the
\* process dies: the request is gone and nothing of it is written.
AbortCall(c) ==
    /\ call[c] # Idle
    /\ call' = [call EXCEPT ![c] = Idle]
    /\ UNCHANGED storeVars

CallStep(c) ==
    \/ ReadCaller(c)
    \/ CheckAvailable(c)
    \/ CreateDeposit(c)
    \/ DepositInstantly(c)
    \/ CreateWithdrawal(c)
    \/ AbortCall(c)

=============================================================================
