------------------------------ MODULE Payments ------------------------------
(***************************************************************************)
(* Wallet, admin API and payment webhooks over one database: every step of  *)
(* every request in flight, in any order.  Money never waits for a lock: a  *)
(* handler writes the balance it computed from the balance it read.         *)
(***************************************************************************)
EXTENDS Wallet, Admin, Webhooks

vars == <<storeVars, call, patch, hookVars>>

Init ==
    /\ StoreInit
    /\ WalletInit
    /\ AdminInit
    /\ WebhooksInit

CallNext == (\E c \in Calls : CallStep(c)) /\ UNCHANGED <<patch, hookVars>>

PatchNext == (\E p \in Patches : PatchStep(p)) /\ UNCHANGED <<call, hookVars>>

HookNext == (\E h \in Hooks : HookStep(h)) /\ UNCHANGED <<call, patch>>

Next == CallNext \/ PatchNext \/ HookNext

Spec == Init /\ [][Next]_vars

\* The requests that have passed their first await and are not answered.
InFlight ==
    ({"call"} \X {c \in Calls : call[c] # Idle})
    \cup ({"patch"} \X {p \in Patches : patch[p] # NoPatch})
    \cup ({"hook"} \X {h \in Hooks : hook[h] # NoHook})

\* One request at a time, as every test of the repository drives the services.
Serial == \A r1, r2 \in InFlight : r1 = r2

SerialSpec == Init /\ [][Next /\ Serial']_vars

-----------------------------------------------------------------------------

\* Type invariant: rows, requests and deliveries have the shapes the handlers
\* of wallet, admin and webhooks give them.
TypeOK ==
    /\ StoreTypeOK
    /\ WalletTypeOK
    /\ AdminTypeOK
    /\ WebhooksTypeOK

\* A handler that is about to commit for u with a copy of u's balance that is
\* no longer the balance.
StaleBalance(u) ==
    \/ \E c \in Calls : /\ call[c].at = "write" /\ call[c].op = "instant"
                        /\ call[c].user = u /\ call[c].seen # balance[u]
                        /\ call'[c] = Idle
    \/ \E p \in Patches : /\ patch[p].at = "write"
                          /\ patch[p].user = u /\ patch[p].seen # balance[u]
                          /\ patch'[p] = NoPatch
    \/ \E h \in Hooks : /\ hook[h].at = "commit" /\ hook'[h] = NoHook
                        /\ tx[hook[h].t].user = u
                        /\ Outcome(hook[h]) \in {"credit", "debit", "refund"}
                        /\ hook[h].seen # balance[u]

\* A handler that is about to settle a row of u that another one has settled
\* since it was read.
StaleStatus(u) ==
    \E h \in Hooks : /\ hook[h].at = "commit" /\ hook'[h] = NoHook
                     /\ tx[hook[h].t].user = u
                     /\ Outcome(hook[h]) # "refund"
                     /\ tx[hook[h].t].txStatus # "pending"

\* The balance parts from the ledger only in a step that commits from a stale
\* copy of the balance or of the row's status.  Nothing else in the wallet, the
\* webhooks or the admin API creates or destroys money: these two races are
\* the complete list.
DriftNeedsStaleCommit ==
    [][\A u \in Users : Drift(u)' # Drift(u) => StaleBalance(u) \/ StaleStatus(u)]_vars

\* Every change of the status of a row that exists consumes exactly one event
\* key that was never recorded: replaying a recorded event, even while its
\* first delivery is still being handled, settles nothing twice.
SettlementConsumesEvent ==
    [][(\E t \in TxIds : tx[t] # NoRow /\ tx'[t] # tx[t])
           => \E k \in EventKeys \ webhookDelivery :
                  webhookDelivery' = webhookDelivery \cup {k}]_vars

\* The payment of row t is over, and no delivery that found it pending is still
\* on its way to write.
PaymentIsOver(t) ==
    /\ tx[t].txStatus \in {"completed", "failed"}
    /\ \A h \in Hooks :
          hook[h].at \in {"owner", "commit"} /\ hook[h].kind # "deposit-refunded"
              => hook[h].t # t

\* A settled payment changes again only in the hands of deliveries that overlapped
\* the one that settled it.  Once these are over its outcome is final: no event
\* that is repeated, late or of another kind is applied to it any more.
SettledPaymentsStay ==
    [][\A t \in TxIds : PaymentIsOver(t) => PaymentIsOver(t)' /\ tx'[t] = tx[t]]_vars

-----------------------------------------------------------------------------

\* Served one request at a time, the balance is the ledger: opening balance
\* plus completed rows, with nothing lost or counted twice.
LedgerExact == \A u \in Users : Drift(u) = 0

\* What the wallet promises its users, see AccountLedger.
Promise == INSTANCE AccountLedger WITH
    PaymentIds <- TxIds, funds <- balance, posted <- ledger,
    suspended <- accountFrozen, payment <- tx, Total <- SumFunction

\* Served one request at a time, every commit is one step of the account
\* ledger: a payment settles once and moves exactly its amount, a payout is
\* only requested within the available balance, a suspended user opens nothing.
KeepsPromise == Promise!Spec

\* "Pending withdrawals reduce available balance so users cannot over-request
\* while payouts are in flight": what is reserved when a withdrawal is accepted
\* stays within the balance.
NoOverRequest ==
    [][\A u \in Users : Reserved(u)' > Reserved(u) => Reserved(u)' <= balance[u]]_vars

\* "On failure, call withdraw-failed -> transaction marked failed; balance
\* unchanged": a withdrawal that ends as failed has not been paid from the
\* balance, so no row turns from completed to failed.
FailedLeavesBalance ==
    [][\A t \in TxIds : /\ tx[t] # NoRow /\ tx[t].type = "withdraw"
                        /\ tx[t].txStatus = "completed"
                        => tx'[t].txStatus # "failed"]_vars

=============================================================================
