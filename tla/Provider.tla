------------------------------ MODULE Provider ------------------------------
(***************************************************************************)
(* Payments with the outside parties that move real money: SentinelGate,    *)
(* where a deposit is captured and refunded, and the operator, whose payout *)
(* provider sends a withdrawal or gives up on it, and who may also settle a *)
(* deposit by hand.  Each tells the API by webhook, and a webhook is        *)
(* delivered late, again, beside itself, or in another order than it        *)
(* happened: an event once sent stays in `event`, and delivering it does    *)
(* not remove it.                                                           *)
(*                                                                          *)
(* The game writes the same balances: a call of placeBet or cashout is kept *)
(* in `game` from its read of the user row to its batch.  Rounds and rows   *)
(* of bets are left out here (Bets has them), and so is the admin API.      *)
(*                                                                          *)
(* A row of `transactions` has one checkout session, so the provider's      *)
(* sentinel_transaction_id is the row's id here.                            *)
(***************************************************************************)
EXTENDS Payments

CONSTANTS
    Games,      \* calls of placeBet and cashout that may be in flight at once
    Winnings    \* what a cashout may pay

VARIABLES
    game,       \* per call of the game: NoGame, or what it holds
    captured,   \* per row: what the customer has paid at the checkout
    refunded,   \* per row: what was given back of it
    payout,     \* per row: "none", "sent" or "returned"
    event,      \* webhooks sent
    clawedBack  \* per row: what refunds have debited from the player so far

outsideVars == <<captured, refunded, payout, event>>

providerVars == <<vars, game, outsideVars, clawedBack>>

Statuses == {"captured", "failed", "refunded", "operator-confirmed", "operator-failed",
             "payout-sent", "payout-failed"}

\* webhookEventKey: transaction and status, and nothing of the amount.  The
\* operator's ids are taken to be of the same form, one for each of the manual
\* routes, and apart from the provider's.
ASSUME ProviderAssumption ==
    /\ TxIds \X Statuses \subseteq EventKeys
    /\ Winnings \subseteq Nat

Events == [t : TxIds, status : Statuses, amount : Reported \cup {Unpaid}]

NoGame == [at |-> "idle"]

\* The user row is read; the batch changes the balance by amount.
GameStates == [at : {"batch"}, user : Users, amount : Int, seen : Decimals]

ProviderTypeOK ==
    /\ game \in [Games -> GameStates \cup {NoGame}]
    /\ captured \in [TxIds -> Reported \cup {0}]
    /\ refunded \in [TxIds -> Nat]
    /\ payout \in [TxIds -> {"none", "sent", "returned"}]
    /\ event \subseteq Events
    /\ clawedBack \in [TxIds -> Int]

ProviderInit ==
    /\ Init
    /\ game = [g \in Games |-> NoGame]
    /\ captured = [t \in TxIds |-> 0]
    /\ refunded = [t \in TxIds |-> 0]
    /\ payout = [t \in TxIds |-> "none"]
    /\ event = {}
    /\ clawedBack = [t \in TxIds |-> 0]

Webhook(t, status, amount) == [t |-> t, status |-> status, amount |-> amount]

Notify(t, status, amount) == event' = event \cup {Webhook(t, status, amount)}

-----------------------------------------------------------------------------
(* What happens outside *)

\* The customer pays at the checkout of a deposit: the amount, or another one.
\* The payload's amount is optional.
Capture(t) ==
    /\ tx[t] # NoRow /\ tx[t].type = "deposit" /\ captured[t] = 0
    /\ \E paid \in Reported, told \in Reported \cup {Unpaid} :
        /\ told \in {paid, Unpaid}
        /\ captured' = [captured EXCEPT ![t] = paid]
        /\ Notify(t, "captured", told)
    /\ UNCHANGED <<refunded, payout>>

\* The card is declined; the customer may try again at the same checkout.
Decline(t) ==
    /\ tx[t] # NoRow /\ tx[t].type = "deposit" /\ captured[t] = 0
    /\ Notify(t, "failed", Unpaid)
    /\ UNCHANGED <<captured, refunded, payout>>

\* All or part of what was captured is given back.
\* Bound: one refund of each amount, as a second would send the same webhook.
Refund(t) ==
    /\ \E amount \in Reported :
        /\ refunded[t] + amount <= captured[t]
        /\ Webhook(t, "refunded", amount) \notin event      \* bound
        /\ refunded' = [refunded EXCEPT ![t] = @ + amount]
        /\ Notify(t, "refunded", amount)
    /\ UNCHANGED <<captured, payout>>

ByHand == {"operator-confirmed", "operator-failed"}

\* The operator settles a deposit by hand; these routes take no amount.
\* Bound: once for each row.
Vouch(t) ==
    /\ tx[t] # NoRow /\ tx[t].type = "deposit"
    /\ \A e \in event : e.t = t => e.status \notin ByHand     \* bound
    /\ \E status \in ByHand : Notify(t, status, Unpaid)
    /\ UNCHANGED <<captured, refunded, payout>>

\* A pending withdrawal is paid out, or cannot be.
PayOutside(t) ==
    /\ tx[t].txStatus = "pending" /\ tx[t].type = "withdraw" /\ payout[t] = "none"
    /\ \/ /\ payout' = [payout EXCEPT ![t] = "sent"]
          /\ Notify(t, "payout-sent", Unpaid)
       \/ /\ payout' = [payout EXCEPT ![t] = "returned"]
          /\ Notify(t, "payout-failed", Unpaid)
    /\ UNCHANGED <<captured, refunded>>

OutsideStep(t) == Capture(t) \/ Decline(t) \/ Refund(t) \/ Vouch(t) \/ PayOutside(t)

-----------------------------------------------------------------------------
(* What the API is told *)

\* The controllers' choice of a handler.
KindOf(status) ==
    CASE status \in {"captured", "operator-confirmed"} -> "deposit-confirmed"
      [] status \in {"failed", "operator-failed"} -> "deposit-failed"
      [] status = "refunded" -> "deposit-refunded"
      [] status = "payout-sent" -> "withdraw-confirmed"
      [] status = "payout-failed" -> "withdraw-failed"

\* Mutation of Deliver: the event key is the transaction alone.
DeliverByTransaction(h, e) ==
    /\ LookUp(h, KindOf(e.status), <<e.t, "captured">>, e.t, e.amount)
    /\ UNCHANGED <<call, patch, game, clawedBack>>

\* An event reaches the API, for the first time or once more.
Deliver(h, e) ==
    /\ LookUp(h, KindOf(e.status), <<e.t, e.status>>, e.t, e.amount)
    /\ UNCHANGED <<call, patch, game, clawedBack>>

\* The handler of h goes on, to its next await or to its answer.
Progress(h) ==
    \/ ReadRow(h) \/ ReadOwner(h)
    \/ CreditDeposit(h) \/ DebitWithdrawal(h) \/ MarkFailed(h)
    \/ RefundDeposit(h) \/ SkipRefund(h)

\* A delivery is handled further.  What a refund debits is what its booked row
\* takes from the ledger.
Handle(h) ==
    /\ Progress(h) \/ AbortHook(h)
    /\ clawedBack' =
           LET r == hook[h]
               u == tx[r.t].user
           IN  IF r.kind = "deposit-refunded"
               THEN [clawedBack EXCEPT ![r.t] = @ + ledger[u] - ledger'[u]]
               ELSE clawedBack
    /\ UNCHANGED <<call, patch, game>>

-----------------------------------------------------------------------------
(* The game beside it *)

\* What a call may change u's balance by: a stake that the balance covers (the
\* part of it that pending withdrawals reserve is not left out), or winnings.
GameAmounts(u) == {-stake : stake \in {a \in Amounts : a <= balance[u]}} \cup Winnings

\* user.findUnique of placeBet and of cashout; frozen accounts are refused.
ReadGamePlayer(g) ==
    /\ game[g] = NoGame
    /\ \E u \in Users :
        /\ ~accountFrozen[u]
        /\ \E amount \in GameAmounts(u) :
               game' = [game EXCEPT ![g] = [at |-> "batch", user |-> u, amount |-> amount,
                                            seen |-> balance[u]]]
    /\ UNCHANGED storeVars

\* The batch of either: the balance read before less the stake, or with the
\* winnings, and the completed row.
CommitGame(g) ==
    /\ game[g].at = "batch"
    /\ Post(game[g].user, game[g].amount, game[g].seen + game[g].amount)
    /\ game' = [game EXCEPT ![g] = NoGame]
    /\ UNCHANGED accountFrozen

\* An existing bet, a rejected query, or a balance that overflows.
AbortGame(g) ==
    /\ game[g] # NoGame
    /\ game' = [game EXCEPT ![g] = NoGame]
    /\ UNCHANGED storeVars

GameNext ==
    /\ \E g \in Games : ReadGamePlayer(g) \/ CommitGame(g) \/ AbortGame(g)
    /\ UNCHANGED <<call, patch, hookVars, clawedBack>>

-----------------------------------------------------------------------------

\* Wallet requests.  A process that sends customers to a checkout credits no
\* deposit at once: see SimulatedMoneyStaysApart in Startup.
RequestNext ==
    /\ CallNext
    /\ \A c \in Calls : call'[c] # Idle => call'[c].op # "instant"
    /\ UNCHANGED <<game, clawedBack>>

ApiNext ==
    \/ \E h \in Hooks : Handle(h) \/ \E e \in event : Deliver(h, e)
    \/ RequestNext
    \/ GameNext

ProviderNext ==
    \/ ApiNext /\ UNCHANGED outsideVars
    \/ (\E t \in TxIds : OutsideStep(t)) /\ UNCHANGED <<vars, game, clawedBack>>

ProviderSpec == ProviderInit /\ [][ProviderNext]_providerVars

\* A handler that could go on does not: a query is rejected, the process dies.
\* A batch that the unique index or the column refuses is no failure.
Failure == \E h \in Hooks : AbortHook(h) /\ ~Progress(h) /\ ENABLED Progress(h)

DeliverOf(t, status) ==
    \E h \in Hooks, e \in event : e.t = t /\ e.status = status /\ Deliver(h, e)

\* Senders repeat a webhook until it is answered with 200; handlers end, by an
\* answer or an error; and failures do not go on forever.
FairProviderSpec ==
    /\ ProviderSpec
    /\ \A t \in TxIds, status \in {"captured", "refunded", "payout-sent", "payout-failed"} :
           SF_providerVars(DeliverOf(t, status) /\ UNCHANGED outsideVars)
    /\ \A h \in Hooks : WF_providerVars(Handle(h) /\ UNCHANGED outsideVars)
    /\ <>[][~Failure]_providerVars

-----------------------------------------------------------------------------

\* The event keys of the refunds that have been told.
RefundKeys == {<<e.t, e.status>> : e \in {f \in event : f.status = "refunded"}}

\* A webhook was sent that marks t failed: an attempt at the checkout was
\* declined, the operator gave it up, or another amount than its own was paid.
ToldToFail(t) ==
    \E e \in event :
        /\ e.t = t
        /\ \/ KindOf(e.status) = "deposit-failed"
           \/ e.status = "captured" /\ ~AmountsMatch(tx[t].amount, e.amount)

\* Type invariant of the outside parties' books and of the events they send.
OutsideTypeOK == TypeOK /\ ProviderTypeOK

\* What is paid is compared with the row only if the webhook says what was paid.
\* No order or repetition of webhooks completes a deposit otherwise than for its
\* amount, up to a cent, or on a word that named none: the operator's, or a
\* capture's without an amount.  A withdrawal is completed only if it was sent.
CompletedMovedOutside ==
    \A t \in TxIds : tx[t].txStatus = "completed" =>
        IF tx[t].type = "deposit"
        THEN \/ Webhook(t, "operator-confirmed", Unpaid) \in event
             \/ /\ captured[t] # 0
                /\ \/ Webhook(t, "captured", Unpaid) \in event
                   \/ captured[t] - tx[t].amount \in -1 .. 1
        ELSE payout[t] = "sent"

\* However often the webhooks of a refund arrive, and however many handlers
\* work on them at once, the player is never debited more than was given back.
ClawbackWithinRefunds == \A t \in TxIds : clawedBack[t] \in 0 .. refunded[t]

\* A game call that is about to commit for u with a copy of u's balance that is
\* no longer the balance.
StaleGame(u) ==
    \E g \in Games : /\ game[g] # NoGame /\ game'[g] = NoGame
                     /\ game[g].user = u /\ game[g].seen # balance[u]

\* With the game beside the webhooks, the balance parts from the ledger only in a
\* commit from a stale copy: of a handler, or of a stake or a payout.
DriftNeedsStaleHandler ==
    [][\A u \in Users : Drift(u)' # Drift(u)
           => StaleBalance(u) \/ StaleStatus(u) \/ StaleGame(u)]_providerVars

\* "SentinelGate POSTs to callback_url with status captured -> balance
\* credited": a capture that names no amount or the row's own is credited,
\* whatever else is delivered, unless another webhook says that the deposit
\* failed, or the balance has no room left.
CapturedIsCredited ==
    \A t \in TxIds :
        (\E e \in event : e.t = t /\ e.status = "captured")
        ~> \/ tx[t].txStatus = "completed"
           \/ ToldToFail(t)
           \/ tx[t] # NoRow /\ balance[tx[t].user] + tx[t].amount > MaxBalance

\* A payout that has been sent or has come back does not stay pending: the
\* funds it reserved are debited or free again.
PayoutsSettle ==
    \A t \in TxIds : payout[t] # "none" ~> tx[t].txStatus # "pending"

\* A refund that is told while its deposit is completed is debited, or finds an
\* empty balance.  Only a handler that read the row before it was completed
\* drops the refund, by consuming its event key, and only the late handler of
\* a webhook that fails the row can take it back from completed.
RefundIsDebited ==
    \A t \in TxIds :
        /\ tx[t].txStatus = "completed" /\ ~ToldToFail(t)
        /\ <<t, "refunded">> \in RefundKeys \ webhookDelivery
        /\ \A h \in Hooks : hook[h].at = "skip" => hook[h].t # t
        ~> \/ clawedBack[t] > 0
           \/ tx[t] # NoRow /\ balance[tx[t].user] = 0

=============================================================================
