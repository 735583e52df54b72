--------------------------- MODULE Provider_proofs ---------------------------
(***************************************************************************)
(* Proofs about Provider: what the handlers of webhooks do to rows and      *)
(* balances fits what happened outside, for any number of users, rows and   *)
(* deliveries at once, and any amounts.                                     *)
(***************************************************************************)
EXTENDS Provider, Payments_proofs

\* A webhook tells what happened, or part of it: amounts paid and given back are
\* not made up, and a payout is told once it has been sent or has come back.
EventTrue(e) ==
    CASE e.status = "captured" -> captured[e.t] # 0 /\ e.amount \in {captured[e.t], Unpaid}
      [] e.status = "refunded" -> e.amount \in Reported /\ e.amount <= refunded[e.t]
      [] e.status = "payout-sent" -> e.amount = Unpaid /\ payout[e.t] = "sent"
      [] e.status = "payout-failed" -> e.amount = Unpaid /\ payout[e.t] = "returned"
      [] OTHER -> e.amount = Unpaid

EventsTrue == \A e \in event : EventTrue(e)

\* What the handler of a delivery holds, it was told by an event that was sent.
Tells(e, r) ==
    /\ e.t = r.t /\ KindOf(e.status) = r.kind
    /\ <<e.t, e.status>> = r.key /\ e.amount = r.paid

HooksTellEvents == \A h \in Hooks : hook[h] # NoHook => \E e \in event : Tells(e, hook[h])

\* No more is given back than was captured.
RefundsWithinCaptures == \A t \in TxIds : refunded[t] \in 0 .. captured[t]

\* A deposit whose refund has not consumed its event has not been debited.
ClawbackConsumesEvent ==
    \A t \in TxIds : <<t, "refunded">> \notin webhookDelivery => clawedBack[t] = 0

\* A call of the game about to commit holds a balance that covers its stake.
GamesSeeFunds ==
    \A g \in Games : game[g] # NoGame => game[g].seen + game[g].amount >= 0

\* What has to have moved for the completed row of t.
MovedFor(t, row) ==
    IF row.type = "deposit"
    THEN \/ Webhook(t, "operator-confirmed", Unpaid) \in event
         \/ /\ captured[t] # 0
            /\ \/ Webhook(t, "captured", Unpaid) \in event
               \/ captured[t] - row.amount \in -1 .. 1
    ELSE payout[t] = "sent"

\* The inductive invariant, beside IInv of Payments.
OutsideIInv ==
    /\ ProviderTypeOK
    /\ GamesSeeFunds
    /\ EventsTrue
    /\ HooksTellEvents
    /\ RefundsWithinCaptures
    /\ CompletedMovedOutside
    /\ ClawbackConsumesEvent
    /\ ClawbackWithinRefunds

ProviderIInv == IInv /\ OutsideIInv

-----------------------------------------------------------------------------
(* Every step of the API is one that Payments knows, or one of the game. *)

\* The controllers choose one handler per status.
LEMMA KindPerStatus ==
    \A s \in Statuses :
        /\ KindOf(s) \in Kinds
        /\ KindOf(s) = "deposit-confirmed" <=> s \in {"captured", "operator-confirmed"}
        /\ KindOf(s) = "deposit-refunded" <=> s = "refunded"
        /\ KindOf(s) = "withdraw-confirmed" <=> s = "payout-sent"
BY DEF Statuses, KindOf, Kinds

LEMMA EventFields ==
    ASSUME ProviderTypeOK, NEW e \in event
    PROVE  /\ e \in Events
           /\ e.t \in TxIds /\ e.status \in Statuses
           /\ e.amount \in Reported \cup {Unpaid}
           /\ <<e.t, e.status>> \in EventKeys
<1>1. e \in Events
    BY DEF ProviderTypeOK
<1>2. e.t \in TxIds /\ e.status \in Statuses /\ e.amount \in Reported \cup {Unpaid}
    BY <1>1 DEF Events
<1>3. <<e.t, e.status>> \in EventKeys
    BY <1>2, ProviderAssumption DEF ProviderAssumption
<1>4. QED
    BY <1>1, <1>2, <1>3

\* An event reports an amount only where its handler asks for one.
LEMMA EventAmountFits ==
    ASSUME ProviderTypeOK, EventsTrue, NEW e \in event
    PROVE  e.amount \in PaidAmounts(KindOf(e.status))
<1>1. e.status \in Statuses /\ EventTrue(e) /\ e.amount \in Reported \cup {Unpaid}
    BY EventFields DEF EventsTrue
<1>2. CASE e.status \in {"captured", "operator-confirmed"}
    BY <1>1, <1>2 DEF KindOf, PaidAmounts
<1>3. CASE e.status \notin {"captured", "operator-confirmed"}
    BY <1>1, <1>3 DEF Statuses, EventTrue, KindOf, PaidAmounts
<1>4. QED
    BY <1>2, <1>3

LEMMA DeliverIsHookStep ==
    ASSUME ProviderTypeOK, EventsTrue, NEW h \in Hooks, NEW e \in event, Deliver(h, e)
    PROVE  HookStep(h) /\ UNCHANGED <<call, patch>>
<1>1. KindOf(e.status) \in Kinds /\ <<e.t, e.status>> \in EventKeys /\ e.t \in TxIds
    BY EventFields, KindPerStatus
<1>2. e.amount \in PaidAmounts(KindOf(e.status))
    BY EventAmountFits
<1>3. LookUp(h, KindOf(e.status), <<e.t, e.status>>, e.t, e.amount)
    BY DEF Deliver
<1>4. LookUpDelivery(h)
    BY <1>1, <1>2, <1>3 DEF LookUpDelivery
<1>5. QED
    BY <1>4 DEF HookStep, Deliver

LEMMA HandleIsHookStep ==
    ASSUME NEW h \in Hooks, Handle(h)
    PROVE  HookStep(h) /\ UNCHANGED <<call, patch>>
BY DEF Handle, Progress, HookStep

\* What a call of the game about to commit writes.
LEMMA GameWrites ==
    ASSUME ProviderTypeOK, GamesSeeFunds, NEW g \in Games, CommitGame(g)
    PROVE  /\ game[g].user \in Users /\ game[g].amount \in Int
           /\ game[g].seen \in Int /\ game[g].seen + game[g].amount \in Int
           /\ game[g].seen + game[g].amount >= 0
           /\ Post(game[g].user, game[g].amount, game[g].seen + game[g].amount)
<1>1. game[g] # NoGame /\ Post(game[g].user, game[g].amount, game[g].seen + game[g].amount)
    BY DEF CommitGame, NoGame
<1>2. game[g] \in GameStates
    BY <1>1 DEF ProviderTypeOK
<1>3. game[g].user \in Users /\ game[g].amount \in Int /\ game[g].seen \in Int
    BY <1>2 DEF GameStates, Decimals
<1>4. game[g].seen + game[g].amount >= 0
    BY <1>1 DEF GamesSeeFunds
<1>5. QED
    BY <1>1, <1>3, <1>4

\* A stake that the balance read before covers, or a payout, keeps what Payments
\* relies on.
LEMMA GameKeeps ==
    ASSUME IInv, ProviderTypeOK, GamesSeeFunds, GameNext
    PROVE  IInv'
<1>1. StoreInv /\ WalletInv /\ AdminInv /\ WebhooksInv
    BY IInvParts
<1>2. StoreInv' /\ RowsKept
  <2>1. ASSUME NEW g \in Games, CommitGame(g) PROVE StoreInv' /\ RowsKept
    <3>1. UNCHANGED accountFrozen
        BY <2>1 DEF CommitGame
    <3>2. QED
        BY <1>1, <2>1, <3>1, GameWrites, PostKeeps
  <2>2. CASE UNCHANGED storeVars
      BY <1>1, <2>2, StoreStays
  <2>3. QED
      BY <2>1, <2>2 DEF GameNext, ReadGamePlayer, AbortGame
<1>3. call' = call /\ patch' = patch /\ UNCHANGED hookVars
    BY DEF GameNext
<1>4. WalletInv' /\ AdminInv'
    BY <1>1, <1>3 DEF WalletInv, WalletTypeOK, CallsSeeFunds,
                AdminInv, AdminTypeOK, PatchesSeeFunds
<1>5. WebhooksInv'
    BY <1>1, <1>2, <1>3, HooksNameKeptRows
<1>6. QED
    BY <1>2, <1>4, <1>5 DEF IInv, TypeOK, StoreInv, WalletInv, AdminInv, WebhooksInv

\* The game's calls hold sums that they may write.
LEMMA GameStepSeesFunds ==
    ASSUME IInv, ProviderTypeOK, GamesSeeFunds, GameNext
    PROVE  /\ game' \in [Games -> GameStates \cup {NoGame}]
           /\ GamesSeeFunds'
<1>1. game \in [Games -> GameStates \cup {NoGame}]
    BY DEF ProviderTypeOK
<1>2. PICK g \in Games : ReadGamePlayer(g) \/ CommitGame(g) \/ AbortGame(g)
    BY DEF GameNext
<1>3. CASE ReadGamePlayer(g)
  <2> DEFINE State(u, amount) ==
                 [at |-> "batch", user |-> u, amount |-> amount, seen |-> balance[u]]
  <2>0. PICK u \in Users :
            \E amount \in GameAmounts(u) : game' = [game EXCEPT ![g] = State(u, amount)]
      BY <1>3 DEF ReadGamePlayer
  <2>1. PICK amount \in GameAmounts(u) : game' = [game EXCEPT ![g] = State(u, amount)]
      BY <2>0
  <2> DEFINE s == State(u, amount)
  <2>2. balance[u] \in Decimals /\ balance[u] \in Int /\ balance[u] >= 0
      BY DEF IInv, TypeOK, StoreTypeOK, NoOverdraft, Decimals
  <2>3. amount \in Int /\ balance[u] + amount >= 0
    <3>1. CASE amount \in Winnings
      <4>1. amount \in Nat
          BY <3>1, ProviderAssumption DEF ProviderAssumption
      <4>2. QED
          BY <2>2, <4>1
    <3>2. CASE amount \notin Winnings
      <4>1. PICK a \in Amounts : a <= balance[u] /\ amount = -a
          BY <2>1, <3>2 DEF GameAmounts
      <4>2. a \in Int
          BY AmountsPositive
      <4>3. QED
          BY <2>2, <4>1, <4>2
    <3>3. QED
        BY <3>1, <3>2
  <2>4. s \in GameStates /\ s.seen + s.amount >= 0
      BY <2>2, <2>3 DEF GameStates
  <2>5. \A f \in Games : game'[f] = IF f = g THEN s ELSE game[f]
      BY <1>1, <2>1
  <2>6. QED
      BY <1>1, <2>1, <2>4, <2>5 DEF GamesSeeFunds
<1>4. CASE game' = [game EXCEPT ![g] = NoGame]
    BY <1>1, <1>4 DEF GamesSeeFunds
<1>5. QED
    BY <1>2, <1>3, <1>4 DEF CommitGame, AbortGame

LEMMA ProviderStepIInv ==
    ASSUME ProviderIInv, [ProviderNext]_providerVars
    PROVE  IInv'
<1> USE DEF ProviderIInv, OutsideIInv
<1>1. ASSUME NEW h \in Hooks, Handle(h) PROVE IInv'
  <2>1. HookNext
      BY <1>1, HandleIsHookStep DEF HookNext
  <2>2. QED
      BY <2>1, StepIInv DEF Next
<1>2. ASSUME NEW h \in Hooks, NEW e \in event, Deliver(h, e) PROVE IInv'
  <2>1. HookNext
      BY <1>2, DeliverIsHookStep DEF HookNext
  <2>2. QED
      BY <2>1, StepIInv DEF Next
<1>3. CASE RequestNext
    BY <1>3, StepIInv DEF Next, RequestNext
<1>4. CASE GameNext
    BY <1>4, GameKeeps
<1>5. CASE UNCHANGED vars
    BY <1>5, StepIInv
<1>6. CASE UNCHANGED providerVars
    BY <1>6, <1>5 DEF providerVars
<1>7. QED
    BY <1>1, <1>2, <1>3, <1>4, <1>5, <1>6 DEF ProviderNext, ApiNext

-----------------------------------------------------------------------------
(* What happens outside: events stay true, and nothing inside changes. *)

\* Everything of OutsideIInv but the events and the books is about the inside,
\* and survives books that grow.
LEMMA OutsideStepKeepsInside ==
    ASSUME OutsideIInv, UNCHANGED <<vars, game, clawedBack>>,
           event \subseteq event',
           \A t \in TxIds : refunded[t] <= refunded'[t] /\ refunded'[t] \in 0 .. captured'[t],
           \A t \in TxIds : captured[t] # 0 => captured'[t] = captured[t],
           \A t \in TxIds : payout[t] = "sent" => payout'[t] = "sent"
    PROVE  /\ GamesSeeFunds'
           /\ HooksTellEvents' /\ RefundsWithinCaptures' /\ CompletedMovedOutside'
           /\ ClawbackConsumesEvent' /\ ClawbackWithinRefunds'
<1>1. /\ tx' = tx /\ hook' = hook /\ webhookDelivery' = webhookDelivery
      /\ game' = game /\ clawedBack' = clawedBack
    BY DEF vars, storeVars, hookVars
<1>2. HooksTellEvents'
    BY <1>1 DEF OutsideIInv, HooksTellEvents, Tells
<1>3. RefundsWithinCaptures' /\ ClawbackConsumesEvent'
    BY <1>1 DEF OutsideIInv, RefundsWithinCaptures, ClawbackConsumesEvent
<1>4. CompletedMovedOutside'
  <2>1. SUFFICES ASSUME NEW t \in TxIds, tx[t].txStatus = "completed"
                 PROVE  MovedFor(t, tx[t])'
      BY <1>1 DEF CompletedMovedOutside, MovedFor
  <2>2. MovedFor(t, tx[t])
      BY <2>1 DEF OutsideIInv, CompletedMovedOutside, MovedFor
  <2>3. QED
      BY <1>1, <2>2 DEF MovedFor, Webhook
<1>5. ClawbackWithinRefunds'
  <2>1. SUFFICES ASSUME NEW t \in TxIds
                 PROVE  clawedBack[t] \in 0 .. refunded'[t]
      BY <1>1 DEF ClawbackWithinRefunds
  <2>2. clawedBack[t] \in 0 .. refunded[t] /\ refunded[t] \in Nat
      BY DEF OutsideIInv, ClawbackWithinRefunds, ProviderTypeOK
  <2>3. refunded[t] <= refunded'[t] /\ refunded'[t] \in Int
      OBVIOUS
  <2>4. QED
      BY <2>2, <2>3
<1>6. GamesSeeFunds'
    BY <1>1 DEF OutsideIInv, GamesSeeFunds
<1>7. QED
    BY <1>2, <1>3, <1>4, <1>5, <1>6

LEMMA OutsideStepKeeps ==
    ASSUME ProviderIInv, NEW t \in TxIds, OutsideStep(t),
           UNCHANGED <<vars, game, clawedBack>>
    PROVE  OutsideIInv'
<1> USE DEF ProviderIInv
<1>1. /\ captured \in [TxIds -> Reported \cup {0}] /\ refunded \in [TxIds -> Nat]
      /\ payout \in [TxIds -> {"none", "sent", "returned"}]
      /\ event \subseteq Events /\ clawedBack \in [TxIds -> Int] /\ clawedBack' = clawedBack
      /\ game \in [Games -> GameStates \cup {NoGame}] /\ game' = game
    BY DEF OutsideIInv, ProviderTypeOK
<1>2. \A a \in Reported : a \in Nat /\ a > 0
    BY WebhooksAssumption DEF WebhooksAssumption
<1>3. \A s \in TxIds : captured[s] \in Nat
    BY <1>1, <1>2
<1>4. \A s \in TxIds : refunded[s] \in 0 .. captured[s]
    BY DEF OutsideIInv, RefundsWithinCaptures
<1>5. Unpaid = 0
    BY DEF Unpaid
<1>6. \A e \in event : e \in Events /\ e.t \in TxIds /\ e.status \in Statuses /\ EventTrue(e)
    BY EventFields DEF OutsideIInv, EventsTrue
<1>7. CASE Capture(t)
  <2>1. PICK paid \in Reported, told \in Reported \cup {Unpaid} :
            /\ told \in {paid, Unpaid}
            /\ captured' = [captured EXCEPT ![t] = paid]
            /\ Notify(t, "captured", told)
      BY <1>7 DEF Capture
  <2> DEFINE n == Webhook(t, "captured", told)
  <2>2. event' = event \cup {n} /\ refunded' = refunded /\ payout' = payout
      BY <1>7, <2>1 DEF Capture, Notify
  <2>3. n \in Events
      BY DEF Events, Statuses, Webhook
  <2>4. captured[t] = 0
      BY <1>7 DEF Capture
  <2>5. ProviderTypeOK'
      BY <1>1, <2>1, <2>2, <2>3 DEF ProviderTypeOK
  <2>6. \A s \in TxIds : captured'[s] = IF s = t THEN paid ELSE captured[s]
      BY <1>1, <2>1
  <2>7. EventsTrue'
    <3>1. EventTrue(n)'
        BY <1>2, <2>1, <2>6 DEF EventTrue, Webhook
    <3>2. ASSUME NEW e \in event PROVE EventTrue(e)'
      <4>1. e.status = "captured" => e.t # t
          BY <1>6, <2>4 DEF EventTrue
      <4>2. QED
          BY <1>6, <2>2, <2>6, <4>1 DEF EventTrue
    <3>3. QED
        BY <2>2, <3>1, <3>2 DEF EventsTrue
  <2>8. \A s \in TxIds : /\ refunded[s] <= refunded'[s] /\ refunded'[s] \in 0 .. captured'[s]
                         /\ captured[s] # 0 => captured'[s] = captured[s]
      BY <1>1, <1>2, <1>3, <1>4, <2>2, <2>4, <2>6
  <2>9. QED
      BY <2>2, <2>5, <2>7, <2>8, OutsideStepKeepsInside DEF OutsideIInv
<1>8. CASE Decline(t) \/ Vouch(t)
  <2>1. PICK status \in {"failed", "operator-confirmed", "operator-failed"} :
            Notify(t, status, Unpaid)
      BY <1>8 DEF Decline, Vouch, ByHand
  <2> DEFINE n == Webhook(t, status, Unpaid)
  <2>2. event' = event \cup {n} /\ UNCHANGED <<captured, refunded, payout>>
      BY <1>8, <2>1 DEF Decline, Vouch, Notify
  <2>3. n \in Events
      BY DEF Events, Statuses, Webhook
  <2>4. ProviderTypeOK'
      BY <1>1, <2>2, <2>3 DEF ProviderTypeOK
  <2>5. EventsTrue'
      BY <1>6, <2>2 DEF EventsTrue, EventTrue, Webhook
  <2>6. \A s \in TxIds : refunded[s] <= refunded'[s] /\ refunded'[s] \in 0 .. captured'[s]
      BY <1>1, <1>4, <2>2
  <2>7. QED
      BY <2>2, <2>4, <2>5, <2>6, OutsideStepKeepsInside DEF OutsideIInv
<1>9. CASE Refund(t)
  <2>1. PICK amount \in Reported :
            /\ refunded[t] + amount <= captured[t]
            /\ refunded' = [refunded EXCEPT ![t] = @ + amount]
            /\ Notify(t, "refunded", amount)
      BY <1>9 DEF Refund
  <2> DEFINE n == Webhook(t, "refunded", amount)
  <2>2. event' = event \cup {n} /\ captured' = captured /\ payout' = payout
      BY <1>9, <2>1 DEF Refund, Notify
  <2>3. n \in Events
      BY DEF Events, Statuses, Webhook
  <2>4. amount \in Nat
      BY <1>2
  <2>5. \A s \in TxIds : refunded'[s] = IF s = t THEN refunded[s] + amount ELSE refunded[s]
      BY <1>1, <2>1
  <2>6. ProviderTypeOK'
    <3>1. refunded[t] + amount \in Nat
        BY <1>1, <2>4
    <3>2. refunded' \in [TxIds -> Nat]
        BY <1>1, <2>1, <3>1
    <3>3. QED
        BY <1>1, <2>2, <2>3, <3>2 DEF ProviderTypeOK
  <2>7. \A s \in TxIds : refunded[s] <= refunded'[s] /\ refunded'[s] \in 0 .. captured'[s]
      BY <1>1, <1>3, <1>4, <2>1, <2>2, <2>4, <2>5
  <2>8. EventsTrue'
    <3>1. EventTrue(n)'
      <4>1. amount <= refunded'[t]
          BY <1>1, <2>4, <2>5
      <4>2. QED
          BY <4>1 DEF EventTrue, Webhook
    <3>2. ASSUME NEW e \in event PROVE EventTrue(e)'
      <4>1. e.status = "refunded" => e.amount <= refunded'[e.t]
        <5>1. SUFFICES ASSUME e.status = "refunded" PROVE e.amount <= refunded'[e.t]
            OBVIOUS
        <5>2. e.amount \in Reported /\ e.amount <= refunded[e.t] /\ e.t \in TxIds
            BY <1>6, <5>1 DEF EventTrue
        <5>3. e.amount \in Nat /\ refunded[e.t] \in Nat
            BY <1>1, <1>2, <5>2
        <5>4. QED
            BY <2>4, <2>5, <5>2, <5>3
      <4>2. QED
          BY <1>6, <2>2, <4>1 DEF EventTrue
    <3>3. QED
        BY <2>2, <3>1, <3>2 DEF EventsTrue
  <2>9. QED
      BY <2>2, <2>6, <2>7, <2>8, OutsideStepKeepsInside DEF OutsideIInv
<1>10. CASE PayOutside(t)
  <2>1. PICK s \in {"sent", "returned"} :
            /\ payout' = [payout EXCEPT ![t] = s]
            /\ Notify(t, IF s = "sent" THEN "payout-sent" ELSE "payout-failed", Unpaid)
      BY <1>10 DEF PayOutside
  <2> DEFINE n == Webhook(t, IF s = "sent" THEN "payout-sent" ELSE "payout-failed", Unpaid)
  <2>2. event' = event \cup {n} /\ captured' = captured /\ refunded' = refunded
      BY <1>10, <2>1 DEF PayOutside, Notify
  <2>3. n \in Events
      BY DEF Events, Statuses, Webhook
  <2>4. payout[t] = "none"
      BY <1>10 DEF PayOutside
  <2>5. ProviderTypeOK'
      BY <1>1, <2>1, <2>2, <2>3 DEF ProviderTypeOK
  <2>6. \A x \in TxIds : payout'[x] = IF x = t THEN s ELSE payout[x]
      BY <1>1, <2>1
  <2>7. EventsTrue'
    <3>1. EventTrue(n)'
        BY <2>6 DEF EventTrue, Webhook
    <3>2. ASSUME NEW e \in event PROVE EventTrue(e)'
      <4>1. e.status \in {"payout-sent", "payout-failed"} => e.t # t
          BY <1>6, <2>4 DEF EventTrue
      <4>2. QED
          BY <1>6, <2>2, <2>6, <4>1 DEF EventTrue
    <3>3. QED
        BY <2>2, <3>1, <3>2 DEF EventsTrue
  <2>8. \A x \in TxIds : refunded[x] <= refunded'[x] /\ refunded'[x] \in 0 .. captured'[x]
      BY <1>1, <1>4, <2>2
  <2>9. \A x \in TxIds : payout[x] = "sent" => payout'[x] = "sent"
      BY <2>4, <2>6
  <2>10. QED
      BY <2>2, <2>5, <2>7, <2>8, <2>9, OutsideStepKeepsInside DEF OutsideIInv
<1>11. QED
    BY <1>7, <1>8, <1>9, <1>10 DEF OutsideStep

-----------------------------------------------------------------------------
(* The API: rows are completed, and players debited, only for what was told. *)

\* A row that this step has completed stands for money that moved.
CompletesMoved ==
    \A t \in TxIds :
        tx'[t].txStatus = "completed" /\ tx'[t] # tx[t] => MovedFor(t, tx'[t])

\* A step of the API leaves the outside books alone.
LEMMA ApiKeepsBooks ==
    ASSUME OutsideIInv, UNCHANGED outsideVars, CompletesMoved
    PROVE  EventsTrue' /\ RefundsWithinCaptures' /\ CompletedMovedOutside'
<1>1. UNCHANGED <<captured, refunded, payout, event>>
    BY DEF outsideVars
<1>2. EventsTrue' /\ RefundsWithinCaptures'
    BY <1>1 DEF OutsideIInv, EventsTrue, EventTrue, RefundsWithinCaptures
<1>3. CompletedMovedOutside'
    BY <1>1 DEF OutsideIInv, CompletedMovedOutside, CompletesMoved, MovedFor
<1>4. QED
    BY <1>2, <1>3

\* What players were debited for refunds does not change unless a refund is booked.
LEMMA NoClawbackKeeps ==
    ASSUME OutsideIInv, UNCHANGED <<outsideVars, clawedBack>>,
           game' \in [Games -> GameStates \cup {NoGame}],
           webhookDelivery \subseteq webhookDelivery'
    PROVE  ClawbackConsumesEvent' /\ ClawbackWithinRefunds' /\ ProviderTypeOK'
<1>1. UNCHANGED <<captured, refunded, payout, event, clawedBack>>
    BY DEF outsideVars
<1>2. QED
    BY <1>1 DEF OutsideIInv, ProviderTypeOK, ClawbackConsumesEvent, ClawbackWithinRefunds

\* Whoever leaves the game's calls alone leaves what they hold alone.
LEMMA GameStays ==
    ASSUME OutsideIInv, game' = game
    PROVE  GamesSeeFunds' /\ game' \in [Games -> GameStates \cup {NoGame}]
BY DEF OutsideIInv, ProviderTypeOK, GamesSeeFunds

LEMMA DeliverKeeps ==
    ASSUME ProviderIInv, NEW h \in Hooks, NEW e \in event, Deliver(h, e),
           UNCHANGED outsideVars
    PROVE  OutsideIInv'
<1> USE DEF ProviderIInv
<1> DEFINE r == [at |-> "row", kind |-> KindOf(e.status), key |-> <<e.t, e.status>>,
                 t |-> e.t, paid |-> e.amount, seen |-> 0]
<1>1. /\ hook' = [hook EXCEPT ![h] = r]
      /\ webhookDelivery' = webhookDelivery /\ tx' = tx /\ clawedBack' = clawedBack
      /\ game' = game
    BY DEF Deliver, LookUp, storeVars
<1>2. event' = event
    BY DEF outsideVars
<1>3. HooksTellEvents'
  <2>1. Tells(e, r)
      BY DEF Tells
  <2>2. \A g \in Hooks : hook'[g] = IF g = h THEN r ELSE hook[g]
      BY <1>1 DEF IInv, TypeOK, WebhooksTypeOK
  <2>3. \A g \in Hooks : hook[g] # NoHook => \E f \in event : Tells(f, hook[g])
      BY DEF OutsideIInv, HooksTellEvents
  <2>4. \A g \in Hooks : hook'[g] # NoHook => \E f \in event : Tells(f, hook'[g])
      BY <2>1, <2>2, <2>3
  <2>5. QED
      BY <1>2, <2>4 DEF HooksTellEvents, Tells
<1>4. CompletesMoved
    BY <1>1 DEF CompletesMoved
<1>5. QED
    BY <1>1, <1>3, <1>4, GameStays, ApiKeepsBooks, NoClawbackKeeps DEF OutsideIInv

\* A wallet request creates a pending row, or none.
LEMMA CallKeeps ==
    ASSUME ProviderIInv, RequestNext, UNCHANGED outsideVars
    PROVE  OutsideIInv'
<1> USE DEF ProviderIInv
<1>1. hook' = hook /\ webhookDelivery' = webhookDelivery /\ event' = event
      /\ UNCHANGED <<game, clawedBack>> /\ UNCHANGED <<outsideVars, clawedBack>>
    BY DEF RequestNext, CallNext, hookVars, outsideVars
<1>2. HooksTellEvents'
    BY <1>1 DEF OutsideIInv, HooksTellEvents, Tells
<1>3. PICK c \in Calls : CallStep(c)
    BY DEF RequestNext, CallNext
<1>4. tx \in [TxIds -> Rows \cup {NoRow}]
    BY DEF IInv, TypeOK, StoreTypeOK
<1>5. CASE tx' = tx
    BY <1>1, <1>2, <1>5, GameStays, ApiKeepsBooks, NoClawbackKeeps DEF CompletesMoved, OutsideIInv
<1>6. CASE \E u, type, amount : CreatePending(u, type, amount)
  <2>1. PICK u, type, amount : CreatePending(u, type, amount)
      BY <1>6
  <2>2. PICK t \in TxIds : tx' = [tx EXCEPT ![t] = [user |-> u, type |-> type,
                                  amount |-> amount, txStatus |-> "pending"]]
      BY <2>1 DEF CreatePending
  <2>3. \A s \in TxIds : tx'[s] = tx[s] \/ tx'[s].txStatus = "pending"
      BY <1>4, <2>2
  <2>4. CompletesMoved
      BY <2>3 DEF CompletesMoved
  <2>5. QED
      BY <1>1, <1>2, <2>4, GameStays, ApiKeepsBooks, NoClawbackKeeps DEF OutsideIInv
<1>7. QED
    BY <1>3, <1>5, <1>6 DEF CallStep, ReadCaller, CheckAvailable, CreateDeposit,
        DepositInstantly, CreateWithdrawal, AbortCall, Post, storeVars

\* The game completes rows of its own only, and touches no other.
LEMMA GameKeepsOutside ==
    ASSUME ProviderIInv, GameNext, UNCHANGED outsideVars
    PROVE  OutsideIInv'
<1> USE DEF ProviderIInv
<1>1. /\ hook' = hook /\ webhookDelivery' = webhookDelivery /\ event' = event
      /\ tx' = tx /\ UNCHANGED <<outsideVars, clawedBack>>
    BY DEF GameNext, ReadGamePlayer, CommitGame, AbortGame, Post, storeVars, hookVars,
           outsideVars
<1>2. HooksTellEvents'
    BY <1>1 DEF OutsideIInv, HooksTellEvents, Tells
<1>3. CompletesMoved
    BY <1>1 DEF CompletesMoved
<1>4. game' \in [Games -> GameStates \cup {NoGame}] /\ GamesSeeFunds'
    BY GameStepSeesFunds DEF OutsideIInv
<1>5. QED
    BY <1>1, <1>2, <1>3, <1>4, ApiKeepsBooks, NoClawbackKeeps DEF OutsideIInv

\* An event that a handler was told is of the handler's kind and row.
LEMMA HookTold ==
    ASSUME ProviderIInv, NEW h \in Hooks, hook[h] # NoHook
    PROVE  \E e \in event :
               /\ Tells(e, hook[h]) /\ EventTrue(e)
               /\ e.t \in TxIds /\ e.status \in Statuses
<1>1. PICK e \in event : Tells(e, hook[h])
    BY DEF ProviderIInv, OutsideIInv, HooksTellEvents
<1>2. EventTrue(e) /\ e.t \in TxIds /\ e.status \in Statuses
    BY EventFields DEF ProviderIInv, OutsideIInv, EventsTrue
<1>3. QED
    BY <1>1, <1>2

\* A handler goes on with what it was told.
LEMMA HookStepTells ==
    ASSUME ProviderIInv, NEW h \in Hooks, Progress(h) \/ AbortHook(h), event' = event
    PROVE  HooksTellEvents'
<1> USE DEF ProviderIInv
<1>1. hook \in [Hooks -> HookStates \cup {NoHook}]
    BY DEF IInv, TypeOK, WebhooksTypeOK
<1>2. ASSUME NEW g \in Hooks, hook'[g] # NoHook
      PROVE  /\ hook[g] # NoHook
             /\ hook'[g].t = hook[g].t /\ hook'[g].kind = hook[g].kind
             /\ hook'[g].key = hook[g].key /\ hook'[g].paid = hook[g].paid
  <2>1. CASE ReadRow(h)
    <3>1. hook[h] \in HookStates
        BY <1>1, <2>1 DEF ReadRow, NoHook
    <3> DEFINE s == [hook[h] EXCEPT !.at = AfterRow(hook[h])]
    <3>2. hook' = [hook EXCEPT ![h] = NoHook] \/ hook' = [hook EXCEPT ![h] = s]
        BY <2>1 DEF ReadRow
    <3>3. s.t = hook[h].t /\ s.kind = hook[h].kind /\ s.key = hook[h].key /\ s.paid = hook[h].paid
        BY <3>1 DEF HookStates
    <3>4. hook[h] # NoHook
        BY <2>1 DEF ReadRow, NoHook
    <3>5. QED
        BY <1>1, <1>2, <3>2, <3>3, <3>4
  <2>2. CASE ReadOwner(h)
    <3>1. hook[h] \in HookStates
        BY <1>1, <2>2 DEF ReadOwner, NoHook
    <3>2. hook' = [hook EXCEPT ![h] = [hook[h] EXCEPT !.at = "commit",
                                                      !.seen = balance[tx[hook[h].t].user]]]
        BY <1>1, <2>2, <3>1 DEF ReadOwner, HookStates
    <3>3. QED
        BY <1>1, <1>2, <3>1, <3>2 DEF HookStates, NoHook
  <2>3. CASE hook' = [hook EXCEPT ![h] = NoHook]
      BY <1>1, <1>2, <2>3
  <2>4. QED
      BY <2>1, <2>2, <2>3 DEF Progress, CreditDeposit, DebitWithdrawal, MarkFailed,
         RefundDeposit, SkipRefund, AbortHook, RecordDelivery
<1>3. SUFFICES ASSUME NEW g \in Hooks, hook'[g] # NoHook
               PROVE  \E e \in event : Tells(e, hook'[g])
    BY DEF HooksTellEvents, Tells
<1>4. PICK e \in event : Tells(e, hook[g])
    BY <1>2, <1>3 DEF OutsideIInv, HooksTellEvents
<1>5. QED
    BY <1>2, <1>3, <1>4 DEF Tells

\* SetStatus leaves the other rows alone.
LEMMA SetStatusTouchesOneRow ==
    ASSUME StoreTypeOK, NEW t \in TxIds, NEW status, SetStatus(t, status),
           NEW s \in TxIds, tx'[s] # tx[s]
    PROVE  s = t /\ tx'[s] = [tx[t] EXCEPT !.txStatus = status]
BY DEF SetStatus, StoreTypeOK

\* A handler completes a row only when it was told that the money moved.
LEMMA HandlerCompletesMoved ==
    ASSUME ProviderIInv, NEW h \in Hooks, Progress(h) \/ AbortHook(h)
    PROVE  CompletesMoved
<1> USE DEF ProviderIInv
<1> DEFINE r == hook[h]
<1>1. StoreTypeOK /\ StoreInv /\ WebhooksInv
    BY IInvParts DEF StoreInv
<1>2. SUFFICES ASSUME NEW t \in TxIds, tx'[t].txStatus = "completed", tx'[t] # tx[t]
               PROVE  MovedFor(t, tx'[t])
    BY DEF CompletesMoved
<1>3. CASE CreditDeposit(h) \/ DebitWithdrawal(h)
  <2>1. r.at = "commit" /\ r # NoHook /\ SetStatus(r.t, "completed")
      BY <1>3 DEF CreditDeposit, DebitWithdrawal, NoHook
  <2>2. PICK e \in event : Tells(e, r) /\ EventTrue(e) /\ e.status \in Statuses
      BY <2>1, HookTold
  <2>3. r.t \in TxIds /\ SignedRow(tx[r.t]) /\ tx[r.t].type = SubjectType(r.kind)
      BY <1>1, <2>1, HookHolds DEF WebhooksInv, HooksNameRows
  <2>4. t = r.t /\ tx'[t] = [tx[r.t] EXCEPT !.txStatus = "completed"]
      BY <1>1, <1>2, <2>1, <2>3, SetStatusTouchesOneRow
  <2>5. tx'[t].type = tx[t].type /\ tx'[t].amount = tx[t].amount
      BY <2>3, <2>4 DEF SignedRow, Rows
  <2>6. CASE CreditDeposit(h)
    <3>1. r.kind = "deposit-confirmed" /\ AmountsMatch(AmountOf(r.t), r.paid)
        BY <2>6 DEF CreditDeposit, Outcome
    <3>2. e.status \in {"captured", "operator-confirmed"}
        BY <2>2, <3>1, KindPerStatus DEF Tells
    <3>3. e = Webhook(t, e.status, r.paid)
      <4>1. e \in Events /\ e.t = t /\ e.amount = r.paid
          BY <1>1, <2>2, <2>4, EventFields DEF Tells, OutsideIInv
      <4>2. QED
          BY <4>1 DEF Events, Webhook
    <3>4. tx'[t].type = "deposit" /\ tx'[t].amount = AmountOf(t)
      <4>1. tx[t].type = "deposit"
          BY <2>3, <2>4, <3>1 DEF SubjectType
      <4>2. AmountOf(t) = tx[t].amount
          BY <2>3, <2>4, <4>1 DEF AmountOf, SignedRow, Rows
      <4>3. QED
          BY <2>5, <4>1, <4>2
    <3>5. CASE e.status = "operator-confirmed"
      <4>1. r.paid = Unpaid
          BY <2>2, <3>5 DEF EventTrue, Tells
      <4>2. QED
          BY <3>3, <3>4, <3>5, <4>1 DEF MovedFor
    <3>6. CASE e.status = "captured"
      <4>1. captured[t] # 0 /\ r.paid \in {captured[t], Unpaid}
          BY <2>2, <2>4, <3>6 DEF EventTrue, Tells
      <4>2. CASE r.paid = Unpaid
          BY <3>3, <3>4, <3>6, <4>1, <4>2 DEF MovedFor
      <4>3. CASE r.paid # Unpaid
        <5>1. AmountsMatch(AmountOf(t), captured[t]) /\ captured[t] # Unpaid
            BY <2>4, <3>1, <4>1, <4>3
        <5>2. captured[t] - tx'[t].amount \in -1 .. 1
          <6>1. AmountOf(t) \in Int
              BY <2>3, <2>4 DEF AmountOf, SignedRow, Rows
          <6>2. captured[t] \in Int
            <7>1. captured[t] \in Reported
                BY <1>1, <2>3, <2>4, <4>1 DEF OutsideIInv, ProviderTypeOK
            <7>2. \A a \in Reported : a \in Int
                BY WebhooksAssumption DEF WebhooksAssumption
            <7>3. QED
                BY <7>1, <7>2
          <6>3. CASE captured[t] = AmountOf(t)
              BY <3>4, <6>1, <6>2, <6>3
          <6>4. CASE <<AmountOf(t), captured[t]>> \in CentOff
            <7>1. AmountOf(t) - captured[t] \in {-1, 1}
                BY <6>4, WebhooksAssumption DEF WebhooksAssumption
            <7>2. QED
                BY <3>4, <6>1, <6>2, <7>1
          <6>5. QED
              BY <5>1, <6>3, <6>4 DEF AmountsMatch
        <5>3. QED
            BY <3>4, <4>1, <5>2 DEF MovedFor
      <4>4. QED
          BY <4>2, <4>3
    <3>7. QED
        BY <3>2, <3>5, <3>6
  <2>7. CASE DebitWithdrawal(h)
    <3>1. r.kind = "withdraw-confirmed"
        BY <2>7 DEF DebitWithdrawal, Outcome
    <3>2. e.status = "payout-sent"
        BY <2>2, <3>1, KindPerStatus DEF Tells
    <3>3. payout[t] = "sent"
        BY <2>2, <2>4, <3>2 DEF EventTrue, Tells
    <3>4. tx[t].type = "withdraw"
        BY <2>3, <2>4, <3>1 DEF SubjectType
    <3>5. QED
        BY <2>5, <3>3, <3>4 DEF MovedFor
  <2>8. QED
      BY <1>3, <2>6, <2>7
<1>4. CASE MarkFailed(h)
  <2>1. r.at = "commit" /\ r # NoHook /\ SetStatus(r.t, "failed")
      BY <1>4 DEF MarkFailed, NoHook
  <2>2. r.t \in TxIds /\ SignedRow(tx[r.t])
      BY <1>1, <2>1, HookHolds
  <2>3. tx'[t] = [tx[r.t] EXCEPT !.txStatus = "failed"]
      BY <1>1, <1>2, <2>1, <2>2, SetStatusTouchesOneRow
  <2>4. tx'[t].txStatus = "failed"
      BY <2>2, <2>3 DEF SignedRow, Rows
  <2>5. QED
      BY <1>2, <2>4
<1>5. CASE tx' = tx
    BY <1>2, <1>5
<1>6. QED
    BY <1>3, <1>4, <1>5 DEF Progress, ReadRow, ReadOwner, RefundDeposit, SkipRefund,
        AbortHook, Post, storeVars

\* A refund that is booked debits at most what was given back, consumes its
\* event, and is the first of its row.
LEMMA RefundClawsBack ==
    ASSUME ProviderIInv, NEW h \in Hooks, RefundDeposit(h), Handle(h),
           UNCHANGED outsideVars
    PROVE  ClawbackConsumesEvent' /\ ClawbackWithinRefunds' /\ ProviderTypeOK'
<1> USE DEF ProviderIInv
<1> DEFINE r == hook[h]
           t == r.t
           u == tx[t].user
           debit == LesserOf(r.paid, r.seen)
<1>1. StoreInv /\ WebhooksInv
    BY IInvParts
<1>2. r.at = "commit" /\ r # NoHook /\ Outcome(r) = "refund"
    BY DEF RefundDeposit, NoHook
<1>3. t \in TxIds /\ u \in Users /\ r.seen \in Int /\ r.seen >= 0
    BY <1>1, <1>2, HookHolds
<1>4. r.kind = "deposit-refunded"
    BY <1>2 DEF Outcome
<1>5. PICK e \in event : Tells(e, r) /\ EventTrue(e) /\ e.status \in Statuses
    BY <1>2, HookTold
<1>6. e.status = "refunded"
    BY <1>4, <1>5, KindPerStatus DEF Tells
<1>7. r.key = <<t, "refunded">> /\ r.paid \in Reported /\ r.paid <= refunded[t]
    BY <1>5, <1>6 DEF Tells, EventTrue
<1>8. r.paid \in Nat /\ refunded[t] \in Nat /\ clawedBack \in [TxIds -> Int]
    BY <1>3, <1>7, WebhooksAssumption DEF WebhooksAssumption, OutsideIInv, ProviderTypeOK
<1>9. debit \in 0 .. refunded[t]
    BY <1>3, <1>7, <1>8 DEF LesserOf
<1>10. /\ r.key \notin webhookDelivery
       /\ webhookDelivery' = webhookDelivery \cup {r.key}
    BY DEF RefundDeposit, RecordDelivery
<1>11. clawedBack[t] = 0
    BY <1>3, <1>7, <1>10 DEF OutsideIInv, ClawbackConsumesEvent
<1>12. ledger[u] - ledger'[u] = debit
  <2>1. ledger' = [ledger EXCEPT ![u] = @ + (-debit)] /\ ledger \in [Users -> Int]
      BY <1>1 DEF RefundDeposit, Post, StoreInv, StoreTypeOK
  <2>2. QED
      BY <1>3, <1>9, <2>1
<1>13. clawedBack' = [clawedBack EXCEPT ![t] = debit]
  <2>1. clawedBack' = [clawedBack EXCEPT ![t] = clawedBack[t] + ledger[u] - ledger'[u]]
      BY <1>4 DEF Handle
  <2>2. clawedBack[t] + ledger[u] - ledger'[u] = debit
    <3>1. ledger[u] \in Int /\ ledger'[u] \in Int
        BY <1>1, <1>3, <1>9 DEF RefundDeposit, Post, StoreInv, StoreTypeOK
    <3>2. QED
        BY <1>11, <1>12, <3>1
  <2>3. QED
      BY <2>1, <2>2
<1>14. UNCHANGED <<captured, refunded, payout, event>> /\ game' = game
    BY DEF outsideVars, Handle
<1>15. \A s \in TxIds : clawedBack'[s] = IF s = t THEN debit ELSE clawedBack[s]
    BY <1>8, <1>13
<1>16. ClawbackWithinRefunds'
    BY <1>9, <1>14, <1>15 DEF OutsideIInv, ClawbackWithinRefunds
<1>17. ClawbackConsumesEvent'
    BY <1>7, <1>10, <1>15 DEF OutsideIInv, ClawbackConsumesEvent
<1>18. ProviderTypeOK'
    BY <1>3, <1>8, <1>9, <1>13, <1>14 DEF OutsideIInv, ProviderTypeOK
<1>19. QED
    BY <1>16, <1>17, <1>18

\* No other step of a refund's handler writes to the ledger.
LEMMA OtherStepClawsNothing ==
    ASSUME ProviderIInv, NEW h \in Hooks, Handle(h), ~RefundDeposit(h)
    PROVE  clawedBack' = clawedBack
<1> DEFINE r == hook[h]
<1>1. StoreInv /\ WebhooksInv /\ clawedBack \in [TxIds -> Int]
    BY IInvParts DEF ProviderIInv, OutsideIInv, ProviderTypeOK
<1>2. CASE r.kind # "deposit-refunded"
    BY <1>2 DEF Handle
<1>3. CASE r.kind = "deposit-refunded"
  <2>1. Outcome(r) = "refund"
      BY <1>3 DEF Outcome
  <2>2. ledger' = ledger
      BY <2>1 DEF Handle, Progress, ReadRow, ReadOwner, CreditDeposit, DebitWithdrawal,
                  MarkFailed, SkipRefund, AbortHook, storeVars
  <2>3. CASE r # NoHook
    <3>1. r.t \in TxIds /\ ledger[tx[r.t].user] \in Int
        BY <1>1, <2>3, HookHolds DEF StoreInv, StoreTypeOK
    <3>2. clawedBack[r.t] + ledger[tx[r.t].user] - ledger[tx[r.t].user] = clawedBack[r.t]
        BY <1>1, <3>1
    <3>3. QED
        BY <1>1, <1>3, <2>2, <3>1, <3>2 DEF Handle
  <2>4. CASE r = NoHook
      BY <2>4 DEF Handle, Progress, ReadRow, ReadOwner, CreditDeposit, DebitWithdrawal,
                  MarkFailed, SkipRefund, AbortHook, NoHook
  <2>5. QED
      BY <2>3, <2>4
<1>4. QED
    BY <1>2, <1>3

LEMMA HandleKeeps ==
    ASSUME ProviderIInv, NEW h \in Hooks, Handle(h), UNCHANGED outsideVars
    PROVE  OutsideIInv'
<1> USE DEF ProviderIInv
<1>1. (Progress(h) \/ AbortHook(h)) /\ event' = event /\ game' = game
    BY DEF Handle, outsideVars
<1>2. HooksTellEvents' /\ CompletesMoved
    BY <1>1, HookStepTells, HandlerCompletesMoved
<1>3. ClawbackConsumesEvent' /\ ClawbackWithinRefunds' /\ ProviderTypeOK'
  <2>1. CASE RefundDeposit(h)
      BY <2>1, RefundClawsBack
  <2>2. CASE ~RefundDeposit(h)
    <3>1. webhookDelivery \subseteq webhookDelivery'
        BY <1>1 DEF Progress, ReadRow, ReadOwner, CreditDeposit, DebitWithdrawal, MarkFailed,
                    RefundDeposit, SkipRefund, AbortHook, RecordDelivery
    <3>2. QED
        BY <1>1, <2>2, <3>1, GameStays, OtherStepClawsNothing, NoClawbackKeeps
  <2>3. QED
      BY <2>1, <2>2
<1>4. QED
    BY <1>1, <1>2, <1>3, GameStays, ApiKeepsBooks DEF OutsideIInv

-----------------------------------------------------------------------------
(* The invariant, and the properties that follow from it. *)

LEMMA ProviderInitIInv == ProviderInit => ProviderIInv
<1> SUFFICES ASSUME ProviderInit PROVE ProviderIInv
    OBVIOUS
<1>1. IInv
    BY InitIInv DEF ProviderInit
<1>2. hook = [h \in Hooks |-> NoHook] /\ tx = [t \in TxIds |-> NoRow]
    BY DEF ProviderInit, Init, WebhooksInit, StoreInit
<1>3. ProviderTypeOK /\ GamesSeeFunds
    BY DEF ProviderInit, ProviderTypeOK, GamesSeeFunds
<1>4. EventsTrue /\ HooksTellEvents
    BY <1>2 DEF ProviderInit, EventsTrue, HooksTellEvents
<1>5. CompletedMovedOutside
    BY <1>2 DEF CompletedMovedOutside, NoRow
<1>6. RefundsWithinCaptures /\ ClawbackConsumesEvent /\ ClawbackWithinRefunds
    BY DEF ProviderInit, RefundsWithinCaptures, ClawbackConsumesEvent, ClawbackWithinRefunds
<1>7. QED
    BY <1>1, <1>3, <1>4, <1>5, <1>6 DEF ProviderIInv, OutsideIInv

LEMMA ProviderStep == ProviderIInv /\ [ProviderNext]_providerVars => ProviderIInv'
<1> SUFFICES ASSUME ProviderIInv, [ProviderNext]_providerVars PROVE ProviderIInv'
    OBVIOUS
<1>1. IInv'
    BY ProviderStepIInv
<1>2. OutsideIInv'
  <2>1. CASE ApiNext /\ UNCHANGED outsideVars
    <3>1. ASSUME NEW h \in Hooks, Handle(h) PROVE OutsideIInv'
        BY <2>1, <3>1, HandleKeeps
    <3>2. ASSUME NEW h \in Hooks, NEW e \in event, Deliver(h, e) PROVE OutsideIInv'
        BY <2>1, <3>2, DeliverKeeps
    <3>3. CASE RequestNext
        BY <2>1, <3>3, CallKeeps
    <3>4. CASE GameNext
        BY <2>1, <3>4, GameKeepsOutside
    <3>5. QED
        BY <2>1, <3>1, <3>2, <3>3, <3>4 DEF ApiNext
  <2>2. ASSUME NEW t \in TxIds, OutsideStep(t), UNCHANGED <<vars, game, clawedBack>>
        PROVE  OutsideIInv'
      BY <2>2, OutsideStepKeeps
  <2>3. CASE UNCHANGED providerVars
    <3>1. /\ hook' = hook /\ webhookDelivery' = webhookDelivery /\ tx' = tx
          /\ UNCHANGED <<outsideVars, clawedBack>> /\ event' = event /\ game' = game
        BY <2>3 DEF providerVars, vars, storeVars, hookVars, outsideVars
    <3>2. HooksTellEvents' /\ CompletesMoved
        BY <3>1 DEF ProviderIInv, OutsideIInv, HooksTellEvents, Tells, CompletesMoved
    <3>3. QED
        BY <3>1, <3>2, GameStays, ApiKeepsBooks, NoClawbackKeeps DEF ProviderIInv, OutsideIInv
  <2>4. QED
      BY <2>1, <2>2, <2>3 DEF ProviderNext
<1>3. QED
    BY <1>1, <1>2 DEF ProviderIInv

\* What the API and the outside parties know of each other holds in every
\* reachable state, with what Payments needs and however players stake and win.
THEOREM OutsideInvariance == ProviderSpec => []ProviderIInv
BY ProviderInitIInv, ProviderStep, PTL DEF ProviderSpec

\* The books of the provider and of the payouts, the webhooks sent and all that
\* the API holds keep their shapes.
THEOREM OutsideTypeCorrectness == ProviderSpec => []OutsideTypeOK
<1>1. ProviderIInv => OutsideTypeOK
    BY DEF ProviderIInv, OutsideIInv, IInv, OutsideTypeOK
<1>2. QED
    BY <1>1, OutsideInvariance, PTL

\* However webhooks are repeated, reordered and handled at once, a deposit is
\* completed only for what the customer paid, up to a cent, or on a word of the
\* operator or of the provider that names no amount; a withdrawal only when the
\* payout was sent.
THEOREM CompletedForMoney == ProviderSpec => []CompletedMovedOutside
<1>1. ProviderIInv => CompletedMovedOutside
    BY DEF ProviderIInv, OutsideIInv
<1>2. QED
    BY <1>1, OutsideInvariance, PTL

\* No player is debited more for refunds of a deposit than its customer got back.
THEOREM ClawbackBounded == ProviderSpec => []ClawbackWithinRefunds
<1>1. ProviderIInv => ClawbackWithinRefunds
    BY DEF ProviderIInv, OutsideIInv
<1>2. QED
    BY <1>1, OutsideInvariance, PTL

\* A deposit that was completed on captures that told the amount, and on no word
\* of the operator's, has left its player no worse off than by the cent that
\* AMOUNT_TOLERANCE grants: its refunds take no more than that beyond the credit.
THEOREM DepositCostsAtMostACent ==
    ProviderSpec => [](\A t \in TxIds :
        /\ tx[t].txStatus = "completed" /\ tx[t].type = "deposit"
        /\ Webhook(t, "operator-confirmed", Unpaid) \notin event
        /\ Webhook(t, "captured", Unpaid) \notin event
        => clawedBack[t] <= tx[t].amount + 1)
<1> DEFINE Checked(t) ==
        /\ tx[t].txStatus = "completed" /\ tx[t].type = "deposit"
        /\ Webhook(t, "operator-confirmed", Unpaid) \notin event
        /\ Webhook(t, "captured", Unpaid) \notin event
<1>1. ASSUME ProviderIInv, NEW t \in TxIds, Checked(t)
      PROVE  clawedBack[t] <= tx[t].amount + 1
  <2>1. captured[t] - tx[t].amount \in -1 .. 1
      BY <1>1 DEF ProviderIInv, OutsideIInv, CompletedMovedOutside
  <2>2. captured[t] \in Nat
    <3>1. \A a \in Reported \cup {0} : a \in Nat
        BY WebhooksAssumption DEF WebhooksAssumption
    <3>2. captured[t] \in Reported \cup {0}
        BY <1>1 DEF ProviderIInv, OutsideIInv, ProviderTypeOK
    <3>3. QED
        BY <3>1, <3>2
  <2>3. tx[t].amount \in Int
    <3>1. tx[t] \in Rows
        BY <1>1 DEF ProviderIInv, IInv, TypeOK, StoreTypeOK, NoRow
    <3>2. QED
        BY <3>1 DEF Rows
  <2>4. clawedBack[t] \in 0 .. refunded[t] /\ refunded[t] \in 0 .. captured[t]
      BY <1>1 DEF ProviderIInv, OutsideIInv, ClawbackWithinRefunds, RefundsWithinCaptures
  <2>5. QED
      BY <2>1, <2>2, <2>3, <2>4
<1>2. ProviderIInv => \A t \in TxIds : Checked(t) => clawedBack[t] <= tx[t].amount + 1
    BY <1>1
<1>3. QED
    BY <1>2, OutsideInvariance, PTL

\* No order of webhooks, stakes and payouts, each written from a balance read
\* before, overdraws an account.
THEOREM NeverOverdrawnBesideGame == ProviderSpec => []NoOverdraft
<1>1. ProviderIInv => NoOverdraft
    BY DEF ProviderIInv, IInv
<1>2. QED
    BY <1>1, OutsideInvariance, PTL

\* With the game beside the webhooks, money is lost or created by three races and
\* no other: the two of Payments, and a stake or a payout from a stale balance.
THEOREM DriftHasThreeCausesBesideGame == ProviderSpec => DriftNeedsStaleHandler
<1>1. ASSUME ProviderIInv, [ProviderNext]_providerVars, NEW w \in Users, Drift(w)' # Drift(w)
      PROVE  StaleBalance(w) \/ StaleStatus(w) \/ StaleGame(w)
  <2>1. /\ StoreInv /\ WalletInv /\ WebhooksInv
        /\ ProviderTypeOK /\ EventsTrue /\ GamesSeeFunds
      BY <1>1, IInvParts DEF ProviderIInv, OutsideIInv
  <2>2. ASSUME NEW h \in Hooks, Handle(h) PROVE StaleBalance(w) \/ StaleStatus(w)
      BY <1>1, <2>1, <2>2, HandleIsHookStep, HookStepDrift
  <2>3. ASSUME NEW h \in Hooks, NEW e \in event, Deliver(h, e)
        PROVE  StaleBalance(w) \/ StaleStatus(w)
      BY <1>1, <2>1, <2>3, DeliverIsHookStep, HookStepDrift
  <2>4. CASE RequestNext
      BY <1>1, <2>1, <2>4, CallStepDrift DEF RequestNext, CallNext
  <2>5. CASE GameNext
    <3>1. ASSUME NEW g \in Games, CommitGame(g) PROVE StaleGame(w)
      <4> DEFINE u == game[g].user
                 amount == game[g].amount
                 seen == game[g].seen
      <4>1. /\ u \in Users /\ amount \in Int /\ seen \in Int
            /\ seen + amount \in Int /\ Post(u, amount, seen + amount)
          BY <2>1, <3>1, GameWrites
      <4>2. u = w /\ seen # balance[w]
        <5>1. CASE u # w \/ seen = balance[w]
            BY <1>1, <2>1, <4>1, <5>1, PostDrift DEF StoreInv
        <5>2. QED
            BY <5>1
      <4>3. game[g] # NoGame /\ game'[g] = NoGame
          BY <2>1, <3>1 DEF CommitGame, NoGame, ProviderTypeOK
      <4>4. QED
          BY <4>2, <4>3 DEF StaleGame
    <3>2. CASE UNCHANGED storeVars
        BY <1>1, <3>2 DEF storeVars, Drift
    <3>3. QED
        BY <2>5, <3>1, <3>2 DEF GameNext, ReadGamePlayer, AbortGame
  <2>6. CASE UNCHANGED storeVars
      BY <1>1, <2>6 DEF storeVars, Drift
  <2>7. QED
      BY <1>1, <2>2, <2>3, <2>4, <2>5, <2>6 DEF ProviderNext, ApiNext, providerVars, vars
<1>2. ProviderIInv /\ [ProviderNext]_providerVars =>
          [\A u \in Users : Drift(u)' # Drift(u)
               => StaleBalance(u) \/ StaleStatus(u) \/ StaleGame(u)]_providerVars
    BY <1>1
<1>3. QED
    BY <1>2, OutsideInvariance, PTL DEF ProviderSpec, DriftNeedsStaleHandler

=============================================================================
