# ProlinexGoal API: TLA+ models and proofs

The repository is the backend of a real-time crash game: players deposit money,
bet it on a round whose multiplier rises until it crashes at a point that is
drawn before the round opens, and withdraw what is left. It is a NestJS service
over PostgreSQL (Prisma), with REST and Socket.IO in front and a payment
provider's webhooks behind.

What can go wrong here is concurrency. There is one Node process and therefore
no data race inside a function, but every `await` lets other requests run, every
handler reads rows, decides, and writes later, and none of them takes a lock or
writes conditionally. The only atomic units are single SQL statements and
`prisma.$transaction([...])` batches. The models keep exactly that granularity:
one action per stretch of code between two awaits.

Paths below are relative to the repository (`src/src/...` in the map of
`PROJECT.json` is the repository's `src/...`).

## 1. Inventory

| Part | Source | State | Operations that change state | Interacts with |
|---|---|---|---|---|
| Database | `prisma/schema.prisma` | users, rounds, bets, transactions, webhook_deliveries, refresh_tokens | batches of the services | everything |
| Wallet | `src/wallet/wallet.service.ts` | none of its own | `deposit` (SentinelGate, legacy pending, legacy instant), `withdraw` | rows, SentinelGate |
| Payment webhooks | `src/wallet/payment-webhook.service.ts` and two controllers | none | deposit confirmed / failed / refunded, withdraw confirmed / failed | rows; called by SentinelGate and by the operator's payout provider |
| SentinelGate client | `src/wallet/sentinelgate.service.ts` | none | opens a checkout session (HTTP), verifies signatures, names events | Wallet, webhooks |
| Admin API | `src/admin/admin.service.ts` | none | `patchUser`: freeze, then balance delta | rows |
| Bets | `src/bets/bets.service.ts`, `bets.controller.ts` | none | `placeBet`, `cashout` | rows; called by REST, sockets and the engine |
| Rounds | `src/rounds/rounds.service.ts` | `serverSeed`, `currentMultiplier` | `rotateServerSeed`; fairness check (pure) | engine writes both fields, REST cashout reads one |
| Game engine | `src/game/game-engine.service.ts` | `phase`, `currentRound`, `multiplier`, timers | waiting, flying, ticks, auto-cashout sweeps, crash | Rounds, Bets, rows, events to the gateway |
| Game gateway | `src/game/game.gateway.ts` | rate-limit map, `client.data.userId` | `place_bet`, `cashout`, `join_round`; starts the engine | Bets, engine |
| Auth | `src/auth/*` | refresh_tokens | register, login, refresh (rotation), logout | users |
| Users, referrals | `src/users`, `src/referrals` | none | rename, referral code; statistics only read | users, bets |
| Leaderboard, lists | `src/leaderboard`, `getHistory`, `getUserBets` | none | none: two boards, `me`, paged lists | bets, rounds |
| Start-up | `src/main.ts`, `src/config` | `process.env` | `.env`, demo defaults, production guard | wallet, CORS of HTTP and sockets |
| Health, Redis adapter, scripts | `src/health`, `src/platform`, ... | none | none | |

What makes each part correct:

* **Wallet, webhooks, admin.** The balance is what was booked. A payment settles
  once, by one event, and moves its amount. No account is overdrawn. Withdrawals
  in flight never reserve more than the balance. A failed payout costs nothing.
* **Rounds and engine.** The seed is committed before betting and revealed after
  the crash, and the two fit. Rounds keep coming. Bets end with their round, and
  are lost only when it crashed.
* **Bets.** One bet per player and round, staked from available funds, paid at
  most once, at a multiplier the round has reached, an auto-cashout at its target
  or above; what was won stays won.
* **Provider.** A completed row stands for money that moved outside, and money
  that moved is booked, whatever becomes of the webhooks on their way.
* **Auth.** A refresh token is good for one rotation; a spent one never comes
  back; a name and a referral code belong to one account.
* **Reads.** The boards agree with the profiles; nobody who walks through pages
  misses an entry that stays.
* **Start-up.** A production process that serves has what card deposits need, and
  simulated money stays out of it.

The hard behaviours, each with its line, are the `hazards` of `PROJECT.json`.

## 2. Modules

```
Store ----+-- Wallet --+
          +-- Admin ---+-- Payments -+- MCPayments                         (TLC)
          +-- Webhooks-+      |      +- Payments_proofs -- Provider_proofs (TLAPS)
          |                   |      '- Provider -- MCProvider             (TLC)
          |                   '-- INSTANCE AccountLedger
          +-- Bets ---- GameEngine ---- Game -+- MCGame                    (TLC)
Rounds -------'                          |    '- Game_proofs               (TLAPS)
                                         '-- INSTANCE RoundBook

Sessions -+- MCSessions (TLC)          Boards -----+-- Boards_proofs       (TLAPS)
   |      '- Sessions_proofs (TLAPS)   RateLimit --+-- Edge_proofs         (TLAPS)
   '-- INSTANCE SessionBook            Startup ----+-- Edge_proofs
                                       CrashPoint -+-- CrashPoint_proofs   (TLAPS)
                                                   '-- MCPublic            (TLC)
```

* **Store**: `users.balance`, `account_frozen`, the transactions that are born
  pending, and `ledger`, per user the opening balance plus all completed
  rows (the rows born completed are never read by a handler, so their sum is all
  that remains of them). Its operators are the writes: `CreatePending`,
  `SetStatus`, `SetBalance`, `Post`.
* **Wallet**: `call[c]` is a request in flight, with the await it stands at and
  the balance it has read. `ReadCaller` is the head of both handlers,
  `CheckAvailable` the aggregate of `getAvailableBalance`, `CreateDeposit`,
  `DepositInstantly` and `CreateWithdrawal` the three ways to end, `AbortCall` any
  failure.
* **Admin**: `patch[p]`, the three writes and reads of `patchUser` one by one,
  so that a freeze whose delta is then refused stays (`WriteFreeze`, `AbortPatch`).
* **Webhooks**: `hook[h]` is a delivery being handled: event lookup, row, owner
  (`include: { user: true }` is a second query), batch. `RecordDelivery` is the
  insert under the unique index that heads every batch.
* **Payments**: the three over one store, all interleavings (`Spec`), or one
  request at a time (`SerialSpec`).
* **AccountLedger**: what this promises, as six indivisible events: open a
  deposit, request a payout, settle, reject, adjust, suspend.
* **Rounds**: rows of rounds, the seed (numbered by rotation; its hash stands
  for the seed it commits to) and `currentMultiplier`.
* **Bets**: `play[c]` is one call of `placeBet` or `cashout`, await by await,
  whoever made it.
* **GameEngine**: `phase` is the await or timer at which the loop stands (the
  module's head lists them); `sweep[s]` is one `checkAutoCashouts` that nobody
  waits for.
* **Game**: loop, sweeps, socket and REST calls in one process that may be
  killed and started again at any point (`Restart`).
* **RoundBook**: what the rounds promise: one after the other, each committed to a
  seed of its own, only the latest one moves on, and only its crash publishes a seed.
* **Provider**: `Payments` (without the admin API) and the two parties outside.
  `captured`, `refunded` and `payout` are their books, `event` the webhooks they
  have sent; a webhook stays in `event`, so that it may be delivered at any time,
  again, or while it is being handled. A capture may be of another amount than the row's and
  may be told without one (the payload's amount is optional); `Vouch` is the operator on the manual
  routes, which take none. `Deliver` is the controllers' choice of a
  handler and of an event key. `game[g]` is a call of `placeBet` or `cashout` from its
  read of the user row to its batch, so that a stake or a payout may commit from a stale balance
  beside a webhook; rounds and rows of bets are left to `Bets`. `RequestNext` has no instant
  deposits, which a process with a checkout does not make (`SimulatedMoneyStaysApart`).
* **Sessions**: `request[q]` is a register, login, refresh, logout or code request,
  await by await, over `account` and `refreshToken`. A token is its user and the
  second it was signed in, as the JWT's payload is; `session` tells which sign-in
  a row descends from and is not a column.
* **SessionBook**: what this promises: a session starts once, is handed from token
  to token and does not come back.
* **Boards**: bets and crashed rounds as they are shown. `reader` is one reader: `me`
  between its two queries, or a walk through the pages of a list.
* **RateLimit**: `enforceRateLimit` of one connection.
* **Sums**: lemmas about finite sets, the folds of the community modules, maxima and
  enumerations, on which the proofs about boards and reserves rest. It models nothing.
* **CrashPoint**: `generateCrashPoint` over prefixes `0..MaxPrefix` and a column that
  holds `MaxStored` cents.
* **Startup**: `main.ts` from its imports to the first request over the
  variables of the environment that decide something, and what deposits and CORS make of the result.

Definitions named as mutations (`SetBalanceUnlimited`, `FindTargeted`, ...) are
plausible mistakes in the definition they stand before. No specification uses
them; `PROJECT.json` pairs each with the property that finds it.

Abstractions. Money is counted in cents, as the columns keep it. The tolerance of `amountsMatch`
is one cent too, and whether a payment that is a cent off is within it is decided by the rounding of
a difference of doubles (10.01 is within 0.01 of 10, 20.01 is not of 20): `CentOff` is the set of
pairs that are, any set of pairs a cent apart, and the theorems hold for all of them. Multipliers are levels
`1..TopLevel`, 1 being 1.00, and a tick moves to any level that is not lower. The
first tick is above 1.00 because the clock of `startFlying` runs since the round
was opened (`game-engine.service.ts:80,122`). The crash point is any level.
In
`CrashPoint` the arithmetic is exact, where the code divides doubles: a result
near a half cent may round to the other side there, at the top of the range more often. `Boards` adds stakes and
winnings exactly where the code adds doubles, whose last bits may depend on the order of the rows; rows
have an order of creation, where equal milliseconds of `created_at` would leave it open; and the bounds
of the week and the query of its bets are taken from one `today`, so that the extra day which
`endOfWeek` allows never counts. `resetsAt` is left out. In `Startup` both JWT secrets
are one field, blank is unset, and a `.env` file says something of `NODE_ENV` and
`CORS_ORIGIN` only, the two that are read before and after it is loaded. Refusals before the first await change nothing and are not actions. A request
that fails, is rolled back or is lost with its connection is `Abort...`, enabled
wherever a request waits.

## 3. Runs

| Run | Specification | Shows |
|---|---|---|
| `payments_concurrent` | `Payments!Spec` | `TypeOK`; `NoOverdraft`: stale reads lose money but never overdraw; `DriftNeedsStaleCommit`: commits from a stale balance, and over a status changed meanwhile, are the only ways in which balance and ledger part; `SettlementConsumesEvent`: duplicates, even simultaneous ones, settle nothing twice; `SettledPaymentsStay`: a payment is settled again only by deliveries that overlapped its settlement |
| `payments_serial` | `Payments!SerialSpec` | `LedgerExact` and `KeepsPromise`: without interleaving, balance and ledger agree and every commit is one event of `AccountLedger` |
| `provider_delivery` | `Provider!FairProviderSpec` | `CompletedMovedOutside`: no order or repetition of webhooks completes a withdrawal that was not sent, or a deposit otherwise than for its amount, up to a cent, or on a word that named none (the operator's, or a capture's); `ClawbackWithinRefunds`: refunds debit at most what was given back; `CapturedIsCredited`, `PayoutsSettle`, `RefundIsDebited`: what moved outside reaches its row, with the exceptions the code makes spelled out in the properties |
| `access_safety` | `Sessions!Spec` | `OneTokenPerSession` and `KeepsBook`: the delete by id decides a race of refreshes, and every interleaving implements `SessionBook`; `SpentTokenStaysSpent`: a token never comes back once its second is over; `AccountsDistinct`; `CodeSettles`: a shown code changes only while requests that read none are in flight |
| `public_reads` | `MCPublic!PublicSpec` | `BoardsMatchProfiles` for every order of rows, `WeekIsThisWeek`, `MeIsConsistent`, `WalkMissesNothing`; `AtMostTwiceTheLimit`, `RefusedForCause`; `HouseEdge`, `RejectedOnlyAtTop`; `SimulatedMoneyStaysApart`, `GuardedDeploymentTakesCards`, `SocketsFollowHttp` for every environment |
| `game_safety` | `Game!Spec` | `TypeOK`, `NoOverdraft`, `DriftNeedsStaleCommit` for bets and payouts; `SeedRevealedAfterCrash` and `LostOnlyInCrashedRound` over restarts; `SweepPaysTarget` for late sweeps; `NoSecondBet`: a second bet in a round takes a call that looked before the first was there; `SettledBetsStay`: a bet is settled again only by cashouts and a crash that overlapped its settlement; `KeepsRoundBook`: rounds that a restart cut short stay as they are, and every interleaving implements `RoundBook` |
| `game_liveness` | `Game!FairSpec` | `StakedBetsSettle`, `RoundsKeepComing` |

Five runs show the code doing something else than a doc, comment or test says
(`findings` quotes both sides):

| Run | Violated | Shortest story |
|---|---|---|
| `payments_overrequest` | `NoOverRequest` | two `withdraw` calls both sum the pending rows, then both create one |
| `payments_failed_payout` | `FailedLeavesBalance` | `withdraw-failed` reads pending, `withdraw-confirmed` debits, `withdraw-failed` marks it failed |
| `game_won_overwritten` | `WonStaysWon` | a cashout passes its checks, the crash lists the bet, the cashout pays, the crash marks it lost |
| `game_rest_multiplier` | `PaysCurrentMultiplier` | round 2 takes off; before its first tick a cashout is paid round 1's last multiplier |
| `game_paid_twice` | `PaidOnce` | two cashouts read the bet active, both pay |

**Bounds.** `payments_concurrent`: one account, two payments, amounts 1 (reported
amounts 1 and 2, so that mismatches and refunds above the balance occur), balance
at most 2, two event keys, two wallet requests, two deliveries, one patch, of which any two
are in flight together (`Pairwise`). All the races above are between two handlers of
one account; a third handler adds only another reader. `payments_serial` has two users and
amounts 1 and 2, so that money booked to the wrong account would show. The game
runs have one player, two rounds (the earlier round is what stale
multipliers, late sweeps and restarts refer to), levels to 3, two calls and one
sweep. In `game_safety` the player has two bets: a stake races another stake of the same balance, which
must not overdraw it, two bets of one round come from two calls that both looked before, and
a stake races a payout. `TwoBets` plays a second bet out in the first round of the process,
which crashes at the level below the top and its targets are below the top too; elsewhere the step that creates it is
checked and not followed. `LastRoundShort` has the last round crash below the top.
`game_liveness` and the runs that refute a claim have one bet. `MaxBalance` and `MaxPosted` 2 are reached, so that a payout that does
not fit is exercised. `SeedBound` allows restarts at the expense of rounds: a restart may
fall at every point of a round. `game_liveness` has one call and no restart.
`provider_delivery`: one row of two cents, for which a customer may pay one, which
is a cent short and within the tolerance (`CentShort`), or four, which is not, and get back
the whole or a part; told with the amount or without. Two handlers, so that every pair of webhooks of
the row may overlap, and one call of the game, so that a stake or winnings may be
committed from a balance read before a webhook's batch, and may take what a payout or a refund needs;
`MaxPosted` leaves room for both. An event of one content is in `event` once however often it
is sent, and delivered any number of times; hence one refund of each amount (`Refund`), and the
operator settles a row once (`Vouch`). `access_safety`: two accounts, names, codes, rows, sign-ins and
requests, and a clock of three seconds with the row's life below the JWT's: two requests are what a race
takes, and two tokens of one second, or of two, are what equal strings take.
`public_reads` explores its four components one at a time: two bets of two players
over two weeks of two days, pages of one entry, so that every shift of a page occurs; three windows of a limit
of two; all 256 prefixes of eight bits; every environment. Symmetry is used only in the runs whose properties name no element, and never in
a liveness run. `MaxRounds`, `MaxPosted` and the number of sweeps are guards that
the code does not have; each is marked as a bound in its module.

**Deadlock** is not checked: with all rounds played and nobody calling, the bounded
system may stop.

**Fairness** (`FairSpec`). Weak fairness of the loop: Node fires its timers, and
its queries are answered (one that is not ends the process, which is `Restart`, and
then nothing is promised). Weak fairness of each sweep: its queries are answered or
rejected, and `checkAutoCashouts` catches what `cashout` throws. Strong fairness
of `Rise`, a tick that raises the multiplier: `exp(0.06 t)` rises without bound.
It is strong because a tick of the model waits for a free sweep slot, which the
code does not. Players are assumed to do nothing.

`FairProviderSpec`: strong fairness of the delivery of every capture, refund and payout
event, since senders repeat a webhook until it is answered with 200 (strong, because
handlers are busy in between), and none for a declined attempt or the operator's word, of which
nothing is to follow; weak fairness of every handler, since queries
are answered or rejected; and `Failure`, a handler ended by a rejected query or a
stopped process, happens finitely often: a provider that is answered with an error
for ever learns nothing. A batch that the unique index or the column refuses is no
such failure. `CapturedIsCredited` therefore excepts a balance without room, and
both it and `RefundIsDebited` a deposit that was told to fail (`ToldToFail`): an attempt was
declined, the operator gave it up, or a capture named another amount. Handlers of such webhooks that
read the row pending overwrite whatever it has become (`payment-webhook.service.ts:54,103`).

## 4. Proofs

Eight modules hold what TLAPS has proved, for all values of the constants; `Sums` is
a library of lemmas. Every safety property of the passing runs is among the theorems,
and a few that no run checks: the type invariants of `Provider`, `Boards` and `CrashPoint`
(`OutsideTypeOK`, `BoardsTypeOK`, `OutcomeOK`), and corollaries of a refinement
(`SeedsStaySecret` of `KeepsRoundBook`, `NoOverRequest` under `SerialSpec` of
`KeepsPromise`), and what `Provider` keeps of Payments with the game beside it: `NoOverdraft`,
`DriftNeedsStaleHandler` and `DepositCostsAtMostACent`.

| Module | Theorem | Statement |
|---|---|---|
| `Payments_proofs` | `Invariance` | `Spec => []IInv` |
| | `TypeCorrectness` | `Spec => []TypeOK` |
| | `NeverOverdrawn` | `Spec => []NoOverdraft` |
| | `DriftHasTwoCauses` | `Spec => DriftNeedsStaleCommit` |
| | `EventsSettleOnce` | `Spec => SettlementConsumesEvent` |
| | `SettledForGood` | `Spec => SettledPaymentsStay` |
| | `SeriallyExact` | `SerialSpec => []LedgerExact` |
| | `SeriallyKeepsPromise` | `SerialSpec => KeepsPromise`, the refinement of `AccountLedger` |
| | `SeriallyNeverOverRequested` | `SerialSpec => NoOverRequest` |
| `Provider_proofs` | `OutsideInvariance` | `ProviderSpec => []ProviderIInv` |
| | `OutsideTypeCorrectness` | `ProviderSpec => []OutsideTypeOK` |
| | `CompletedForMoney` | `ProviderSpec => []CompletedMovedOutside` |
| | `ClawbackBounded` | `ProviderSpec => []ClawbackWithinRefunds` |
| | `DepositCostsAtMostACent` | refunds of a completed deposit whose captures told the amount, and which nobody settled by hand, take at most a cent more than it credited |
| | `NeverOverdrawnBesideGame` | `ProviderSpec => []NoOverdraft` |
| | `DriftHasThreeCausesBesideGame` | `ProviderSpec => DriftNeedsStaleHandler` |
| `Game_proofs` | `Invariance` | `Spec => []IInv` |
| | `TypeCorrectness` | `Spec => []TypeOK` |
| | `SeedsRevealed` | `Spec => []SeedRevealedAfterCrash` |
| | `LostOnlyAfterCrash` | `Spec => []LostOnlyInCrashedRound` |
| | `NeverOverdrawn` | `Spec => []NoOverdraft` |
| | `SweepsPayTargets` | `Spec => SweepPaysTarget` |
| | `DriftHasOneCause` | `Spec => DriftNeedsStaleCommit` |
| | `OneBetPerRound` | `Spec => NoSecondBet` |
| | `SettledForGood` | `Spec => SettledBetsStay` |
| | `SeedsSecret` | `Spec => []SeedsStaySecret` |
| | `GameKeepsRoundBook` | `Spec => KeepsRoundBook`, the refinement of `RoundBook` |
| `Sessions_proofs` | `Invariance` | `Spec => []IInv` |
| | `TypeCorrectness` | `Spec => []TypeOK` |
| | `OneBearer` | `Spec => []OneTokenPerSession` |
| | `NeverTwoOfOneName` | `Spec => []AccountsDistinct` |
| | `CodesAreFinal` | `Spec => CodeSettles` |
| | `SpentForGood` | `Spec => SpentTokenStaysSpent` |
| | `SessionsKeepBook` | `Spec => KeepsBook`, the refinement of `SessionBook` |
| `CrashPoint_proofs` | `OneDraw` | `CrashPointSpec => []IInv` |
| | `OutcomeWellFormed` | `CrashPointSpec => []OutcomeOK` |
| | `HouseKeepsEdge` | `CrashPointSpec => []HouseEdge` |
| | `OnlyTopRejected` | `CrashPointSpec => []RejectedOnlyAtTop` |
| `Boards_proofs` | `BoardsInvariance` | `Spec => []BoardsIInv` |
| | `BoardsTypeCorrectness` | `Spec => []BoardsTypeOK` |
| | `BoardsAgree` | `Spec => []BoardsMatchProfiles` |
| | `WeekCounted` | `Spec => []WeekIsThisWeek` |
| | `MeNeverContradicts` | `Spec => []MeIsConsistent` |
| | `WalksMissNothing` | `Spec => []WalkMissesNothing` |
| `Edge_proofs` | `WindowsKept` | `LimitSpec => []LimitIInv` |
| | `SpansBounded` | `LimitSpec => []AtMostTwiceTheLimit` |
| | `RefusalsHaveCause` | `LimitSpec => []RefusedForCause` |
| | `StartupInvariance` | `StartupSpec => []StartupIInv` |
| | `SimulationApart` | `StartupSpec => []SimulatedMoneyStaysApart` |
| | `GuardSuffices` | `StartupSpec => []GuardedDeploymentTakesCards` |
| | `SocketsAgree` | `StartupSpec => []SocketsFollowHttp` |

### Payments

Assumed: `StoreAssumption` (amounts are positive integers, the bounds natural)
and `WebhooksAssumption` (reported amounts are positive, and the two amounts of a pair in
`CentOff` are a cent apart).

`TypeOK` and `NoOverdraft` are not inductive. A debit writes `seen - amount`, so
it keeps the balance from being negative only if `amount` is the positive amount
of a row that exists and is a withdrawal, and `seen` was not negative. Hence
`IInv` adds `RowsSigned` (deposits are positive, withdrawals negative),
`HooksNameRows` (a delivery's row exists, and once read is of the type its handler
insists on) and `CallsSeeFunds`, `PatchesSeeFunds`, `HooksSeeFunds` (a copied balance was a
balance). TLC checked `IInv` on the instance of `payments_concurrent` before it
was proved. The proof is by component: `IInv` is the conjunction of `StoreInv`,
`WalletInv`, `AdminInv` and `WebhooksInv` (`IInvParts`); each of the store's
writes keeps `StoreInv` and what other handlers know of their rows (`CreatePendingKeeps`,
`SetStatusKeeps`, `PostKeeps`); and each handler's step keeps its own
part (`CallStepKeeps`, `PatchStepKeeps`, `HookStepKeeps`). `DriftHasTwoCauses`
computes the drift of each write (`PostDrift`, `SettleDrift`, `FailDrift`): a commit
whose copy is current and whose row is pending changes balance and ledger alike.

The serial theorems rest on `SerialInv`: `IInv`, `Serial` (at most one request is
in flight) and `CopiesCurrent` (what a handler in flight has read still holds: the
balance it copied is the balance, its row is pending, the funds it found available
are available). `Serial` alone says nothing of copies, and `CopiesCurrent` is kept
only because no other handler can write in between (`CallAlone`, `PatchAlone`,
`HookAlone`). With it, `SeriallyExact` is a corollary of `DriftHasTwoCauses`: both
of its causes are excluded (`CurrentMeansNotStale`). For `SeriallyKeepsPromise`
each write of the store is shown to be an event of the ledger when its copy is
current (`CreateOpens`, `PostAdjusts`, `CompletionSettles`, `FailureRejects`,
`FreezeSuspends`), every other step to change nothing the ledger knows
(`StoreStutters`). `AccountLedger` takes its sum as a constant operator `Total(_)`,
which `Payments` instantiates with the fold that `Reserved` uses: the proof needs the
two sums to be of one function, never what a sum is.

`SettledPaymentsStay` is an action property of two facts that protect each other: the
row is settled, and no delivery is left that has read it pending. A delivery
that comes later reads the settled row and goes no further (`AfterRow`). Only a refund
does, and it leaves the row alone: it debits the balance by a row of its own.

`NoOverRequest` does need what a sum is. The aggregate of `getAvailableBalance` is a
fold over the pending withdrawals of a user; `ReservedIsTotal` shows it to be `Total`
of `Sums`, since rows are finitely many at any time (`RowsFinite`: every statement
creates one at most). `ReserveGrowth` then shows that a reserve grows by the creation of
a withdrawal only, by its amount: other writes remove a lien or leave all as they are.
Served serially that request's copies are current, and its check is the claim.

### Provider

Assumed: besides those of Payments, `ProviderAssumption`, that pairs of a row and a status
are event keys and that winnings are natural. `ProviderIInv` is `IInv` of Payments and `OutsideIInv`.
`CompletedMovedOutside` alone says nothing of a handler that is about to complete a row:
`EventsTrue` (a webhook tells what happened outside, and the books it tells of only
grow) and `HooksTellEvents` (what a handler holds it was told by an event that was
sent) do. `ClawbackConsumesEvent` is what keeps a repeated refund from debiting again:
nothing has been taken while its event is unconsumed, and the batch that takes
consumes it. Steps of handlers are those of Payments (`DeliverIsHookStep`,
`HandleIsHookStep`), so that Payments' lemmas serve again. A game call's batch is kept from
overdrawing by `GamesSeeFunds` (the balance it has read covers its stake), which no write of
another handler can disturb since it speaks of the copy alone (`GameKeeps`,
`GameStepSeesFunds`, `GameKeepsOutside`).

Which payments complete a row is said by `CompletedMovedOutside` as the code has it: a capture that names
no amount is compared with nothing (`payment-webhook.service.ts:45`), and neither are the manual routes. `MovedFor` is the same of a
handler that is about to complete. A row completed unchecked may have been paid any
amount, and refunds of the excess may then take more than it credited, down to an empty
balance; `DepositCostsAtMostACent` therefore assumes that every capture named its amount (`Checked`) and
shows that a cent is all that refunds may then cost the player.

### Game

Assumed: `StoreAssumption`, `RoundsAssumption`, and `BetsAssumption`, that a call of
a player and a sweep are not one caller. None of `SweepPaysTarget`, `LostOnlyInCrashedRound`
and `NoOverdraft` is inductive. A sweep looks for bets one await after the tick that
called it, and calls `cashout` for each later still, when the round may have crashed and the
next one may be flying at a lower multiplier. `LoopInRound` ties the loop's phase to
the status and the hash of its round's row; `PayableAt` is what survives the awaits: the
round has crashed, and `cashout` will refuse, or it flies at the level or above, since
the multiplier falls only when a round takes off. `SweepsReachTargets` keeps this of a
sweep, `SweepCallsReachTargets` of the cashout it has called. `LosingInRound` does the
same for the bets that `crash` has listed, and `CallsFunded` for what a call has
read of a balance. The steps are proved per component (loop, sweep, call), each with
a lemma per conjunct it can disturb.

`SeedsStaySecret` (no seed was published with another round before its own has crashed)
and `KeepsRoundBook` rest on `BookInv`: hashes of rounds are apart and
none is above the present seed (`SeedsOfTheirOwn`), with the one case in which it is
strictly below, between the rotation and the insert; and the round that the loop is in is the last one
(`LoopInLastRound`), which a restart makes vacuous by leaving the loop without a round.
A seed stands for 32 random bytes, and that two of them differ, as that a hash commits
to one, is in the model (`Rounds`), not proved.

### Sessions

Assumed: `SessionsAssumption`. `OneTokenPerSession` speaks of rows and requests at
once; `RowsApart`, `RequestsApart` and `RowsApartFromRequests` take it apart by the
kind of bearer. They are kept by a refresh only because a request that stands before the
delete knows the session of the row it names as long as that row exists
(`SpendsWhatItFound`), and by a sign-in only because bearers descend from opened
sessions (`BearersStarted`). `ClockBounds` (no token is younger than the clock) gives
`SpentTokenStaysSpent`: new tokens carry the present second. For `SessionsKeepBook` the
book's token is the token of the session's only bearer (`HandIsBearers`), and
each statement is shown to be a sign-in, a rotation, an end or a stutter: a logout
ends all sessions that hold the same string.

### CrashPoint

Assumed: `CrashPointAssumption`. `OneDraw` says that the outcome is that of some prefix.
`HouseKeepsEdge` bounds the number of prefixes that reach a level by arithmetic alone:
a rounded quotient that reaches `l` has `2 l - 1` half divisors below its dividend
(`QuotientReaches`), so that at most `194/(2 l - 1)` of the range reaches it, and
`l > 100` cents makes this `97.5 / l` percent of a stake at most. The theorem holds for the
32 bits of the code, of which TLC checks eight.

### Boards

Assumed: `BoardsAssumption`. The boards are folds over sets in whatever order rows
come, and a fold has no value for the provers but through its recursion.
`Total(w, S)` therefore gives sums a closed form, the number of units `<<x, k>>` with
`k` below `w[x]`, and `SumIsTotal` shows that the fold computes it, using that two
functions on the subsets of a finite set which start alike and grow alike agree
(`SubsetsAgree`). `EntryOf` is the entry that a set of bets amounts to; board and profile
are both shown to be it. `MeIsConsistent` needs what the first query of `me` leaves for
the second: what it has counted of the week is counted of all time as long as those
bets are left alone. `WalkInv` is why a walk misses nothing: an entry that was
not shown yet has at least as many entries ahead of it as the pages passed have places, in a list that may
only have grown at its head.

### RateLimit and Startup

`AtMostTwiceTheLimit` is about the history of a connection, of which the code keeps a
counter and the start of a window. `Windows(w)` gives the accepted messages the windows they
were counted in; the invariant says that there is such a `w`, and that the entry
knows the last of its windows. A span as long as a window meets two windows at most, since
a new one opens only after the old one is over. `StartupIInv` follows the environment
through `main.ts`: origins that were given outlive every default (`GivenOriginsStay`), the
gateway's decorator has read them (`SocketsFollowGiven`), and nothing changes the
environment after the guard has passed it (`ServingPasses`).

### Only model-checked

Liveness: `StakedBetsSettle` and `RoundsKeepComing` of the game, `CapturedIsCredited`,
`PayoutsSettle` and `RefundIsDebited` of the provider. Liveness under fairness and
`ENABLED`, which `FairProviderSpec` uses, are out of the prover's reach. The five
properties that runs refute have no theorem; `NoOverRequest` is one of them, and a
theorem under `SerialSpec`.

## 5. Not modelled

* `handleDepositDispute` and `findDepositByPaymentReference`: nothing calls them.
* Signatures, password hashes, DTO validation, serialisation: conversions without state.
* Broadcasts, rooms, player counts, Redis: output only.
* Health, capabilities, Swagger, seed and migrations: no state, or outside the service.
* The throttler of `@nestjs/throttler` on REST routes: a library in front of the handlers.
* A second process. An API-only instance (`GAME_ENGINE_ENABLED=false`) keeps its
  multipliers at 1.00; two engines race for round numbers. Both are in the hazards.
* Money or prefixes in floating point, see Abstractions.

## 6. Plan

1. Done: `Store`, `Wallet`, `Admin`, `Webhooks`, `Payments`, `AccountLedger`,
   `Rounds`, `Bets`, `GameEngine`, `Game`, and the proofs about `Payments` and `Game`.
2. Done: `Provider`, the parties outside the webhooks.
3. Done: `Sessions` and `SessionBook`, and the proof that one implements the other.
4. Done: `Boards`, `RateLimit`, `CrashPoint` (with proofs) and `Startup`.
5. `Platform`: Payments and Game over one store, for the races between a bet and a
   freeze or a withdrawal (`Provider` has the balance reads and batches of bets beside webhooks and
   requests, without their rows and rounds); an API-only instance beside the engine's; two engines.
6. Done: proofs about `Provider`, `Boards`, `RateLimit` and `Startup`; `SettledBetsStay`,
   `SettledPaymentsStay` and `NoOverRequest` with proofs; `RoundBook`, and the proof that
   the engine implements it.
7. A book of bets, as `AccountLedger` is one of payments, for one call at a time.

## 7. Running

```
tlc -workers 2 -config payments_concurrent.cfg MCPayments
tlc -workers 2 -config provider_delivery.cfg MCProvider
tlc -workers 2 -config game_safety.cfg MCGame
tlc -workers 2 -config access_safety.cfg MCSessions
tlc -workers 2 -config public_reads.cfg MCPublic
tlapm Payments_proofs.tla
tlapm Game_proofs.tla
tlapm Sessions_proofs.tla
tlapm CrashPoint_proofs.tla
tlapm Provider_proofs.tla
tlapm Boards_proofs.tla
tlapm Edge_proofs.tla
tlapm Sums.tla
```
