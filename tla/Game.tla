-------------------------------- MODULE Game --------------------------------
(***************************************************************************)
(* The crash game: the engine's loop, its sweeps, and the players' calls    *)
(* over REST (BetsController) and sockets (GameGateway), in one process.    *)
(***************************************************************************)
EXTENDS GameEngine

vars == <<storeVars, roundsVars, betsVars, engineVars>>

Init ==
    /\ StoreInit
    /\ RoundsInit
    /\ BetsInit
    /\ EngineInit

\* GameGateway.handleCashout: the engine's multiplier.
SocketCashout(c) ==
    \E b \in BetIds : bet[b] # NoBet /\ CallCashout(c, b, multiplier)

\* BetsController.cashout: the multiplier that RoundsService keeps.
RestCashout(c) ==
    \E b \in BetIds : bet[b] # NoBet /\ CallCashout(c, b, currentMultiplier)

PlayNext(c) ==
    /\ \/ PlaceStep(c)
       \/ CashoutStep(c)
       \/ (SocketCashout(c) \/ RestCashout(c)) /\ UNCHANGED <<bet, storeVars>>
    /\ UNCHANGED <<roundsVars, engineVars>>

EngineNext == LoopStep /\ UNCHANGED <<betsVars, storeVars>>

LoseNext == (\E b \in BetIds : MarkLost(b)) /\ UNCHANGED <<play, storeVars>>

SweepNext(s) ==
    \/ SweepStep(s) /\ UNCHANGED storeVars
    \/ CashoutStep(s) /\ UNCHANGED <<roundsVars, engineVars>>

\* One call fails alone.
AbortNext(c) == AbortPlay(c) /\ UNCHANGED <<roundsVars, engineVars>>

\* A rejection that nobody handles (startWaiting, startFlying, crash and the
\* sweeps are all called with void) or a deployment ends the process.  What
\* comes up has a new seed and opens a new round; rows stay as they are.
Restart ==
    /\ serverSeed' = serverSeed + 1
    /\ currentMultiplier' = 1
    /\ play' = [c \in Callers |-> NoPlay]
    /\ phase' = "idle"
    /\ currentRound' = 0
    /\ crashPoint' = 1
    /\ multiplier' = 1
    /\ activeBets' = {}
    /\ sweep' = [s \in Sweeps |-> NoSweep]
    /\ UNCHANGED <<round, bet, storeVars>>

Running ==
    \/ EngineNext
    \/ LoseNext
    \/ \E s \in Sweeps : SweepNext(s)
    \/ \E c \in Plays : PlayNext(c)
    \/ \E c \in Callers : AbortNext(c)

Next == Running \/ Restart

Spec == Init /\ [][Next]_vars

\* The process never restarts.
RunningSpec == Init /\ [][Running]_vars

\* The clock of the round runs on, so the multiplier rises and reaches the crash
\* point; timers fire; queries of the loop are answered, those of the sweeps are
\* answered or rejected (checkAutoCashouts catches what cashout throws).
\* Nothing is assumed of the players.  The rise needs strong fairness only
\* because the bound on Sweeps makes a tick wait for a sweep to end.
Rise == Tick /\ multiplier' > multiplier /\ UNCHANGED <<betsVars, storeVars>>

FairSpec ==
    /\ RunningSpec
    /\ WF_vars(EngineNext /\ phase # "ticking")
    /\ SF_vars(Rise)
    /\ WF_vars(LoseNext)
    /\ \A s \in Sweeps : WF_vars(SweepNext(s) \/ AbortNext(s))

-----------------------------------------------------------------------------

\* Type invariant: rows, calls and the engine's fields have the shapes that
\* the game's services give them.
TypeOK ==
    /\ StoreTypeOK
    /\ RoundsTypeOK
    /\ BetsTypeOK
    /\ EngineTypeOK

\* The seed of a round is published exactly when it has crashed, whatever
\* restarts happened before, and always passes the fairness check: it is the
\* seed the players were given the hash of before they bet.
SeedRevealedAfterCrash ==
    \A n \in Created : IF round[n].status = "crashed"
                       THEN Verifies(round[n])
                       ELSE round[n].serverSeed = NotRevealed

\* A bet is lost only in a round that has crashed: nobody loses a bet whose
\* round was cut short by a restart, or is still flying.
LostOnlyInCrashedRound ==
    \A b \in BetIds : bet[b].status = "lost" => round[bet[b].round].status = "crashed"

\* An auto-cashout by a sweep pays at least the target the player asked for,
\* however late the sweep runs after the tick that started it.
SweepPaysTarget ==
    [][\A s \in Sweeps : play[s].at = "payout" /\ bet' # bet /\ play'[s] = NoPlay
           => play[s].multiplier >= bet[play[s].bet].autoCashout]_vars

\* A call that is about to commit for u with a copy of u's balance that is no
\* longer the balance.
StaleBalance(u) ==
    \E c \in Callers :
        /\ play'[c] = NoPlay /\ play[c] # NoPlay
        /\ play[c].seen # balance[u]
        /\ \/ play[c].at = "stake" /\ play[c].user = u
           \/ play[c].at = "payout" /\ bet[play[c].bet].user = u

\* The balance parts from the ledger only in a commit from a stale balance.
DriftNeedsStaleCommit ==
    [][\A u \in Users : Drift(u)' # Drift(u) => StaleBalance(u)]_vars

\* u has a bet in round n, and no call is about to stake another one.
BetIsPlaced(u, n) ==
    /\ BetsOf(u, n) # {}
    /\ \A c \in Callers : play[c].at = "stake" => ~(play[c].user = u /\ play[c].round = n)

\* A second bet of a player in one round can only come of a call that looked for
\* one before the first was staked.  When such calls are over the bet is the
\* player's only one in the round for good, though no index says so.
NoSecondBet ==
    [][\A u \in Users, n \in RoundNumbers :
         BetIsPlaced(u, n) => /\ BetIsPlaced(u, n)'
                              /\ BetsOf(u, n)' = BetsOf(u, n)]_vars

\* Bet b is won or lost, and neither a cashout that found it active nor the crash
\* that listed it is still on its way to write.
BetIsOver(b) ==
    /\ bet[b].status \in {"won", "lost"}
    /\ b \notin activeBets
    /\ \A c \in Callers : play[c].at \in {"round", "winner", "payout"} => play[c].bet # b

\* A settled bet is paid again, or loses what it won, only by cashouts and a crash
\* that overlapped its settlement.  Once these are over it stays as it is, also
\* through late sweeps, later rounds and restarts.
SettledBetsStay ==
    [][\A b \in BetIds : BetIsOver(b) => BetIsOver(b)' /\ bet'[b] = bet[b]]_vars

\* What RoundBook calls the commitment and the published seed of a round.
Commitment(n) == IF round[n] # NoRound THEN round[n].serverSeedHash ELSE 0

Published(n) == IF round[n] # NoRound THEN round[n].serverSeed ELSE 0

Book == INSTANCE RoundBook WITH
            stage <- [n \in RoundNumbers |-> round[n].status],
            commitment <- [n \in RoundNumbers |-> Commitment(n)],
            published <- [n \in RoundNumbers |-> Published(n)]

\* The engine keeps that promise through restarts: a round that was cut short is
\* left as it is for good, and the next one commits to a seed of its own.
KeepsRoundBook == Book!Spec

\* Every bet that is staked before its round is recorded as crashed is settled:
\* cashed out, or marked lost by the crash.
StakedBetsSettle ==
    \A b \in BetIds :
        bet[b].status = "active" /\ round[bet[b].round].status \in {"waiting", "flying"}
            ~> bet[b].status \in {"won", "lost"}

\* Every round that opens crashes, and the next one opens after it.
RoundsKeepComing ==
    \A n \in RoundNumbers :
        round[n].status = "waiting"
            ~> /\ round[n].status = "crashed"
               /\ n + 1 \in RoundNumbers => n + 1 \in Created

\* What was won stays won: "Mark all active bets as lost" touches active bets.
WonStaysWon ==
    [][\A b \in BetIds : bet[b].status = "won" => bet'[b].status = "won"]_vars

\* A cashout that finds its round in flight pays no more than the multiplier
\* this round has reached: "credits winnings at current multiplier".
PaysCurrentMultiplier ==
    [][\A c \in Callers : play[c].at = "round" /\ play'[c].at = "winner"
           => play[c].multiplier <= multiplier]_vars

\* A bet that is cashed out is not paid again: "ignore if already cashed out".
PaidOnce ==
    [][\A c \in Callers : play[c].at = "payout" /\ ledger' # ledger /\ play'[c] = NoPlay
           => bet[play[c].bet].status # "won"]_vars

=============================================================================
