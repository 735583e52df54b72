----------------------------- MODULE RateLimit -----------------------------
(***************************************************************************)
(* GameGateway.enforceRateLimit: every message of a socket asks it first.   *)
(* The entry of rateLimitMap belongs to one connection; Date.now() may      *)
(* stand still between two messages.                                        *)
(***************************************************************************)
EXTENDS Integers, Sequences, FiniteSets

CONSTANTS
    Limit,      \* wsRateLimit
    Window,     \* wsRateWindow
    MaxTime     \* bound: TLC stops the clock here

ASSUME RateLimitAssumption ==
    /\ Limit \in Nat \ {0}
    /\ Window \in Nat
    /\ MaxTime \in Nat

VARIABLES
    entry,      \* of rateLimitMap, or NoWindow
    time,       \* Date.now()
    accepted,   \* when the messages of this connection were accepted
    refused     \* when the last one was refused, or -1

limitVars == <<entry, time, accepted, refused>>

NoWindow == [count |-> 0]

LimitInit ==
    /\ entry = NoWindow
    /\ time = 0
    /\ accepted = <<>>
    /\ refused = -1

Accept ==
    /\ accepted' = Append(accepted, time)
    /\ UNCHANGED <<time, refused>>

\* The first message of the connection, or the first after the window.
Reset ==
    /\ \/ entry = NoWindow
       \/ entry # NoWindow /\ time - entry.lastReset > Window
    /\ entry' = [count |-> 1, lastReset |-> time]
    /\ Accept

InWindow == entry # NoWindow /\ time - entry.lastReset <= Window

\* Mutation of CountMessage: one more than the limit.
CountMessagePast ==
    /\ InWindow /\ entry.count <= Limit
    /\ entry' = [entry EXCEPT !.count = @ + 1]
    /\ Accept

CountMessage ==
    /\ InWindow /\ entry.count < Limit
    /\ entry' = [entry EXCEPT !.count = @ + 1]
    /\ Accept

\* Mutation of Refuse: a refused message starts the window anew.
RefuseAndExtend ==
    /\ InWindow /\ entry.count >= Limit
    /\ entry' = [entry EXCEPT !.lastReset = time]
    /\ refused' = time
    /\ UNCHANGED <<time, accepted>>

\* rate_limited is emitted and the message dropped.
Refuse ==
    /\ InWindow /\ entry.count >= Limit
    /\ refused' = time
    /\ UNCHANGED <<entry, time, accepted>>

\* handleDisconnect; what connects next is another connection.
Disconnect ==
    /\ entry' = NoWindow
    /\ accepted' = <<>> /\ refused' = -1
    /\ UNCHANGED time

Pass ==
    /\ time < MaxTime
    /\ time' = time + 1
    /\ UNCHANGED <<entry, accepted, refused>>

LimitNext == Reset \/ CountMessage \/ Refuse \/ Disconnect \/ Pass

LimitSpec == LimitInit /\ [][LimitNext]_limitVars

-----------------------------------------------------------------------------

\* Any span as long as the window sees at most twice the limit of one connection,
\* however its messages are spread around a reset.
AtMostTwiceTheLimit ==
    \A i \in DOMAIN accepted :
        Cardinality({j \in DOMAIN accepted :
                        accepted[j] \in accepted[i] .. accepted[i] + Window}) <= 2 * Limit

\* A client is refused only after the limit's worth of its messages was accepted
\* in the present window: flooding costs nothing beyond that window.
RefusedForCause ==
    refused >= 0 =>
        Cardinality({j \in DOMAIN accepted :
                        accepted[j] \in refused - Window .. refused}) >= Limit

=============================================================================
