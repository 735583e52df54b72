---------------------------- MODULE SessionBook ----------------------------
(***************************************************************************)
(* What signing in promises, whatever requests AuthService serves at once:  *)
(* a session starts once, is represented by one refresh token at a time,    *)
(* passes from a token to one that is no older, and when it has ended no    *)
(* token of it opens anything again.                                        *)
(***************************************************************************)
EXTENDS Integers

CONSTANTS
    Sessions,   \* sign-ins: one register or login each
    Tokens,     \* refresh tokens: records with a user and signedAt
    NoToken

VARIABLES
    started,    \* sessions that have been opened
    token       \* per session: the token that represents it

bookVars == <<started, token>>

Init ==
    /\ started = {}
    /\ token = [s \in Sessions |-> NoToken]

SignIn(s) ==
    /\ s \notin started
    /\ started' = started \cup {s}
    /\ \E t \in Tokens : token' = [token EXCEPT ![s] = t]

\* The token is replaced by one of the same user.
Rotate(s) ==
    /\ token[s] # NoToken
    /\ \E t \in Tokens :
        /\ t.user = token[s].user /\ t.signedAt >= token[s].signedAt
        /\ token' = [token EXCEPT ![s] = t]
    /\ UNCHANGED started

\* Logout, or a rotation that failed half way.  Sessions of one user that began
\* in the same second hold the same token, and may end together.
End(S) ==
    /\ \E t \in Tokens : \A s \in S : token[s] = t
    /\ token' = [s \in Sessions |-> IF s \in S THEN NoToken ELSE token[s]]
    /\ UNCHANGED started

Next ==
    \/ \E s \in Sessions : SignIn(s) \/ Rotate(s)
    \/ \E S \in (SUBSET Sessions) \ {{}} : End(S)

Spec == Init /\ [][Next]_bookVars

=============================================================================
