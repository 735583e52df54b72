------------------------------ MODULE Sessions ------------------------------
(***************************************************************************)
(* AuthService over the users and refresh_tokens tables, with the two other *)
(* services that write identity columns of a user: UsersService renames it, *)
(* ReferralsService gives it a code.  A request is a slot of `request` that *)
(* walks through the awaits of its handler.                                 *)
(*                                                                          *)
(* An account is known by its email.  A refresh token is a JWT over the     *)
(* user and the second it was signed in, and nothing else: two tokens of a  *)
(* user signed in one second are the same string, with the same hash.       *)
(* Passwords are not modelled: a wrong one ends a login as an abort does.   *)
(***************************************************************************)
EXTENDS Integers

CONSTANTS
    Emails,         \* of the accounts that may be registered
    Names,          \* usernames
    Codes,          \* referral codes that nanoid may draw
    RowIds,         \* ids of refresh_tokens
    SignIns,        \* sessions: registers and logins that get tokens
    Requests,       \* requests that may be in flight at once
    RowLife,        \* seconds: the seven days of expires_at
    JwtLife,        \* seconds: JWT_REFRESH_EXPIRY
    MaxNow          \* bound: TLC stops the clock here

ASSUME SessionsAssumption ==
    /\ RowLife \in Nat \ {0} /\ JwtLife \in Nat \ {0}
    /\ MaxNow \in Nat

VARIABLES
    account,        \* users, by email
    refreshToken,   \* refresh_tokens, by id
    request,        \* per slot: Free, or what its handler holds
    now,            \* seconds
    started         \* sessions that have been opened

sessionVars == <<account, refreshToken, request, now, started>>

None == "none"

NoAccount == [registered |-> FALSE]

Accounts == [registered : {TRUE}, username : Names, referralCode : Codes \cup {None},
             referredBy : Emails \cup {None}, accountFrozen : BOOLEAN]

Registered == {e \in Emails : account[e] # NoAccount}

NoRow == [user |-> None]

Tokens == [user : Emails, signedAt : Nat]

\* The session is not a column: it tells which sign-in a row descends from.
TokenRows == [user : Emails, signedAt : Nat, session : SignIns]

Free == [at |-> "free"]

RequestStates ==
    [at : {"referrer"}, email : Emails, username : Names, code : Codes]
    \cup [at : {"create"}, email : Emails, username : Names, referrer : Emails \cup {None}]
    \cup [at : {"compare"}, email : Emails, frozen : BOOLEAN]
    \cup [at : {"spend"}, id : RowIds, user : Emails, session : SignIns]
    \cup [at : {"store"}, user : Emails, signedAt : Nat, session : SignIns]
    \cup [at : {"forget"}, user : Emails, signedAt : Nat]
    \cup [at : {"code"}, user : Emails, code : Codes]

SessionsTypeOK ==
    /\ account \in [Emails -> Accounts \cup {NoAccount}]
    /\ refreshToken \in [RowIds -> TokenRows \cup {NoRow}]
    /\ request \in [Requests -> RequestStates \cup {Free}]
    /\ now \in Nat
    /\ started \subseteq SignIns

Init ==
    /\ account = [e \in Emails |-> NoAccount]
    /\ refreshToken = [i \in RowIds |-> NoRow]
    /\ request = [q \in Requests |-> Free]
    /\ now = 0
    /\ started = {}

Rows == {i \in RowIds : refreshToken[i] # NoRow}

TokenOf(holder) == [user |-> holder.user, signedAt |-> holder.signedAt]

GoTo(q, state) == request' = [request EXCEPT ![q] = state]

Answer(q) == GoTo(q, Free)

\* Whether the users table has the name, or the code, in another row than e's.
NameTaken(name, e) == \E f \in Registered \ {e} : account[f].username = name

CodeTaken(code, e) == \E f \in Registered \ {e} : account[f].referralCode = code

-----------------------------------------------------------------------------
(* generateTokens *)

\* Mutation of SignTokens: a payload without the time of signing.
SignUntimed(q, user, session) ==
    GoTo(q, [at |-> "store", user |-> user, signedAt |-> 0, session |-> session])

\* Both tokens are signed at once; the handler waits for the row to be created.
SignTokens(q, user, session) ==
    GoTo(q, [at |-> "store", user |-> user, signedAt |-> now, session |-> session])

\* A sign-in: `session` has no other part in the code.
OpenSession(q, user) ==
    \E s \in SignIns \ started :
        /\ started' = started \cup {s}
        /\ SignTokens(q, user, s)

\* refreshToken.create; ids are uuids, never one that a request still holds.
StoreToken(q) ==
    /\ request[q].at = "store"
    /\ \E i \in RowIds \ Rows :
        /\ \A p \in Requests : request[p].at = "spend" => request[p].id # i
        /\ refreshToken' = [refreshToken EXCEPT ![i] =
               [user |-> request[q].user, signedAt |-> request[q].signedAt,
                session |-> request[q].session]]
    /\ Answer(q)
    /\ UNCHANGED <<account, now, started>>

-----------------------------------------------------------------------------
(* register *)

\* user.findFirst by email or username; a code given leads to a second query.
FindExisting(q) ==
    /\ request[q] = Free
    /\ \E e \in Emails \ Registered, name \in Names :
        /\ ~NameTaken(name, e)
        /\ \/ GoTo(q, [at |-> "create", email |-> e, username |-> name, referrer |-> None])
           \/ \E code \in Codes :
                GoTo(q, [at |-> "referrer", email |-> e, username |-> name, code |-> code])
    /\ UNCHANGED <<account, refreshToken, now, started>>

\* Mutation of FindReferrer: the code is kept in place of its owner.
FindNoReferrer(q) ==
    LET r == request[q]
    IN  /\ r.at = "referrer"
        /\ GoTo(q, [at |-> "create", email |-> r.email, username |-> r.username,
                    referrer |-> r.code])
        /\ UNCHANGED <<account, refreshToken, now, started>>

\* user.findUnique by referral code; an unknown one is refused.
FindReferrer(q) ==
    LET r == request[q]
        owners == {e \in Registered : account[e].referralCode = r.code}
    IN  /\ r.at = "referrer"
        /\ \/ \E e \in owners :
                GoTo(q, [at |-> "create", email |-> r.email, username |-> r.username,
                         referrer |-> e])
           \/ owners = {} /\ Answer(q)
        /\ UNCHANGED <<account, refreshToken, now, started>>

\* Mutation of CreateAccount: the check made before is trusted.
CreateAccountChecked(q) ==
    LET r == request[q]
    IN  /\ r.at = "create"
        /\ r.email \notin Registered
        /\ account' = [account EXCEPT ![r.email] =
               [registered |-> TRUE, username |-> r.username, referralCode |-> None,
                referredBy |-> r.referrer, accountFrozen |-> FALSE]]
        /\ OpenSession(q, r.email)
        /\ UNCHANGED <<refreshToken, now>>

\* user.create after the password is hashed: the unique indexes refuse an email
\* or a username that was taken meanwhile.
CreateAccount(q) ==
    LET r == request[q]
    IN  /\ r.at = "create"
        /\ r.email \notin Registered /\ ~NameTaken(r.username, r.email)
        /\ account' = [account EXCEPT ![r.email] =
               [registered |-> TRUE, username |-> r.username, referralCode |-> None,
                referredBy |-> r.referrer, accountFrozen |-> FALSE]]
        /\ OpenSession(q, r.email)
        /\ UNCHANGED <<refreshToken, now>>

-----------------------------------------------------------------------------
(* login *)

\* user.findUnique by email.
FindUser(q) ==
    /\ request[q] = Free
    /\ \E e \in Registered :
        GoTo(q, [at |-> "compare", email |-> e, frozen |-> account[e].accountFrozen])
    /\ UNCHANGED <<account, refreshToken, now, started>>

\* bcrypt.compare is over: a suspended account, as the row read before has it,
\* is refused.
SignIn(q) ==
    /\ request[q].at = "compare"
    /\ \/ request[q].frozen /\ Answer(q) /\ UNCHANGED started
       \/ ~request[q].frozen /\ OpenSession(q, request[q].email)
    /\ UNCHANGED <<account, refreshToken, now>>

-----------------------------------------------------------------------------
(* refresh *)

\* The JWT is verified and a row of its user with its hash, not expired, found.
FindToken(q) ==
    /\ request[q] = Free
    /\ \E i \in Rows :
        /\ now < refreshToken[i].signedAt + JwtLife
        /\ now < refreshToken[i].signedAt + RowLife
        /\ GoTo(q, [at |-> "spend", id |-> i, user |-> refreshToken[i].user,
                    session |-> refreshToken[i].session])
    /\ UNCHANGED <<account, refreshToken, now, started>>

\* Mutation of SpendToken: deleteMany, which is content to delete nothing.
SpendTokenOrNone(q) ==
    LET r == request[q]
    IN  /\ r.at = "spend"
        /\ refreshToken' = [refreshToken EXCEPT ![r.id] = NoRow]
        /\ SignTokens(q, r.user, r.session)
        /\ UNCHANGED <<account, now, started>>

\* refreshToken.delete by id throws when the row is gone; otherwise new tokens
\* are signed for the user that the old one names.
SpendToken(q) ==
    LET r == request[q]
    IN  /\ r.at = "spend" /\ r.id \in Rows
        /\ refreshToken' = [refreshToken EXCEPT ![r.id] = NoRow]
        /\ SignTokens(q, r.user, r.session)
        /\ UNCHANGED <<account, now, started>>

-----------------------------------------------------------------------------
(* logout *)

\* findFirst by hash: the token of another user is refused.
FindOwnToken(q) ==
    /\ request[q] = Free
    /\ \E i \in Rows :
        GoTo(q, [at |-> "forget", user |-> refreshToken[i].user,
                 signedAt |-> refreshToken[i].signedAt])
    /\ UNCHANGED <<account, refreshToken, now, started>>

\* deleteMany by hash: every row that holds the same token.
ForgetToken(q) ==
    /\ request[q].at = "forget"
    /\ refreshToken' = [i \in RowIds |->
           IF i \in Rows /\ TokenOf(refreshToken[i]) = TokenOf(request[q])
           THEN NoRow ELSE refreshToken[i]]
    /\ Answer(q)
    /\ UNCHANGED <<account, now, started>>

-----------------------------------------------------------------------------
(* The other writers of a user's identity *)

\* Mutation of ReadCode: a user that has a code is given another one.
ReadCodeAgain(q) ==
    /\ request[q] = Free
    /\ \E e \in Registered, code \in Codes :
        GoTo(q, [at |-> "code", user |-> e, code |-> code])
    /\ UNCHANGED <<account, refreshToken, now, started>>

\* generateCode reads no code and draws one.
ReadCode(q) ==
    /\ request[q] = Free
    /\ \E e \in Registered, code \in Codes :
        /\ account[e].referralCode = None
        /\ GoTo(q, [at |-> "code", user |-> e, code |-> code])
    /\ UNCHANGED <<account, refreshToken, now, started>>

\* user.update of referralCode, whatever the row holds by now.
WriteCode(q) ==
    LET r == request[q]
    IN  /\ r.at = "code"
        /\ ~CodeTaken(r.code, r.user)
        /\ account' = [account EXCEPT ![r.user].referralCode = r.code]
        /\ Answer(q)
        /\ UNCHANGED <<refreshToken, now, started>>

\* updateProfile, in one statement.
Rename(e) ==
    /\ e \in Registered
    /\ \E name \in Names :
        /\ ~NameTaken(name, e)
        /\ account' = [account EXCEPT ![e].username = name]
    /\ UNCHANGED <<refreshToken, request, now, started>>

\* The admin API suspends or reinstates the account, see Admin.
SetFrozen(e) ==
    /\ e \in Registered
    /\ account' = [account EXCEPT ![e].accountFrozen = ~@]
    /\ UNCHANGED <<refreshToken, request, now, started>>

-----------------------------------------------------------------------------

\* A wrong password, a unique index, a rejected query or the end of the process.
AbortRequest(q) ==
    /\ request[q] # Free
    /\ Answer(q)
    /\ UNCHANGED <<account, refreshToken, now, started>>

Tick ==
    /\ now < MaxNow
    /\ now' = now + 1
    /\ UNCHANGED <<account, refreshToken, request, started>>

RequestStep(q) ==
    \/ FindExisting(q) \/ FindReferrer(q) \/ CreateAccount(q)
    \/ FindUser(q) \/ SignIn(q)
    \/ FindToken(q) \/ SpendToken(q)
    \/ FindOwnToken(q) \/ ForgetToken(q)
    \/ StoreToken(q)
    \/ ReadCode(q) \/ WriteCode(q)
    \/ AbortRequest(q)

Next ==
    \/ \E q \in Requests : RequestStep(q)
    \/ \E e \in Emails : Rename(e) \/ SetFrozen(e)
    \/ Tick

Spec == Init /\ [][Next]_sessionVars

-----------------------------------------------------------------------------

\* Type invariant of accounts, token rows and requests.
TypeOK == SessionsTypeOK

\* Where the session s is: the rows that descend from it, and the requests that
\* have signed a token for it and not stored it yet.
BearersOf(s) ==
    {<<"row", i>> : i \in {j \in Rows : refreshToken[j].session = s}}
    \cup {<<"request", q>> : q \in {p \in Requests : request[p].at = "store"
                                                   /\ request[p].session = s}}

TokensOf(s) ==
    {TokenOf(refreshToken[i]) : i \in {j \in Rows : refreshToken[j].session = s}}
    \cup {TokenOf(request[q]) : q \in {p \in Requests : request[p].at = "store"
                                                     /\ request[p].session = s}}

\* A refresh token is good once: however many refreshes, logouts and failures
\* race over one token, its session goes on with one successor at most.
OneTokenPerSession == \A s \in SignIns : \A x, y \in BearersOf(s) : x = y

\* The promise of SessionBook: a session starts once, is handed from one token
\* to a successor, and does not come back once it has no token left.
Book == INSTANCE SessionBook WITH
    Sessions <- SignIns, Tokens <- [user : Emails, signedAt : 0 .. MaxNow],
    NoToken <- NoRow,
    token <- [s \in SignIns |-> IF TokensOf(s) = {} THEN NoRow
                                ELSE CHOOSE t \in TokensOf(s) : TRUE]

KeepsBook == Book!Spec

\* e has a code, and no request is about to write one.
CodeSettled(e) ==
    /\ account[e].referralCode # None
    /\ \A q \in Requests : request[q].at = "code" => request[q].user # e

\* A token that was spent or logged out is refused for good: once its second is
\* over, no row ever holds it again.
SpentTokenStaysSpent ==
    [][\A e \in Emails, second \in 0 .. MaxNow :
         LET held == \E s \in SignIns : [user |-> e, signedAt |-> second] \in TokensOf(s)
         IN  ~held /\ second < now => ~held']_sessionVars

\* Registrations and renames that all found the name free do not end with two
\* accounts of one name, nor two draws with one referral code for two users.
AccountsDistinct ==
    \A e \in Registered :
        /\ ~NameTaken(account[e].username, e)
        /\ account[e].referralCode # None => ~CodeTaken(account[e].referralCode, e)

\* A referral code that a user has been shown can be overwritten only by a
\* request that had read no code before.  When these are over it is final, since
\* no later request draws another one.
CodeSettles ==
    [][\A e \in Registered :
         CodeSettled(e) => CodeSettled(e)' /\ account'[e].referralCode
                                                = account[e].referralCode]_sessionVars

=============================================================================
