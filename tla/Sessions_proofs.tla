--------------------------- MODULE Sessions_proofs ---------------------------
(***************************************************************************)
(* Proofs about Sessions, for any accounts, tokens, requests and lifetimes: *)
(* however many requests race, a session has one bearer at most, and what   *)
(* AuthService does implements SessionBook.                                 *)
(***************************************************************************)
EXTENDS Sessions, TLAPS

Holds(i) == refreshToken[i] # NoRow

Storing(q) == request[q].at = "store"

\* A bearer's session has been opened.
BearersStarted ==
    /\ \A i \in RowIds : Holds(i) => refreshToken[i].session \in started
    /\ \A q \in Requests : Storing(q) => request[q].session \in started

\* Two bearers of one session are the same bearer: OneTokenPerSession, taken
\* apart by the kind of bearer.
RowsApart ==
    \A i, j \in RowIds :
        Holds(i) /\ Holds(j) /\ refreshToken[i].session = refreshToken[j].session => i = j

RequestsApart ==
    \A p, q \in Requests :
        Storing(p) /\ Storing(q) /\ request[p].session = request[q].session => p = q

RowsApartFromRequests ==
    \A i \in RowIds, q \in Requests :
        Holds(i) /\ Storing(q) => request[q].session # refreshToken[i].session

\* A refresh that has found a row goes on with that row's user and session.
SpendsWhatItFound ==
    \A q \in Requests : request[q].at = "spend" /\ Holds(request[q].id) =>
        /\ request[q].user = refreshToken[request[q].id].user
        /\ request[q].session = refreshToken[request[q].id].session

\* No token is signed in the future.
ClockBounds ==
    /\ now \in 0 .. MaxNow
    /\ \A i \in RowIds : Holds(i) => refreshToken[i].signedAt <= now
    /\ \A q \in Requests : Storing(q) => request[q].signedAt <= now

\* A code is drawn for an account; accounts are never deleted.
CodesForAccounts ==
    \A q \in Requests : request[q].at = "code" => request[q].user \in Registered

\* What holds of the tokens.
TokensInOrder ==
    /\ BearersStarted
    /\ RowsApart
    /\ RequestsApart
    /\ RowsApartFromRequests
    /\ SpendsWhatItFound
    /\ ClockBounds

\* The inductive invariant.
IInv ==
    /\ SessionsTypeOK
    /\ CodesForAccounts
    /\ TokensInOrder

-----------------------------------------------------------------------------
(* Shapes *)

\* A row that is there has an owner, a second and a session.
LEMMA RowShape ==
    ASSUME SessionsTypeOK, NEW i \in RowIds, Holds(i)
    PROVE  refreshToken[i] \in TokenRows
BY DEF SessionsTypeOK, Holds

\* NoRow is no token row: it has no session.
LEMMA NoRowIsNoRow == NoRow \notin TokenRows
<1>1. SUFFICES ASSUME NoRow \in TokenRows PROVE FALSE
    OBVIOUS
<1>2. DOMAIN NoRow = {"user", "signedAt", "session"}
    BY <1>1 DEF TokenRows
<1>3. DOMAIN NoRow = {"user"}
    BY DEF NoRow
<1>4. QED
    BY <1>2, <1>3

\* What a request holds at each await.
LEMMA RequestShape ==
    ASSUME SessionsTypeOK, NEW q \in Requests
    PROVE  /\ request[q].at = "store" =>
                request[q] \in [at : {"store"}, user : Emails, signedAt : Nat, session : SignIns]
           /\ request[q].at = "spend" =>
                request[q] \in [at : {"spend"}, id : RowIds, user : Emails, session : SignIns]
           /\ request[q].at = "forget" =>
                request[q] \in [at : {"forget"}, user : Emails, signedAt : Nat]
           /\ request[q].at = "create" =>
                request[q] \in [at : {"create"}, email : Emails, username : Names,
                                referrer : Emails \cup {None}]
           /\ request[q].at = "compare" =>
                request[q] \in [at : {"compare"}, email : Emails, frozen : BOOLEAN]
           /\ request[q].at = "referrer" =>
                request[q] \in [at : {"referrer"}, email : Emails, username : Names, code : Codes]
           /\ request[q].at = "code" =>
                request[q] \in [at : {"code"}, user : Emails, code : Codes]
BY DEF SessionsTypeOK, RequestStates, Free

\* GoTo moves one request and no other.
LEMMA GoToMoves ==
    ASSUME SessionsTypeOK, NEW q \in Requests, NEW state, GoTo(q, state)
    PROVE  /\ request'[q] = state
           /\ \A p \in Requests : p # q => request'[p] = request[p]
BY DEF GoTo, SessionsTypeOK

\* A request that moves to one of the awaits keeps the type of `request`.
LEMMA GoToTyped ==
    ASSUME SessionsTypeOK, NEW q \in Requests, NEW state \in RequestStates \cup {Free},
           GoTo(q, state)
    PROVE  request' \in [Requests -> RequestStates \cup {Free}]
BY DEF GoTo, SessionsTypeOK

-----------------------------------------------------------------------------
(* Type correctness *)

\* A sign-in signs for a user of the table.
LEMMA OpenSessionTyped ==
    ASSUME SessionsTypeOK, NEW q \in Requests, NEW user \in Emails, OpenSession(q, user)
    PROVE  /\ request' \in [Requests -> RequestStates \cup {Free}]
           /\ started' \subseteq SignIns
<1>1. PICK s \in SignIns \ started :
        started' = started \cup {s} /\ SignTokens(q, user, s)
    BY DEF OpenSession
<1>2. [at |-> "store", user |-> user, signedAt |-> now, session |-> s] \in RequestStates
    BY DEF RequestStates, SessionsTypeOK
<1>3. request' \in [Requests -> RequestStates \cup {Free}]
    BY <1>1, <1>2, GoToTyped DEF SignTokens
<1>4. QED
    BY <1>1, <1>3 DEF SessionsTypeOK

\* Registered accounts are rows of users.
LEMMA AccountShape ==
    ASSUME SessionsTypeOK, NEW e \in Registered
    PROVE  e \in Emails /\ account[e] \in Accounts
BY DEF SessionsTypeOK, Registered

\* Every step of a request keeps the shapes.
LEMMA RequestStepTyped ==
    ASSUME SessionsTypeOK, CodesForAccounts, NEW q \in Requests, RequestStep(q)
    PROVE  SessionsTypeOK'
<1>1. CASE FindExisting(q)
  <2>1. PICK e \in Emails \ Registered, name \in Names :
           \/ GoTo(q, [at |-> "create", email |-> e, username |-> name, referrer |-> None])
           \/ \E code \in Codes :
                GoTo(q, [at |-> "referrer", email |-> e, username |-> name, code |-> code])
      BY <1>1 DEF FindExisting
  <2>2. [at |-> "create", email |-> e, username |-> name, referrer |-> None] \in RequestStates
      BY DEF RequestStates
  <2>3. \A code \in Codes :
           [at |-> "referrer", email |-> e, username |-> name, code |-> code] \in RequestStates
      BY DEF RequestStates
  <2>4. request' \in [Requests -> RequestStates \cup {Free}]
      BY <2>1, <2>2, <2>3, GoToTyped
  <2>5. QED
      BY <1>1, <2>4 DEF FindExisting, SessionsTypeOK
<1>2. CASE FindReferrer(q)
  <2> DEFINE r == request[q]
  <2>1. r \in [at : {"referrer"}, email : Emails, username : Names, code : Codes]
      BY <1>2, RequestShape DEF FindReferrer
  <2>2. \A e \in Registered :
           [at |-> "create", email |-> r.email, username |-> r.username, referrer |-> e]
             \in RequestStates
      BY <2>1 DEF RequestStates, Registered
  <2>3. \/ \E e \in Registered :
                GoTo(q, [at |-> "create", email |-> r.email, username |-> r.username,
                         referrer |-> e])
        \/ GoTo(q, Free)
      BY <1>2 DEF FindReferrer, Answer
  <2>4. request' \in [Requests -> RequestStates \cup {Free}]
      BY <2>2, <2>3, GoToTyped
  <2>5. QED
      BY <1>2, <2>4 DEF FindReferrer, SessionsTypeOK
<1>3. CASE CreateAccount(q)
  <2> DEFINE r == request[q]
             row == [registered |-> TRUE, username |-> r.username, referralCode |-> None,
                     referredBy |-> r.referrer, accountFrozen |-> FALSE]
  <2>1. r \in [at : {"create"}, email : Emails, username : Names, referrer : Emails \cup {None}]
      BY <1>3, RequestShape DEF CreateAccount
  <2>2. row \in Accounts
      BY <2>1 DEF Accounts
  <2>3. account' = [account EXCEPT ![r.email] = row]
      BY <1>3 DEF CreateAccount
  <2>4. account' \in [Emails -> Accounts \cup {NoAccount}]
      BY <2>1, <2>2, <2>3 DEF SessionsTypeOK
  <2>5. request' \in [Requests -> RequestStates \cup {Free}] /\ started' \subseteq SignIns
      BY <1>3, <2>1, OpenSessionTyped DEF CreateAccount
  <2>6. QED
      BY <1>3, <2>4, <2>5 DEF CreateAccount, SessionsTypeOK
<1>4. CASE FindUser(q)
  <2>1. PICK e \in Registered :
           GoTo(q, [at |-> "compare", email |-> e, frozen |-> account[e].accountFrozen])
      BY <1>4 DEF FindUser
  <2>2. account[e].accountFrozen \in BOOLEAN /\ e \in Emails
      BY AccountShape DEF Accounts
  <2>3. [at |-> "compare", email |-> e, frozen |-> account[e].accountFrozen] \in RequestStates
      BY <2>2 DEF RequestStates
  <2>4. request' \in [Requests -> RequestStates \cup {Free}]
      BY <2>1, <2>3, GoToTyped
  <2>5. QED
      BY <1>4, <2>4 DEF FindUser, SessionsTypeOK
<1>5. CASE SignIn(q)
  <2>1. request[q].email \in Emails
      BY <1>5, RequestShape DEF SignIn
  <2>2. request' \in [Requests -> RequestStates \cup {Free}] /\ started' \subseteq SignIns
      BY <1>5, <2>1, OpenSessionTyped, GoToTyped DEF SignIn, Answer, SessionsTypeOK
  <2>3. QED
      BY <1>5, <2>2 DEF SignIn, SessionsTypeOK
<1>6. CASE FindToken(q)
  <2>1. PICK i \in Rows :
           GoTo(q, [at |-> "spend", id |-> i, user |-> refreshToken[i].user,
                    session |-> refreshToken[i].session])
      BY <1>6 DEF FindToken
  <2>2. i \in RowIds /\ refreshToken[i] \in TokenRows
      BY RowShape DEF Rows, Holds
  <2>3. [at |-> "spend", id |-> i, user |-> refreshToken[i].user,
         session |-> refreshToken[i].session] \in RequestStates
      BY <2>2 DEF RequestStates, TokenRows
  <2>4. request' \in [Requests -> RequestStates \cup {Free}]
      BY <2>1, <2>3, GoToTyped
  <2>5. QED
      BY <1>6, <2>4 DEF FindToken, SessionsTypeOK
<1>7. CASE SpendToken(q)
  <2> DEFINE r == request[q]
  <2>1. r \in [at : {"spend"}, id : RowIds, user : Emails, session : SignIns]
      BY <1>7, RequestShape DEF SpendToken
  <2>2. [at |-> "store", user |-> r.user, signedAt |-> now, session |-> r.session]
             \in RequestStates
      BY <2>1 DEF RequestStates, SessionsTypeOK
  <2>3. request' \in [Requests -> RequestStates \cup {Free}]
      BY <1>7, <2>2, GoToTyped DEF SpendToken, SignTokens
  <2>4. refreshToken' = [refreshToken EXCEPT ![r.id] = NoRow]
      BY <1>7 DEF SpendToken
  <2>5. refreshToken' \in [RowIds -> TokenRows \cup {NoRow}]
      BY <2>4 DEF SessionsTypeOK
  <2>6. QED
      BY <1>7, <2>3, <2>5 DEF SpendToken, SessionsTypeOK
<1>8. CASE FindOwnToken(q)
  <2>1. PICK i \in Rows :
           GoTo(q, [at |-> "forget", user |-> refreshToken[i].user,
                    signedAt |-> refreshToken[i].signedAt])
      BY <1>8 DEF FindOwnToken
  <2>2. refreshToken[i] \in TokenRows
      BY RowShape DEF Rows, Holds
  <2>3. [at |-> "forget", user |-> refreshToken[i].user,
         signedAt |-> refreshToken[i].signedAt] \in RequestStates
      BY <2>2 DEF RequestStates, TokenRows
  <2>4. request' \in [Requests -> RequestStates \cup {Free}]
      BY <2>1, <2>3, GoToTyped
  <2>5. QED
      BY <1>8, <2>4 DEF FindOwnToken, SessionsTypeOK
<1>9. CASE ForgetToken(q)
  <2>1. request' \in [Requests -> RequestStates \cup {Free}]
      BY <1>9, GoToTyped DEF ForgetToken, Answer
  <2>2. refreshToken' \in [RowIds -> TokenRows \cup {NoRow}]
      BY <1>9 DEF ForgetToken, SessionsTypeOK
  <2>3. QED
      BY <1>9, <2>1, <2>2 DEF ForgetToken, SessionsTypeOK
<1>10. CASE StoreToken(q)
  <2> DEFINE r == request[q]
             row == [user |-> r.user, signedAt |-> r.signedAt, session |-> r.session]
  <2>1. r \in [at : {"store"}, user : Emails, signedAt : Nat, session : SignIns]
      BY <1>10, RequestShape DEF StoreToken
  <2>2. row \in TokenRows
      BY <2>1 DEF TokenRows
  <2>3. PICK i \in RowIds : refreshToken' = [refreshToken EXCEPT ![i] = row]
      BY <1>10 DEF StoreToken
  <2>4. refreshToken' \in [RowIds -> TokenRows \cup {NoRow}]
      BY <2>2, <2>3 DEF SessionsTypeOK
  <2>5. request' \in [Requests -> RequestStates \cup {Free}]
      BY <1>10, GoToTyped DEF StoreToken, Answer
  <2>6. QED
      BY <1>10, <2>4, <2>5 DEF StoreToken, SessionsTypeOK
<1>11. CASE ReadCode(q)
  <2>1. PICK e \in Registered, code \in Codes :
           GoTo(q, [at |-> "code", user |-> e, code |-> code])
      BY <1>11 DEF ReadCode
  <2>2. [at |-> "code", user |-> e, code |-> code] \in RequestStates
      BY AccountShape DEF RequestStates
  <2>3. request' \in [Requests -> RequestStates \cup {Free}]
      BY <2>1, <2>2, GoToTyped
  <2>4. QED
      BY <1>11, <2>3 DEF ReadCode, SessionsTypeOK
<1>12. CASE WriteCode(q)
  <2> DEFINE r == request[q]
  <2>1. r \in [at : {"code"}, user : Emails, code : Codes]
      BY <1>12, RequestShape DEF WriteCode
  <2>2. account' = [account EXCEPT ![r.user].referralCode = r.code]
      BY <1>12 DEF WriteCode
  <2>3. account[r.user] \in Accounts /\ r.user \in Emails
      BY <1>12, AccountShape DEF CodesForAccounts, WriteCode
  <2>4. [account[r.user] EXCEPT !.referralCode = r.code] \in Accounts
      BY <2>1, <2>3 DEF Accounts
  <2>5. account' \in [Emails -> Accounts \cup {NoAccount}]
      BY <2>2, <2>3, <2>4 DEF SessionsTypeOK
  <2>6. request' \in [Requests -> RequestStates \cup {Free}]
      BY <1>12, GoToTyped DEF WriteCode, Answer
  <2>7. QED
      BY <1>12, <2>5, <2>6 DEF WriteCode, SessionsTypeOK
<1>13. CASE AbortRequest(q)
  <2>1. request' \in [Requests -> RequestStates \cup {Free}]
      BY <1>13, GoToTyped DEF AbortRequest, Answer
  <2>2. QED
      BY <1>13, <2>1 DEF AbortRequest, SessionsTypeOK
<1>14. QED
    BY <1>1, <1>2, <1>3, <1>4, <1>5, <1>6, <1>7, <1>8, <1>9, <1>10, <1>11, <1>12, <1>13
       DEF RequestStep

\* So does every step of the service.
LEMMA NextTyped ==
    ASSUME SessionsTypeOK, CodesForAccounts, [Next]_sessionVars
    PROVE  SessionsTypeOK'
<1>1. CASE \E q \in Requests : RequestStep(q)
    BY <1>1, RequestStepTyped
<1>2. ASSUME NEW e \in Emails, Rename(e) PROVE SessionsTypeOK'
  <2>1. PICK name \in Names : account' = [account EXCEPT ![e].username = name]
      BY <1>2 DEF Rename
  <2>2. account[e] \in Accounts
      BY <1>2, AccountShape DEF Rename
  <2>3. [account[e] EXCEPT !.username = name] \in Accounts
      BY <2>2 DEF Accounts
  <2>4. account' \in [Emails -> Accounts \cup {NoAccount}]
      BY <2>1, <2>3 DEF SessionsTypeOK
  <2>5. QED
      BY <1>2, <2>4 DEF Rename, SessionsTypeOK
<1>3. ASSUME NEW e \in Emails, SetFrozen(e) PROVE SessionsTypeOK'
  <2>1. account' = [account EXCEPT ![e].accountFrozen = ~account[e].accountFrozen]
      BY <1>3 DEF SetFrozen
  <2>2. account[e] \in Accounts
      BY <1>3, AccountShape DEF SetFrozen
  <2>3. [account[e] EXCEPT !.accountFrozen = ~account[e].accountFrozen] \in Accounts
      BY <2>2 DEF Accounts
  <2>4. account' \in [Emails -> Accounts \cup {NoAccount}]
      BY <2>1, <2>3 DEF SessionsTypeOK
  <2>5. QED
      BY <1>3, <2>4 DEF SetFrozen, SessionsTypeOK
<1>4. CASE Tick
    BY <1>4 DEF Tick, SessionsTypeOK
<1>5. CASE UNCHANGED sessionVars
    BY <1>5 DEF sessionVars, SessionsTypeOK
<1>6. QED
    BY <1>1, <1>2, <1>3, <1>4, <1>5 DEF Next

-----------------------------------------------------------------------------
(* Accounts *)

\* No step deletes an account.
LEMMA AccountsStay ==
    ASSUME SessionsTypeOK, CodesForAccounts, [Next]_sessionVars
    PROVE  Registered \subseteq Registered'
<1> SUFFICES ASSUME NEW e \in Registered PROVE account'[e] # NoAccount
    BY DEF Registered
<1>1. e \in Emails /\ account[e] \in Accounts
    BY AccountShape
<1>2. \A f \in Registered : account[f] \in Accounts /\ f \in Emails
    BY AccountShape
<1>3. account \in [Emails -> Accounts \cup {NoAccount}]
    BY DEF SessionsTypeOK
<1>4. ASSUME NEW row \in Accounts PROVE row # NoAccount /\ row.registered = TRUE
  <2>1. row.registered = TRUE
      BY DEF Accounts
  <2>2. NoAccount.registered = FALSE
      BY DEF NoAccount
  <2>3. QED
      BY <2>1, <2>2
<1>5. CASE account' = account
    BY <1>5 DEF Registered
<1>6. account[e].registered = TRUE /\ NoAccount.registered = FALSE
    BY <1>1, <1>4 DEF NoAccount
<1>7. ASSUME NEW q \in Requests, CreateAccount(q) PROVE account'[e] # NoAccount
  <2>1. request[q].email \notin Registered
      BY <1>7 DEF CreateAccount
  <2>2. QED
      BY <1>1, <1>3, <1>4, <1>7, <2>1 DEF CreateAccount
<1>8. ASSUME NEW q \in Requests, WriteCode(q) PROVE account'[e] # NoAccount
  <2>1. account' = [account EXCEPT ![request[q].user].referralCode = request[q].code]
      BY <1>8 DEF WriteCode
  <2>2. account'[e].registered = account[e].registered
      BY <1>1, <1>3, <2>1 DEF Accounts
  <2>3. QED
      BY <1>6, <2>2
<1>9. ASSUME NEW f \in Emails, Rename(f) PROVE account'[e] # NoAccount
  <2>1. PICK name \in Names : account' = [account EXCEPT ![f].username = name]
      BY <1>9 DEF Rename
  <2>2. account'[e].registered = account[e].registered
      BY <1>1, <1>3, <2>1 DEF Accounts
  <2>3. QED
      BY <1>6, <2>2
<1>10. ASSUME NEW f \in Emails, SetFrozen(f) PROVE account'[e] # NoAccount
  <2>1. account' = [account EXCEPT ![f].accountFrozen = ~account[f].accountFrozen]
      BY <1>10 DEF SetFrozen
  <2>2. account'[e].registered = account[e].registered
      BY <1>1, <1>3, <2>1 DEF Accounts
  <2>3. QED
      BY <1>6, <2>2
<1>11. QED
  <2>1. ASSUME NEW q \in Requests, RequestStep(q)
        PROVE  account' = account \/ CreateAccount(q) \/ WriteCode(q)
      BY <2>1 DEF RequestStep, FindExisting, FindReferrer, FindUser, SignIn, FindToken,
         SpendToken, FindOwnToken, ForgetToken, StoreToken, ReadCode, AbortRequest
  <2>2. CASE Tick
      BY <2>2, <1>5 DEF Tick
  <2>3. CASE UNCHANGED sessionVars
      BY <2>3, <1>5 DEF sessionVars
  <2>4. QED
      BY <1>5, <1>7, <1>8, <1>9, <1>10, <2>1, <2>2, <2>3 DEF Next

\* A request that is about to write a code was there, or has just drawn it.
LEMMA CodeRequestsComeFrom ==
    ASSUME SessionsTypeOK, [Next]_sessionVars, NEW q \in Requests, request'[q].at = "code"
    PROVE  request'[q] = request[q] \/ ReadCode(q)
<1>1. ASSUME NEW state, state.at # "code", GoTo(q, state) PROVE FALSE
    BY <1>1, GoToMoves
<1>2. ASSUME NEW p \in Requests, NEW state, p # q, GoTo(p, state)
      PROVE  request[q] = request'[q]
    BY <1>2, GoToMoves
<1>3. ASSUME RequestStep(q) PROVE ReadCode(q)
    BY <1>3, <1>1 DEF RequestStep, FindExisting, FindReferrer, CreateAccount, FindUser,
       SignIn, FindToken, SpendToken, FindOwnToken, ForgetToken, StoreToken, WriteCode,
       AbortRequest, OpenSession, SignTokens, Answer, Free
<1>4. ASSUME NEW p \in Requests, p # q, RequestStep(p) PROVE request[q] = request'[q]
    BY <1>4, <1>2 DEF RequestStep, FindExisting, FindReferrer, CreateAccount, FindUser,
       SignIn, FindToken, SpendToken, FindOwnToken, ForgetToken, StoreToken, WriteCode,
       ReadCode, AbortRequest, OpenSession, SignTokens, Answer
<1>5. CASE UNCHANGED request
    BY <1>5
<1>6. QED
    BY <1>3, <1>4, <1>5 DEF Next, Rename, SetFrozen, Tick, sessionVars

\* Requests that draw a code do it for an account, which stays.
LEMMA CodesStayForAccounts ==
    ASSUME SessionsTypeOK, CodesForAccounts, [Next]_sessionVars
    PROVE  CodesForAccounts'
<1>1. Registered \subseteq Registered'
    BY AccountsStay
<1>2. ASSUME NEW q \in Requests, request'[q].at = "code"
      PROVE  request'[q].user \in Registered
  <2>1. CASE request'[q] = request[q]
      BY <1>2, <2>1 DEF CodesForAccounts
  <2>2. CASE ReadCode(q)
      BY <2>2, GoToMoves DEF ReadCode
  <2>3. QED
      BY <1>2, <2>1, <2>2, CodeRequestsComeFrom
<1>3. QED
    BY <1>1, <1>2 DEF CodesForAccounts

-----------------------------------------------------------------------------
(* Tokens *)

\* A request that moves to an await without a token changes nothing of tokens.
LEMMA QuietMove ==
    ASSUME IInv, NEW q \in Requests, NEW state, GoTo(q, state),
           state.at \notin {"store", "spend"}, UNCHANGED <<refreshToken, now, started>>
    PROVE  TokensInOrder'
<1>1. request'[q] = state /\ \A p \in Requests : p # q => request'[p] = request[p]
    BY GoToMoves DEF IInv
<1>2. \A p \in Requests : request'[p].at \in {"store", "spend"} => request'[p] = request[p]
    BY <1>1
<1>3. QED
    BY <1>2 DEF IInv, TokensInOrder, BearersStarted, RowsApart, RequestsApart,
       RowsApartFromRequests, SpendsWhatItFound, ClockBounds, Holds, Storing

\* A sign-in signs for a session that has no bearer yet.
LEMMA OpenSessionKeeps ==
    ASSUME IInv, NEW q \in Requests, NEW user, OpenSession(q, user),
           UNCHANGED <<refreshToken, now>>
    PROVE  TokensInOrder'
<1>1. PICK s \in SignIns \ started :
        started' = started \cup {s} /\ SignTokens(q, user, s)
    BY DEF OpenSession
<1>2. /\ request'[q] = [at |-> "store", user |-> user, signedAt |-> now, session |-> s]
      /\ \A p \in Requests : p # q => request'[p] = request[p]
    BY <1>1, GoToMoves DEF IInv, SignTokens
<1>3. /\ \A i \in RowIds : Holds(i) => refreshToken[i].session # s
      /\ \A p \in Requests : Storing(p) => request[p].session # s
    BY DEF IInv, TokensInOrder, BearersStarted
<1>4. BearersStarted'
    BY <1>1, <1>2 DEF IInv, TokensInOrder, BearersStarted, Holds, Storing
<1>5. RowsApart'
    BY DEF IInv, TokensInOrder, RowsApart, Holds
<1>6. RequestsApart'
    BY <1>2, <1>3 DEF IInv, TokensInOrder, RequestsApart, Storing
<1>7. RowsApartFromRequests'
    BY <1>2, <1>3 DEF IInv, TokensInOrder, RowsApartFromRequests, Holds, Storing
<1>8. SpendsWhatItFound'
    BY <1>2 DEF IInv, TokensInOrder, SpendsWhatItFound, Holds
<1>9. ClockBounds'
    BY <1>2 DEF IInv, TokensInOrder, ClockBounds, Holds, Storing, SessionsTypeOK
<1>10. QED
    BY <1>4, <1>5, <1>6, <1>7, <1>8, <1>9 DEF TokensInOrder

\* Storing hands the session from the request to its row.
LEMMA StoreTokenKeeps ==
    ASSUME IInv, NEW q \in Requests, StoreToken(q)
    PROVE  TokensInOrder'
<1> DEFINE r == request[q]
           row == [user |-> r.user, signedAt |-> r.signedAt, session |-> r.session]
<1>1. PICK i \in RowIds \ Rows :
        /\ \A p \in Requests : request[p].at = "spend" => request[p].id # i
        /\ refreshToken' = [refreshToken EXCEPT ![i] = row]
    BY DEF StoreToken
<1>2. request'[q] = Free /\ \A p \in Requests : p # q => request'[p] = request[p]
    BY GoToMoves DEF IInv, StoreToken, Answer
<1>3. refreshToken'[i] = row /\ \A j \in RowIds : j # i => refreshToken'[j] = refreshToken[j]
    BY <1>1 DEF IInv, SessionsTypeOK
<1>4. ~Holds(i)
    BY <1>1 DEF Rows, Holds
<1>5. /\ Storing(q) /\ ~Storing(q)'
      /\ \A p \in Requests : Storing(p)' => p # q /\ Storing(p)
    BY <1>2 DEF StoreToken, Storing, Free
<1>6. \A j \in RowIds : j # i => Holds(j)' = Holds(j)
    BY <1>3 DEF Holds
<1>7. row.session = r.session /\ row.user = r.user /\ row.signedAt = r.signedAt
    OBVIOUS
<1>8. UNCHANGED <<now, started>>
    BY DEF StoreToken
<1> HIDE DEF row
<1>9. BearersStarted'
    BY <1>2, <1>3, <1>5, <1>6, <1>7, <1>8 DEF IInv, TokensInOrder, BearersStarted
<1>10. RowsApart'
    BY <1>3, <1>5, <1>6, <1>7 DEF IInv, TokensInOrder, RowsApart, RowsApartFromRequests
<1>11. RequestsApart'
    BY <1>2, <1>5 DEF IInv, TokensInOrder, RequestsApart
<1>12. RowsApartFromRequests'
    BY <1>2, <1>3, <1>5, <1>6, <1>7
       DEF IInv, TokensInOrder, RequestsApart, RowsApartFromRequests
<1>13. SpendsWhatItFound'
  <2>1. SUFFICES ASSUME NEW p \in Requests, request'[p].at = "spend", Holds(request[p].id)'
                 PROVE  /\ request'[p].user = refreshToken'[request'[p].id].user
                        /\ request'[p].session = refreshToken'[request'[p].id].session
      BY DEF SpendsWhatItFound, Holds
  <2>2. p # q /\ request'[p] = request[p]
      BY <1>2, <2>1 DEF Free
  <2>3. request[p].id \in RowIds /\ request[p].id # i
      BY <1>1, <2>1, <2>2, RequestShape DEF IInv
  <2>4. refreshToken'[request[p].id] = refreshToken[request[p].id]
      BY <1>3, <2>3
  <2>5. QED
      BY <2>1, <2>2, <2>4 DEF IInv, TokensInOrder, SpendsWhatItFound, Holds
<1>14. ClockBounds'
    BY <1>2, <1>3, <1>5, <1>6, <1>7, <1>8 DEF IInv, TokensInOrder, ClockBounds
<1>15. QED
    BY <1>9, <1>10, <1>11, <1>12, <1>13, <1>14 DEF TokensInOrder

\* A refresh has found a row and holds what the row says.
LEMMA FindTokenKeeps ==
    ASSUME IInv, NEW q \in Requests, FindToken(q)
    PROVE  TokensInOrder'
<1>1. PICK i \in Rows :
        GoTo(q, [at |-> "spend", id |-> i, user |-> refreshToken[i].user,
                 session |-> refreshToken[i].session])
    BY DEF FindToken
<1>2. /\ request'[q] = [at |-> "spend", id |-> i, user |-> refreshToken[i].user,
                        session |-> refreshToken[i].session]
      /\ \A p \in Requests : p # q => request'[p] = request[p]
    BY <1>1, GoToMoves DEF IInv
<1>3. \A p \in Requests : request'[p].at = "store" => request'[p] = request[p]
    BY <1>2
<1>4. UNCHANGED <<refreshToken, now, started>>
    BY DEF FindToken
<1>5. SpendsWhatItFound'
    BY <1>2, <1>4 DEF IInv, TokensInOrder, SpendsWhatItFound, Holds
<1>6. QED
    BY <1>3, <1>4, <1>5 DEF IInv, TokensInOrder, BearersStarted, RowsApart, RequestsApart,
       RowsApartFromRequests, ClockBounds, Holds, Storing

\* Spending hands the session from the row, which must be there, to the request.
LEMMA SpendTokenKeeps ==
    ASSUME IInv, NEW q \in Requests, SpendToken(q)
    PROVE  TokensInOrder'
<1> DEFINE r == request[q]
<1>1. /\ r \in [at : {"spend"}, id : RowIds, user : Emails, session : SignIns]
      /\ Holds(r.id)
    BY RequestShape DEF IInv, SpendToken, Rows, Holds
<1>2. r.session = refreshToken[r.id].session
    BY <1>1 DEF IInv, TokensInOrder, SpendsWhatItFound
<1>3. /\ request'[q].at = "store" /\ request'[q].signedAt = now
      /\ request'[q].session = r.session
      /\ \A p \in Requests : p # q => request'[p] = request[p]
    BY GoToMoves DEF IInv, SpendToken, SignTokens
<1>4. /\ refreshToken'[r.id] = NoRow
      /\ \A j \in RowIds : j # r.id => refreshToken'[j] = refreshToken[j]
    BY <1>1 DEF IInv, SessionsTypeOK, SpendToken
<1>5. \A j \in RowIds : Holds(j)' => j # r.id /\ Holds(j)
    BY <1>4 DEF Holds
<1>6. \A p \in Requests : Storing(p)' => p = q \/ Storing(p)
    BY <1>3 DEF Storing
<1>7. ~Storing(q) /\ UNCHANGED <<now, started>>
    BY DEF SpendToken, Storing
<1>8. BearersStarted'
    BY <1>1, <1>2, <1>3, <1>4, <1>5, <1>6, <1>7 DEF IInv, TokensInOrder, BearersStarted
<1>9. RowsApart'
    BY <1>4, <1>5 DEF IInv, TokensInOrder, RowsApart
<1>10. RequestsApart'
    BY <1>1, <1>2, <1>3, <1>6 DEF IInv, TokensInOrder, RequestsApart, RowsApartFromRequests
<1>11. RowsApartFromRequests'
    BY <1>1, <1>2, <1>3, <1>4, <1>5, <1>6
       DEF IInv, TokensInOrder, RowsApart, RowsApartFromRequests
<1>12. SpendsWhatItFound'
  <2>1. SUFFICES ASSUME NEW p \in Requests, request'[p].at = "spend", Holds(request[p].id)'
                 PROVE  /\ request'[p].user = refreshToken'[request'[p].id].user
                        /\ request'[p].session = refreshToken'[request'[p].id].session
      BY DEF SpendsWhatItFound, Holds
  <2>2. p # q /\ request'[p] = request[p]
      BY <1>3, <2>1
  <2>3. request[p].id \in RowIds
      BY <2>1, <2>2, RequestShape DEF IInv
  <2>4. refreshToken'[request[p].id] = refreshToken[request[p].id] /\ Holds(request[p].id)
      BY <1>4, <1>5, <2>1, <2>2, <2>3
  <2>5. QED
      BY <2>1, <2>2, <2>4 DEF IInv, TokensInOrder, SpendsWhatItFound
<1>13. ClockBounds'
    BY <1>3, <1>4, <1>5, <1>6, <1>7
       DEF IInv, TokensInOrder, ClockBounds, SessionsTypeOK
<1>14. QED
    BY <1>8, <1>9, <1>10, <1>11, <1>12, <1>13 DEF TokensInOrder

\* A logout only takes rows away.
LEMMA ForgetTokenKeeps ==
    ASSUME IInv, NEW q \in Requests, ForgetToken(q)
    PROVE  TokensInOrder'
<1>1. request'[q] = Free /\ \A p \in Requests : p # q => request'[p] = request[p]
    BY GoToMoves DEF IInv, ForgetToken, Answer
<1>2. \A p \in Requests : request'[p].at \in {"store", "spend"} => request'[p] = request[p]
    BY <1>1 DEF Free
<1>3. \A j \in RowIds : Holds(j)' => Holds(j) /\ refreshToken'[j] = refreshToken[j]
    BY DEF ForgetToken, Holds, Rows
<1>4. UNCHANGED <<now, started>>
    BY DEF ForgetToken
<1>5. SpendsWhatItFound'
  <2>1. SUFFICES ASSUME NEW p \in Requests, request'[p].at = "spend", Holds(request[p].id)'
                 PROVE  /\ request'[p].user = refreshToken'[request'[p].id].user
                        /\ request'[p].session = refreshToken'[request'[p].id].session
      BY DEF SpendsWhatItFound, Holds
  <2>2. request'[p] = request[p]
      BY <1>2, <2>1
  <2>3. request[p].id \in RowIds
      BY <2>1, <2>2, RequestShape DEF IInv
  <2>4. Holds(request[p].id) /\ refreshToken'[request[p].id] = refreshToken[request[p].id]
      BY <1>3, <2>1, <2>2, <2>3
  <2>5. QED
      BY <2>1, <2>2, <2>4 DEF IInv, TokensInOrder, SpendsWhatItFound
<1>6. \A p \in Requests : Storing(p)' => Storing(p) /\ request'[p] = request[p]
    BY <1>2 DEF Storing
<1>7. BearersStarted'
    BY <1>3, <1>4, <1>6 DEF IInv, TokensInOrder, BearersStarted
<1>8. RowsApart' /\ RequestsApart'
    BY <1>3, <1>6 DEF IInv, TokensInOrder, RowsApart, RequestsApart
<1>9. RowsApartFromRequests'
    BY <1>3, <1>6 DEF IInv, TokensInOrder, RowsApartFromRequests
<1>10. ClockBounds'
    BY <1>3, <1>4, <1>6 DEF IInv, TokensInOrder, ClockBounds
<1>11. QED
    BY <1>5, <1>7, <1>8, <1>9, <1>10 DEF TokensInOrder

\* The tokens stay in order whatever happens next.
LEMMA NextKeepsOrder ==
    ASSUME IInv, [Next]_sessionVars
    PROVE  TokensInOrder'
<1>1. ASSUME NEW q \in Requests, RequestStep(q) PROVE TokensInOrder'
  <2>1. CASE FindExisting(q)
      BY <2>1, QuietMove DEF FindExisting
  <2>2. CASE FindReferrer(q)
      BY <2>2, QuietMove DEF FindReferrer, Answer, Free
  <2>3. CASE CreateAccount(q)
      BY <2>3, OpenSessionKeeps DEF CreateAccount
  <2>4. CASE FindUser(q)
      BY <2>4, QuietMove DEF FindUser
  <2>5. CASE SignIn(q)
      BY <2>5, QuietMove, OpenSessionKeeps DEF SignIn, Answer, Free
  <2>6. CASE FindOwnToken(q)
      BY <2>6, QuietMove DEF FindOwnToken
  <2>7. CASE ReadCode(q)
      BY <2>7, QuietMove DEF ReadCode
  <2>8. CASE WriteCode(q)
      BY <2>8, QuietMove DEF WriteCode, Answer, Free
  <2>9. CASE AbortRequest(q)
      BY <2>9, QuietMove DEF AbortRequest, Answer, Free
  <2>10. QED
      BY <1>1, <2>1, <2>2, <2>3, <2>4, <2>5, <2>6, <2>7, <2>8, <2>9, FindTokenKeeps,
         SpendTokenKeeps, ForgetTokenKeeps, StoreTokenKeeps DEF RequestStep
<1>2. CASE UNCHANGED <<refreshToken, request, now, started>>
    BY <1>2 DEF IInv, TokensInOrder, BearersStarted, RowsApart, RequestsApart,
       RowsApartFromRequests, SpendsWhatItFound, ClockBounds, Holds, Storing
<1>3. CASE Tick
  <2>1. now' \in 0 .. MaxNow /\ now' >= now /\ now \in Int
      BY <1>3, SessionsAssumption DEF Tick, IInv, TokensInOrder, ClockBounds, SessionsAssumption
  <2>2. UNCHANGED <<refreshToken, request, started>>
      BY <1>3 DEF Tick
  <2>3. ClockBounds'
    <3>1. \A i \in RowIds : Holds(i) => refreshToken[i].signedAt \in Nat
        BY RowShape DEF IInv, TokenRows
    <3>2. \A q \in Requests : Storing(q) => request[q].signedAt \in Nat
        BY RequestShape DEF IInv, Storing
    <3>3. QED
        BY <2>1, <2>2, <3>1, <3>2 DEF IInv, TokensInOrder, ClockBounds, Holds, Storing
  <2>4. QED
      BY <2>2, <2>3 DEF IInv, TokensInOrder, BearersStarted, RowsApart, RequestsApart,
         RowsApartFromRequests, SpendsWhatItFound, Holds, Storing
<1>4. QED
    BY <1>1, <1>2, <1>3 DEF Next, Rename, SetFrozen, sessionVars

-----------------------------------------------------------------------------
(* The theorems *)

LEMMA InitOK == Init => IInv
<1> SUFFICES ASSUME Init PROVE IInv
    OBVIOUS
<1>1. SessionsTypeOK
    BY SessionsAssumption DEF Init, SessionsTypeOK
<1>2. CodesForAccounts
    BY DEF Init, CodesForAccounts, Free
<1>3. TokensInOrder
    BY SessionsAssumption DEF Init, TokensInOrder, BearersStarted, RowsApart, RequestsApart,
       RowsApartFromRequests, SpendsWhatItFound, ClockBounds, Holds, Storing, Free,
       SessionsAssumption
<1>4. QED
    BY <1>1, <1>2, <1>3 DEF IInv

\* Accounts, tokens and requests keep their shapes, and the tokens their order.
THEOREM Invariance == Spec => []IInv
<1>1. IInv /\ [Next]_sessionVars => IInv'
    BY NextTyped, CodesStayForAccounts, NextKeepsOrder DEF IInv
<1>2. QED
    BY InitOK, <1>1, PTL DEF Spec

\* The type invariant, for any number of accounts, sessions and requests.
THEOREM TypeCorrectness == Spec => []TypeOK
<1>1. IInv => TypeOK
    BY DEF IInv, TypeOK
<1>2. QED
    BY <1>1, Invariance, PTL

\* A session has one bearer at most, however many refreshes, logouts, sign-ins
\* and failures race.
THEOREM OneBearer == Spec => []OneTokenPerSession
<1>1. IInv => OneTokenPerSession
    BY DEF IInv, TokensInOrder, RowsApart, RequestsApart, RowsApartFromRequests,
       OneTokenPerSession, BearersOf, Rows, Holds, Storing
<1>2. QED
    BY <1>1, Invariance, PTL

-----------------------------------------------------------------------------
(* Accounts stay distinct *)

\* A row may be written when the others have neither its name nor its code.
LEMMA WriteKeepsDistinct ==
    ASSUME SessionsTypeOK, AccountsDistinct,
           NEW e \in Emails, NEW row \in Accounts, account' = [account EXCEPT ![e] = row],
           ~NameTaken(row.username, e),
           row.referralCode # None => ~CodeTaken(row.referralCode, e)
    PROVE  AccountsDistinct'
<1>1. /\ account'[e] = row
      /\ \A f \in Emails : f # e => account'[f] = account[f]
    BY DEF SessionsTypeOK
<1>2. Registered' \ {e} = Registered \ {e}
    BY <1>1 DEF Registered
<1>3. \A f \in Registered \ {e} :
        /\ account'[f] = account[f] /\ f \in Emails
        /\ account[f].username # row.username
        /\ row.referralCode # None => account[f].referralCode # row.referralCode
    BY <1>1 DEF NameTaken, CodeTaken, Registered
<1>4. \A f, g \in Registered \ {e} : f # g =>
        /\ account[f].username # account[g].username
        /\ account[f].referralCode # None =>
              account[f].referralCode # account[g].referralCode
    BY DEF AccountsDistinct, NameTaken, CodeTaken
<1>5. SUFFICES ASSUME NEW f \in Registered', NEW g \in Registered' \ {f}
               PROVE  /\ account'[g].username # account'[f].username
                      /\ account'[f].referralCode # None =>
                            account'[g].referralCode # account'[f].referralCode
    BY DEF AccountsDistinct, NameTaken, CodeTaken
<1>6. CASE f = e
    BY <1>1, <1>2, <1>3, <1>5, <1>6
<1>7. CASE g = e
    BY <1>1, <1>2, <1>3, <1>5, <1>7
<1>8. CASE f # e /\ g # e
    BY <1>2, <1>3, <1>4, <1>5, <1>8
<1>9. QED
    BY <1>6, <1>7, <1>8

\* No step gives two accounts one name or one code.
LEMMA NextKeepsDistinct ==
    ASSUME IInv, AccountsDistinct, [Next]_sessionVars
    PROVE  AccountsDistinct'
<1>1. SessionsTypeOK
    BY DEF IInv
<1>2. CASE account' = account
    BY <1>2 DEF AccountsDistinct, NameTaken, CodeTaken, Registered
<1>3. ASSUME NEW e \in Registered
      PROVE  /\ e \in Emails /\ account[e] \in Accounts
             /\ ~NameTaken(account[e].username, e)
             /\ account[e].referralCode # None => ~CodeTaken(account[e].referralCode, e)
    BY <1>1, AccountShape DEF AccountsDistinct
<1>4. ASSUME NEW q \in Requests, CreateAccount(q) PROVE AccountsDistinct'
  <2> DEFINE r == request[q]
             row == [registered |-> TRUE, username |-> r.username, referralCode |-> None,
                     referredBy |-> r.referrer, accountFrozen |-> FALSE]
  <2>1. r \in [at : {"create"}, email : Emails, username : Names, referrer : Emails \cup {None}]
      BY <1>1, <1>4, RequestShape DEF CreateAccount
  <2>2. row \in Accounts /\ row.username = r.username /\ row.referralCode = None
      BY <2>1 DEF Accounts
  <2>3. account' = [account EXCEPT ![r.email] = row] /\ ~NameTaken(r.username, r.email)
      BY <1>4 DEF CreateAccount
  <2> HIDE DEF row
  <2>4. QED
      BY <1>1, <2>1, <2>2, <2>3, WriteKeepsDistinct
<1>5. ASSUME NEW q \in Requests, WriteCode(q) PROVE AccountsDistinct'
  <2> DEFINE r == request[q]
             row == [account[r.user] EXCEPT !.referralCode = r.code]
  <2>1. r.user \in Registered /\ r.code \in Codes
      BY <1>1, <1>5, RequestShape DEF IInv, CodesForAccounts, WriteCode
  <2>2. /\ row \in Accounts /\ row.referralCode = r.code
        /\ row.username = account[r.user].username
      BY <1>3, <2>1 DEF Accounts
  <2>3. account' = [account EXCEPT ![r.user] = row] /\ ~CodeTaken(r.code, r.user)
      BY <1>5 DEF WriteCode
  <2> HIDE DEF row
  <2>4. QED
      BY <1>1, <1>3, <2>1, <2>2, <2>3, WriteKeepsDistinct
<1>6. ASSUME NEW e \in Emails, Rename(e) PROVE AccountsDistinct'
  <2>1. PICK name \in Names :
           ~NameTaken(name, e) /\ account' = [account EXCEPT ![e].username = name]
      BY <1>6 DEF Rename
  <2> DEFINE row == [account[e] EXCEPT !.username = name]
  <2>2. e \in Registered
      BY <1>6 DEF Rename
  <2>3. /\ row \in Accounts /\ row.username = name
        /\ row.referralCode = account[e].referralCode
      BY <1>3, <2>2 DEF Accounts
  <2>4. account' = [account EXCEPT ![e] = row]
      BY <2>1
  <2> HIDE DEF row
  <2>5. QED
      BY <1>1, <1>3, <2>1, <2>2, <2>3, <2>4, WriteKeepsDistinct
<1>7. ASSUME NEW e \in Emails, SetFrozen(e) PROVE AccountsDistinct'
  <2> DEFINE row == [account[e] EXCEPT !.accountFrozen = ~account[e].accountFrozen]
  <2>1. e \in Registered /\ account' = [account EXCEPT ![e] = row]
      BY <1>7 DEF SetFrozen
  <2>2. /\ row \in Accounts /\ row.username = account[e].username
        /\ row.referralCode = account[e].referralCode
      BY <1>3, <2>1 DEF Accounts
  <2> HIDE DEF row
  <2>3. QED
      BY <1>1, <1>3, <2>1, <2>2, WriteKeepsDistinct
<1>8. ASSUME NEW q \in Requests, RequestStep(q)
      PROVE  account' = account \/ CreateAccount(q) \/ WriteCode(q)
    BY <1>8 DEF RequestStep, FindExisting, FindReferrer, FindUser, SignIn, FindToken,
       SpendToken, FindOwnToken, ForgetToken, StoreToken, ReadCode, AbortRequest
<1>9. CASE Tick \/ UNCHANGED sessionVars
    BY <1>2, <1>9 DEF Tick, sessionVars
<1>10. QED
    BY <1>2, <1>4, <1>5, <1>6, <1>7, <1>8, <1>9 DEF Next

\* Names and referral codes stay distinct, however registrations, renames and
\* draws race: the check made before the awaits does not matter, the index does.
THEOREM NeverTwoOfOneName == Spec => []AccountsDistinct
<1>1. Init => AccountsDistinct
    BY DEF Init, AccountsDistinct, Registered
<1>2. QED
    BY <1>1, NextKeepsDistinct, Invariance, PTL DEF Spec

-----------------------------------------------------------------------------
(* Codes settle *)

\* A settled code is not written again.
LEMMA NextKeepsSettled ==
    ASSUME IInv, [Next]_sessionVars, NEW e \in Registered, CodeSettled(e)
    PROVE  CodeSettled(e)' /\ account'[e].referralCode = account[e].referralCode
<1>1. /\ account \in [Emails -> Accounts \cup {NoAccount}] /\ SessionsTypeOK
      /\ e \in Emails /\ account[e] \in Accounts
    BY AccountShape DEF IInv, SessionsTypeOK
<1>2. /\ account[e].referralCode # None
      /\ \A q \in Requests : request[q].at = "code" => request[q].user # e
    BY DEF CodeSettled
<1>3. account'[e].referralCode = account[e].referralCode
  <2>1. ASSUME NEW q \in Requests, CreateAccount(q) PROVE account'[e] = account[e]
    <3>1. request[q].email # e
        BY <2>1 DEF CreateAccount
    <3>2. QED
        BY <1>1, <2>1, <3>1 DEF CreateAccount
  <2>2. ASSUME NEW q \in Requests, WriteCode(q) PROVE account'[e] = account[e]
    <3>1. request[q].user # e
        BY <1>2, <2>2 DEF WriteCode
    <3>2. QED
        BY <1>1, <2>2, <3>1 DEF WriteCode
  <2>3. ASSUME NEW f \in Emails, Rename(f)
        PROVE  account'[e].referralCode = account[e].referralCode
      BY <1>1, <2>3 DEF Rename, Accounts
  <2>4. ASSUME NEW f \in Emails, SetFrozen(f)
        PROVE  account'[e].referralCode = account[e].referralCode
      BY <1>1, <2>4 DEF SetFrozen, Accounts
  <2>5. ASSUME NEW q \in Requests, RequestStep(q)
        PROVE  account' = account \/ CreateAccount(q) \/ WriteCode(q)
      BY <2>5 DEF RequestStep, FindExisting, FindReferrer, FindUser, SignIn, FindToken,
         SpendToken, FindOwnToken, ForgetToken, StoreToken, ReadCode, AbortRequest
  <2>6. QED
      BY <2>1, <2>2, <2>3, <2>4, <2>5 DEF Next, Tick, sessionVars
<1>4. ASSUME NEW q \in Requests, request'[q].at = "code" PROVE request'[q].user # e
  <2>1. CASE request'[q] = request[q]
      BY <1>2, <1>4, <2>1
  <2>2. CASE ReadCode(q)
    <3>1. PICK f \in Registered, code \in Codes :
             /\ account[f].referralCode = None
             /\ GoTo(q, [at |-> "code", user |-> f, code |-> code])
        BY <2>2 DEF ReadCode
    <3>2. f # e
        BY <1>2, <3>1
    <3>3. QED
        BY <1>1, <3>1, <3>2, GoToMoves
  <2>3. QED
      BY <1>1, <1>4, <2>1, <2>2, CodeRequestsComeFrom
<1>5. QED
    BY <1>2, <1>3, <1>4 DEF CodeSettled

\* A code that was shown while nobody was drawing another one is final.
THEOREM CodesAreFinal == Spec => CodeSettles
<1>1. IInv /\ [Next]_sessionVars =>
        [\A e \in Registered :
           CodeSettled(e) => CodeSettled(e)' /\ account'[e].referralCode
                                                  = account[e].referralCode]_sessionVars
    BY NextKeepsSettled
<1>2. QED
    BY <1>1, Invariance, PTL DEF Spec, CodeSettles

-----------------------------------------------------------------------------
(* Sessions and their tokens *)

\* The token that represents a session in SessionBook.
Hand(s) == IF TokensOf(s) = {} THEN NoRow ELSE CHOOSE t \in TokensOf(s) : TRUE

\* It is what the one bearer of the session holds.
HandIsBearers ==
    \A s \in SignIns :
        /\ \A i \in RowIds : Holds(i) /\ refreshToken[i].session = s =>
               TokensOf(s) = {TokenOf(refreshToken[i])}
        /\ \A q \in Requests : Storing(q) /\ request[q].session = s =>
               TokensOf(s) = {TokenOf(request[q])}
        /\ \/ \E i \in RowIds : Holds(i) /\ refreshToken[i].session = s
           \/ \E q \in Requests : Storing(q) /\ request[q].session = s
           \/ TokensOf(s) = {}

LEMMA HandNow == IInv => HandIsBearers
BY DEF IInv, TokensInOrder, RowsApart, RequestsApart, RowsApartFromRequests, HandIsBearers,
   TokensOf, Rows, Holds, Storing

\* The same after the step.
LEMMA HandLater == IInv' => HandIsBearers'
BY HandNow, PTL

\* Where the rows and the signed tokens of the next state come from.
LEMMA BearersComeFrom ==
    ASSUME IInv, [Next]_sessionVars
    PROVE  /\ \A i \in RowIds : Holds(i)' =>
                \/ Holds(i) /\ refreshToken'[i] = refreshToken[i]
                \/ \E q \in Requests :
                     /\ Storing(q) /\ refreshToken'[i].session = request[q].session
                     /\ TokenOf(refreshToken'[i]) = TokenOf(request[q])
           /\ \A q \in Requests : Storing(q)' =>
                \/ Storing(q) /\ request'[q] = request[q]
                \/ request'[q].signedAt = now
<1>1. SessionsTypeOK
    BY DEF IInv
<1>2. ASSUME NEW p \in Requests, RequestStep(p), NEW q \in Requests, Storing(q)'
      PROVE  request'[q] = request[q] \/ request'[q].signedAt = now
  <2>1. ASSUME NEW state, GoTo(p, state), state.at = "store" => state.signedAt = now
        PROVE  request'[q] = request[q] \/ request'[q].signedAt = now
      BY <1>1, <1>2, <2>1, GoToMoves DEF Storing
  <2>2. QED
      BY <1>2, <2>1 DEF RequestStep, FindExisting, FindReferrer, CreateAccount, FindUser,
         SignIn, FindToken, SpendToken, FindOwnToken, ForgetToken, StoreToken, WriteCode,
         ReadCode, AbortRequest, OpenSession, SignTokens, Answer, Free
<1>3. ASSUME NEW p \in Requests, RequestStep(p), NEW i \in RowIds, Holds(i)'
      PROVE  \/ refreshToken'[i] = refreshToken[i]
             \/ \E q \in Requests :
                  /\ Storing(q) /\ refreshToken'[i].session = request[q].session
                  /\ TokenOf(refreshToken'[i]) = TokenOf(request[q])
  <2>1. CASE refreshToken' = refreshToken
      BY <2>1
  <2>2. CASE StoreToken(p)
    <3> DEFINE r == request[p]
               row == [user |-> r.user, signedAt |-> r.signedAt, session |-> r.session]
    <3>1. PICK j \in RowIds : refreshToken' = [refreshToken EXCEPT ![j] = row]
        BY <2>2 DEF StoreToken
    <3>2. row.session = r.session /\ TokenOf(row) = TokenOf(r)
        BY DEF TokenOf
    <3> HIDE DEF row
    <3>3. refreshToken'[i] = refreshToken[i] \/ refreshToken'[i] = row
        BY <1>1, <3>1 DEF SessionsTypeOK
    <3>4. Storing(p)
        BY <2>2 DEF StoreToken, Storing
    <3>5. QED
        BY <3>2, <3>3, <3>4
  <2>3. CASE SpendToken(p)
      BY <1>1, <1>3, <2>3 DEF SpendToken, Holds, SessionsTypeOK
  <2>4. CASE ForgetToken(p)
      BY <1>3, <2>4 DEF ForgetToken, Holds
  <2>5. QED
      BY <1>3, <2>1, <2>2, <2>3, <2>4 DEF RequestStep, FindExisting, FindReferrer,
         CreateAccount, FindUser, SignIn, FindToken, FindOwnToken, WriteCode, ReadCode,
         AbortRequest
<1>4. CASE UNCHANGED <<refreshToken, request>>
    BY <1>4 DEF Holds, Storing
<1>5. QED
    BY <1>2, <1>3, <1>4 DEF Next, Rename, SetFrozen, Tick, sessionVars, Holds, Storing

\* A token that no session held before the step was signed in this second.
LEMMA NewTokensAreFresh ==
    ASSUME IInv, [Next]_sessionVars, NEW s \in SignIns, NEW t \in TokensOf(s)'
    PROVE  t.signedAt = now \/ \E x \in SignIns : t \in TokensOf(x)
<1>1. \/ \E i \in RowIds : Holds(i)' /\ t = TokenOf(refreshToken'[i])
      \/ \E q \in Requests : Storing(q)' /\ t = TokenOf(request'[q])
    BY DEF TokensOf, Rows, Holds, Storing
<1>2. ASSUME NEW i \in RowIds, Holds(i)
      PROVE  \E x \in SignIns : TokenOf(refreshToken[i]) \in TokensOf(x)
  <2>1. refreshToken[i].session \in SignIns
      BY <1>2, RowShape DEF IInv, TokenRows
  <2>2. QED
      BY <1>2, <2>1 DEF TokensOf, Rows, Holds
<1>3. ASSUME NEW q \in Requests, Storing(q)
      PROVE  \E x \in SignIns : TokenOf(request[q]) \in TokensOf(x)
  <2>1. request[q].session \in SignIns
      BY <1>3, RequestShape DEF IInv, Storing
  <2>2. QED
      BY <1>3, <2>1 DEF TokensOf, Storing
<1>4. \A h : TokenOf(h).signedAt = h.signedAt
    BY DEF TokenOf
<1>5. QED
    BY <1>1, <1>2, <1>3, <1>4, BearersComeFrom

\* A token that was spent or logged out stays refused once its second is over.
THEOREM SpentForGood == Spec => SpentTokenStaysSpent
<1>1. ASSUME IInv, [Next]_sessionVars, NEW e \in Emails, NEW second \in 0 .. MaxNow,
             ~(\E s \in SignIns : [user |-> e, signedAt |-> second] \in TokensOf(s)),
             second < now
      PROVE  ~(\E s \in SignIns : [user |-> e, signedAt |-> second] \in TokensOf(s)')
  <2>1. second # now
      BY <1>1 DEF IInv, SessionsTypeOK
  <2>2. [user |-> e, signedAt |-> second].signedAt = second
      OBVIOUS
  <2>3. QED
      BY <1>1, <2>1, <2>2, NewTokensAreFresh
<1>2. IInv /\ [Next]_sessionVars =>
        [\A e \in Emails, second \in 0 .. MaxNow :
           LET held == \E s \in SignIns : [user |-> e, signedAt |-> second] \in TokensOf(s)
           IN  ~held /\ second < now => ~held']_sessionVars
    BY <1>1
<1>3. QED
    BY <1>2, Invariance, PTL DEF Spec, SpentTokenStaysSpent

-----------------------------------------------------------------------------
(* Sessions implements SessionBook *)

\* The row that is stored is one.
LEMMA StoredRow ==
    ASSUME SessionsTypeOK, NEW q \in Requests, StoreToken(q)
    PROVE  [user |-> request[q].user, signedAt |-> request[q].signedAt,
            session |-> request[q].session] \in TokenRows
<1>1. request[q] \in [at : {"store"}, user : Emails, signedAt : Nat, session : SignIns]
    BY RequestShape DEF StoreToken
<1>2. QED
    BY <1>1 DEF TokenRows

Bearing(i, s) == Holds(i) /\ refreshToken[i].session = s

SigningFor(q, s) == Storing(q) /\ request[q].session = s

\* A session whose bearer does nothing keeps its token.
LEMMA HandKept ==
    ASSUME NEW s \in SignIns,
           \A i \in RowIds : Bearing(i, s) \/ Bearing(i, s)' =>
               refreshToken'[i] = refreshToken[i],
           \A q \in Requests : SigningFor(q, s) \/ SigningFor(q, s)' =>
               request'[q] = request[q]
    PROVE  Hand(s)' = Hand(s)
<1>1. TokensOf(s)' = TokensOf(s)
    BY DEF TokensOf, Rows, Holds, Storing, Bearing, SigningFor, TokenOf
<1>2. QED
    BY <1>1 DEF Hand

\* What the bearer holds is the token of the session, one that SessionBook knows.
LEMMA HandOfRow ==
    ASSUME IInv, NEW i \in RowIds, Holds(i)
    PROVE  /\ refreshToken[i].session \in SignIns
           /\ Hand(refreshToken[i].session) = TokenOf(refreshToken[i])
<1>1. refreshToken[i].session \in SignIns
    BY RowShape DEF IInv, TokenRows
<1>2. QED
    BY <1>1, HandNow DEF HandIsBearers, Hand

LEMMA HandOfRequest ==
    ASSUME IInv, NEW q \in Requests, Storing(q)
    PROVE  /\ request[q].session \in SignIns
           /\ Hand(request[q].session) = TokenOf(request[q])
<1>1. request[q].session \in SignIns
    BY RequestShape DEF IInv, Storing
<1>2. QED
    BY <1>1, HandNow DEF HandIsBearers, Hand

\* NoRow is no token.
LEMMA NoRowIsNoToken == \A h : TokenOf(h) # NoRow
<1>1. SUFFICES ASSUME NEW h, TokenOf(h) = NoRow PROVE FALSE
    OBVIOUS
<1>2. DOMAIN TokenOf(h) = {"user", "signedAt"}
    BY DEF TokenOf
<1>3. DOMAIN NoRow = {"user"}
    BY DEF NoRow
<1>4. QED
    BY <1>1, <1>2, <1>3

\* A step that moves no bearer is a stutter of the book.
LEMMA BookStutters ==
    ASSUME started' = started, \A s \in SignIns : Hand(s)' = Hand(s)
    PROVE  UNCHANGED Book!bookVars
<1>1. [s \in SignIns |-> Hand(s)]' = [s \in SignIns |-> Hand(s)]
    OBVIOUS
<1>2. QED
    BY <1>1 DEF Book!bookVars, Hand

\* A register or a login opens a session of the book.
LEMMA OpenSessionSignsIn ==
    ASSUME IInv, IInv', NEW q \in Requests, NEW user \in Emails, OpenSession(q, user),
           ~Storing(q), UNCHANGED <<refreshToken, now>>
    PROVE  Book!Next
<1>1. PICK s \in SignIns \ started :
        started' = started \cup {s} /\ SignTokens(q, user, s)
    BY DEF OpenSession
<1> DEFINE t == [user |-> user, signedAt |-> now]
<1>2. /\ request'[q] = [at |-> "store", user |-> user, signedAt |-> now, session |-> s]
      /\ \A p \in Requests : p # q => request'[p] = request[p]
    BY <1>1, GoToMoves DEF IInv, SignTokens
<1>3. Hand(s)' = t
  <2>1. Storing(q)' /\ request'[q].session = s
      BY <1>2 DEF Storing
  <2>2. TokensOf(s)' = {TokenOf(request[q])}'
      BY <2>1, HandLater DEF HandIsBearers
  <2>3. TokenOf(request[q])' = t
      BY <1>2 DEF TokenOf
  <2>4. QED
      BY <2>2, <2>3 DEF Hand
<1>4. ASSUME NEW x \in SignIns, x # s PROVE Hand(x)' = Hand(x)
  <2>1. \A p \in Requests : SigningFor(p, x) \/ SigningFor(p, x)' => request'[p] = request[p]
      BY <1>2, <1>4 DEF SigningFor
  <2>2. QED
      BY <2>1, HandKept
<1>5. t \in [user : Emails, signedAt : 0 .. MaxNow]
    BY DEF IInv, TokensInOrder, ClockBounds
<1>6. [x \in SignIns |-> Hand(x)]' = [[x \in SignIns |-> Hand(x)] EXCEPT ![s] = t]
    BY <1>3, <1>4
<1> HIDE DEF t
<1>7. Book!SignIn(s)
    BY <1>1, <1>5, <1>6 DEF Book!SignIn, Hand
<1>8. QED
    BY <1>7 DEF Book!Next

\* A refresh hands the session on to a token of the same user, no older.
LEMMA SpendTokenRotates ==
    ASSUME IInv, IInv', NEW q \in Requests, SpendToken(q)
    PROVE  Book!Next
<1>1. PICK i \in RowIds, s \in SignIns, u \in Emails, second \in 0 .. MaxNow :
        /\ request[q].id = i /\ request[q].session = s /\ request[q].user = u
        /\ second = now /\ Holds(i)
  <2>1. request[q] \in [at : {"spend"}, id : RowIds, user : Emails, session : SignIns]
      BY RequestShape DEF IInv, SpendToken
  <2>2. Holds(request[q].id) /\ now \in 0 .. MaxNow
      BY DEF SpendToken, Rows, Holds, IInv, TokensInOrder, ClockBounds
  <2>3. QED
      BY <2>1, <2>2
<1> DEFINE t == [user |-> u, signedAt |-> second]
<1>2. /\ s = refreshToken[i].session /\ u = refreshToken[i].user
      /\ refreshToken[i].signedAt <= second
  <2>1. request[q].at = "spend"
      BY DEF SpendToken
  <2>2. QED
      BY <1>1, <2>1 DEF IInv, TokensInOrder, SpendsWhatItFound, ClockBounds
<1>3. /\ request'[q] = [at |-> "store", user |-> u, signedAt |-> second, session |-> s]
      /\ \A p \in Requests : p # q => request'[p] = request[p]
    BY <1>1, GoToMoves DEF IInv, SpendToken, SignTokens
<1>4. /\ refreshToken'[i] = NoRow
      /\ \A j \in RowIds : j # i => refreshToken'[j] = refreshToken[j]
    BY <1>1 DEF IInv, SessionsTypeOK, SpendToken
<1>5. Hand(s).user = u /\ Hand(s).signedAt <= second /\ Hand(s) # NoRow
  <2>1. Hand(s) = TokenOf(refreshToken[i])
      BY <1>1, <1>2, HandOfRow
  <2>2. QED
      BY <1>2, <2>1, NoRowIsNoToken DEF TokenOf
<1>6. Hand(s)' = t
  <2>1. Storing(q)' /\ request'[q].session = s
      BY <1>3 DEF Storing
  <2>2. TokensOf(s)' = {TokenOf(request[q])}'
      BY <2>1, HandLater DEF HandIsBearers
  <2>3. TokenOf(request[q])' = t
      BY <1>3 DEF TokenOf
  <2>4. QED
      BY <2>2, <2>3 DEF Hand
<1>7. ASSUME NEW x \in SignIns, x # s PROVE Hand(x)' = Hand(x)
  <2>1. \A p \in Requests : SigningFor(p, x) \/ SigningFor(p, x)' => request'[p] = request[p]
      BY <1>3, <1>7 DEF SigningFor, Storing, SpendToken
  <2>2. ~Bearing(i, x) /\ ~Bearing(i, x)'
      BY <1>2, <1>4, <1>7 DEF Bearing, Holds
  <2>3. QED
      BY <1>4, <2>1, <2>2, HandKept
<1> DEFINE hand == [x \in SignIns |-> Hand(x)]
<1>8. hand' = [hand EXCEPT ![s] = t] /\ hand[s] = Hand(s)
    BY <1>6, <1>7
<1>9. started' = started
    BY DEF SpendToken
<1>10. t \in [user : Emails, signedAt : 0 .. MaxNow] /\ t.user = u /\ t.signedAt = second
    OBVIOUS
<1> HIDE DEF t
<1>11. Book!Rotate(s)
    BY <1>5, <1>8, <1>9, <1>10 DEF Book!Rotate, Hand
<1>12. QED
    BY <1>11 DEF Book!Next

\* Storing the row moves the token from the request to the table.
LEMMA StoreTokenStutters ==
    ASSUME IInv, IInv', NEW q \in Requests, StoreToken(q)
    PROVE  UNCHANGED Book!bookVars
<1>1. PICK i \in RowIds \ Rows, s \in SignIns :
        /\ request[q].session = s
        /\ refreshToken' = [refreshToken EXCEPT ![i] =
               [user |-> request[q].user, signedAt |-> request[q].signedAt,
                session |-> request[q].session]]
  <2>1. request[q].session \in SignIns
      BY RequestShape DEF IInv, StoreToken
  <2>2. QED
      BY <2>1 DEF StoreToken
<1>2. /\ refreshToken'[i].session = s /\ TokenOf(refreshToken'[i]) = TokenOf(request[q])
      /\ \A j \in RowIds : j # i => refreshToken'[j] = refreshToken[j]
    BY <1>1 DEF IInv, SessionsTypeOK, TokenOf
<1>3. request'[q] = Free /\ \A p \in Requests : p # q => request'[p] = request[p]
    BY GoToMoves DEF IInv, StoreToken, Answer
<1>4. Hand(s)' = Hand(s)
  <2>1. Hand(s) = TokenOf(request[q])
      BY <1>1, HandOfRequest DEF StoreToken, Storing
  <2>2. refreshToken'[i] # NoRow
      BY <1>1, RowShape, NoRowIsNoRow, StoredRow DEF IInv, SessionsTypeOK
  <2>3. TokensOf(s)' = {TokenOf(refreshToken[i])}'
      BY <1>2, <2>2, HandLater DEF HandIsBearers, Holds
  <2>4. QED
      BY <1>2, <2>1, <2>3 DEF Hand
<1>5. ASSUME NEW x \in SignIns, x # s PROVE Hand(x)' = Hand(x)
  <2>1. \A p \in Requests : SigningFor(p, x) \/ SigningFor(p, x)' => request'[p] = request[p]
      BY <1>1, <1>3, <1>5 DEF SigningFor, Storing, Free
  <2>2. ~Bearing(i, x) /\ ~Bearing(i, x)'
      BY <1>1, <1>2, <1>5 DEF Bearing, Holds, Rows
  <2>3. QED
      BY <1>2, <2>1, <2>2, HandKept
<1>6. started' = started
    BY DEF StoreToken
<1>7. QED
    BY <1>4, <1>5, <1>6, BookStutters

\* A logout ends the sessions that hold the token, or none.
LEMMA ForgetTokenEnds ==
    ASSUME IInv, IInv', NEW q \in Requests, ForgetToken(q)
    PROVE  [Book!Next]_(Book!bookVars)
<1>1. PICK t : t = TokenOf(request[q])
    OBVIOUS
<1> DEFINE S == {s \in SignIns : \E i \in RowIds :
                    Bearing(i, s) /\ TokenOf(refreshToken[i]) = t}
           hand == [x \in SignIns |-> Hand(x)]
<1>2. request'[q] = Free /\ \A p \in Requests : p # q => request'[p] = request[p]
    BY GoToMoves DEF IInv, ForgetToken, Answer
<1>3. \A p \in Requests, x \in SignIns :
        SigningFor(p, x) \/ SigningFor(p, x)' => request'[p] = request[p]
    BY <1>2 DEF SigningFor, Storing, Free, ForgetToken
<1>4. \A i \in RowIds :
        refreshToken'[i] = IF Holds(i) /\ TokenOf(refreshToken[i]) = t
                           THEN NoRow ELSE refreshToken[i]
    BY <1>1 DEF ForgetToken, Rows, Holds
<1>5. ASSUME NEW x \in SignIns \ S PROVE Hand(x)' = Hand(x)
  <2>1. \A i \in RowIds : Bearing(i, x) => TokenOf(refreshToken[i]) # t
      BY <1>5
  <2>2. \A i \in RowIds : Bearing(i, x) \/ Bearing(i, x)' => refreshToken'[i] = refreshToken[i]
      BY <1>4, <2>1 DEF Bearing, Holds
  <2>3. QED
      BY <1>3, <2>2, HandKept
<1>6. ASSUME NEW x \in S PROVE Hand(x) = t /\ Hand(x)' = NoRow
  <2>1. PICK i \in RowIds : Bearing(i, x) /\ TokenOf(refreshToken[i]) = t
      BY <1>6
  <2>2. Hand(x) = t
      BY <2>1, HandOfRow DEF Bearing
  <2>3. \A j \in RowIds : ~Bearing(j, x)'
      BY <1>4, <2>1 DEF Bearing, Holds, IInv, TokensInOrder, RowsApart
  <2>4. \A p \in Requests : ~SigningFor(p, x)'
      BY <1>3, <2>1 DEF Bearing, SigningFor, Storing, IInv, TokensInOrder,
         RowsApartFromRequests
  <2>5. TokensOf(x)' = {}
      BY <2>3, <2>4, HandLater DEF HandIsBearers, Bearing, SigningFor
  <2>6. QED
      BY <2>2, <2>5 DEF Hand
<1>7. started' = started
    BY DEF ForgetToken
<1>8. CASE S = {}
    BY <1>5, <1>7, <1>8, BookStutters
<1>9. CASE S # {}
  <2>1. hand' = [x \in SignIns |-> IF x \in S THEN NoRow ELSE hand[x]]
      BY <1>5, <1>6
  <2>2. \A x \in S : hand[x] = t
      BY <1>6
  <2>3. t \in [user : Emails, signedAt : 0 .. MaxNow]
    <3>1. PICK i \in RowIds : Holds(i) /\ TokenOf(refreshToken[i]) = t
        BY <1>9 DEF Bearing
    <3>2. /\ refreshToken[i] \in TokenRows /\ refreshToken[i].signedAt <= now
          /\ now \in 0 .. MaxNow
        BY <3>1, RowShape DEF IInv, TokensInOrder, ClockBounds
    <3>3. refreshToken[i].user \in Emails /\ refreshToken[i].signedAt \in Nat
        BY <3>2 DEF TokenRows
    <3>4. refreshToken[i].signedAt \in 0 .. MaxNow
        BY <3>2, <3>3, SessionsAssumption DEF SessionsAssumption
    <3>5. QED
        BY <3>1, <3>3, <3>4 DEF TokenOf
  <2>4. S \in (SUBSET SignIns) \ {{}}
      BY <1>9
  <2> HIDE DEF S
  <2>5. Book!End(S)
      BY <1>7, <2>1, <2>2, <2>3 DEF Book!End, Hand
  <2>6. QED
      BY <2>4, <2>5 DEF Book!Next
<1>10. QED
    BY <1>8, <1>9

\* A request that ends while its row is not stored ends its session.
LEMMA AbortRequestEnds ==
    ASSUME IInv, IInv', NEW q \in Requests, AbortRequest(q)
    PROVE  [Book!Next]_(Book!bookVars)
<1>1. request'[q] = Free /\ \A p \in Requests : p # q => request'[p] = request[p]
    BY GoToMoves DEF IInv, AbortRequest, Answer
<1>2. UNCHANGED <<refreshToken, started>>
    BY DEF AbortRequest
<1>3. ASSUME NEW x \in SignIns, ~SigningFor(q, x) PROVE Hand(x)' = Hand(x)
  <2>1. \A p \in Requests : SigningFor(p, x) \/ SigningFor(p, x)' => request'[p] = request[p]
      BY <1>1, <1>3 DEF SigningFor, Storing, Free
  <2>2. QED
      BY <1>2, <2>1, HandKept
<1>4. CASE ~Storing(q)
    BY <1>2, <1>3, <1>4, BookStutters DEF SigningFor
<1>5. CASE Storing(q)
  <2>1. PICK s \in SignIns, t \in Tokens : s = request[q].session /\ t = TokenOf(request[q])
    <3>1. request[q].session \in SignIns /\ TokenOf(request[q]) \in Tokens
        BY <1>5, RequestShape DEF IInv, Storing, TokenOf, Tokens
    <3>2. QED
        BY <3>1
  <2> DEFINE hand == [x \in SignIns |-> Hand(x)]
  <2>2. Hand(s) = t
      BY <1>5, <2>1, HandOfRequest
  <2>3. Hand(s)' = NoRow
    <3>1. \A p \in Requests : ~SigningFor(p, s)'
        BY <1>1, <1>5, <2>1 DEF SigningFor, Storing, Free, IInv, TokensInOrder, RequestsApart
    <3>2. \A i \in RowIds : ~Bearing(i, s)'
        BY <1>2, <1>5, <2>1 DEF Bearing, Holds, IInv, TokensInOrder, RowsApartFromRequests
    <3>3. TokensOf(s)' = {}
        BY <3>1, <3>2, HandLater DEF HandIsBearers, Bearing, SigningFor
    <3>4. QED
        BY <3>3 DEF Hand
  <2>4. \A x \in SignIns : x # s => Hand(x)' = Hand(x)
      BY <1>3, <2>1 DEF SigningFor
  <2>5. hand' = [x \in SignIns |-> IF x \in {s} THEN NoRow ELSE hand[x]]
      BY <2>3, <2>4
  <2>6. t \in [user : Emails, signedAt : 0 .. MaxNow]
    <3>1. /\ request[q] \in [at : {"store"}, user : Emails, signedAt : Nat, session : SignIns]
          /\ request[q].signedAt <= now /\ now \in 0 .. MaxNow
        BY <1>5, RequestShape DEF Storing, IInv, TokensInOrder, ClockBounds
    <3>2. request[q].user \in Emails /\ request[q].signedAt \in 0 .. MaxNow
        BY <3>1, SessionsAssumption DEF SessionsAssumption
    <3>3. QED
        BY <2>1, <3>2 DEF TokenOf
  <2>7. Book!End({s})
      BY <1>2, <2>2, <2>5, <2>6 DEF Book!End, Hand
  <2>8. {s} \in (SUBSET SignIns) \ {{}}
      OBVIOUS
  <2>9. QED
      BY <2>7, <2>8 DEF Book!Next
<1>6. QED
    BY <1>4, <1>5

\* The other awaits concern no token.
LEMMA QuietMoveStutters ==
    ASSUME IInv, NEW q \in Requests, NEW state, GoTo(q, state), ~Storing(q),
           state.at # "store", UNCHANGED <<refreshToken, started>>
    PROVE  UNCHANGED Book!bookVars
<1>1. request'[q] = state /\ \A p \in Requests : p # q => request'[p] = request[p]
    BY GoToMoves DEF IInv
<1>2. ASSUME NEW x \in SignIns PROVE Hand(x)' = Hand(x)
  <2>1. \A p \in Requests : SigningFor(p, x) \/ SigningFor(p, x)' => request'[p] = request[p]
      BY <1>1 DEF SigningFor, Storing
  <2>2. QED
      BY <2>1, HandKept
<1>3. QED
    BY <1>2, BookStutters

\* Every step of a request is a step of the book, or none.
LEMMA RequestStepKeepsBook ==
    ASSUME IInv, IInv', NEW q \in Requests, RequestStep(q)
    PROVE  [Book!Next]_(Book!bookVars)
<1>1. CASE FindExisting(q) \/ FindUser(q) \/ FindOwnToken(q) \/ FindToken(q) \/ ReadCode(q)
  <2>1. request[q] = Free /\ ~Storing(q) /\ UNCHANGED <<refreshToken, started>>
      BY <1>1 DEF FindExisting, FindUser, FindOwnToken, FindToken, ReadCode, Storing, Free
  <2>2. ASSUME NEW state, GoTo(q, state), state.at # "store"
        PROVE  [Book!Next]_(Book!bookVars)
      BY <2>1, <2>2, QuietMoveStutters
  <2>3. CASE FindExisting(q)
      BY <2>2, <2>3 DEF FindExisting
  <2>4. CASE FindUser(q)
      BY <2>2, <2>4 DEF FindUser
  <2>5. CASE FindOwnToken(q)
      BY <2>2, <2>5 DEF FindOwnToken
  <2>6. CASE FindToken(q)
      BY <2>2, <2>6 DEF FindToken
  <2>7. CASE ReadCode(q)
      BY <2>2, <2>7 DEF ReadCode
  <2>8. QED
      BY <1>1, <2>3, <2>4, <2>5, <2>6, <2>7
<1>2. CASE FindReferrer(q)
    BY <1>2, QuietMoveStutters DEF FindReferrer, Answer, Free, Storing
<1>3. CASE WriteCode(q)
    BY <1>3, QuietMoveStutters DEF WriteCode, Answer, Free, Storing
<1>4. CASE CreateAccount(q)
  <2>1. request[q].email \in Emails /\ ~Storing(q)
      BY <1>4, RequestShape DEF CreateAccount, IInv, Storing
  <2>2. QED
      BY <1>4, <2>1, OpenSessionSignsIn DEF CreateAccount
<1>5. CASE SignIn(q)
  <2>1. request[q].email \in Emails /\ ~Storing(q)
      BY <1>5, RequestShape DEF SignIn, IInv, Storing
  <2>2. CASE Answer(q) /\ UNCHANGED started
      BY <1>5, <2>1, <2>2, QuietMoveStutters DEF SignIn, Answer, Free
  <2>3. CASE OpenSession(q, request[q].email)
      BY <1>5, <2>1, <2>3, OpenSessionSignsIn DEF SignIn
  <2>4. QED
      BY <1>5, <2>2, <2>3 DEF SignIn
<1>6. QED
    BY <1>1, <1>2, <1>3, <1>4, <1>5, SpendTokenRotates, StoreTokenStutters, ForgetTokenEnds,
       AbortRequestEnds DEF RequestStep

\* AuthService implements SessionBook: a session starts once, passes from token
\* to token, and once it has none left no token of it opens anything again.
THEOREM SessionsKeepBook == Spec => KeepsBook
<1>1. Init => Book!Init
    BY DEF Init, Book!Init, TokensOf, Rows, Free
<1>2. ASSUME IInv, IInv', [Next]_sessionVars PROVE [Book!Next]_(Book!bookVars)
  <2>1. CASE UNCHANGED <<refreshToken, request, started>>
    <3>1. \A x \in SignIns : Hand(x)' = Hand(x)
        BY <2>1, HandKept
    <3>2. QED
        BY <2>1, <3>1, BookStutters
  <2>2. QED
      BY <1>2, <2>1, RequestStepKeepsBook DEF Next, Rename, SetFrozen, Tick, sessionVars
<1>3. QED
    BY <1>1, <1>2, Invariance, PTL DEF Spec, KeepsBook, Book!Spec

=============================================================================
