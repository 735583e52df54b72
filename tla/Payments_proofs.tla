-------------------------- MODULE Payments_proofs --------------------------
(***************************************************************************)
(* Proofs about Payments, for any number of users, rows, requests and       *)
(* deliveries, and any amounts.                                             *)
(***************************************************************************)
EXTENDS Payments, Sums

\* A created row carries the sign that its handler gave it.
SignedRow(row) ==
    /\ row \in Rows
    /\ row.type = "deposit" => row.amount > 0
    /\ row.type = "withdraw" => row.amount < 0

RowsSigned == \A t \in TxIds : tx[t] # NoRow => SignedRow(tx[t])

\* A delivery that is being handled names a row that exists, and once that row
\* was read it is of the type the handler insists on.
HooksNameRows ==
    \A h \in Hooks : hook[h] # NoHook =>
        /\ tx[hook[h].t] # NoRow
        /\ hook[h].at \in {"owner", "commit"} =>
               tx[hook[h].t].type = SubjectType(hook[h].kind)

\* A balance that a handler has read is not negative either.
CallsSeeFunds == \A c \in Calls : call[c] # Idle => call[c].seen >= 0
PatchesSeeFunds == \A p \in Patches : patch[p] # NoPatch => patch[p].seen >= 0
HooksSeeFunds == \A h \in Hooks : hook[h] # NoHook => hook[h].seen >= 0

\* The inductive invariant.
IInv ==
    /\ TypeOK
    /\ RowsSigned
    /\ HooksNameRows
    /\ NoOverdraft
    /\ CallsSeeFunds
    /\ PatchesSeeFunds
    /\ HooksSeeFunds

-----------------------------------------------------------------------------
(* What the writes of Store preserve. *)

StoreInv ==
    /\ StoreTypeOK
    /\ RowsSigned
    /\ NoOverdraft

\* A row that exists keeps its owner, its type and its amount.
RowsKept ==
    \A t \in TxIds : tx[t] # NoRow =>
        /\ tx'[t] # NoRow
        /\ tx'[t].user = tx[t].user
        /\ tx'[t].type = tx[t].type
        /\ tx'[t].amount = tx[t].amount

LEMMA AmountsPositive == \A a \in Amounts : a \in Int /\ a > 0
BY StoreAssumption DEF StoreAssumption

LEMMA ReportedPositive == \A a \in Reported \cup {Unpaid} : a \in Int /\ a >= 0
BY WebhooksAssumption DEF WebhooksAssumption, Unpaid

\* NoRow is no row: a created row carries an owner.
LEMMA NoRowIsNoRow == NoRow \notin Rows
<1>1. SUFFICES ASSUME NoRow \in Rows PROVE FALSE
    OBVIOUS
<1>2. NoRow.txStatus \in {"pending", "completed", "failed"}
    BY <1>1 DEF Rows
<1>3. QED
    BY <1>2 DEF NoRow

\* transaction.create of a pending row disturbs no other row.
LEMMA CreatePendingKeeps ==
    ASSUME StoreInv,
           NEW u \in Users, NEW type \in {"deposit", "withdraw"}, NEW amount \in Int,
           type = "deposit" => amount > 0,
           type = "withdraw" => amount < 0,
           CreatePending(u, type, amount),
           UNCHANGED <<balance, accountFrozen>>
    PROVE  StoreInv' /\ RowsKept
<1> DEFINE row == [user |-> u, type |-> type, amount |-> amount, txStatus |-> "pending"]
<1>1. PICK t \in TxIds : tx[t] = NoRow /\ tx' = [tx EXCEPT ![t] = row]
    BY DEF CreatePending
<1>2. SignedRow(row)
    BY DEF SignedRow, Rows
<1>3. row # NoRow
    BY <1>2, NoRowIsNoRow DEF SignedRow
<1>4. tx' \in [TxIds -> Rows \cup {NoRow}]
    BY <1>1, <1>2 DEF StoreInv, StoreTypeOK, SignedRow
<1>5. \A s \in TxIds : tx'[s] = IF s = t THEN row ELSE tx[s]
    BY <1>1 DEF StoreInv, StoreTypeOK
<1>6. RowsSigned'
    BY <1>2, <1>5 DEF StoreInv, RowsSigned
<1>7. RowsKept
    BY <1>1, <1>5 DEF RowsKept
<1>8. ledger' = ledger
    BY DEF CreatePending
<1>9. QED
    BY <1>4, <1>6, <1>7, <1>8 DEF StoreInv, StoreTypeOK, NoOverdraft

\* transaction.update of the status changes nothing else of the row.
LEMMA SetStatusKeeps ==
    ASSUME StoreTypeOK, RowsSigned,
           NEW t \in TxIds, tx[t] # NoRow,
           NEW status \in {"completed", "failed"},
           SetStatus(t, status)
    PROVE  /\ tx' \in [TxIds -> Rows \cup {NoRow}]
           /\ ledger' \in [Users -> Int]
           /\ RowsSigned'
           /\ RowsKept
<1> DEFINE row == [tx[t] EXCEPT !.txStatus = status]
<1>1. tx[t] \in Rows /\ SignedRow(tx[t])
    BY DEF StoreTypeOK, RowsSigned
<1>2. row \in Rows
    BY <1>1 DEF Rows
<1>3. row.user = tx[t].user /\ row.type = tx[t].type /\ row.amount = tx[t].amount
    BY <1>1 DEF Rows
<1>4. SignedRow(row)
    BY <1>1, <1>2, <1>3 DEF SignedRow
<1>5. row # NoRow
    BY <1>2, NoRowIsNoRow
<1>6. tx' = [tx EXCEPT ![t] = row]
    BY DEF SetStatus
<1>7. tx' \in [TxIds -> Rows \cup {NoRow}]
    BY <1>2, <1>6 DEF StoreTypeOK
<1>8. \A s \in TxIds : tx'[s] = IF s = t THEN row ELSE tx[s]
    BY <1>6 DEF StoreTypeOK
<1>9. Settled(row) \in Int /\ Settled(tx[t]) \in Int
    BY <1>1, <1>2 DEF Settled, Rows
<1>10. ledger' \in [Users -> Int]
  <2>1. row.user \in Users
      BY <1>2 DEF Rows
  <2>2. ledger' = [ledger EXCEPT ![row.user] =
                       ledger[row.user] + Settled(row) - Settled(tx[t])]
      BY DEF SetStatus
  <2>3. ledger[row.user] + Settled(row) - Settled(tx[t]) \in Int
      BY <2>1, <1>9 DEF StoreTypeOK
  <2>4. QED
      BY <2>1, <2>2, <2>3 DEF StoreTypeOK
<1>11. RowsSigned'
    BY <1>4, <1>8 DEF RowsSigned
<1>12. RowsKept
    BY <1>3, <1>5, <1>8 DEF RowsKept
<1>13. QED
    BY <1>7, <1>10, <1>11, <1>12

\* user.update with a completed row touches no pending row.
LEMMA PostKeeps ==
    ASSUME StoreInv,
           NEW u \in Users, NEW amount \in Int, NEW b \in Int, b >= 0,
           Post(u, amount, b),
           UNCHANGED accountFrozen
    PROVE  StoreInv' /\ RowsKept
<1>1. balance' \in [Users -> Decimals] /\ NoOverdraft'
    BY DEF Post, SetBalance, StoreInv, StoreTypeOK, NoOverdraft, Decimals
<1>2. ledger' \in [Users -> Int]
    BY DEF Post, StoreInv, StoreTypeOK
<1>3. tx' = tx
    BY DEF Post
<1>4. QED
    BY <1>1, <1>2, <1>3 DEF StoreInv, StoreTypeOK, RowsSigned, RowsKept

-----------------------------------------------------------------------------
(* The three components preserve the inductive invariant. *)

\* The parts of the invariant that belong to one component each.
WalletInv == WalletTypeOK /\ CallsSeeFunds
AdminInv == AdminTypeOK /\ PatchesSeeFunds
WebhooksInv == WebhooksTypeOK /\ HooksNameRows /\ HooksSeeFunds

LEMMA IInvParts == IInv <=> StoreInv /\ WalletInv /\ AdminInv /\ WebhooksInv
BY DEF IInv, TypeOK, StoreInv, WalletInv, AdminInv, WebhooksInv

\* Rows that keep their type leave the deliveries that name them alone.
LEMMA HooksNameKeptRows ==
    ASSUME WebhooksInv, RowsKept, UNCHANGED hookVars
    PROVE  WebhooksInv'
<1>1. hook' = hook /\ webhookDelivery' = webhookDelivery
    BY DEF hookVars
<1>2. HooksNameRows'
  <2>1. SUFFICES ASSUME NEW h \in Hooks, hook[h] # NoHook
                 PROVE  /\ tx'[hook[h].t] # NoRow
                        /\ hook[h].at \in {"owner", "commit"} =>
                               tx'[hook[h].t].type = SubjectType(hook[h].kind)
      BY <1>1 DEF HooksNameRows
  <2>2. hook[h].t \in TxIds
      BY <2>1 DEF WebhooksInv, WebhooksTypeOK, HookStates
  <2>3. QED
      BY <2>1, <2>2 DEF WebhooksInv, HooksNameRows, RowsKept
<1>3. QED
    BY <1>1, <1>2 DEF WebhooksInv, WebhooksTypeOK, HooksSeeFunds

\* Rows that are not touched are kept, and so is the store.
LEMMA StoreStays ==
    ASSUME StoreInv, UNCHANGED storeVars
    PROVE  StoreInv' /\ RowsKept
BY DEF storeVars, StoreInv, StoreTypeOK, RowsSigned, NoOverdraft, RowsKept

\* A request slot that becomes idle holds nothing any more.
LEMMA CallEnds ==
    ASSUME WalletInv, NEW c \in Calls, call' = [call EXCEPT ![c] = Idle]
    PROVE  WalletInv'
BY DEF WalletInv, WalletTypeOK, CallsSeeFunds

\* What a wallet request about to write holds.
LEMMA CallWrites ==
    ASSUME WalletInv, NEW c \in Calls, call[c].at = "write"
    PROVE  /\ call[c] \in CallStates
           /\ call[c] # Idle
           /\ call[c].user \in Users
           /\ call[c].amount \in Int /\ call[c].amount > 0
           /\ call[c].seen \in Int /\ call[c].seen >= 0
<1>1. call[c] # Idle
    BY DEF Idle
<1>2. call[c] \in CallStates
    BY <1>1 DEF WalletInv, WalletTypeOK
<1>3. call[c].user \in Users /\ call[c].amount \in Amounts /\ call[c].seen \in Decimals
    BY <1>2 DEF CallStates
<1>4. call[c].amount \in Int /\ call[c].amount > 0
    BY <1>3, AmountsPositive
<1>5. call[c].seen \in Int
    BY <1>3 DEF Decimals
<1>6. call[c].seen >= 0
    BY <1>1 DEF WalletInv, CallsSeeFunds
<1>7. QED
    BY <1>1, <1>2, <1>3, <1>4, <1>5, <1>6

LEMMA CallStepKeeps ==
    ASSUME StoreInv, WalletInv, NEW c \in Calls, CallStep(c)
    PROVE  StoreInv' /\ WalletInv' /\ RowsKept
<1>1. CASE ReadCaller(c)
  <2>1. PICK u \in Users, a \in Amounts, op \in {"deposit", "instant", "withdraw"} :
            call' = [call EXCEPT ![c] =
                [at |-> IF op = "withdraw" THEN "aggregate" ELSE "write",
                 op |-> op, user |-> u, amount |-> a, seen |-> balance[u]]]
      BY <1>1 DEF ReadCaller
  <2> DEFINE r == [at |-> IF op = "withdraw" THEN "aggregate" ELSE "write",
                   op |-> op, user |-> u, amount |-> a, seen |-> balance[u]]
  <2>2. r \in CallStates /\ r.seen >= 0
      BY DEF CallStates, StoreInv, StoreTypeOK, NoOverdraft
  <2>3. WalletInv'
      BY <2>1, <2>2 DEF WalletInv, WalletTypeOK, CallsSeeFunds
  <2>4. QED
      BY <2>3, <1>1, StoreStays DEF ReadCaller
<1>2. CASE CheckAvailable(c)
  <2>1. call[c] \in CallStates /\ call[c].seen >= 0
      BY <1>2 DEF CheckAvailable, WalletInv, WalletTypeOK, CallsSeeFunds, Idle
  <2>2. [call[c] EXCEPT !.at = "write"] \in CallStates
      BY <2>1 DEF CallStates
  <2>3. WalletInv'
    <3>1. CASE call' = [call EXCEPT ![c] = Idle]
        BY <3>1, CallEnds
    <3>2. CASE call' = [call EXCEPT ![c] = [call[c] EXCEPT !.at = "write"]]
      <4>1. [call[c] EXCEPT !.at = "write"].seen >= 0
          BY <2>1 DEF CallStates
      <4>2. QED
          BY <3>2, <2>2, <4>1 DEF WalletInv, WalletTypeOK, CallsSeeFunds
    <3>3. QED
        BY <3>1, <3>2, <1>2 DEF CheckAvailable
  <2>4. QED
      BY <2>3, <1>2, StoreStays DEF CheckAvailable
<1>3. CASE CreateDeposit(c)
    BY <1>3, CallWrites, CreatePendingKeeps, CallEnds DEF CreateDeposit
<1>4. CASE DepositInstantly(c)
  <2>1. Post(call[c].user, call[c].amount, call[c].seen + call[c].amount)
      BY <1>4 DEF DepositInstantly
  <2>2. /\ call[c].user \in Users /\ call[c].amount \in Int
        /\ call[c].seen + call[c].amount \in Int
        /\ call[c].seen + call[c].amount >= 0
      BY <1>4, CallWrites DEF DepositInstantly
  <2>3. StoreInv' /\ RowsKept
      BY <1>4, <2>1, <2>2, PostKeeps DEF DepositInstantly
  <2>4. QED
      BY <1>4, <2>3, CallEnds DEF DepositInstantly
<1>5. CASE CreateWithdrawal(c)
  <2>1. CreatePending(call[c].user, "withdraw", -call[c].amount)
      BY <1>5 DEF CreateWithdrawal
  <2>2. /\ call[c].user \in Users
        /\ -call[c].amount \in Int /\ -call[c].amount < 0
      BY <1>5, CallWrites DEF CreateWithdrawal
  <2>3. StoreInv' /\ RowsKept
      BY <1>5, <2>1, <2>2, CreatePendingKeeps DEF CreateWithdrawal
  <2>4. QED
      BY <1>5, <2>3, CallEnds DEF CreateWithdrawal
<1>6. CASE AbortCall(c)
    BY <1>6, StoreStays, CallEnds DEF AbortCall
<1>7. QED
    BY <1>1, <1>2, <1>3, <1>4, <1>5, <1>6 DEF CallStep

\* A patch slot that becomes idle holds nothing any more.
LEMMA PatchEnds ==
    ASSUME AdminInv, NEW p \in Patches, patch' = [patch EXCEPT ![p] = NoPatch]
    PROVE  AdminInv'
BY DEF AdminInv, AdminTypeOK, PatchesSeeFunds

\* What a patch under way holds.
LEMMA PatchHolds ==
    ASSUME AdminInv, NEW p \in Patches, patch[p] # NoPatch
    PROVE  /\ patch[p] \in PatchStates
           /\ patch[p].user \in Users
           /\ patch[p].delta \in Int
           /\ patch[p].seen \in Int /\ patch[p].seen >= 0
<1>1. patch[p] \in PatchStates
    BY DEF AdminInv, AdminTypeOK
<1>2. patch[p].user \in Users /\ patch[p].delta \in Deltas /\ patch[p].seen \in Decimals
    BY <1>1 DEF PatchStates
<1>3. \A d \in Deltas : d \in Int
    BY AmountsPositive DEF Deltas
<1>4. patch[p].seen \in Int /\ patch[p].seen >= 0
    BY <1>2 DEF Decimals, AdminInv, PatchesSeeFunds
<1>5. QED
    BY <1>1, <1>2, <1>3, <1>4

\* A patch slot takes on a request that carries a sound balance.
LEMMA PatchGoesOn ==
    ASSUME AdminInv, NEW p \in Patches, NEW r \in PatchStates, r.seen >= 0,
           patch' = [patch EXCEPT ![p] = r]
    PROVE  AdminInv'
BY DEF AdminInv, AdminTypeOK, PatchesSeeFunds

LEMMA PatchStepKeeps ==
    ASSUME StoreInv, AdminInv, NEW p \in Patches, PatchStep(p)
    PROVE  StoreInv' /\ AdminInv' /\ RowsKept
<1>1. CASE ReadTarget(p)
  <2>1. PICK u \in Users, f \in Freezes, d \in Deltas :
            patch' = [patch EXCEPT ![p] =
                [at |-> IF f = "unset" THEN "write" ELSE "freeze",
                 user |-> u, freeze |-> f, delta |-> d,
                 seen |-> IF f = "unset" THEN balance[u] ELSE 0]]
      BY <1>1 DEF ReadTarget
  <2> DEFINE r == [at |-> IF f = "unset" THEN "write" ELSE "freeze",
                   user |-> u, freeze |-> f, delta |-> d,
                   seen |-> IF f = "unset" THEN balance[u] ELSE 0]
  <2>2. balance[u] \in Decimals /\ balance[u] >= 0 /\ 0 \in Decimals
      BY StoreAssumption DEF StoreAssumption, StoreInv, StoreTypeOK, NoOverdraft, Decimals
  <2>3. r \in PatchStates /\ r.seen >= 0
      BY <2>2 DEF PatchStates
  <2>4. AdminInv'
      BY <2>1, <2>3, PatchGoesOn
  <2>5. QED
      BY <2>4, <1>1, StoreStays DEF ReadTarget
<1>2. CASE WriteFreeze(p)
  <2>1. patch[p] # NoPatch
      BY <1>2 DEF WriteFreeze, NoPatch
  <2> DEFINE r == [patch[p] EXCEPT !.at = "reread", !.freeze = "unset"]
  <2>2. patch' = [patch EXCEPT ![p] = r]
      BY <1>2, <2>1, PatchHolds DEF WriteFreeze, AdminInv, AdminTypeOK, PatchStates
  <2>3. r \in PatchStates /\ r.seen >= 0
      BY <2>1, PatchHolds DEF PatchStates, Freezes
  <2>4. AdminInv'
      BY <2>2, <2>3, PatchGoesOn
  <2>5. accountFrozen' \in [Users -> BOOLEAN]
    <3>1. (patch[p].freeze = "freeze") \in BOOLEAN
        OBVIOUS
    <3>2. QED
        BY <1>2, <3>1 DEF WriteFreeze, StoreInv, StoreTypeOK
  <2>6. StoreInv' /\ RowsKept
      BY <1>2, <2>5 DEF WriteFreeze, StoreInv, StoreTypeOK, RowsSigned, NoOverdraft, RowsKept
  <2>7. QED
      BY <2>4, <2>6
<1>3. CASE RereadTarget(p)
  <2>1. patch[p] # NoPatch
      BY <1>3 DEF RereadTarget, NoPatch
  <2> DEFINE r == [patch[p] EXCEPT !.at = "write", !.seen = balance[patch[p].user]]
  <2>2. balance[patch[p].user] \in Decimals /\ balance[patch[p].user] >= 0
      BY <2>1, PatchHolds DEF StoreInv, StoreTypeOK, NoOverdraft
  <2>3. r \in PatchStates /\ r.seen >= 0
      BY <2>1, <2>2, PatchHolds DEF PatchStates
  <2>4. AdminInv'
    <3>1. CASE patch' = [patch EXCEPT ![p] = NoPatch]
        BY <3>1, PatchEnds
    <3>2. CASE patch' = [patch EXCEPT ![p] = r]
        BY <3>2, <2>3, PatchGoesOn
    <3>3. QED
        BY <3>1, <3>2, <1>3 DEF RereadTarget
  <2>5. QED
      BY <2>4, <1>3, StoreStays DEF RereadTarget
<1>4. CASE AdjustBalance(p)
  <2>1. patch[p] # NoPatch
      BY <1>4 DEF AdjustBalance, NoPatch
  <2>2. /\ Post(patch[p].user, patch[p].delta, patch[p].seen + patch[p].delta)
        /\ patch[p].seen + patch[p].delta >= 0
        /\ patch[p].seen + patch[p].delta \in Int
      BY <1>4, <2>1, PatchHolds DEF AdjustBalance
  <2>3. StoreInv' /\ RowsKept
      BY <1>4, <2>1, <2>2, PatchHolds, PostKeeps DEF AdjustBalance
  <2>4. QED
      BY <1>4, <2>3, PatchEnds DEF AdjustBalance
<1>5. CASE AbortPatch(p)
    BY <1>5, StoreStays, PatchEnds DEF AbortPatch
<1>6. QED
    BY <1>1, <1>2, <1>3, <1>4, <1>5 DEF PatchStep

\* What a delivery under way holds, and the row it names.
LEMMA HookHolds ==
    ASSUME StoreInv, WebhooksInv, NEW h \in Hooks, hook[h] # NoHook
    PROVE  /\ hook[h] \in HookStates
           /\ hook[h].t \in TxIds
           /\ hook[h].key \in EventKeys
           /\ hook[h].seen \in Int /\ hook[h].seen >= 0
           /\ tx[hook[h].t] # NoRow
           /\ SignedRow(tx[hook[h].t])
           /\ tx[hook[h].t].user \in Users
           /\ tx[hook[h].t].amount \in Int
           /\ AmountOf(hook[h].t) \in Int /\ AmountOf(hook[h].t) > 0
<1>1. hook[h] \in HookStates
    BY DEF WebhooksInv, WebhooksTypeOK
<1>2. hook[h].t \in TxIds /\ hook[h].key \in EventKeys /\ hook[h].seen \in Int
    BY <1>1 DEF HookStates, Decimals
<1>3. hook[h].seen >= 0 /\ tx[hook[h].t] # NoRow
    BY DEF WebhooksInv, HooksSeeFunds, HooksNameRows
<1>4. SignedRow(tx[hook[h].t])
    BY <1>2, <1>3 DEF StoreInv, RowsSigned
<1>5. tx[hook[h].t].user \in Users /\ tx[hook[h].t].amount \in Int
    BY <1>4 DEF SignedRow, Rows
<1>6. AmountOf(hook[h].t) \in Int /\ AmountOf(hook[h].t) > 0
  <2>1. tx[hook[h].t].type \in {"deposit", "withdraw"}
      BY <1>4 DEF SignedRow, Rows
  <2>2. QED
      BY <2>1, <1>4, <1>5 DEF AmountOf, SignedRow
<1>7. QED
    BY <1>1, <1>2, <1>3, <1>4, <1>5, <1>6

\* A delivery that is answered leaves the others on rows that are kept.
LEMMA HookEnds ==
    ASSUME WebhooksInv, RowsKept, NEW h \in Hooks,
           hook' = [hook EXCEPT ![h] = NoHook],
           webhookDelivery' \subseteq EventKeys
    PROVE  WebhooksInv'
<1>1. hook' \in [Hooks -> HookStates \cup {NoHook}]
    BY DEF WebhooksInv, WebhooksTypeOK
<1>2. \A g \in Hooks : hook'[g] # NoHook => g # h /\ hook'[g] = hook[g]
    BY DEF WebhooksInv, WebhooksTypeOK
<1>3. HooksNameRows'
  <2>1. SUFFICES ASSUME NEW g \in Hooks, hook[g] # NoHook
                 PROVE  /\ tx'[hook[g].t] # NoRow
                        /\ hook[g].at \in {"owner", "commit"} =>
                               tx'[hook[g].t].type = SubjectType(hook[g].kind)
      BY <1>2 DEF HooksNameRows
  <2>2. hook[g].t \in TxIds
      BY <2>1 DEF WebhooksInv, WebhooksTypeOK, HookStates
  <2>3. QED
      BY <2>1, <2>2 DEF WebhooksInv, HooksNameRows, RowsKept
<1>4. QED
    BY <1>1, <1>2, <1>3 DEF WebhooksInv, WebhooksTypeOK, HooksSeeFunds

\* A delivery that reads on, over rows that nobody touches in this step.
LEMMA HookGoesOn ==
    ASSUME WebhooksInv, NEW h \in Hooks, NEW r \in HookStates,
           r.seen >= 0,
           tx[r.t] # NoRow,
           r.at \in {"owner", "commit"} => tx[r.t].type = SubjectType(r.kind),
           hook' = [hook EXCEPT ![h] = r],
           tx' = tx, webhookDelivery' = webhookDelivery
    PROVE  WebhooksInv'
<1>1. hook' \in [Hooks -> HookStates \cup {NoHook}]
    BY DEF WebhooksInv, WebhooksTypeOK
<1>2. \A g \in Hooks : hook'[g] = IF g = h THEN r ELSE hook[g]
    BY DEF WebhooksInv, WebhooksTypeOK
<1>3. HooksNameRows' /\ HooksSeeFunds'
    BY <1>2 DEF WebhooksInv, HooksNameRows, HooksSeeFunds
<1>4. QED
    BY <1>1, <1>3 DEF WebhooksInv, WebhooksTypeOK

\* The batch that moves money and settles the row.
LEMMA SettleKeeps ==
    ASSUME StoreInv, NEW t \in TxIds, tx[t] # NoRow,
           NEW b \in Int, b >= 0,
           SetBalance(tx[t].user, b), SetStatus(t, "completed"),
           UNCHANGED accountFrozen
    PROVE  StoreInv' /\ RowsKept
<1>1. balance' \in [Users -> Decimals] /\ NoOverdraft'
    BY DEF SetBalance, StoreInv, StoreTypeOK, NoOverdraft, Decimals
<1>2. /\ tx' \in [TxIds -> Rows \cup {NoRow}] /\ ledger' \in [Users -> Int]
      /\ RowsSigned' /\ RowsKept
    BY SetStatusKeeps DEF StoreInv
<1>3. QED
    BY <1>1, <1>2 DEF StoreInv, StoreTypeOK

LEMMA HookStepKeeps ==
    ASSUME StoreInv, WebhooksInv, NEW h \in Hooks, HookStep(h)
    PROVE  StoreInv' /\ WebhooksInv' /\ RowsKept
<1> DEFINE r == hook[h]
<1>1. RecordDelivery(h) => /\ hook' = [hook EXCEPT ![h] = NoHook]
                           /\ webhookDelivery' \in SUBSET (webhookDelivery \cup {r.key})
    BY DEF RecordDelivery
<1>2. ASSUME r # NoHook, RecordDelivery(h), RowsKept PROVE WebhooksInv'
    BY <1>1, <1>2, HookHolds, HookEnds DEF WebhooksInv, WebhooksTypeOK
<1>3. CASE LookUpDelivery(h)
  <2>1. PICK kind \in Kinds, key \in EventKeys \ webhookDelivery, t \in TxIds :
            /\ tx[t] # NoRow
            /\ \E paid \in PaidAmounts(kind) :
                  hook' = [hook EXCEPT ![h] = [at |-> "row", kind |-> kind, key |-> key,
                                               t |-> t, paid |-> paid, seen |-> 0]]
      BY <1>3 DEF LookUpDelivery, LookUp
  <2>2. PICK paid \in PaidAmounts(kind) :
            hook' = [hook EXCEPT ![h] = [at |-> "row", kind |-> kind, key |-> key,
                                         t |-> t, paid |-> paid, seen |-> 0]]
      BY <2>1
  <2>3. PaidAmounts(kind) \subseteq Reported \cup {Unpaid}
      BY DEF PaidAmounts
  <2>4. 0 \in Decimals
      BY StoreAssumption DEF StoreAssumption, Decimals
  <2> DEFINE s == [at |-> "row", kind |-> kind, key |-> key,
                   t |-> t, paid |-> paid, seen |-> 0]
  <2>5. s \in HookStates /\ s.seen >= 0 /\ tx[s.t] # NoRow /\ s.at = "row"
      BY <2>1, <2>3, <2>4 DEF HookStates
  <2>6. WebhooksInv'
    <3>1. tx' = tx /\ webhookDelivery' = webhookDelivery
        BY <1>3 DEF LookUpDelivery, LookUp, storeVars
    <3>2. QED
        BY <2>2, <2>5, <3>1, HookGoesOn
  <2>7. QED
      BY <2>6, <1>3, StoreStays DEF LookUpDelivery, LookUp
<1>4. CASE ReadRow(h)
  <2>1. r # NoHook
      BY <1>4 DEF ReadRow, NoHook
  <2> DEFINE next == AfterRow(r)
             s == [r EXCEPT !.at = next]
  <2>2. WebhooksInv'
    <3>1. CASE hook' = [hook EXCEPT ![h] = NoHook]
        BY <3>1, <1>4, StoreStays, HookEnds DEF ReadRow, WebhooksInv, WebhooksTypeOK
    <3>2. CASE next # "refused" /\ hook' = [hook EXCEPT ![h] = s]
      <4>1. next \in {"owner", "commit", "skip"} /\ tx[r.t].type = SubjectType(r.kind)
          BY <3>2 DEF AfterRow
      <4>2. s \in HookStates /\ s.seen >= 0 /\ s.t = r.t /\ s.kind = r.kind
          BY <2>1, <4>1, HookHolds DEF HookStates
      <4>3. tx[s.t] # NoRow /\ tx[s.t].type = SubjectType(s.kind)
          BY <2>1, <4>1, <4>2, HookHolds
      <4>4. QED
          BY <1>4, <3>2, <4>2, <4>3, HookGoesOn DEF ReadRow, storeVars
    <3>3. QED
        BY <1>4, <3>1, <3>2 DEF ReadRow
  <2>3. QED
      BY <2>2, <1>4, StoreStays DEF ReadRow
<1>5. CASE ReadOwner(h)
  <2>1. r # NoHook
      BY <1>5 DEF ReadOwner, NoHook
  <2> DEFINE b == balance[tx[r.t].user]
             s == [r EXCEPT !.at = "commit", !.seen = b]
  <2>2. b \in Decimals /\ b >= 0
      BY <2>1, HookHolds DEF StoreInv, StoreTypeOK, NoOverdraft
  <2>3. hook' = [hook EXCEPT ![h] = s]
      BY <1>5, <2>1, HookHolds DEF ReadOwner, WebhooksInv, WebhooksTypeOK, HookStates
  <2>4. s \in HookStates /\ s.seen >= 0 /\ s.t = r.t /\ s.kind = r.kind
      BY <2>1, <2>2, HookHolds DEF HookStates
  <2>5. tx[s.t] # NoRow /\ tx[s.t].type = SubjectType(s.kind)
      BY <1>5, <2>1, <2>4, HookHolds DEF ReadOwner, WebhooksInv, HooksNameRows
  <2>6. WebhooksInv'
      BY <1>5, <2>3, <2>4, <2>5, HookGoesOn DEF ReadOwner, storeVars
  <2>7. QED
      BY <2>6, <1>5, StoreStays DEF ReadOwner
<1>6. CASE CreditDeposit(h)
  <2>1. r # NoHook
      BY <1>6 DEF CreditDeposit, NoHook
  <2>2. r.seen + AmountOf(r.t) \in Int /\ r.seen + AmountOf(r.t) >= 0
      BY <2>1, HookHolds
  <2>3. StoreInv' /\ RowsKept
      BY <1>6, <2>1, <2>2, HookHolds, SettleKeeps DEF CreditDeposit
  <2>4. QED
      BY <1>2, <1>6, <2>1, <2>3 DEF CreditDeposit
<1>7. CASE DebitWithdrawal(h)
  <2>1. r # NoHook
      BY <1>7 DEF DebitWithdrawal, NoHook
  <2>2. r.seen >= AmountOf(r.t)
      BY <1>7 DEF DebitWithdrawal, Outcome
  <2>3. r.seen - AmountOf(r.t) \in Int /\ r.seen - AmountOf(r.t) >= 0
      BY <2>1, <2>2, HookHolds
  <2>4. StoreInv' /\ RowsKept
      BY <1>7, <2>1, <2>3, HookHolds, SettleKeeps DEF DebitWithdrawal
  <2>5. QED
      BY <1>2, <1>7, <2>1, <2>4 DEF DebitWithdrawal
<1>8. CASE MarkFailed(h)
  <2>1. r # NoHook
      BY <1>8 DEF MarkFailed, NoHook
  <2>2. /\ tx' \in [TxIds -> Rows \cup {NoRow}] /\ ledger' \in [Users -> Int]
        /\ RowsSigned' /\ RowsKept
      BY <1>8, <2>1, HookHolds, SetStatusKeeps DEF MarkFailed, StoreInv
  <2>3. StoreInv'
      BY <1>8, <2>2 DEF MarkFailed, StoreInv, StoreTypeOK, NoOverdraft
  <2>4. QED
      BY <1>2, <1>8, <2>1, <2>2, <2>3 DEF MarkFailed
<1>9. CASE RefundDeposit(h)
  <2> DEFINE debit == LesserOf(r.paid, r.seen)
  <2>1. r # NoHook
      BY <1>9 DEF RefundDeposit, NoHook
  <2>2. r.paid \in Int
    <3>1. r.paid \in Reported \cup {Unpaid}
        BY <2>1, HookHolds DEF HookStates
    <3>2. QED
        BY <3>1, ReportedPositive
  <2>3. -debit \in Int /\ r.seen - debit \in Int /\ r.seen - debit >= 0
      BY <2>1, <2>2, HookHolds DEF LesserOf
  <2>4. Post(tx[r.t].user, -debit, r.seen - debit)
      BY <1>9 DEF RefundDeposit
  <2>5. StoreInv' /\ RowsKept
      BY <1>9, <2>1, <2>3, <2>4, HookHolds, PostKeeps DEF RefundDeposit
  <2>6. QED
      BY <1>2, <1>9, <2>1, <2>5 DEF RefundDeposit
<1>10. CASE SkipRefund(h)
    BY <1>2, <1>10, StoreStays DEF SkipRefund, NoHook
<1>11. CASE AbortHook(h)
    BY <1>11, StoreStays, HookEnds DEF AbortHook, WebhooksInv, WebhooksTypeOK
<1>12. QED
    BY <1>3, <1>4, <1>5, <1>6, <1>7, <1>8, <1>9, <1>10, <1>11 DEF HookStep

-----------------------------------------------------------------------------
(* The invariant, and the safety properties that follow from it. *)

LEMMA InitIInv == Init => IInv
<1> SUFFICES ASSUME Init PROVE IInv
    OBVIOUS
<1>1. StoreInv
  <2>1. \A u \in Users : balance[u] \in Decimals /\ balance[u] \in Int /\ balance[u] >= 0
      BY StoreAssumption DEF StoreAssumption, Init, StoreInit, Decimals
  <2>2. StoreTypeOK
      BY <2>1 DEF Init, StoreInit, StoreTypeOK
  <2>3. RowsSigned
      BY DEF Init, StoreInit, RowsSigned
  <2>4. QED
      BY <2>1, <2>2, <2>3 DEF StoreInv, NoOverdraft
<1>2. WalletInv
    BY DEF Init, WalletInit, WalletInv, WalletTypeOK, CallsSeeFunds
<1>3. AdminInv
    BY DEF Init, AdminInit, AdminInv, AdminTypeOK, PatchesSeeFunds
<1>4. WebhooksInv
    BY DEF Init, WebhooksInit, WebhooksInv, WebhooksTypeOK, HooksNameRows, HooksSeeFunds
<1>5. QED
    BY <1>1, <1>2, <1>3, <1>4, IInvParts

LEMMA StepIInv == IInv /\ [Next]_vars => IInv'
<1> SUFFICES ASSUME IInv, [Next]_vars PROVE IInv'
    OBVIOUS
<1> USE IInvParts
<1>1. CASE CallNext
  <2>1. StoreInv' /\ WalletInv' /\ RowsKept
      BY <1>1, CallStepKeeps DEF CallNext
  <2>2. AdminInv'
      BY <1>1 DEF CallNext, AdminInv, AdminTypeOK, PatchesSeeFunds
  <2>3. WebhooksInv'
      BY <1>1, <2>1, HooksNameKeptRows DEF CallNext, hookVars
  <2>4. QED
      BY <2>1, <2>2, <2>3 DEF IInv, TypeOK, StoreInv, WalletInv, AdminInv, WebhooksInv
<1>2. CASE PatchNext
  <2>1. StoreInv' /\ AdminInv' /\ RowsKept
      BY <1>2, PatchStepKeeps DEF PatchNext
  <2>2. WalletInv'
      BY <1>2 DEF PatchNext, WalletInv, WalletTypeOK, CallsSeeFunds
  <2>3. WebhooksInv'
      BY <1>2, <2>1, HooksNameKeptRows DEF PatchNext, hookVars
  <2>4. QED
      BY <2>1, <2>2, <2>3 DEF IInv, TypeOK, StoreInv, WalletInv, AdminInv, WebhooksInv
<1>3. CASE HookNext
  <2>1. StoreInv' /\ WebhooksInv'
      BY <1>3, HookStepKeeps DEF HookNext
  <2>2. WalletInv' /\ AdminInv'
      BY <1>3 DEF HookNext, WalletInv, WalletTypeOK, CallsSeeFunds,
                  AdminInv, AdminTypeOK, PatchesSeeFunds
  <2>3. QED
      BY <2>1, <2>2 DEF IInv, TypeOK, StoreInv, WalletInv, AdminInv, WebhooksInv
<1>4. CASE UNCHANGED vars
  <2>1. StoreInv' /\ RowsKept
      BY <1>4, StoreStays DEF vars
  <2>2. WalletInv' /\ AdminInv'
      BY <1>4 DEF vars, WalletInv, WalletTypeOK, CallsSeeFunds,
                  AdminInv, AdminTypeOK, PatchesSeeFunds
  <2>3. WebhooksInv'
      BY <1>4, <2>1, HooksNameKeptRows DEF vars
  <2>4. QED
      BY <2>1, <2>2, <2>3 DEF IInv, TypeOK, StoreInv, WalletInv, AdminInv, WebhooksInv
<1>5. QED
    BY <1>1, <1>2, <1>3, <1>4 DEF Next

\* The invariant that every proof below rests on holds in every reachable state.
THEOREM Invariance == Spec => []IInv
BY InitIInv, StepIInv, PTL DEF Spec

\* Rows, requests and deliveries always have the shapes the handlers give them.
THEOREM TypeCorrectness == Spec => []TypeOK
<1>1. IInv => TypeOK
    BY DEF IInv
<1>2. QED
    BY <1>1, Invariance, PTL

\* However wallet requests, webhooks and admin patches interleave, no account
\* is overdrawn.
THEOREM NeverOverdrawn == Spec => []NoOverdraft
<1>1. IInv => NoOverdraft
    BY DEF IInv
<1>2. QED
    BY <1>1, Invariance, PTL

\* A completed row posted with the balance that it should lead to.
LEMMA PostDrift ==
    ASSUME StoreTypeOK, NEW u \in Users, NEW amount \in Int, NEW b \in Int,
           Post(u, amount, b), NEW w \in Users, Drift(w)' # Drift(w)
    PROVE  w = u /\ b # balance[u] + amount
<1>1. balance[w] \in Int /\ ledger[w] \in Int
    BY DEF StoreTypeOK, Decimals
<1>2. balance'[w] = IF w = u THEN b ELSE balance[w]
    BY DEF Post, SetBalance, StoreTypeOK
<1>3. ledger'[w] = IF w = u THEN ledger[w] + amount ELSE ledger[w]
    BY DEF Post, StoreTypeOK
<1>4. QED
    BY <1>1, <1>2, <1>3 DEF Drift

\* A row that was pending until it settles books its amount.
LEMMA SettleDrift ==
    ASSUME StoreInv, NEW t \in TxIds, tx[t] # NoRow, NEW b \in Int,
           SetBalance(tx[t].user, b), SetStatus(t, "completed"),
           NEW w \in Users, Drift(w)' # Drift(w)
    PROVE  /\ w = tx[t].user
           /\ tx[t].txStatus # "pending" \/ b # balance[w] + tx[t].amount
<1>1. balance[w] \in Int /\ ledger[w] \in Int
    BY DEF StoreInv, StoreTypeOK, Decimals
<1>2. tx[t] \in Rows /\ tx[t].amount \in Int
    BY DEF StoreInv, RowsSigned, SignedRow, Rows
<1> DEFINE row == [tx[t] EXCEPT !.txStatus = "completed"]
<1>3. row.user = tx[t].user /\ Settled(row) = tx[t].amount
    BY <1>2 DEF Rows, Settled
<1>4. tx[t].txStatus = "pending" => Settled(tx[t]) = 0
    BY DEF Settled
<1>5. balance'[w] = IF w = tx[t].user THEN b ELSE balance[w]
    BY DEF SetBalance, StoreInv, StoreTypeOK
<1>6. ledger'[w] = IF w = tx[t].user THEN ledger[w] + Settled(row) - Settled(tx[t])
                                     ELSE ledger[w]
    BY <1>3 DEF SetStatus, StoreInv, StoreTypeOK
<1>7. QED
    BY <1>1, <1>2, <1>3, <1>4, <1>5, <1>6 DEF Drift

\* A row that is marked failed while it is pending books nothing.
LEMMA FailDrift ==
    ASSUME StoreInv, NEW t \in TxIds, tx[t] # NoRow,
           UNCHANGED balance, SetStatus(t, "failed"),
           NEW w \in Users, Drift(w)' # Drift(w)
    PROVE  w = tx[t].user /\ tx[t].txStatus # "pending"
<1>1. balance[w] \in Int /\ ledger[w] \in Int
    BY DEF StoreInv, StoreTypeOK, Decimals
<1>2. tx[t] \in Rows
    BY DEF StoreInv, RowsSigned, SignedRow
<1> DEFINE row == [tx[t] EXCEPT !.txStatus = "failed"]
<1>3. row.user = tx[t].user /\ Settled(row) = 0
    BY <1>2 DEF Rows, Settled
<1>4. tx[t].txStatus = "pending" => Settled(tx[t]) = 0
    BY DEF Settled
<1>5. ledger'[w] = IF w = tx[t].user THEN ledger[w] + Settled(row) - Settled(tx[t])
                                     ELSE ledger[w]
    BY <1>3 DEF SetStatus, StoreInv, StoreTypeOK
<1>6. QED
    BY <1>1, <1>3, <1>4, <1>5 DEF Drift

LEMMA CallStepDrift ==
    ASSUME StoreInv, WalletInv, NEW c \in Calls, CallStep(c),
           NEW w \in Users, Drift(w)' # Drift(w)
    PROVE  StaleBalance(w)
<1>1. CASE DepositInstantly(c)
  <2>1. Post(call[c].user, call[c].amount, call[c].seen + call[c].amount)
      BY <1>1 DEF DepositInstantly
  <2>2. w = call[c].user /\ call[c].seen # balance[w]
      BY <1>1, <2>1, CallWrites, PostDrift DEF DepositInstantly, StoreInv
  <2>3. call'[c] = Idle
      BY <1>1 DEF DepositInstantly, WalletInv, WalletTypeOK
  <2>4. QED
      BY <1>1, <2>2, <2>3 DEF DepositInstantly, StaleBalance
<1>2. CASE ~DepositInstantly(c)
    BY <1>2 DEF CallStep, ReadCaller, CheckAvailable, CreateDeposit, CreateWithdrawal,
                AbortCall, CreatePending, storeVars, Drift
<1>3. QED
    BY <1>1, <1>2

LEMMA PatchStepDrift ==
    ASSUME StoreInv, AdminInv, NEW p \in Patches, PatchStep(p),
           NEW w \in Users, Drift(w)' # Drift(w)
    PROVE  StaleBalance(w)
<1>1. CASE AdjustBalance(p)
  <2>1. patch[p] # NoPatch
      BY <1>1 DEF AdjustBalance, NoPatch
  <2>2. Post(patch[p].user, patch[p].delta, patch[p].seen + patch[p].delta)
      BY <1>1 DEF AdjustBalance
  <2>3. w = patch[p].user /\ patch[p].seen # balance[w]
      BY <2>1, <2>2, PatchHolds, PostDrift DEF StoreInv
  <2>4. patch'[p] = NoPatch
      BY <1>1 DEF AdjustBalance, AdminInv, AdminTypeOK
  <2>5. QED
      BY <1>1, <2>3, <2>4 DEF AdjustBalance, StaleBalance
<1>2. CASE ~AdjustBalance(p)
    BY <1>2 DEF PatchStep, ReadTarget, WriteFreeze, RereadTarget, AbortPatch,
                storeVars, Drift
<1>3. QED
    BY <1>1, <1>2

LEMMA HookStepDrift ==
    ASSUME StoreInv, WebhooksInv, NEW h \in Hooks, HookStep(h),
           NEW w \in Users, Drift(w)' # Drift(w)
    PROVE  StaleBalance(w) \/ StaleStatus(w)
<1> DEFINE r == hook[h]
<1>1. r.at = "commit" /\ RecordDelivery(h) => r # NoHook /\ hook'[h] = NoHook
    BY DEF RecordDelivery, NoHook, WebhooksInv, WebhooksTypeOK
<1>2. r.at = "commit" => tx[r.t].type = SubjectType(r.kind)
    BY DEF WebhooksInv, HooksNameRows, NoHook
<1>3. CASE CreditDeposit(h)
  <2>1. r.at = "commit" /\ Outcome(r) = "credit" /\ r # NoHook /\ hook'[h] = NoHook
      BY <1>1, <1>3 DEF CreditDeposit
  <2>2. r.kind = "deposit-confirmed"
      BY <2>1 DEF Outcome
  <2>3. AmountOf(r.t) = tx[r.t].amount
      BY <1>2, <2>1, <2>2, HookHolds DEF SubjectType, AmountOf, SignedRow
  <2>4. w = tx[r.t].user /\ (tx[r.t].txStatus # "pending" \/ r.seen # balance[w])
    <3>1. /\ SetBalance(tx[r.t].user, r.seen + AmountOf(r.t))
          /\ SetStatus(r.t, "completed")
        BY <1>3 DEF CreditDeposit
    <3>2. r.t \in TxIds /\ tx[r.t] # NoRow /\ r.seen \in Int /\ tx[r.t].amount \in Int
        BY <2>1, HookHolds
    <3>3. r.seen + AmountOf(r.t) \in Int
        BY <2>3, <3>2
    <3>4. /\ w = tx[r.t].user
          /\ \/ tx[r.t].txStatus # "pending"
             \/ r.seen + AmountOf(r.t) # balance[w] + tx[r.t].amount
        BY <3>1, <3>2, <3>3, SettleDrift
    <3>5. balance[w] \in Int
        BY DEF StoreInv, StoreTypeOK, Decimals
    <3>6. QED
        BY <2>3, <3>2, <3>4, <3>5
  <2>5. QED
      BY <2>1, <2>4 DEF StaleBalance, StaleStatus
<1>4. CASE DebitWithdrawal(h)
  <2>1. r.at = "commit" /\ Outcome(r) = "debit" /\ r # NoHook /\ hook'[h] = NoHook
      BY <1>1, <1>4 DEF DebitWithdrawal
  <2>2. r.kind = "withdraw-confirmed"
      BY <2>1 DEF Outcome
  <2>3. AmountOf(r.t) = -tx[r.t].amount
      BY <1>2, <2>1, <2>2, HookHolds DEF SubjectType, AmountOf, SignedRow
  <2>4. w = tx[r.t].user /\ (tx[r.t].txStatus # "pending" \/ r.seen # balance[w])
    <3>1. /\ SetBalance(tx[r.t].user, r.seen - AmountOf(r.t))
          /\ SetStatus(r.t, "completed")
        BY <1>4 DEF DebitWithdrawal
    <3>2. r.t \in TxIds /\ tx[r.t] # NoRow /\ r.seen \in Int /\ tx[r.t].amount \in Int
        BY <2>1, HookHolds
    <3>3. r.seen - AmountOf(r.t) \in Int
        BY <2>3, <3>2
    <3>4. /\ w = tx[r.t].user
          /\ \/ tx[r.t].txStatus # "pending"
             \/ r.seen - AmountOf(r.t) # balance[w] + tx[r.t].amount
        BY <3>1, <3>2, <3>3, SettleDrift
    <3>5. balance[w] \in Int
        BY DEF StoreInv, StoreTypeOK, Decimals
    <3>6. QED
        BY <2>3, <3>2, <3>4, <3>5
  <2>5. QED
      BY <2>1, <2>4 DEF StaleBalance, StaleStatus
<1>5. CASE MarkFailed(h)
  <2>1. r.at = "commit" /\ Outcome(r) = "fail" /\ r # NoHook /\ hook'[h] = NoHook
      BY <1>1, <1>5 DEF MarkFailed
  <2>2. w = tx[r.t].user /\ tx[r.t].txStatus # "pending"
      BY <1>5, <2>1, HookHolds, FailDrift DEF MarkFailed
  <2>3. QED
      BY <2>1, <2>2 DEF StaleStatus
<1>6. CASE RefundDeposit(h)
  <2> DEFINE debit == LesserOf(r.paid, r.seen)
  <2>1. r.at = "commit" /\ Outcome(r) = "refund" /\ r # NoHook /\ hook'[h] = NoHook
      BY <1>1, <1>6 DEF RefundDeposit
  <2>2. Post(tx[r.t].user, -debit, r.seen - debit)
      BY <1>6 DEF RefundDeposit
  <2>3. r.paid \in Int
      BY <2>1, HookHolds, ReportedPositive DEF HookStates
  <2>4. debit \in Int
      BY <2>1, <2>3, HookHolds DEF LesserOf
  <2>5. w = tx[r.t].user /\ r.seen # balance[w]
      BY <2>1, <2>2, <2>4, HookHolds, PostDrift DEF StoreInv
  <2>6. QED
      BY <2>1, <2>5 DEF StaleBalance
<1>7. CASE UNCHANGED storeVars
    BY <1>7 DEF storeVars, Drift
<1>8. QED
    BY <1>3, <1>4, <1>5, <1>6, <1>7
       DEF HookStep, LookUpDelivery, LookUp, ReadRow, ReadOwner, SkipRefund, AbortHook

\* Money is lost or created only by the two races named in Payments: a commit
\* from a stale balance, or of a row that was settled meanwhile.
THEOREM DriftHasTwoCauses == Spec => DriftNeedsStaleCommit
<1>1. ASSUME IInv, [Next]_vars, NEW w \in Users, Drift(w)' # Drift(w)
      PROVE  StaleBalance(w) \/ StaleStatus(w)
  <2> USE <1>1, IInvParts
  <2>1. CASE CallNext
      BY <2>1, CallStepDrift DEF CallNext
  <2>2. CASE PatchNext
      BY <2>2, PatchStepDrift DEF PatchNext
  <2>3. CASE HookNext
      BY <2>3, HookStepDrift DEF HookNext
  <2>4. CASE UNCHANGED vars
      BY <2>4 DEF vars, storeVars, Drift
  <2>5. QED
      BY <2>1, <2>2, <2>3, <2>4 DEF Next
<1>2. IInv /\ [Next]_vars =>
          [\A u \in Users : Drift(u)' # Drift(u) => StaleBalance(u) \/ StaleStatus(u)]_vars
    BY <1>1
<1>3. QED
    BY <1>2, Invariance, PTL DEF Spec, DriftNeedsStaleCommit

\* Creating a row changes no row that exists.
LEMMA CreatePendingTouchesNoRow ==
    ASSUME NEW u, NEW type, NEW amount, CreatePending(u, type, amount),
           NEW t \in TxIds, tx[t] # NoRow, tx \in [TxIds -> Rows \cup {NoRow}]
    PROVE  tx'[t] = tx[t]
BY DEF CreatePending

\* Whatever the wallet and the webhooks do at the same time, a row's status
\* changes only together with the first and only use of an event key.
THEOREM EventsSettleOnce == Spec => SettlementConsumesEvent
<1>1. ASSUME IInv, [Next]_vars, NEW t \in TxIds, tx[t] # NoRow, tx'[t] # tx[t]
      PROVE  \E k \in EventKeys \ webhookDelivery :
                 webhookDelivery' = webhookDelivery \cup {k}
  <2>1. StoreInv /\ WalletInv /\ WebhooksInv /\ tx \in [TxIds -> Rows \cup {NoRow}]
      BY <1>1, IInvParts DEF StoreInv, StoreTypeOK
  <2>2. CASE CallNext
    <3>1. PICK c \in Calls : CallStep(c)
        BY <2>2 DEF CallNext
    <3>2. tx'[t] = tx[t]
        BY <1>1, <2>1, <3>1, CreatePendingTouchesNoRow
           DEF CallStep, ReadCaller, CheckAvailable, CreateDeposit, DepositInstantly,
               CreateWithdrawal, AbortCall, Post, storeVars
    <3>3. QED
        BY <1>1, <3>2
  <2>3. CASE PatchNext
      BY <1>1, <2>3 DEF PatchNext, PatchStep, ReadTarget, WriteFreeze, RereadTarget,
                        AdjustBalance, AbortPatch, Post, storeVars
  <2>4. CASE HookNext
    <3>1. PICK h \in Hooks : HookStep(h)
        BY <2>4 DEF HookNext
    <3>2. CreditDeposit(h) \/ DebitWithdrawal(h) \/ MarkFailed(h)
        BY <1>1, <3>1 DEF HookStep, LookUpDelivery, LookUp, ReadRow, ReadOwner, RefundDeposit,
                          SkipRefund, AbortHook, Post, storeVars
    <3>3. hook[h] # NoHook /\ RecordDelivery(h)
        BY <3>2 DEF CreditDeposit, DebitWithdrawal, MarkFailed, NoHook
    <3>4. hook[h].key \in EventKeys
        BY <2>1, <3>3, HookHolds
    <3>5. QED
        BY <3>3, <3>4 DEF RecordDelivery
  <2>5. CASE UNCHANGED vars
      BY <1>1, <2>5 DEF vars, storeVars
  <2>6. QED
      BY <1>1, <2>2, <2>3, <2>4, <2>5 DEF Next
<1>2. IInv /\ [Next]_vars =>
          [(\E t \in TxIds : tx[t] # NoRow /\ tx'[t] # tx[t])
               => \E k \in EventKeys \ webhookDelivery :
                      webhookDelivery' = webhookDelivery \cup {k}]_vars
    BY <1>1
<1>3. QED
    BY <1>2, Invariance, PTL DEF Spec, SettlementConsumesEvent

-----------------------------------------------------------------------------
(* Payments that are over *)

\* A payment stays over when its row is left alone and every delivery that goes
\* on from it was on its way before.
LEMMA OverStays ==
    ASSUME NEW t \in TxIds, PaymentIsOver(t), tx'[t] = tx[t],
           \A h \in Hooks :
               \/ hook'[h] = hook[h]
               \/ ~(hook'[h].at \in {"owner", "commit"})
               \/ hook'[h].kind = "deposit-refunded"
               \/ hook'[h].t # t
    PROVE  PaymentIsOver(t)'
BY DEF PaymentIsOver

LEMMA HookSparesOver ==
    ASSUME StoreInv, WebhooksInv, NEW t \in TxIds, PaymentIsOver(t),
           NEW h \in Hooks, HookStep(h)
    PROVE  PaymentIsOver(t)' /\ tx'[t] = tx[t]
<1> DEFINE r == hook[h]
<1>1. hook \in [Hooks -> HookStates \cup {NoHook}] /\ NoHook.at = "idle"
    BY DEF WebhooksInv, WebhooksTypeOK, NoHook
<1>2. tx \in [TxIds -> Rows \cup {NoRow}]
    BY DEF StoreInv, StoreTypeOK
<1>3. ASSUME hook' = [hook EXCEPT ![h] = NoHook], tx'[t] = tx[t]
      PROVE  PaymentIsOver(t)' /\ tx'[t] = tx[t]
  <2>1. \A g \in Hooks : hook'[g] = hook[g] \/ ~(hook'[g].at \in {"owner", "commit"})
      BY <1>1, <1>3
  <2>2. QED
      BY <1>3, <2>1, OverStays
<1>4. CASE LookUpDelivery(h)
  <2>1. PICK kind \in Kinds, key \in EventKeys, s \in TxIds : \E paid \in PaidAmounts(kind) :
            LookUp(h, kind, key, s, paid)
      BY <1>4 DEF LookUpDelivery
  <2>2. tx' = tx /\ \A g \in Hooks : hook'[g] = hook[g] \/ hook'[g].at = "row"
      BY <1>1, <2>1 DEF LookUp, storeVars
  <2>3. \A g \in Hooks : hook'[g] = hook[g] \/ ~(hook'[g].at \in {"owner", "commit"})
      BY <2>2
  <2>4. QED
      BY <2>2, <2>3, OverStays
<1>5. CASE ReadRow(h)
  <2>1. r \in HookStates /\ r.at = "row"
      BY <1>1, <1>5 DEF ReadRow
  <2>2. tx' = tx
      BY <1>5 DEF ReadRow, storeVars
  <2>3. CASE hook' = [hook EXCEPT ![h] = NoHook]
      BY <1>3, <2>2, <2>3
  <2>4. CASE AfterRow(r) # "refused" /\ hook' = [hook EXCEPT ![h] = [r EXCEPT !.at = AfterRow(r)]]
    <3>1. r.kind = "deposit-refunded" \/ tx[r.t].txStatus = "pending"
        BY <2>4 DEF AfterRow
    <3>2. hook'[h].kind = r.kind /\ hook'[h].t = r.t
        BY <1>1, <2>1, <2>4 DEF HookStates
    <3>3. hook'[h].kind = "deposit-refunded" \/ hook'[h].t # t
        BY <3>1, <3>2 DEF PaymentIsOver
    <3>4. \A g \in Hooks : g # h => hook'[g] = hook[g]
        BY <1>1, <2>4
    <3>5. QED
        BY <2>2, <3>3, <3>4, OverStays
  <2>5. QED
      BY <1>5, <2>3, <2>4 DEF ReadRow
<1>6. CASE ReadOwner(h)
  <2>1. r \in HookStates /\ r.at = "owner" /\ tx' = tx
      BY <1>1, <1>6 DEF ReadOwner, storeVars
  <2>2. hook'[h].kind = r.kind /\ hook'[h].t = r.t
      BY <1>1, <1>6, <2>1 DEF ReadOwner, HookStates
  <2>3. hook'[h].kind = "deposit-refunded" \/ hook'[h].t # t
      BY <2>1, <2>2 DEF PaymentIsOver
  <2>4. \A g \in Hooks : g # h => hook'[g] = hook[g]
      BY <1>1, <1>6 DEF ReadOwner
  <2>5. QED
      BY <2>1, <2>3, <2>4, OverStays
<1>7. CASE CreditDeposit(h) \/ DebitWithdrawal(h) \/ MarkFailed(h)
  <2>1. r.at = "commit" /\ r.kind # "deposit-refunded"
      BY <1>7 DEF CreditDeposit, DebitWithdrawal, MarkFailed, Outcome
  <2>2. r.t # t
      BY <2>1 DEF PaymentIsOver
  <2>3. tx'[t] = tx[t]
      BY <1>2, <1>7, <2>2 DEF CreditDeposit, DebitWithdrawal, MarkFailed, SetStatus
  <2>4. hook' = [hook EXCEPT ![h] = NoHook]
      BY <1>7 DEF CreditDeposit, DebitWithdrawal, MarkFailed, RecordDelivery
  <2>5. QED
      BY <1>3, <2>3, <2>4
<1>8. CASE RefundDeposit(h) \/ SkipRefund(h) \/ AbortHook(h)
    BY <1>3, <1>8 DEF RefundDeposit, SkipRefund, AbortHook, RecordDelivery, Post, storeVars
<1>9. QED
    BY <1>4, <1>5, <1>6, <1>7, <1>8 DEF HookStep

\* A payment that is over, with no delivery left that found it pending, is over for
\* good, whatever the provider still sends of it.
THEOREM SettledForGood == Spec => SettledPaymentsStay
<1>1. ASSUME IInv, [Next]_vars, NEW t \in TxIds, PaymentIsOver(t)
      PROVE  PaymentIsOver(t)' /\ tx'[t] = tx[t]
  <2>1. StoreInv /\ WalletInv /\ WebhooksInv /\ tx \in [TxIds -> Rows \cup {NoRow}]
      BY <1>1, IInvParts DEF StoreInv, StoreTypeOK
  <2>2. tx[t] # NoRow
      BY <1>1 DEF PaymentIsOver, NoRow
  <2>3. ASSUME hook' = hook, tx'[t] = tx[t] PROVE PaymentIsOver(t)' /\ tx'[t] = tx[t]
      BY <1>1, <2>3, OverStays
  <2>4. CASE CallNext
    <3>1. PICK c \in Calls : CallStep(c)
        BY <2>4 DEF CallNext
    <3>2. tx'[t] = tx[t]
        BY <2>1, <2>2, <3>1, CreatePendingTouchesNoRow
           DEF CallStep, ReadCaller, CheckAvailable, CreateDeposit, DepositInstantly,
               CreateWithdrawal, AbortCall, Post, storeVars
    <3>3. QED
        BY <2>3, <2>4, <3>2 DEF CallNext, hookVars
  <2>5. CASE PatchNext
      BY <2>3, <2>5 DEF PatchNext, PatchStep, ReadTarget, WriteFreeze, RereadTarget,
                        AdjustBalance, AbortPatch, Post, storeVars, hookVars
  <2>6. CASE HookNext
      BY <1>1, <2>1, <2>6, HookSparesOver DEF HookNext
  <2>7. CASE UNCHANGED vars
      BY <2>3, <2>7 DEF vars, storeVars, hookVars
  <2>8. QED
      BY <1>1, <2>4, <2>5, <2>6, <2>7 DEF Next
<1>2. IInv /\ [Next]_vars =>
          [\A t \in TxIds : PaymentIsOver(t) => PaymentIsOver(t)' /\ tx'[t] = tx[t]]_vars
    BY <1>1
<1>3. QED
    BY <1>2, Invariance, PTL DEF Spec, SettledPaymentsStay

-----------------------------------------------------------------------------
(* What withdrawals in flight reserve *)

\* Any number of rows may be created, but only finitely many are.
RowsFinite == IsFiniteSet({t \in TxIds : tx[t] # NoRow})

\* What each pending withdrawal of u reserves.
Liens(u) == [t \in PendingWithdrawalsOf(u) |-> -tx[t].amount]

\* Every statement writes one row at most.
LEMMA OneRowPerStep ==
    ASSUME StoreTypeOK, [Next]_vars
    PROVE  \E t : \A s \in TxIds : s # t => tx'[s] = tx[s]
<1>1. ASSUME NEW u, NEW type, NEW amount, CreatePending(u, type, amount)
      PROVE  \E t : \A s \in TxIds : s # t => tx'[s] = tx[s]
  <2>1. PICK t \in TxIds : \E row : tx' = [tx EXCEPT ![t] = row]
      BY <1>1 DEF CreatePending
  <2>2. \A s \in TxIds : s # t => tx'[s] = tx[s]
      BY <2>1 DEF StoreTypeOK
  <2>3. QED
      BY <2>2
<1>2. ASSUME NEW t, NEW status, SetStatus(t, status)
      PROVE  \E r : \A s \in TxIds : s # r => tx'[s] = tx[s]
  <2>1. \A s \in TxIds : s # t => tx'[s] = tx[s]
      BY <1>2 DEF SetStatus, StoreTypeOK
  <2>2. QED
      BY <2>1
<1>3. CASE CallNext
    BY <1>1, <1>3 DEF CallNext, CallStep, ReadCaller, CheckAvailable, CreateDeposit,
                      DepositInstantly, CreateWithdrawal, AbortCall, Post, storeVars
<1>4. CASE PatchNext
    BY <1>4 DEF PatchNext, PatchStep, ReadTarget, WriteFreeze, RereadTarget, AdjustBalance,
                AbortPatch, Post, storeVars
<1>5. CASE HookNext
    BY <1>2, <1>5 DEF HookNext, HookStep, LookUpDelivery, LookUp, ReadRow, ReadOwner,
                      CreditDeposit, DebitWithdrawal, MarkFailed, RefundDeposit, SkipRefund,
                      AbortHook, Post, storeVars
<1>6. CASE UNCHANGED vars
    BY <1>6 DEF vars, storeVars
<1>7. QED
    BY <1>3, <1>4, <1>5, <1>6 DEF Next

LEMMA FinitelyManyRows == Spec => []RowsFinite
<1>1. Init => RowsFinite
  <2>1. Init => {t \in TxIds : tx[t] # NoRow} = {}
      BY DEF Init, StoreInit
  <2>2. QED
      BY <2>1, FS_EmptySet DEF RowsFinite
<1>2. ASSUME IInv, RowsFinite, [Next]_vars PROVE RowsFinite'
  <2>1. PICK t : \A s \in TxIds : s # t => tx'[s] = tx[s]
      BY <1>2, OneRowPerStep DEF IInv, TypeOK
  <2>2. {s \in TxIds : tx'[s] # NoRow} \in SUBSET ({s \in TxIds : tx[s] # NoRow} \cup {t})
      BY <2>1
  <2>3. IsFiniteSet({s \in TxIds : tx[s] # NoRow} \cup {t})
      BY <1>2, FS_AddElement DEF RowsFinite
  <2>4. QED
      BY <2>2, <2>3, FS_Subset DEF RowsFinite
<1>3. QED
    BY <1>1, <1>2, Invariance, PTL DEF Spec

\* The aggregate is the sum of the liens.
ReservedSums ==
    \A u \in Users : /\ IsFiniteSet(PendingWithdrawalsOf(u))
                     /\ Liens(u) \in [PendingWithdrawalsOf(u) -> Nat]
                     /\ Reserved(u) = Total(Liens(u), PendingWithdrawalsOf(u))
                     /\ Reserved(u) \in Nat

LEMMA ReservedIsTotal == StoreInv /\ RowsFinite => ReservedSums
<1> SUFFICES ASSUME StoreInv, RowsFinite, NEW u \in Users
             PROVE  /\ IsFiniteSet(PendingWithdrawalsOf(u))
                    /\ Liens(u) \in [PendingWithdrawalsOf(u) -> Nat]
                    /\ Reserved(u) = Total(Liens(u), PendingWithdrawalsOf(u))
                    /\ Reserved(u) \in Nat
    BY DEF ReservedSums
<1>1. PICK P : P = PendingWithdrawalsOf(u)
    OBVIOUS
<1>2. ASSUME NEW t \in P PROVE tx[t] # NoRow /\ -tx[t].amount \in Nat
  <2>1. t \in TxIds /\ tx[t].txStatus = "pending" /\ tx[t].type = "withdraw"
      BY <1>1 DEF PendingWithdrawalsOf
  <2>2. tx[t] # NoRow
      BY <2>1 DEF NoRow
  <2>3. SignedRow(tx[t])
      BY <2>1, <2>2 DEF StoreInv, RowsSigned
  <2>4. QED
      BY <2>1, <2>2, <2>3 DEF SignedRow, Rows
<1>3. IsFiniteSet(P)
  <2>1. P \in SUBSET {t \in TxIds : tx[t] # NoRow}
      BY <1>1, <1>2 DEF PendingWithdrawalsOf
  <2>2. QED
      BY <2>1, FS_Subset DEF RowsFinite
<1>4. PICK w : w = Liens(u)
    OBVIOUS
<1>5. w \in [P -> Nat]
    BY <1>1, <1>2, <1>4 DEF Liens
<1>6. SumFunction(w) = Total(w, P) /\ Total(w, P) \in Nat
    BY <1>3, <1>5, SumIsTotal, UnitsFinite
<1>7. Reserved(u) = SumFunction(w)
    BY <1>4 DEF Reserved, Liens
<1>8. QED
    BY <1>1, <1>3, <1>4, <1>5, <1>6, <1>7

\* Without a new lien the reserve does not grow.
LEMMA ReserveShrinks ==
    ASSUME ReservedSums, ReservedSums', NEW u \in Users,
           \A t \in PendingWithdrawalsOf(u)' : /\ t \in PendingWithdrawalsOf(u)
                                               /\ tx'[t].amount = tx[t].amount
    PROVE  Reserved(u)' <= Reserved(u)
<1>1. PICK P : P = PendingWithdrawalsOf(u)
    OBVIOUS
<1>2. PICK Q : Q = PendingWithdrawalsOf(u)'
    OBVIOUS
<1>3. PICK v : v = Liens(u)
    OBVIOUS
<1>4. PICK w : w = Liens(u)'
    OBVIOUS
<1>5. /\ IsFiniteSet(P) /\ v \in [P -> Nat] /\ Reserved(u) = Total(v, P)
      /\ w \in [Q -> Nat] /\ Reserved(u)' = Total(w, Q)
    BY <1>1, <1>2, <1>3, <1>4 DEF ReservedSums
<1>6. Q \subseteq P
    BY <1>1, <1>2
<1>7. \A t \in Q : v[t] = w[t]
    BY <1>1, <1>2, <1>3, <1>4, <1>6 DEF Liens
<1>8. Total(w, Q) <= Total(v, P)
    BY <1>5, <1>6, <1>7, TotalGrows
<1>9. QED
    BY <1>5, <1>8

\* A withdrawal reserves its amount of its owner's funds and nothing of others'.
LEMMA WithdrawalReserves ==
    ASSUME StoreTypeOK, ReservedSums, ReservedSums', NEW u \in Users, NEW a \in Int,
           CreatePending(u, "withdraw", -a), NEW v \in Users
    PROVE  IF v = u THEN Reserved(v)' = Reserved(v) + a ELSE Reserved(v)' <= Reserved(v)
<1> DEFINE row == [user |-> u, type |-> "withdraw", amount |-> -a, txStatus |-> "pending"]
<1>1. PICK t \in TxIds : tx[t] = NoRow /\ tx' = [tx EXCEPT ![t] = row]
    BY DEF CreatePending
<1>2. \A s \in TxIds : tx'[s] = IF s = t THEN row ELSE tx[s]
    BY <1>1 DEF StoreTypeOK
<1>3. t \notin PendingWithdrawalsOf(v)
    BY <1>1 DEF PendingWithdrawalsOf, NoRow
<1>4. CASE v # u
  <2>1. \A s \in PendingWithdrawalsOf(v)' : /\ s \in PendingWithdrawalsOf(v)
                                            /\ tx'[s].amount = tx[s].amount
      BY <1>2, <1>4 DEF PendingWithdrawalsOf
  <2>2. QED
      BY <1>4, <2>1, ReserveShrinks
<1>5. CASE v = u
  <2>1. PICK P : P = PendingWithdrawalsOf(u)
      OBVIOUS
  <2>2. PICK Q : Q = PendingWithdrawalsOf(u)'
      OBVIOUS
  <2>3. PICK f : f = Liens(u)
      OBVIOUS
  <2>4. PICK g : g = Liens(u)'
      OBVIOUS
  <2>5. /\ IsFiniteSet(P) /\ f \in [P -> Nat] /\ Reserved(u) = Total(f, P)
        /\ IsFiniteSet(Q) /\ g \in [Q -> Nat] /\ Reserved(u)' = Total(g, Q)
      BY <2>1, <2>2, <2>3, <2>4 DEF ReservedSums
  <2>6. Q = P \cup {t} /\ t \notin P
      BY <1>2, <1>3, <1>5, <2>1, <2>2 DEF PendingWithdrawalsOf
  <2>7. \A s \in P : f[s] = g[s]
    <3>1. \A s \in P : s \in Q /\ tx'[s] = tx[s]
        BY <1>2, <2>1, <2>6 DEF PendingWithdrawalsOf
    <3>2. /\ \A s \in P : f[s] = -tx[s].amount
          /\ \A s \in Q : g[s] = -tx'[s].amount
        BY <2>1, <2>2, <2>3, <2>4 DEF Liens
    <3>3. QED
        BY <3>1, <3>2
  <2>8. g[t] = a
      BY <1>2, <2>2, <2>4, <2>6 DEF Liens
  <2>9. Total(g, P \cup {t}) = Total(g, P) + g[t]
      BY <2>5, <2>6, TotalAdds
  <2>10. Total(g, P) = Total(f, P)
      BY <2>7, TotalAlike
  <2>11. QED
      BY <1>5, <2>5, <2>6, <2>8, <2>9, <2>10
<1>6. QED
    BY <1>4, <1>5

\* A row that is created as a deposit reserves nothing.
LEMMA DepositReservesNothing ==
    ASSUME StoreTypeOK, NEW u, NEW amount, CreatePending(u, "deposit", amount), NEW v,
           NEW s \in PendingWithdrawalsOf(v)'
    PROVE  s \in PendingWithdrawalsOf(v) /\ tx'[s].amount = tx[s].amount
<1> DEFINE row == [user |-> u, type |-> "deposit", amount |-> amount, txStatus |-> "pending"]
<1>1. PICK t \in TxIds : tx' = [tx EXCEPT ![t] = row]
    BY DEF CreatePending
<1>2. tx'[t].type = "deposit" /\ \A r \in TxIds : r # t => tx'[r] = tx[r]
    BY <1>1 DEF StoreTypeOK
<1>3. QED
    BY <1>2 DEF PendingWithdrawalsOf

\* A row that is settled reserves nothing any more.
LEMMA SettledReservesNothing ==
    ASSUME StoreTypeOK, NEW t \in TxIds, NEW status \in {"completed", "failed"},
           tx[t] \in Rows, SetStatus(t, status), NEW v, NEW s \in PendingWithdrawalsOf(v)'
    PROVE  s \in PendingWithdrawalsOf(v) /\ tx'[s].amount = tx[s].amount
<1>1. tx' = [tx EXCEPT ![t] = [tx[t] EXCEPT !.txStatus = status]]
    BY DEF SetStatus
<1>2. tx'[t].txStatus = status /\ \A r \in TxIds : r # t => tx'[r] = tx[r]
    BY <1>1 DEF StoreTypeOK, Rows
<1>3. QED
    BY <1>2 DEF PendingWithdrawalsOf

\* Only a withdrawal that is created makes a reserve grow, by its amount.
LEMMA ReserveGrowth ==
    ASSUME IInv, ReservedSums, ReservedSums', [Next]_vars,
           NEW u \in Users, Reserved(u)' > Reserved(u)
    PROVE  \E c \in Calls : /\ call[c] # Idle /\ call[c].user = u
                            /\ call[c].at = "write" /\ call[c].op = "withdraw"
                            /\ Reserved(u)' = Reserved(u) + call[c].amount
                            /\ balance' = balance
<1>1. StoreInv /\ WalletInv /\ WebhooksInv /\ StoreTypeOK
    BY IInvParts DEF StoreInv
<1>2. Reserved(u) \in Nat /\ Reserved(u)' \in Nat
    BY DEF ReservedSums
<1>3. ~ \A t \in PendingWithdrawalsOf(u)' : /\ t \in PendingWithdrawalsOf(u)
                                            /\ tx'[t].amount = tx[t].amount
    BY <1>2, ReserveShrinks
<1>4. tx' # tx
    BY <1>3 DEF PendingWithdrawalsOf
<1>5. CASE CallNext
  <2>1. PICK c \in Calls : CallStep(c)
      BY <1>5 DEF CallNext
  <2>2. CreateDeposit(c) \/ CreateWithdrawal(c)
      BY <1>4, <2>1 DEF CallStep, ReadCaller, CheckAvailable, DepositInstantly, AbortCall,
                        Post, storeVars
  <2>3. ~CreateDeposit(c)
      BY <1>1, <1>3, DepositReservesNothing DEF CreateDeposit
  <2>4. /\ call[c].at = "write" /\ call[c].op = "withdraw" /\ balance' = balance
        /\ CreatePending(call[c].user, "withdraw", -call[c].amount)
      BY <2>2, <2>3 DEF CreateWithdrawal
  <2>5. call[c] # Idle /\ call[c].user \in Users /\ call[c].amount \in Int
      BY <1>1, <2>4, CallWrites
  <2>6. call[c].user = u /\ Reserved(u)' = Reserved(u) + call[c].amount
      BY <1>1, <1>2, <2>4, <2>5, WithdrawalReserves
  <2>7. QED
      BY <2>4, <2>5, <2>6
<1>6. CASE PatchNext
    BY <1>4, <1>6 DEF PatchNext, PatchStep, ReadTarget, WriteFreeze, RereadTarget,
                      AdjustBalance, AbortPatch, Post, storeVars
<1>7. CASE HookNext
  <2>1. PICK h \in Hooks : HookStep(h)
      BY <1>7 DEF HookNext
  <2>2. CreditDeposit(h) \/ DebitWithdrawal(h) \/ MarkFailed(h)
      BY <1>4, <2>1 DEF HookStep, LookUpDelivery, LookUp, ReadRow, ReadOwner, RefundDeposit,
                        SkipRefund, AbortHook, Post, storeVars
  <2>3. hook[h] # NoHook
      BY <2>2 DEF CreditDeposit, DebitWithdrawal, MarkFailed, NoHook
  <2>4. hook[h].t \in TxIds /\ tx[hook[h].t] \in Rows
      BY <1>1, <2>3, HookHolds DEF SignedRow
  <2>5. \E status \in {"completed", "failed"} : SetStatus(hook[h].t, status)
      BY <2>2 DEF CreditDeposit, DebitWithdrawal, MarkFailed
  <2>6. QED
      BY <1>1, <1>3, <2>4, <2>5, SettledReservesNothing
<1>8. CASE UNCHANGED vars
    BY <1>4, <1>8 DEF vars, storeVars
<1>9. QED
    BY <1>5, <1>6, <1>7, <1>8 DEF Next

-----------------------------------------------------------------------------
(* Payments served one request at a time: what a handler has read is still so   *)
(* when it writes.  Hence balance and ledger agree, and every commit is a step   *)
(* of AccountLedger.                                                             *)

\* What a wallet request has read or checked.
CallsCurrent ==
    \A c \in Calls, u \in Users : call[c] # Idle /\ call[c].user = u =>
        /\ call[c].seen = balance[u]
        /\ ~accountFrozen[u]
        /\ call[c].at = "write" /\ call[c].op = "withdraw"
               => call[c].seen - Reserved(u) >= call[c].amount

\* What a patch is about to write from.
PatchesCurrent ==
    \A p \in Patches : patch[p].at = "write" => patch[p].seen = balance[patch[p].user]

\* What a delivery has read of its row and of the row's owner.
HooksCurrent ==
    \A h \in Hooks :
        /\ hook[h].at \in {"owner", "commit"} /\ hook[h].kind # "deposit-refunded"
               => tx[hook[h].t].txStatus = "pending"
        /\ hook[h].at = "commit" /\ hook[h].kind \notin {"deposit-failed", "withdraw-failed"}
               => hook[h].seen = balance[tx[hook[h].t].user]

CopiesCurrent ==
    /\ CallsCurrent
    /\ PatchesCurrent
    /\ HooksCurrent

-----------------------------------------------------------------------------
(* A request in flight is alone. *)

LEMMA CallAlone ==
    ASSUME Serial, NEW c \in Calls, call[c] # Idle
    PROVE  /\ \A d \in Calls : d # c => call[d] = Idle
           /\ \A p \in Patches : patch[p] = NoPatch
           /\ \A h \in Hooks : hook[h] = NoHook
<1>1. <<"call", c>> \in InFlight
    BY DEF InFlight
<1>2. ASSUME NEW d \in Calls, call[d] # Idle PROVE d = c
  <2>1. <<"call", d>> \in InFlight
      BY <1>2 DEF InFlight
  <2>2. QED
      BY <1>1, <2>1 DEF Serial
<1>3. ASSUME NEW p \in Patches, patch[p] # NoPatch PROVE FALSE
  <2>1. <<"patch", p>> \in InFlight
      BY <1>3 DEF InFlight
  <2>2. QED
      BY <1>1, <2>1 DEF Serial
<1>4. ASSUME NEW h \in Hooks, hook[h] # NoHook PROVE FALSE
  <2>1. <<"hook", h>> \in InFlight
      BY <1>4 DEF InFlight
  <2>2. QED
      BY <1>1, <2>1 DEF Serial
<1>5. QED
    BY <1>2, <1>3, <1>4

LEMMA PatchAlone ==
    ASSUME Serial, NEW p \in Patches, patch[p] # NoPatch
    PROVE  /\ \A c \in Calls : call[c] = Idle
           /\ \A q \in Patches : q # p => patch[q] = NoPatch
           /\ \A h \in Hooks : hook[h] = NoHook
<1>1. <<"patch", p>> \in InFlight
    BY DEF InFlight
<1>2. \A c \in Calls : call[c] = Idle
    BY CallAlone
<1>3. ASSUME NEW q \in Patches, patch[q] # NoPatch PROVE q = p
  <2>1. <<"patch", q>> \in InFlight
      BY <1>3 DEF InFlight
  <2>2. QED
      BY <1>1, <2>1 DEF Serial
<1>4. ASSUME NEW h \in Hooks, hook[h] # NoHook PROVE FALSE
  <2>1. <<"hook", h>> \in InFlight
      BY <1>4 DEF InFlight
  <2>2. QED
      BY <1>1, <2>1 DEF Serial
<1>5. QED
    BY <1>2, <1>3, <1>4

LEMMA HookAlone ==
    ASSUME Serial, NEW h \in Hooks, hook[h] # NoHook
    PROVE  /\ \A c \in Calls : call[c] = Idle
           /\ \A p \in Patches : patch[p] = NoPatch
           /\ \A g \in Hooks : g # h => hook[g] = NoHook
<1>1. <<"hook", h>> \in InFlight
    BY DEF InFlight
<1>2. ASSUME NEW g \in Hooks, hook[g] # NoHook PROVE g = h
  <2>1. <<"hook", g>> \in InFlight
      BY <1>2 DEF InFlight
  <2>2. QED
      BY <1>1, <2>1 DEF Serial
<1>3. QED
    BY <1>2, CallAlone, PatchAlone

-----------------------------------------------------------------------------
(* What was read stays current. *)

\* Nobody holds anything.
AllIdle ==
    /\ \A c \in Calls : call[c] = Idle
    /\ \A p \in Patches : patch[p] = NoPatch
    /\ \A h \in Hooks : hook[h] = NoHook

LEMMA IdleIsCurrent == AllIdle => CopiesCurrent
BY DEF AllIdle, CopiesCurrent, CallsCurrent, PatchesCurrent, HooksCurrent, NoPatch, NoHook

LEMMA ReservedStays ==
    ASSUME UNCHANGED tx
    PROVE  \A u \in Users : Reserved(u)' = Reserved(u)
BY DEF Reserved, PendingWithdrawalsOf

\* A component that does nothing keeps its copies while the rows stay.
LEMMA CallsStayCurrent ==
    ASSUME CallsCurrent, UNCHANGED <<call, storeVars>>
    PROVE  CallsCurrent'
BY ReservedStays DEF CallsCurrent, storeVars

LEMMA PatchesStayCurrent ==
    ASSUME PatchesCurrent, UNCHANGED <<patch, storeVars>>
    PROVE  PatchesCurrent'
BY DEF PatchesCurrent, storeVars

LEMMA HooksStayCurrent ==
    ASSUME HooksCurrent, UNCHANGED <<hookVars, storeVars>>
    PROVE  HooksCurrent'
BY DEF HooksCurrent, hookVars, storeVars

LEMMA CallNextCurrent ==
    ASSUME IInv, Serial, CopiesCurrent, CallNext
    PROVE  CopiesCurrent'
<1>1. PICK c \in Calls : CallStep(c)
    BY DEF CallNext
<1>2. UNCHANGED <<patch, hookVars>>
    BY DEF CallNext
<1>3. StoreInv /\ WalletInv /\ call \in [Calls -> CallStates \cup {Idle}]
    BY IInvParts DEF WalletInv, WalletTypeOK
<1>4. CASE UNCHANGED storeVars
  <2>1. PatchesCurrent' /\ HooksCurrent'
      BY <1>2, <1>4, PatchesStayCurrent, HooksStayCurrent DEF CopiesCurrent
  <2>2. ASSUME NEW d \in Calls, NEW u \in Users, call'[d] # Idle, call'[d].user = u
        PROVE  /\ call'[d].seen = balance'[u]
               /\ ~accountFrozen'[u]
               /\ call'[d].at = "write" /\ call'[d].op = "withdraw"
                      => call'[d].seen - Reserved(u)' >= call'[d].amount
    <3>1. balance' = balance /\ accountFrozen' = accountFrozen /\ Reserved(u)' = Reserved(u)
        BY <1>4, ReservedStays DEF storeVars
    <3>2. CASE call'[d] = call[d]
        BY <2>2, <3>1, <3>2 DEF CopiesCurrent, CallsCurrent
    <3>3. CASE d = c /\ ReadCaller(c)
      <4>1. PICK v \in Users, a \in Amounts, op \in {"deposit", "instant", "withdraw"} :
                /\ ~accountFrozen[v]
                /\ call' = [call EXCEPT ![c] =
                       [at |-> IF op = "withdraw" THEN "aggregate" ELSE "write",
                        op |-> op, user |-> v, amount |-> a, seen |-> balance[v]]]
          BY <3>3 DEF ReadCaller
      <4>2. call'[d] = [at |-> IF op = "withdraw" THEN "aggregate" ELSE "write",
                        op |-> op, user |-> v, amount |-> a, seen |-> balance[v]]
          BY <1>3, <3>3, <4>1
      <4>3. QED
          BY <2>2, <3>1, <4>1, <4>2
    <3>4. CASE d = c /\ CheckAvailable(c)
      <4>1. call[c] \in CallStates /\ call[c] # Idle
          BY <1>3, <3>4 DEF CheckAvailable, Idle
      <4>2. /\ call'[d] = [call[c] EXCEPT !.at = "write"]
            /\ call[c].seen - Reserved(call[c].user) >= call[c].amount
          BY <1>3, <2>2, <3>4 DEF CheckAvailable
      <4>3. call'[d].user = call[c].user /\ call'[d].seen = call[c].seen
            /\ call'[d].amount = call[c].amount
          BY <4>1, <4>2 DEF CallStates
      <4>4. call[c].user = u
          BY <2>2, <4>3
      <4>5. call[c].seen = balance[u] /\ ~accountFrozen[u]
          BY <4>1, <4>4 DEF CopiesCurrent, CallsCurrent
      <4>6. QED
          BY <3>1, <4>2, <4>3, <4>4, <4>5
    <3>5. CASE call'[d] = Idle
        BY <2>2, <3>5
    <3>6. QED
        BY <1>1, <1>3, <3>2, <3>3, <3>4, <3>5
           DEF CallStep, CreateDeposit, DepositInstantly, CreateWithdrawal, AbortCall,
               ReadCaller, CheckAvailable
  <2>3. CallsCurrent'
      BY <2>2 DEF CallsCurrent
  <2>4. QED
      BY <2>1, <2>3 DEF CopiesCurrent
<1>5. CASE ~UNCHANGED storeVars
  <2>1. call[c].at = "write" /\ call' = [call EXCEPT ![c] = Idle]
      BY <1>1, <1>5 DEF CallStep, ReadCaller, CheckAvailable, CreateDeposit,
                        DepositInstantly, CreateWithdrawal, AbortCall
  <2>2. call[c] # Idle
      BY <2>1 DEF Idle
  <2>3. AllIdle'
      BY <1>2, <1>3, <2>1, <2>2, CallAlone DEF AllIdle, hookVars
  <2>4. QED
      BY <2>3, IdleIsCurrent, PTL
<1>6. QED
    BY <1>4, <1>5

LEMMA PatchNextCurrent ==
    ASSUME IInv, Serial, CopiesCurrent, PatchNext
    PROVE  CopiesCurrent'
<1>1. PICK p \in Patches : PatchStep(p)
    BY DEF PatchNext
<1>2. UNCHANGED <<call, hookVars>>
    BY DEF PatchNext
<1>3. patch \in [Patches -> PatchStates \cup {NoPatch}]
    BY IInvParts DEF AdminInv, AdminTypeOK
<1>4. CASE patch[p] # NoPatch
  <2>1. /\ \A c \in Calls : call[c] = Idle
        /\ \A q \in Patches : q # p => patch[q] = NoPatch
        /\ \A h \in Hooks : hook[h] = NoHook
      BY <1>4, PatchAlone
  <2>2. CallsCurrent' /\ HooksCurrent'
      BY <1>2, <2>1 DEF CallsCurrent, HooksCurrent, hookVars, NoHook
  <2>3. ASSUME patch'[p].at = "write" PROVE patch'[p].seen = balance'[patch'[p].user]
    <3>1. patch[p] \in PatchStates
        BY <1>3, <1>4
    <3>2. ~ReadTarget(p)
        BY <1>4 DEF ReadTarget
    <3>3. ~WriteFreeze(p)
        BY <1>3, <2>3, <3>1 DEF WriteFreeze, PatchStates
    <3>4. ~AdjustBalance(p) /\ ~AbortPatch(p)
        BY <1>3, <2>3 DEF AdjustBalance, AbortPatch, NoPatch
    <3>5. RereadTarget(p)
        BY <1>1, <3>2, <3>3, <3>4 DEF PatchStep
    <3>6. patch'[p] = [patch[p] EXCEPT !.at = "write", !.seen = balance[patch[p].user]]
        BY <1>3, <2>3, <3>5 DEF RereadTarget, NoPatch
    <3>7. patch'[p].seen = balance[patch[p].user] /\ patch'[p].user = patch[p].user
        BY <3>1, <3>6 DEF PatchStates
    <3>8. balance' = balance
        BY <3>5 DEF RereadTarget, storeVars
    <3>9. QED
        BY <3>7, <3>8
  <2>4. \A q \in Patches : q # p => patch'[q] = NoPatch
      BY <1>1, <1>3, <2>1 DEF PatchStep, ReadTarget, WriteFreeze, RereadTarget,
                              AdjustBalance, AbortPatch
  <2>5. PatchesCurrent'
      BY <2>3, <2>4 DEF PatchesCurrent, NoPatch
  <2>6. QED
      BY <2>2, <2>5 DEF CopiesCurrent
<1>5. CASE patch[p] = NoPatch
  <2>1. ReadTarget(p)
      BY <1>1, <1>5 DEF PatchStep, WriteFreeze, RereadTarget, AdjustBalance, AbortPatch,
                        NoPatch
  <2>2. CallsCurrent' /\ HooksCurrent'
      BY <1>2, <2>1, CallsStayCurrent, HooksStayCurrent DEF CopiesCurrent, ReadTarget
  <2>3. PICK u \in Users, f \in Freezes, d \in Deltas :
            patch' = [patch EXCEPT ![p] =
                [at |-> IF f = "unset" THEN "write" ELSE "freeze",
                 user |-> u, freeze |-> f, delta |-> d,
                 seen |-> IF f = "unset" THEN balance[u] ELSE 0]]
      BY <2>1 DEF ReadTarget
  <2>4. balance' = balance
      BY <2>1 DEF ReadTarget, storeVars
  <2>5. PatchesCurrent'
      BY <1>3, <2>3, <2>4 DEF CopiesCurrent, PatchesCurrent
  <2>6. QED
      BY <2>2, <2>5 DEF CopiesCurrent
<1>6. QED
    BY <1>4, <1>5

LEMMA HookNextCurrent ==
    ASSUME IInv, Serial, CopiesCurrent, HookNext
    PROVE  CopiesCurrent'
<1>1. PICK h \in Hooks : HookStep(h)
    BY DEF HookNext
<1>2. UNCHANGED <<call, patch>>
    BY DEF HookNext
<1>3. hook \in [Hooks -> HookStates \cup {NoHook}]
    BY IInvParts DEF WebhooksInv, WebhooksTypeOK
<1>4. CASE UNCHANGED storeVars
  <2>1. CallsCurrent' /\ PatchesCurrent'
      BY <1>2, <1>4, CallsStayCurrent, PatchesStayCurrent DEF CopiesCurrent
  <2>2. balance' = balance /\ tx' = tx
      BY <1>4 DEF storeVars
  <2>3. ASSUME NEW g \in Hooks
        PROVE  /\ hook'[g].at \in {"owner", "commit"} /\ hook'[g].kind # "deposit-refunded"
                      => tx[hook'[g].t].txStatus = "pending"
               /\ hook'[g].at = "commit" /\ hook'[g].kind \notin {"deposit-failed", "withdraw-failed"}
                      => hook'[g].seen = balance[tx[hook'[g].t].user]
    <3>1. CASE hook'[g] = hook[g]
        BY <3>1 DEF CopiesCurrent, HooksCurrent
    <3>2. CASE hook'[g].at \in {"idle", "row", "skip"}
        BY <3>2
    <3>3. CASE g = h /\ ReadRow(h) /\ hook'[g] # NoHook
      <4>1. hook[h] \in HookStates
          BY <1>3, <3>3 DEF ReadRow, NoHook
      <4>2. /\ hook'[h] = [hook[h] EXCEPT !.at = AfterRow(hook[h])]
            /\ AfterRow(hook[h]) # "refused"
          BY <1>3, <3>3 DEF ReadRow
      <4>3. /\ hook'[h].kind = hook[h].kind /\ hook'[h].t = hook[h].t
            /\ hook'[h].at = AfterRow(hook[h])
          BY <4>1, <4>2 DEF HookStates
      <4>4. QED
          BY <3>3, <4>2, <4>3 DEF AfterRow
    <3>4. CASE g = h /\ ReadOwner(h)
      <4>1. hook[h] \in HookStates
          BY <1>3, <3>4 DEF ReadOwner, NoHook
      <4>2. hook'[h] = [hook[h] EXCEPT !.at = "commit",
                                       !.seen = balance[tx[hook[h].t].user]]
          BY <1>3, <3>4 DEF ReadOwner
      <4>3. /\ hook'[h].kind = hook[h].kind /\ hook'[h].t = hook[h].t
            /\ hook'[h].seen = balance[tx[hook[h].t].user]
          BY <4>1, <4>2 DEF HookStates
      <4>4. hook[h].kind # "deposit-refunded" => tx[hook[h].t].txStatus = "pending"
          BY <3>4 DEF CopiesCurrent, HooksCurrent, ReadOwner
      <4>5. QED
          BY <3>4, <4>3, <4>4
    <3>5. CASE g = h /\ LookUpDelivery(h)
        BY <1>3, <3>5, <3>2 DEF LookUpDelivery, LookUp
    <3>6. CASE hook'[g] = NoHook
        BY <3>2, <3>6 DEF NoHook
    <3>7. QED
        BY <1>1, <1>3, <3>1, <3>3, <3>4, <3>5, <3>6
           DEF HookStep, LookUpDelivery, LookUp, ReadRow, ReadOwner, CreditDeposit, DebitWithdrawal,
               MarkFailed, RefundDeposit, SkipRefund, AbortHook, RecordDelivery
  <2>4. HooksCurrent'
      BY <2>2, <2>3 DEF HooksCurrent
  <2>5. QED
      BY <2>1, <2>4 DEF CopiesCurrent
<1>5. CASE ~UNCHANGED storeVars
  <2>1. hook[h] # NoHook /\ hook' = [hook EXCEPT ![h] = NoHook]
      BY <1>1, <1>5 DEF HookStep, LookUpDelivery, LookUp, ReadRow, ReadOwner, CreditDeposit,
                        DebitWithdrawal, MarkFailed, RefundDeposit, SkipRefund, AbortHook,
                        RecordDelivery, NoHook
  <2>2. AllIdle'
      BY <1>2, <1>3, <2>1, HookAlone DEF AllIdle
  <2>3. QED
      BY <2>2, IdleIsCurrent, PTL
<1>6. QED
    BY <1>4, <1>5

LEMMA CopiesStayCurrent ==
    IInv /\ Serial /\ CopiesCurrent /\ [Next /\ Serial']_vars => CopiesCurrent'
<1> SUFFICES ASSUME IInv, Serial, CopiesCurrent, [Next /\ Serial']_vars
             PROVE  CopiesCurrent'
    OBVIOUS
<1>1. CASE Next
    BY <1>1, CallNextCurrent, PatchNextCurrent, HookNextCurrent DEF Next
<1>2. CASE UNCHANGED vars
    BY <1>2, CallsStayCurrent, PatchesStayCurrent, HooksStayCurrent
       DEF CopiesCurrent, vars, hookVars
<1>3. QED
    BY <1>1, <1>2

\* The invariant of the serial system.
SerialInv == IInv /\ Serial /\ CopiesCurrent

LEMMA SerialInvariance == SerialSpec => []SerialInv
<1>1. [Next /\ Serial']_vars => [Next]_vars
    OBVIOUS
<1>2. Init => Serial /\ CopiesCurrent
  <2>1. Init => AllIdle
      BY DEF Init, WalletInit, AdminInit, WebhooksInit, AllIdle
  <2>2. AllIdle => Serial
      BY DEF AllIdle, Serial, InFlight
  <2>3. QED
      BY <2>1, <2>2, IdleIsCurrent
<1>3. Serial /\ [Next /\ Serial']_vars => Serial'
    BY DEF Serial, InFlight, vars, hookVars
<1>4. SerialSpec => Spec
    BY <1>1, PTL DEF SerialSpec, Spec
<1>5. QED
    BY <1>2, <1>3, <1>4, CopiesStayCurrent, Invariance, PTL DEF SerialSpec, SerialInv

-----------------------------------------------------------------------------

LEMMA CurrentMeansNotStale ==
    ASSUME CopiesCurrent, NEW u \in Users
    PROVE  ~StaleBalance(u) /\ ~StaleStatus(u)
<1>1. \A h \in Hooks : Outcome(hook[h]) \in {"credit", "debit", "refund"}
          => hook[h].kind \notin {"deposit-failed", "withdraw-failed"}
    BY DEF Outcome
<1>2. \A h \in Hooks : Outcome(hook[h]) # "refund" => hook[h].kind # "deposit-refunded"
    BY DEF Outcome
<1>3. ~StaleStatus(u)
    BY <1>2 DEF StaleStatus, CopiesCurrent, HooksCurrent
<1>4. \A c \in Calls : call[c].at = "write" => call[c] # Idle
    BY DEF Idle
<1>5. ~StaleBalance(u)
    BY <1>1, <1>4 DEF StaleBalance, CopiesCurrent, CallsCurrent, PatchesCurrent, HooksCurrent
<1>6. QED
    BY <1>3, <1>5

\* Served one request at a time, no sequence of deposits, payouts, refunds,
\* adjustments and their failures makes a balance differ from what was booked.
THEOREM SeriallyExact == SerialSpec => []LedgerExact
<1>1. Init => LedgerExact
    BY DEF Init, StoreInit, LedgerExact, Drift
<1>2. ASSUME LedgerExact, SerialInv,
             [\A u \in Users : Drift(u)' # Drift(u) => StaleBalance(u) \/ StaleStatus(u)]_vars
      PROVE  LedgerExact'
  <2>1. CASE UNCHANGED vars
      BY <1>2, <2>1 DEF LedgerExact, Drift, vars, storeVars
  <2>2. CASE ~UNCHANGED vars
      BY <1>2, <2>2, CurrentMeansNotStale DEF LedgerExact, SerialInv
  <2>3. QED
      BY <2>1, <2>2
<1>3. [Next /\ Serial']_vars => [Next]_vars
    OBVIOUS
<1>4. SerialSpec => DriftNeedsStaleCommit
    BY <1>3, DriftHasTwoCauses, PTL DEF SerialSpec, Spec
<1>5. QED
    BY <1>1, <1>2, <1>4, SerialInvariance, PTL DEF SerialSpec, DriftNeedsStaleCommit

\* Served one request at a time, a withdrawal is accepted only as far as the
\* balance covers it together with all that are in flight, however many there are.
THEOREM SeriallyNeverOverRequested == SerialSpec => NoOverRequest
<1>1. ASSUME SerialInv, ReservedSums, ReservedSums', [Next]_vars,
             NEW u \in Users, Reserved(u)' > Reserved(u)
      PROVE  Reserved(u)' <= balance[u]
  <2>1. PICK c \in Calls : /\ call[c] # Idle /\ call[c].user = u
                           /\ call[c].at = "write" /\ call[c].op = "withdraw"
                           /\ Reserved(u)' = Reserved(u) + call[c].amount
      BY <1>1, ReserveGrowth DEF SerialInv
  <2>2. call[c].seen = balance[u] /\ call[c].seen - Reserved(u) >= call[c].amount
      BY <1>1, <2>1 DEF SerialInv, CopiesCurrent, CallsCurrent
  <2>3. Reserved(u) \in Nat /\ call[c].amount \in Int /\ balance[u] \in Int
      BY <1>1, <2>1, IInvParts, CallWrites
         DEF ReservedSums, SerialInv, StoreInv, StoreTypeOK, Decimals
  <2>4. QED
      BY <2>1, <2>2, <2>3
<1>2. SerialInv /\ ReservedSums /\ ReservedSums' /\ [Next]_vars =>
          [\A u \in Users : Reserved(u)' > Reserved(u) => Reserved(u)' <= balance[u]]_vars
    BY <1>1
<1>3. [Next /\ Serial']_vars => [Next]_vars
    OBVIOUS
<1>4. SerialSpec => Spec
    BY <1>3, PTL DEF SerialSpec, Spec
<1>5. SerialInv => StoreInv
    BY IInvParts DEF SerialInv
<1>6. QED
    BY <1>2, <1>3, <1>4, <1>5, SerialInvariance, FinitelyManyRows, ReservedIsTotal, PTL
       DEF SerialSpec, NoOverRequest

-----------------------------------------------------------------------------
(* The refinement: each write of Store is an event of AccountLedger. *)

LEMMA SameReserve == \A u \in Users : Promise!Promised(u) = Reserved(u)
BY DEF Promise!Promised, Reserved, PendingWithdrawalsOf

LEMMA CreateOpens ==
    ASSUME NEW u, NEW type, NEW amount, CreatePending(u, type, amount)
    PROVE  Promise!Open(u, type, amount) /\ UNCHANGED ledger
BY DEF CreatePending, Promise!Open, Promise!Unused, NoRow

\* A change of the balance by what is booked.
LEMMA BooksBoth ==
    ASSUME StoreInv, StoreInv', NEW u \in Users, NEW a \in Int,
           SetBalance(u, balance[u] + a),
           ledger' = [ledger EXCEPT ![u] = ledger[u] + a]
    PROVE  Promise!Book(u, a)
<1>1. balance'[u] = balance[u] + a
    BY DEF SetBalance, StoreInv, StoreTypeOK
<1>2. balance'[u] \in 0 .. MaxBalance
    BY StoreAssumption DEF StoreInv, StoreTypeOK, NoOverdraft, Decimals, StoreAssumption
<1>3. QED
    BY <1>1, <1>2 DEF SetBalance, Promise!Book

LEMMA PostAdjusts ==
    ASSUME StoreInv, StoreInv', NEW u \in Users, NEW a \in Int,
           Post(u, a, balance[u] + a), UNCHANGED accountFrozen
    PROVE  Promise!Next
<1>1. Promise!Book(u, a) /\ UNCHANGED tx
    BY BooksBoth DEF Post
<1>2. balance[u] \in 0 .. MaxBalance /\ balance[u] + a \in 0 .. MaxBalance
  <2>1. balance[u] \in 0 .. MaxBalance
      BY StoreAssumption DEF StoreInv, StoreTypeOK, NoOverdraft, Decimals, StoreAssumption
  <2>2. QED
      BY <1>1, <2>1 DEF Promise!Book
<1>3. a \in -MaxBalance .. MaxBalance
    BY <1>2, StoreAssumption DEF StoreAssumption
<1>4. Promise!Adjust(u)
    BY <1>1, <1>3 DEF Promise!Adjust
<1>5. QED
    BY <1>4 DEF Promise!Next

\* The row of a payment that is pending completes and moves its amount.
LEMMA CompletionSettles ==
    ASSUME StoreInv, StoreInv', NEW t \in TxIds, tx[t] # NoRow, tx[t].txStatus = "pending",
           SetBalance(tx[t].user, balance[tx[t].user] + tx[t].amount),
           SetStatus(t, "completed"), UNCHANGED accountFrozen
    PROVE  Promise!Next
<1> DEFINE row == [tx[t] EXCEPT !.txStatus = "completed"]
           u == tx[t].user
<1>1. tx[t] \in Rows /\ u \in Users /\ tx[t].amount \in Int
    BY DEF StoreInv, RowsSigned, SignedRow, Rows
<1>2. row.user = u /\ row.txStatus = "completed" /\ row.amount = tx[t].amount
    BY <1>1 DEF Rows
<1>3. ledger' = [ledger EXCEPT ![u] = ledger[u] + Settled(row) - Settled(tx[t])]
    BY <1>2 DEF SetStatus
<1>4. Settled(row) = tx[t].amount /\ Settled(tx[t]) = 0
    BY <1>2 DEF Settled
<1>5. ledger[u] \in Int
    BY <1>1 DEF StoreInv, StoreTypeOK
<1>6. ledger[u] + Settled(row) - Settled(tx[t]) = ledger[u] + tx[t].amount
    BY <1>1, <1>4, <1>5
<1>7. Promise!Book(u, tx[t].amount)
    BY <1>1, <1>3, <1>6, BooksBoth
<1>8. Promise!Settle(t)
    BY <1>7 DEF SetStatus, Promise!Settle
<1>9. QED
    BY <1>8 DEF Promise!Next

\* The row of a payment that is pending fails and moves nothing.
LEMMA FailureRejects ==
    ASSUME StoreInv, NEW t \in TxIds, tx[t] # NoRow, tx[t].txStatus = "pending",
           SetStatus(t, "failed"), UNCHANGED <<balance, accountFrozen>>
    PROVE  Promise!Next
<1> DEFINE row == [tx[t] EXCEPT !.txStatus = "failed"]
<1>1. tx[t] \in Rows
    BY DEF StoreInv, RowsSigned, SignedRow
<1>2. row.user = tx[t].user /\ row.txStatus = "failed" /\ tx[t].user \in Users
    BY <1>1 DEF Rows
<1>3. Settled(row) = 0 /\ Settled(tx[t]) = 0
    BY <1>2 DEF Settled
<1>4. ledger \in [Users -> Int]
    BY DEF StoreInv, StoreTypeOK
<1>5. ledger' = [ledger EXCEPT ![tx[t].user] = ledger[tx[t].user] + 0 - 0]
    BY <1>2, <1>3 DEF SetStatus
<1>6. ledger' = ledger
    BY <1>2, <1>4, <1>5
<1>7. Promise!Reject(t)
    BY <1>6 DEF SetStatus, Promise!Reject
<1>8. QED
    BY <1>7 DEF Promise!Next

LEMMA FreezeSuspends ==
    ASSUME StoreInv, NEW u \in Users, NEW frozen \in BOOLEAN,
           accountFrozen' = [accountFrozen EXCEPT ![u] = frozen],
           UNCHANGED <<balance, tx, ledger>>
    PROVE  [Promise!Next]_(Promise!ledgerVars)
<1>1. accountFrozen \in [Users -> BOOLEAN]
    BY DEF StoreInv, StoreTypeOK
<1>2. CASE accountFrozen[u] = frozen
  <2>1. accountFrozen' = accountFrozen
      BY <1>1, <1>2
  <2>2. QED
      BY <2>1 DEF Promise!ledgerVars
<1>3. CASE accountFrozen[u] # frozen
  <2>1. frozen = ~accountFrozen[u]
      BY <1>1, <1>3
  <2>2. accountFrozen' = [accountFrozen EXCEPT ![u] = ~accountFrozen[u]]
      BY <2>1
  <2>3. Promise!Suspend(u)
      BY <2>2 DEF Promise!Suspend
  <2>4. QED
      BY <2>3 DEF Promise!Next
<1>4. QED
    BY <1>2, <1>3

LEMMA StoreStutters == UNCHANGED storeVars => UNCHANGED Promise!ledgerVars
BY DEF storeVars, Promise!ledgerVars

LEMMA CallStepPromised ==
    ASSUME SerialInv, StoreInv', NEW c \in Calls, CallStep(c)
    PROVE  [Promise!Next]_(Promise!ledgerVars)
<1>1. StoreInv /\ WalletInv /\ CallsCurrent
    BY IInvParts DEF SerialInv, CopiesCurrent
<1>2. ASSUME call[c].at = "write"
      PROVE  /\ call[c].user \in Users
             /\ call[c].amount \in Amounts /\ call[c].amount \in Int
             /\ call[c].seen = balance[call[c].user]
             /\ ~accountFrozen[call[c].user]
             /\ call[c].op = "withdraw"
                    => call[c].seen - Reserved(call[c].user) >= call[c].amount
  <2>1. call[c] # Idle /\ call[c].user \in Users /\ call[c].amount \in Int
      BY <1>1, <1>2, CallWrites
  <2>2. call[c].amount \in Amounts
      BY <1>1, <1>2, CallWrites DEF CallStates
  <2>3. QED
      BY <1>1, <1>2, <2>1, <2>2 DEF CallsCurrent
<1>3. CASE CreateDeposit(c)
  <2>1. Promise!Open(call[c].user, "deposit", call[c].amount) /\ UNCHANGED ledger
      BY <1>3, CreateOpens DEF CreateDeposit
  <2>2. Promise!OpenDeposit(call[c].user, call[c].amount)
      BY <1>2, <1>3, <2>1 DEF CreateDeposit, Promise!OpenDeposit
  <2>3. QED
      BY <1>2, <1>3, <2>2 DEF CreateDeposit, Promise!Next
<1>4. CASE DepositInstantly(c)
    BY <1>1, <1>2, <1>4, PostAdjusts DEF DepositInstantly
<1>5. CASE CreateWithdrawal(c)
  <2>1. Promise!Open(call[c].user, "withdraw", -call[c].amount) /\ UNCHANGED ledger
      BY <1>5, CreateOpens DEF CreateWithdrawal
  <2>2. balance[call[c].user] - Promise!Promised(call[c].user) >= call[c].amount
      BY <1>2, <1>5, SameReserve DEF CreateWithdrawal
  <2>3. Promise!RequestPayout(call[c].user, call[c].amount)
      BY <1>2, <1>5, <2>1, <2>2 DEF CreateWithdrawal, Promise!RequestPayout
  <2>4. QED
      BY <1>2, <1>5, <2>3 DEF CreateWithdrawal, Promise!Next
<1>6. CASE UNCHANGED storeVars
    BY <1>6, StoreStutters
<1>7. QED
    BY <1>3, <1>4, <1>5, <1>6 DEF CallStep, ReadCaller, CheckAvailable, AbortCall

LEMMA PatchStepPromised ==
    ASSUME SerialInv, StoreInv', NEW p \in Patches, PatchStep(p)
    PROVE  [Promise!Next]_(Promise!ledgerVars)
<1>1. StoreInv /\ AdminInv /\ PatchesCurrent
    BY IInvParts DEF SerialInv, CopiesCurrent
<1>2. CASE WriteFreeze(p)
  <2>1. patch[p].user \in Users
      BY <1>1, <1>2, PatchHolds DEF WriteFreeze, NoPatch
  <2>2. (patch[p].freeze = "freeze") \in BOOLEAN
      OBVIOUS
  <2>3. QED
      BY <1>1, <1>2, <2>1, <2>2, FreezeSuspends DEF WriteFreeze
<1>3. CASE AdjustBalance(p)
  <2>1. patch[p].user \in Users /\ patch[p].delta \in Int
      BY <1>1, <1>3, PatchHolds DEF AdjustBalance, NoPatch
  <2>2. patch[p].seen = balance[patch[p].user]
      BY <1>1, <1>3 DEF AdjustBalance, PatchesCurrent
  <2>3. QED
      BY <1>1, <1>3, <2>1, <2>2, PostAdjusts DEF AdjustBalance
<1>4. CASE UNCHANGED storeVars
    BY <1>4, StoreStutters
<1>5. QED
    BY <1>2, <1>3, <1>4 DEF PatchStep, ReadTarget, RereadTarget, AbortPatch

LEMMA HookStepPromised ==
    ASSUME SerialInv, StoreInv', NEW h \in Hooks, HookStep(h)
    PROVE  [Promise!Next]_(Promise!ledgerVars)
<1> DEFINE r == hook[h]
           u == tx[r.t].user
<1>1. StoreInv /\ WebhooksInv /\ HooksCurrent
    BY IInvParts DEF SerialInv, CopiesCurrent
<1>2. ASSUME r.at = "commit"
      PROVE  /\ r.t \in TxIds /\ tx[r.t] # NoRow /\ u \in Users
             /\ SignedRow(tx[r.t]) /\ tx[r.t].type = SubjectType(r.kind)
             /\ r.seen \in Int /\ tx[r.t].amount \in Int
  <2>1. r # NoHook
      BY <1>2 DEF NoHook
  <2>2. tx[r.t].type = SubjectType(r.kind)
      BY <1>1, <1>2, <2>1 DEF WebhooksInv, HooksNameRows
  <2>3. QED
      BY <1>1, <2>1, <2>2, HookHolds
<1>3. CASE CreditDeposit(h)
  <2>1. r.at = "commit" /\ r.kind = "deposit-confirmed"
      BY <1>3 DEF CreditDeposit, Outcome
  <2>2. r.seen = balance[u] /\ tx[r.t].txStatus = "pending"
      BY <1>1, <2>1 DEF HooksCurrent
  <2>3. AmountOf(r.t) = tx[r.t].amount
      BY <1>2, <2>1 DEF SubjectType, AmountOf, SignedRow
  <2>4. QED
      BY <1>1, <1>2, <1>3, <2>1, <2>2, <2>3, CompletionSettles DEF CreditDeposit
<1>4. CASE DebitWithdrawal(h)
  <2>1. r.at = "commit" /\ r.kind = "withdraw-confirmed"
      BY <1>4 DEF DebitWithdrawal, Outcome
  <2>2. r.seen = balance[u] /\ tx[r.t].txStatus = "pending"
      BY <1>1, <2>1 DEF HooksCurrent
  <2>3. r.seen - AmountOf(r.t) = balance[u] + tx[r.t].amount
      BY <1>2, <2>1, <2>2 DEF SubjectType, AmountOf, SignedRow
  <2>4. QED
      BY <1>1, <1>2, <1>4, <2>1, <2>2, <2>3, CompletionSettles DEF DebitWithdrawal
<1>5. CASE MarkFailed(h)
  <2>1. r.at = "commit" /\ r.kind # "deposit-refunded"
      BY <1>5 DEF MarkFailed, Outcome
  <2>2. tx[r.t].txStatus = "pending"
      BY <1>1, <2>1 DEF HooksCurrent
  <2>3. QED
      BY <1>1, <1>2, <1>5, <2>1, <2>2, FailureRejects DEF MarkFailed
<1>6. CASE RefundDeposit(h)
  <2> DEFINE debit == LesserOf(r.paid, r.seen)
  <2>1. r.at = "commit" /\ r.kind = "deposit-refunded"
      BY <1>6 DEF RefundDeposit, Outcome
  <2>2. r.seen = balance[u]
      BY <1>1, <2>1 DEF HooksCurrent
  <2>3. r.paid \in Int
      BY <1>1, <2>1, HookHolds, ReportedPositive DEF HookStates, NoHook
  <2>4. debit \in Int
      BY <1>2, <2>1, <2>3 DEF LesserOf
  <2>5. -debit \in Int /\ r.seen - debit = balance[u] + (-debit)
      BY <1>2, <2>1, <2>2, <2>4
  <2>6. Post(u, -debit, r.seen - debit) /\ UNCHANGED accountFrozen
      BY <1>6 DEF RefundDeposit
  <2>7. Post(u, -debit, balance[u] + (-debit))
      BY <2>5, <2>6
  <2>8. QED
      BY <1>1, <1>2, <2>1, <2>5, <2>6, <2>7, PostAdjusts
<1>7. CASE UNCHANGED storeVars
    BY <1>7, StoreStutters
<1>8. QED
    BY <1>3, <1>4, <1>5, <1>6, <1>7
       DEF HookStep, LookUpDelivery, LookUp, ReadRow, ReadOwner, SkipRefund, AbortHook

\* Served one request at a time, the wallet, the webhooks and the admin API
\* implement AccountLedger: every payment settles or is rejected once, a payout
\* is opened only within what is available, a suspended user opens nothing.
THEOREM SeriallyKeepsPromise == SerialSpec => KeepsPromise
<1>1. Init => Promise!Init
    BY DEF Init, StoreInit, Promise!Init, Promise!Unused, NoRow
<1>2. ASSUME SerialInv, SerialInv', [Next /\ Serial']_vars
      PROVE  [Promise!Next]_(Promise!ledgerVars)
  <2>1. StoreInv'
      BY <1>2, IInvParts, PTL DEF SerialInv
  <2>2. CASE CallNext
      BY <1>2, <2>1, <2>2, CallStepPromised DEF CallNext
  <2>3. CASE PatchNext
      BY <1>2, <2>1, <2>3, PatchStepPromised DEF PatchNext
  <2>4. CASE HookNext
      BY <1>2, <2>1, <2>4, HookStepPromised DEF HookNext
  <2>5. CASE UNCHANGED vars
      BY <2>5, StoreStutters DEF vars
  <2>6. QED
      BY <1>2, <2>2, <2>3, <2>4, <2>5 DEF Next
<1>3. QED
    BY <1>1, <1>2, SerialInvariance, PTL DEF SerialSpec, KeepsPromise, Promise!Spec

=============================================================================
