----------------------------- MODULE TxLedger -----------------------------
(***************************************************************************)
(* The rows the daemon keeps of transactions, outputs and balances, and    *)
(* what accepting, voiding, unvoiding and removing a vertex does to them   *)
(* (packages/daemon/src/services/index.ts and db/index.ts).  A handler is  *)
(* one database transaction: here one action, made of the code's           *)
(* statements, each an operator from a database to a database, in the      *)
(* code's order.  Transparent outputs only; every wallet is READY.         *)
(***************************************************************************)
EXTENDS Integers, Sequences, FiniteSets, FiniteSetsExt

CONSTANTS Txs, Outputs, Addresses, Wallets, Tokens,
          NoTx, NoWallet,
          Tx,          \* [Txs -> [block, height, spends]]: what the vertex says
          Out,         \* [Outputs -> [tx, address, token, value, auth, timelock]]
          Owner,       \* [Addresses -> Wallets \cup {NoWallet}]
          RewardLock,  \* blocks a reward stays locked
          MaxTime,     \* bound on the daemon's clock
          Voidable     \* the vertices the fullnode may void or remove

AuthorityBits == {"mint", "melt"}
BitValue == [mint |-> 1, melt |-> 2]

AddressesOf(w) == {a \in Addresses : Owner[a] = w}

ASSUME LedgerAssumption ==
    /\ IsFiniteSet(Txs) /\ IsFiniteSet(Outputs) /\ IsFiniteSet(Addresses)
    /\ NoTx \notin Txs /\ NoWallet \notin Wallets /\ Addresses \cap Wallets = {}
    /\ Tx \in [Txs -> [block : BOOLEAN, height : Nat, spends : SUBSET Outputs]]
    /\ Out \in [Outputs -> [tx : Txs, address : Addresses, token : Tokens, value : Nat,
                            auth : SUBSET AuthorityBits, timelock : Nat]]
    /\ Owner \in [Addresses -> Wallets \cup {NoWallet}]
    /\ RewardLock \in Nat /\ MaxTime \in Nat /\ Voidable \subseteq Txs
    /\ \A o \in Outputs : o \notin Tx[Out[o].tx].spends

\* Authorities.merge caps a sum at 1 after each address: with two addresses per
\* wallet the order does not matter, with three it could.
ASSUME FewAddresses == \A w \in Wallets : Cardinality(AddressesOf(w)) <= 2

VARIABLES db,        \* the tables
          now,       \* getUnixTimestamp
          unvoiding, \* the vertex handleUnvoidedTx cleaned and handleVertexAccepted adds next
          halted     \* a statement went out of range: rolled back, for ever
vars == <<db, now, unvoiding, halted>>

AddressPairs == Addresses \X Tokens
WalletPairs == Wallets \X Tokens
NoRow == [unlocked |-> 0, locked |-> 0, received |-> 0, uAuth |-> {}, lAuth |-> {}, txs |-> 0]
NoOutput == [there |-> FALSE, locked |-> FALSE, voided |-> FALSE, spentBy |-> NoTx]

---------------------------------------------------------------------------
(* What the vertex says: prepareInputs, prepareOutputs, getInvolvedAddresses. *)

outputsOf(t) == {o \in Outputs : Out[o].tx = t}
heightlock(o) == LET t == Tx[Out[o].tx] IN IF t.block THEN t.height + RewardLock ELSE 0
pairOf(o) == <<Out[o].address, Out[o].token>>
walletPairOf(o) == <<Owner[Out[o].address], Out[o].token>>
pairsOf(t) == {pairOf(o) : o \in outputsOf(t) \cup Tx[t].spends}
walletPairsOf(t) == {<<Owner[p[1]], p[2]>> : p \in pairsOf(t)} \cap WalletPairs
getInvolvedAddresses(t) == {p[1] : p \in pairsOf(t)}

Amount(S) == SumFunctionOnSet([o \in Outputs |-> Out[o].value], S)
Authority(S) == UNION {Out[o].auth : o \in S}
At(S, p) == {o \in S : pairOf(o) = p}
OfWallet(S, w) == {o \in S : walletPairOf(o) = w}
unspentRows(d) == {o \in Outputs : d.txo[o].there /\ ~d.txo[o].voided /\ d.txo[o].spentBy = NoTx}

\* Balances of a transaction.  An authority has a sign: -1 spent, 1 received, and
\* Authorities.merge caps what it adds at 1 (inputs first, then outputs).
Sign(n) == IF n > 0 THEN 1 ELSE IF n < 0 THEN -1 ELSE 0
hasNegativeValue(sign) == \E b \in AuthorityBits : sign[b] = -1
\* toUnsignedInteger: the absolute value of the signed sum of the bits.
toUnsigned(sign) ==
    LET n == sign["mint"] * BitValue["mint"] + sign["melt"] * BitValue["melt"]
        m == IF n < 0 THEN -n ELSE n
    IN  {b \in AuthorityBits : (m \div BitValue[b]) % 2 = 1}

getUnifiedBalanceMap(t, p, lockedOuts) ==
    LET outs == At(outputsOf(t), p)
        ins == At(Tx[t].spends, p)
        having(S, b) == {o \in S : b \in Out[o].auth}
    IN  [received |-> Amount(outs),
         unlocked |-> Amount(outs \ lockedOuts) - Amount(ins),
         locked |-> Amount(outs \cap lockedOuts),
         sign |-> [b \in AuthorityBits |->
                      Sign(Cardinality(having(outs \ lockedOuts, b))
                           - (IF having(ins, b) = {} THEN 0 ELSE 1))],
         lAuth |-> Authority(outs \cap lockedOuts)]

getWalletBalanceMap(t, w, lockedOuts) ==
    LET pairs == {p \in pairsOf(t) : <<Owner[p[1]], p[2]>> = w}
        B(p) == getUnifiedBalanceMap(t, p, lockedOuts)
    IN  [received |-> SumFunction([p \in pairs |-> B(p).received]),
         unlocked |-> SumFunction([p \in pairs |-> B(p).unlocked]),
         locked |-> SumFunction([p \in pairs |-> B(p).locked]),
         sign |-> [b \in AuthorityBits |-> Sign(SumFunction([p \in pairs |-> B(p).sign[b]]))],
         lAuth |-> UNION {B(p).lAuth : p \in pairs}]

---------------------------------------------------------------------------
(* Unlocking. *)

\* A mutant: one block late.
LockedAtPreviousHeight(d, h) ==
    {o \in unspentRows(d) : d.txo[o].locked /\ heightlock(o) = h - 1 /\ Out[o].timelock <= now}

getUtxosLockedAtHeight(d, h) ==
    {o \in unspentRows(d) : d.txo[o].locked /\ heightlock(o) = h /\ Out[o].timelock <= now}
\* No condition on voided, spent_by or heightlock.
getExpiredTimelocksUtxos(d) ==
    {o \in Outputs : d.txo[o].there /\ d.txo[o].locked /\ Out[o].timelock \in 1..(now - 1)}
\* A mutant: inputs that are still locked are spent as they are.
LeaveInputsLocked(d, t) == {}

getLockedUtxoFromInputs(d, t) == {o \in unspentRows(d) \cap Tx[t].spends : d.txo[o].locked}

\* updateAddressLockedBalance, updateWalletLockedBalance: UPDATE, a no-op without a row.
unlockRow(r, S, stillLocked) ==
    IF r = NoRow THEN r
    ELSE [r EXCEPT !.unlocked = @ + Amount(S), !.locked = @ - Amount(S),
                   !.uAuth = @ \cup Authority(S),
                   !.lAuth = IF Authority(S) = {} THEN @ ELSE stillLocked]

dbUnlockUtxos(d, S) ==
    [d EXCEPT !.txo = [o \in Outputs |->
                  IF o \in S THEN [@[o] EXCEPT !.locked = FALSE] ELSE @[o]]]

updateAddressLockedBalance(d, S) ==
    LET lockedRows == {o \in unspentRows(d) : d.txo[o].locked}
    IN  [d EXCEPT !.addressBalance = [p \in AddressPairs |->
             unlockRow(@[p], At(S, p), Authority(At(lockedRows, p)))]]

updateWalletLockedBalance(d, S) ==
    [d EXCEPT !.walletBalance = [w \in WalletPairs |->
         unlockRow(@[w], OfWallet(S, w),
                   UNION {d.addressBalance[<<a, w[2]>>].lAuth : a \in AddressesOf(w[1])})]]

\* A mutant: wallet_balance is forgotten.
UnlockAddressesOnly(d, S) == updateAddressLockedBalance(dbUnlockUtxos(d, S), S)

unlockUtxos(d, S) ==
    updateWalletLockedBalance(updateAddressLockedBalance(dbUnlockUtxos(d, S), S), S)

---------------------------------------------------------------------------
(* Adding a transaction. *)

markLockedOutputs(t) == {o \in outputsOf(t) : Tx[t].block \/ Out[o].timelock > now}

addOrUpdateTx(d, t) == [d EXCEPT !.tx[t] = "live"]

addUtxos(d, t) ==
    [d EXCEPT !.txo = [o \in Outputs |->
                  IF o \in outputsOf(t) /\ ~@[o].there
                  THEN [NoOutput EXCEPT !.there = TRUE, !.locked = o \in markLockedOutputs(t)]
                  ELSE @[o]]]

bumpAddressInvolvement(d, t) ==
    [d EXCEPT !.involved = [a \in Addresses |->
                  IF a \in getInvolvedAddresses(t) THEN @[a] + 1 ELSE @[a]]]

updateTxOutputSpentBy(d, t) ==
    [d EXCEPT !.txo = [o \in Outputs |->
                  IF o \in Tx[t].spends /\ @[o].there THEN [@[o] EXCEPT !.spentBy = t] ELSE @[o]]]

\* A mutant: the clamped value of the INSERT is also what the UPDATE adds.
CreditClamped(r, b, refreshed) ==
    [unlocked |-> IF b.unlocked < 0 THEN r.unlocked ELSE r.unlocked + b.unlocked,
     locked |-> r.locked + b.locked, received |-> r.received + b.received,
     uAuth |-> IF hasNegativeValue(b.sign) THEN refreshed ELSE r.uAuth \cup toUnsigned(b.sign),
     lAuth |-> r.lAuth \cup b.lAuth, txs |-> r.txs + 1]

\* A mutant: a spent authority is never taken away.
CreditWithoutRefresh(r, b, refreshed) ==
    [unlocked |-> IF r = NoRow /\ b.unlocked < 0 THEN 0 ELSE r.unlocked + b.unlocked,
     locked |-> r.locked + b.locked, received |-> r.received + b.received,
     uAuth |-> r.uAuth \cup toUnsigned(b.sign), lAuth |-> r.lAuth \cup b.lAuth,
     txs |-> r.txs + 1]

\* INSERT ... ON DUPLICATE KEY UPDATE, then the refresh of unlocked_authorities.
creditRow(r, b, refreshed) ==
    LET added == [unlocked |-> IF r = NoRow /\ b.unlocked < 0 THEN 0 ELSE r.unlocked + b.unlocked,
                  locked |-> r.locked + b.locked, received |-> r.received + b.received,
                  uAuth |-> r.uAuth \cup toUnsigned(b.sign), lAuth |-> r.lAuth \cup b.lAuth,
                  txs |-> r.txs + 1]
    IN  IF hasNegativeValue(b.sign) THEN [added EXCEPT !.uAuth = refreshed] ELSE added

unlockedAuthority(d, p) == Authority({o \in At(unspentRows(d), p) : ~d.txo[o].locked})
walletAuthority(d, w) == UNION {d.addressBalance[<<a, w[2]>>].uAuth : a \in AddressesOf(w[1])}

insertHistory(d, rows) == [d EXCEPT !.history = @ \cup rows]
deleteHistory(d, t, holders) ==
    [d EXCEPT !.history = {h \in @ : ~(h.tx = t /\ h.holder \in holders)}]

creditAddresses(d, t, L) ==
    [d EXCEPT !.addressBalance = [p \in AddressPairs |->
         IF p \in pairsOf(t)
         THEN creditRow(@[p], getUnifiedBalanceMap(t, p, L), unlockedAuthority(d, p))
         ELSE @[p]]]

updateAddressTablesWithTx(d, t, L) ==
    LET balance(p) == getUnifiedBalanceMap(t, p, L).unlocked + getUnifiedBalanceMap(t, p, L).locked
    IN  insertHistory(creditAddresses(d, t, L),
                      {[holder |-> p, tx |-> t, balance |-> balance(p)] : p \in pairsOf(t)})

creditWallets(d, t, L) ==
    [d EXCEPT !.walletBalance = [w \in WalletPairs |->
         IF w \in walletPairsOf(t)
         THEN creditRow(@[w], getWalletBalanceMap(t, w, L), walletAuthority(d, w))
         ELSE @[w]]]

updateWalletTablesWithTx(d, t, L) ==
    LET balance(w) == getWalletBalanceMap(t, w, L).unlocked + getWalletBalanceMap(t, w, L).locked
    IN  insertHistory(creditWallets(d, t, L),
                      {[holder |-> w, tx |-> t, balance |-> balance(w)] : w \in walletPairsOf(t)})

---------------------------------------------------------------------------
(* Voiding a transaction. *)

\* The UPDATE, the refresh of unlocked_authorities, the DELETE of zeroed rows
\* (a row of zeros is NoRow).
debitRow(r, b, refreshed) ==
    IF r = NoRow THEN r
    ELSE [unlocked |-> r.unlocked - b.unlocked, locked |-> r.locked - b.locked,
          received |-> r.received - b.received,
          uAuth |-> IF hasNegativeValue(b.sign) THEN r.uAuth \cup toUnsigned(b.sign) ELSE refreshed,
          lAuth |-> r.lAuth \cup b.lAuth, txs |-> r.txs - 1]

voidTransaction(d, t) == [d EXCEPT !.tx[t] = "voided"]

markUtxosAsVoided(d, t) ==
    [d EXCEPT !.txo = [o \in Outputs |->
                  IF o \in outputsOf(t) /\ @[o].there THEN [@[o] EXCEPT !.voided = TRUE] ELSE @[o]]]

debitAddresses(d, t, L) ==
    [d EXCEPT !.addressBalance = [p \in AddressPairs |->
         IF p \in pairsOf(t)
         THEN debitRow(@[p], getUnifiedBalanceMap(t, p, L), unlockedAuthority(d, p))
         ELSE @[p]]]

\* A mutant: the history of the voided transaction stays.
VoidKeepingHistory(d, t, L) == debitAddresses(d, t, L)

voidAddressTransaction(d, t, L) == deleteHistory(debitAddresses(d, t, L), t, AddressPairs)

\* A mutant: only the addresses that received are counted down.
DecrementReceivers(d, t) ==
    [d EXCEPT !.involved = [a \in Addresses |->
                  IF a \in {Out[o].address : o \in outputsOf(t)} THEN @[a] - 1 ELSE @[a]]]

decrementAddressInvolvement(d, t) ==
    [d EXCEPT !.involved = [a \in Addresses |->
                  IF a \in getInvolvedAddresses(t) THEN @[a] - 1 ELSE @[a]]]

\* A mutant: the inputs of a voided transaction stay spent.
LeaveInputsSpent(d, t) == d

unspendUtxos(d, t) ==
    [d EXCEPT !.txo = [o \in Outputs |->
                  IF o \in Tx[t].spends /\ ~@[o].voided /\ @[o].spentBy = t
                  THEN [@[o] EXCEPT !.spentBy = NoTx] ELSE @[o]]]

debitWallets(d, t, L) ==
    [d EXCEPT !.walletBalance = [w \in WalletPairs |->
         IF w \in walletPairsOf(t)
         THEN debitRow(@[w], getWalletBalanceMap(t, w, L), walletAuthority(d, w))
         ELSE @[w]]]

voidWalletTransaction(d, t, L) == deleteHistory(debitWallets(d, t, L), t, WalletPairs)

\* cleanupVoidedTx: the history rows were deleted when the vertex was voided.
deleteVoidedOutputs(d, t) ==
    [d EXCEPT !.txo = [o \in Outputs |->
         IF o \in outputsOf(t) /\ @[o].voided THEN NoOutput ELSE @[o]]]

cleanupVoidedTx(d, t) ==
    deleteVoidedOutputs([d EXCEPT !.tx[t] = IF @ = "voided" THEN "absent" ELSE @], t)

voidTx(d, t) ==
    LET lockedOuts == {o \in outputsOf(t) : d.txo[o].locked}
        d1 == markUtxosAsVoided(voidTransaction(d, t), t)
        d2 == decrementAddressInvolvement(voidAddressTransaction(d1, t, lockedOuts), t)
    IN  voidWalletTransaction(unspendUtxos(d2, t), t, lockedOuts)

---------------------------------------------------------------------------
(* A handler commits, unless a column of its rows, all UNSIGNED, would go    *)
(* below zero: the statement fails, the handler rolls back, the daemon stops *)
(* and every restart meets the same event.                                   *)

InRange(d) ==
    /\ \A p \in AddressPairs : LET r == d.addressBalance[p] IN
           r.unlocked >= 0 /\ r.locked >= 0 /\ r.received >= 0 /\ r.txs >= 0
    /\ \A w \in WalletPairs : LET r == d.walletBalance[w] IN
           r.unlocked >= 0 /\ r.locked >= 0 /\ r.received >= 0 /\ r.txs >= 0
    /\ \A a \in Addresses : d.involved[a] >= 0

Commit(steps) ==
    IF \A i \in DOMAIN steps : InRange(steps[i])
    THEN db' = steps[Len(steps)] /\ UNCHANGED halted
    ELSE halted' = TRUE /\ UNCHANGED db

Init ==
    /\ db = [tx |-> [t \in Txs |-> "absent"], txo |-> [o \in Outputs |-> NoOutput],
             addressBalance |-> [p \in AddressPairs |-> NoRow],
             walletBalance |-> [w \in WalletPairs |-> NoRow],
             history |-> {}, involved |-> [a \in Addresses |-> 0]]
    /\ now = 0 /\ unvoiding = NoTx /\ halted = FALSE

\* What the fullnode's consensus guarantees of the vertices it announces: a
\* vertex on top of live ones, nothing spent twice, locks expired; a vertex is
\* voided after what depends on it and unvoided after what it depends on.
Live == {t \in Txs : db.tx[t] = "live"}
Spenders(S) == {t \in Live : Tx[t].spends \cap S # {}}
BlocksAt(h) == {t \in Live : Tx[t].block /\ Tx[t].height = h}
Announced(t) ==
    /\ \A o \in Tx[t].spends : /\ Out[o].tx \in Live
                               /\ Out[o].timelock = 0 \/ Out[o].timelock < now
                               /\ heightlock(o) = 0 \/ BlocksAt(heightlock(o)) # {}
    /\ Spenders(Tx[t].spends) = {}
    /\ Tx[t].block => /\ BlocksAt(Tx[t].height) = {}
                      /\ Tx[t].height > 1 => BlocksAt(Tx[t].height - 1) # {}
Retracted(t) ==
    /\ t \in Live \cap Voidable
    /\ Spenders(outputsOf(t)) = {}
    /\ Tx[t].block => BlocksAt(Tx[t].height + 1) = {}

---------------------------------------------------------------------------
acceptSteps(t) ==
    LET height == IF Tx[t].block THEN getUtxosLockedAtHeight(db, Tx[t].height) ELSE {}
        d1 == unlockUtxos(db, height)
        d2 == unlockUtxos(d1, IF Tx[t].block THEN getExpiredTimelocksUtxos(d1) ELSE {})
        d3 == unlockUtxos(d2, getLockedUtxoFromInputs(d2, t))
        d4 == addUtxos(addOrUpdateTx(d3, t), t)
        d5 == updateTxOutputSpentBy(bumpAddressInvolvement(d4, t), t)
        d6 == updateAddressTablesWithTx(d5, t, markLockedOutputs(t))
    IN  <<d1, d2, d3, updateWalletTablesWithTx(d6, t, markLockedOutputs(t))>>

handleVertexAccepted(t) ==
    /\ ~halted
    /\ db.tx[t] = "absent" /\ Announced(t)
    /\ unvoiding \in {t, NoTx}
    /\ Commit(acceptSteps(t))
    /\ unvoiding' = NoTx
    /\ UNCHANGED now

handleVoidedTx(t) ==
    /\ ~halted /\ unvoiding = NoTx
    /\ Retracted(t)
    /\ Commit(<<voidTx(db, t)>>)
    /\ UNCHANGED <<now, unvoiding>>

\* The code asks only whether the row is there. Of a vertex that was voided
\* before it would take the amounts away again; Retracted, the fullnode's side,
\* removes live vertices only.
handleVertexRemoved(t) ==
    /\ ~halted /\ unvoiding = NoTx
    /\ Retracted(t) /\ ~Tx[t].block
    /\ Commit(<<cleanupVoidedTx(voidTx(db, t), t)>>)
    /\ UNCHANGED <<now, unvoiding>>

handleUnvoidedTx(t) ==
    /\ ~halted /\ unvoiding = NoTx
    /\ db.tx[t] = "voided" /\ Announced(t)
    /\ Commit(<<cleanupVoidedTx(db, t)>>)
    /\ unvoiding' = IF halted' THEN NoTx ELSE t
    /\ UNCHANGED now

Tick == now < MaxTime /\ now' = now + 1 /\ UNCHANGED <<db, unvoiding, halted>>

Next ==
    \/ \E t \in Txs : \/ handleVertexAccepted(t) \/ handleVoidedTx(t)
                       \/ handleVertexRemoved(t) \/ handleUnvoidedTx(t)
    \/ Tick

Spec == Init /\ [][Next]_vars

---------------------------------------------------------------------------
(* Properties. *)

\* The tables hold what their columns declare (UNSIGNED balances), and the vertex
\* between the two transactions of an unvoid is in none of them.
TypeOK ==
    /\ db.tx \in [Txs -> {"absent", "live", "voided"}]
    /\ db.txo \in [Outputs -> [there : BOOLEAN, locked : BOOLEAN, voided : BOOLEAN,
                               spentBy : Txs \cup {NoTx}]]
    /\ now \in 0..MaxTime /\ unvoiding \in Txs \cup {NoTx} /\ halted \in BOOLEAN
    /\ unvoiding \in Txs => db.tx[unvoiding] = "absent"
    /\ InRange(db)

\* An output is marked as spent by exactly the live transaction that spends it,
\* through any sequence of voids, unvoids and removals; outputs live and die with
\* their transaction.
OutputsFollowTxs ==
    \A o \in Outputs :
        /\ db.txo[o].there <=> db.tx[Out[o].tx] # "absent"
        /\ db.txo[o].voided <=> db.tx[Out[o].tx] = "voided"
        /\ db.txo[o].there => \A t \in Txs :
               db.txo[o].spentBy = t <=> t \in Live /\ o \in Tx[t].spends

\* What the incremental updates of address_balance keep is what the outputs say:
\* unlocked and locked are sums over the unspent outputs, received over the live.
BalancesAreUtxos ==
    \A p \in AddressPairs :
        LET r == db.addressBalance[p]
            unspent == At(unspentRows(db), p)
            locked == {o \in unspent : db.txo[o].locked}
        IN  /\ r.locked = Amount(locked)
            /\ r.unlocked = Amount(unspent \ locked)
            /\ r.received = Amount({o \in At(Outputs, p) : Out[o].tx \in Live})

\* wallet_balance, kept by its own increments, is the sum of address_balance over
\* the wallet's addresses.
WalletsAreAddresses ==
    \A w \in WalletPairs :
        LET r == db.walletBalance[w]
            B(a) == db.addressBalance[<<a, w[2]>>]
        IN  /\ r.unlocked = SumFunction([a \in AddressesOf(w[1]) |-> B(a).unlocked])
            /\ r.locked = SumFunction([a \in AddressesOf(w[1]) |-> B(a).locked])
            /\ r.received = SumFunction([a \in AddressesOf(w[1]) |-> B(a).received])

\* validateAddressBalances' assertion, for addresses and wallets: the balance is
\* the sum of the history rows.
HistorySums ==
    /\ \A p \in AddressPairs : db.addressBalance[p].txs > 0 =>
           db.addressBalance[p].unlocked + db.addressBalance[p].locked
               = SumFunction([h \in {h \in db.history : h.holder = p} |-> h.balance])
    /\ \A w \in WalletPairs : db.walletBalance[w].txs > 0 =>
           db.walletBalance[w].unlocked + db.walletBalance[w].locked
               = SumFunction([h \in {h \in db.history : h.holder = w} |-> h.balance])

\* The three transaction counters count the live transactions that touch the
\* address, the address and token, the wallet and token.
TransactionCounts ==
    /\ \A a \in Addresses : db.involved[a] = Cardinality({t \in Live : a \in getInvolvedAddresses(t)})
    /\ \A p \in AddressPairs : db.addressBalance[p].txs = Cardinality({t \in Live : p \in pairsOf(t)})
    /\ \A w \in WalletPairs : db.walletBalance[w].txs = Cardinality({t \in Live : w \in walletPairsOf(t)})

\* The authority columns say which authorities the unspent outputs give.
AuthoritiesMatch ==
    \A p \in AddressPairs :
        LET unspent == At(unspentRows(db), p)
            locked == {o \in unspent : db.txo[o].locked}
        IN  /\ db.addressBalance[p].uAuth = Authority(unspent \ locked)
            /\ db.addressBalance[p].lAuth = Authority(locked)

\* A block leaves nothing locked whose height and time have come.
UnlockedByBlock ==
    [][\A t \in Txs : Tx[t].block /\ t \notin Live /\ t \in Live' =>
          \A o \in unspentRows(db') : db'.txo[o].locked =>
              heightlock(o) > Tx[t].height \/ Out[o].timelock >= now]_vars

\* No handler takes a column below zero: the comment of updateAddressTablesWithTx
\* says of locked_balance that "this is never less than 0, as locked balance only
\* changes when a tx is unlocked".
NeverOutOfRange == ~halted
=============================================================================
