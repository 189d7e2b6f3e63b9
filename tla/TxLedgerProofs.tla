-------------------------- MODULE TxLedgerProofs --------------------------
(***************************************************************************)
(* What TxLedger keeps of transactions, outputs and balances, for every    *)
(* finite set of vertices, outputs and addresses.  The running balances    *)
(* are compared with sums over outputs and over transactions: SumStep      *)
(* unfolds the community modules' SumFunctionOnSet once, and the lemmas on *)
(* sums follow by induction over the subsets of a finite set, which the    *)
(* library states without operators (FS_StrictSubsetOrderingWellFounded).  *)
(***************************************************************************)
EXTENDS TxLedger, FiniteSetTheorems, TLAPS

\* What a row of transaction and of tx_output may hold.
Statuses == {"absent", "live", "voided"}
OutputRows == [there : BOOLEAN, locked : BOOLEAN, voided : BOOLEAN, spentBy : Txs \cup {NoTx}]

\* A database is a record of the six tables, the first two typed.
Database(d) ==
    /\ d = [tx |-> d.tx, txo |-> d.txo, addressBalance |-> d.addressBalance,
            walletBalance |-> d.walletBalance, history |-> d.history, involved |-> d.involved]
    /\ d.tx \in [Txs -> Statuses]
    /\ d.txo \in [Outputs -> OutputRows]

\* OutputsFollowTxs of any database.
Follows(d) ==
    \A o \in Outputs :
        /\ d.txo[o].there <=> d.tx[Out[o].tx] # "absent"
        /\ d.txo[o].voided <=> d.tx[Out[o].tx] = "voided"
        /\ d.txo[o].there => \A t \in Txs :
               d.txo[o].spentBy = t <=> d.tx[t] = "live" /\ o \in Tx[t].spends

\* What a live transaction spends belongs to a live transaction: no void or
\* removal leaves a dangling input.
InputsLive(d) ==
    \A t \in Txs : d.tx[t] = "live" => \A o \in Tx[t].spends : d.tx[Out[o].tx] = "live"

---------------------------------------------------------------------------
(* What each statement does to the two tables. *)

\* A statement on tx_output leaves the transactions alone.
LEMMA SetTxo ==
    ASSUME NEW d, Database(d), NEW T \in [Outputs -> OutputRows]
    PROVE  LET e == [d EXCEPT !.txo = T]
           IN  Database(e) /\ e.tx = d.tx /\ e.txo = T
  BY DEF Database

\* A statement on transaction leaves the outputs alone.
LEMMA SetTx ==
    ASSUME NEW d, Database(d), NEW T \in [Txs -> Statuses]
    PROVE  LET e == [d EXCEPT !.tx = T]
           IN  Database(e) /\ e.tx = T /\ e.txo = d.txo
  BY DEF Database

\* The statements on the other four tables.
LEMMA SetOthers ==
    ASSUME NEW d, Database(d), NEW T
    PROVE  /\ LET e == [d EXCEPT !.addressBalance = T] IN Database(e) /\ e.tx = d.tx /\ e.txo = d.txo
           /\ LET e == [d EXCEPT !.walletBalance = T] IN Database(e) /\ e.tx = d.tx /\ e.txo = d.txo
           /\ LET e == [d EXCEPT !.history = T] IN Database(e) /\ e.tx = d.tx /\ e.txo = d.txo
           /\ LET e == [d EXCEPT !.involved = T] IN Database(e) /\ e.tx = d.tx /\ e.txo = d.txo
  BY DEF Database

\* Unlocking changes nothing but the lock.
SameButLocks(d, e) ==
    /\ e.tx = d.tx
    /\ \A o \in Outputs : /\ e.txo[o].there = d.txo[o].there
                          /\ e.txo[o].voided = d.txo[o].voided
                          /\ e.txo[o].spentBy = d.txo[o].spentBy

\* unlockUtxos changes no status, and of an output only the lock.
LEMMA UnlockKeeps ==
    ASSUME NEW d, Database(d), NEW S
    PROVE  Database(unlockUtxos(d, S)) /\ SameButLocks(d, unlockUtxos(d, S))
<1> DEFINE T == [o \in Outputs |-> IF o \in S THEN [d.txo[o] EXCEPT !.locked = FALSE] ELSE d.txo[o]]
           d1 == dbUnlockUtxos(d, S)
           d2 == updateAddressLockedBalance(d1, S)
           d3 == updateWalletLockedBalance(d2, S)
<1>1. /\ T \in [Outputs -> OutputRows]
      /\ \A o \in Outputs : /\ T[o].there = d.txo[o].there
                            /\ T[o].voided = d.txo[o].voided
                            /\ T[o].spentBy = d.txo[o].spentBy
  BY DEF Database, OutputRows
<1>2. Database(d1) /\ d1.tx = d.tx /\ d1.txo = T
  <2> HIDE DEF T
  <2>1. Database([d EXCEPT !.txo = T]) /\ [d EXCEPT !.txo = T].tx = d.tx /\ [d EXCEPT !.txo = T].txo = T
    BY <1>1, SetTxo
  <2> QED
    BY <2>1 DEF dbUnlockUtxos, T
<1> HIDE DEF T, d1
<1>3. Database(d2) /\ d2.tx = d.tx /\ d2.txo = T
  BY <1>2, SetOthers DEF updateAddressLockedBalance
<1> HIDE DEF d2
<1>4. Database(d3) /\ d3.tx = d.tx /\ d3.txo = T
  BY <1>3, SetOthers DEF updateWalletLockedBalance
<1>5. unlockUtxos(d, S) = d3
  BY DEF unlockUtxos, d1, d2
<1> HIDE DEF d3
<1> QED
  BY <1>1, <1>4, <1>5 DEF SameButLocks

\* The statements on balances, counters and history leave the two tables alone.
SameRows(d, e) == Database(e) /\ e.tx = d.tx /\ e.txo = d.txo

\* The statements on the history tables touch neither.
LEMMA HistoryOnly ==
    ASSUME NEW d, Database(d), NEW t, NEW S
    PROVE  SameRows(d, insertHistory(d, S)) /\ SameRows(d, deleteHistory(d, t, S))
  BY SetOthers DEF SameRows, insertHistory, deleteHistory

\* The statements on counters and balances touch neither.
LEMMA BalancesOnly ==
    ASSUME NEW d, Database(d), NEW t, NEW L
    PROVE  /\ SameRows(d, bumpAddressInvolvement(d, t))
           /\ SameRows(d, decrementAddressInvolvement(d, t))
           /\ SameRows(d, creditAddresses(d, t, L))
           /\ SameRows(d, creditWallets(d, t, L))
           /\ SameRows(d, debitAddresses(d, t, L))
           /\ SameRows(d, debitWallets(d, t, L))
<1>1. SameRows(d, bumpAddressInvolvement(d, t))
  BY SetOthers DEF SameRows, bumpAddressInvolvement
<1>2. SameRows(d, decrementAddressInvolvement(d, t))
  BY SetOthers DEF SameRows, decrementAddressInvolvement
<1>3. SameRows(d, creditAddresses(d, t, L))
  BY SetOthers DEF SameRows, creditAddresses
<1>4. SameRows(d, creditWallets(d, t, L))
  BY SetOthers DEF SameRows, creditWallets
<1>5. SameRows(d, debitAddresses(d, t, L))
  BY SetOthers DEF SameRows, debitAddresses
<1>6. SameRows(d, debitWallets(d, t, L))
  BY SetOthers DEF SameRows, debitWallets
<1> QED
  BY <1>1, <1>2, <1>3, <1>4, <1>5, <1>6

\* Nor do the updates of balances and history together.
LEMMA TablesOnly ==
    ASSUME NEW d, Database(d), NEW t, NEW L
    PROVE  /\ SameRows(d, updateAddressTablesWithTx(d, t, L))
           /\ SameRows(d, updateWalletTablesWithTx(d, t, L))
           /\ SameRows(d, voidAddressTransaction(d, t, L))
           /\ SameRows(d, voidWalletTransaction(d, t, L))
<1>1. ASSUME NEW e, SameRows(d, e), NEW S
      PROVE  SameRows(d, insertHistory(e, S)) /\ SameRows(d, deleteHistory(e, t, S))
  BY <1>1, HistoryOnly DEF SameRows
<1>2. SameRows(d, updateAddressTablesWithTx(d, t, L))
  BY <1>1, BalancesOnly DEF updateAddressTablesWithTx
<1>3. SameRows(d, updateWalletTablesWithTx(d, t, L))
  BY <1>1, BalancesOnly DEF updateWalletTablesWithTx
<1>4. SameRows(d, voidAddressTransaction(d, t, L)) /\ SameRows(d, voidWalletTransaction(d, t, L))
  BY <1>1, BalancesOnly DEF voidAddressTransaction, voidWalletTransaction
<1> QED
  BY <1>2, <1>3, <1>4

\* addOrUpdateTx and voidTransaction set one status.
LEMMA StatusSet ==
    ASSUME NEW d, Database(d), NEW t \in Txs
    PROVE  /\ LET e == addOrUpdateTx(d, t)
              IN  Database(e) /\ e.tx = [d.tx EXCEPT ![t] = "live"] /\ e.txo = d.txo
           /\ LET e == voidTransaction(d, t)
              IN  Database(e) /\ e.tx = [d.tx EXCEPT ![t] = "voided"] /\ e.txo = d.txo
  BY DEF addOrUpdateTx, voidTransaction, Database, Statuses

\* addUtxos inserts the outputs that are not there, locked as markLockedOutputs says.
LEMMA OutputsAdded ==
    ASSUME NEW d, Database(d), NEW t \in Txs
    PROVE  LET e == addUtxos(d, t)
           IN  /\ Database(e) /\ e.tx = d.tx
               /\ \A o \in Outputs :
                      IF o \in outputsOf(t) /\ ~d.txo[o].there
                      THEN /\ e.txo[o].there /\ ~e.txo[o].voided /\ e.txo[o].spentBy = NoTx
                           /\ e.txo[o].locked <=> o \in markLockedOutputs(t)
                      ELSE e.txo[o] = d.txo[o]
<1> DEFINE T == [o \in Outputs |->
                    IF o \in outputsOf(t) /\ ~d.txo[o].there
                    THEN [NoOutput EXCEPT !.there = TRUE, !.locked = o \in markLockedOutputs(t)]
                    ELSE d.txo[o]]
<1>1. NoOutput \in OutputRows
  BY DEF NoOutput, OutputRows
<1>2. \A o \in Outputs : (o \in markLockedOutputs(t)) \in BOOLEAN
  OBVIOUS
<1>3. T \in [Outputs -> OutputRows]
  BY <1>1, <1>2 DEF Database, OutputRows, NoOutput
<1>4. \A o \in Outputs :
          IF o \in outputsOf(t) /\ ~d.txo[o].there
          THEN /\ T[o].there /\ ~T[o].voided /\ T[o].spentBy = NoTx
               /\ T[o].locked <=> o \in markLockedOutputs(t)
          ELSE T[o] = d.txo[o]
  BY DEF NoOutput
<1>5. addUtxos(d, t) = [d EXCEPT !.txo = T]
  BY DEF addUtxos
<1> HIDE DEF T
<1> QED
  BY <1>3, <1>4, <1>5, SetTxo

\* updateTxOutputSpentBy writes the spender on the inputs that are there.
LEMMA InputsSpent ==
    ASSUME NEW d, Database(d), NEW t \in Txs
    PROVE  LET e == updateTxOutputSpentBy(d, t)
           IN  /\ Database(e) /\ e.tx = d.tx
               /\ \A o \in Outputs :
                      IF o \in Tx[t].spends /\ d.txo[o].there
                      THEN /\ e.txo[o].there /\ e.txo[o].voided = d.txo[o].voided
                           /\ e.txo[o].spentBy = t /\ e.txo[o].locked = d.txo[o].locked
                      ELSE e.txo[o] = d.txo[o]
<1> DEFINE T == [o \in Outputs |->
                    IF o \in Tx[t].spends /\ d.txo[o].there THEN [d.txo[o] EXCEPT !.spentBy = t]
                    ELSE d.txo[o]]
<1>1. T \in [Outputs -> OutputRows]
  BY DEF Database, OutputRows
<1>2. \A o \in Outputs :
          IF o \in Tx[t].spends /\ d.txo[o].there
          THEN /\ T[o].there /\ T[o].voided = d.txo[o].voided
               /\ T[o].spentBy = t /\ T[o].locked = d.txo[o].locked
          ELSE T[o] = d.txo[o]
  BY DEF Database, OutputRows
<1>3. updateTxOutputSpentBy(d, t) = [d EXCEPT !.txo = T]
  BY DEF updateTxOutputSpentBy
<1> HIDE DEF T
<1> QED
  BY <1>1, <1>2, <1>3, SetTxo

\* markUtxosAsVoided marks the outputs that are there.
LEMMA OutputsVoided ==
    ASSUME NEW d, Database(d), NEW t \in Txs
    PROVE  LET e == markUtxosAsVoided(d, t)
           IN  /\ Database(e) /\ e.tx = d.tx
               /\ \A o \in Outputs :
                      IF o \in outputsOf(t) /\ d.txo[o].there
                      THEN /\ e.txo[o].there /\ e.txo[o].voided
                           /\ e.txo[o].spentBy = d.txo[o].spentBy
                           /\ e.txo[o].locked = d.txo[o].locked
                      ELSE e.txo[o] = d.txo[o]
<1> DEFINE T == [o \in Outputs |->
                    IF o \in outputsOf(t) /\ d.txo[o].there THEN [d.txo[o] EXCEPT !.voided = TRUE]
                    ELSE d.txo[o]]
<1>1. T \in [Outputs -> OutputRows]
  BY DEF Database, OutputRows
<1>2. \A o \in Outputs :
          IF o \in outputsOf(t) /\ d.txo[o].there
          THEN /\ T[o].there /\ T[o].voided /\ T[o].spentBy = d.txo[o].spentBy
               /\ T[o].locked = d.txo[o].locked
          ELSE T[o] = d.txo[o]
  BY DEF Database, OutputRows
<1>3. markUtxosAsVoided(d, t) = [d EXCEPT !.txo = T]
  BY DEF markUtxosAsVoided
<1> HIDE DEF T
<1> QED
  BY <1>1, <1>2, <1>3, SetTxo

\* unspendUtxos clears the spender it wrote, and no other.
LEMMA InputsUnspent ==
    ASSUME NEW d, Database(d), NEW t \in Txs
    PROVE  LET e == unspendUtxos(d, t)
           IN  /\ Database(e) /\ e.tx = d.tx
               /\ \A o \in Outputs :
                      IF o \in Tx[t].spends /\ ~d.txo[o].voided /\ d.txo[o].spentBy = t
                      THEN /\ e.txo[o].there = d.txo[o].there /\ ~e.txo[o].voided
                           /\ e.txo[o].spentBy = NoTx /\ e.txo[o].locked = d.txo[o].locked
                      ELSE e.txo[o] = d.txo[o]
<1> DEFINE T == [o \in Outputs |->
                    IF o \in Tx[t].spends /\ ~d.txo[o].voided /\ d.txo[o].spentBy = t
                    THEN [d.txo[o] EXCEPT !.spentBy = NoTx] ELSE d.txo[o]]
<1>1. T \in [Outputs -> OutputRows]
  BY DEF Database, OutputRows
<1>2. \A o \in Outputs :
          IF o \in Tx[t].spends /\ ~d.txo[o].voided /\ d.txo[o].spentBy = t
          THEN /\ T[o].there = d.txo[o].there /\ ~T[o].voided
               /\ T[o].spentBy = NoTx /\ T[o].locked = d.txo[o].locked
          ELSE T[o] = d.txo[o]
  BY DEF Database, OutputRows
<1>3. unspendUtxos(d, t) = [d EXCEPT !.txo = T]
  BY DEF unspendUtxos
<1> HIDE DEF T
<1> QED
  BY <1>1, <1>2, <1>3, SetTxo

\* cleanupVoidedTx deletes a voided transaction and its voided outputs.
LEMMA VoidedDeleted ==
    ASSUME NEW d, Database(d), NEW t \in Txs
    PROVE  LET e == cleanupVoidedTx(d, t)
           IN  /\ Database(e)
               /\ e.tx = [d.tx EXCEPT ![t] = IF d.tx[t] = "voided" THEN "absent" ELSE d.tx[t]]
               /\ \A o \in Outputs :
                      e.txo[o] = IF o \in outputsOf(t) /\ d.txo[o].voided THEN NoOutput ELSE d.txo[o]
<1> DEFINE X == [d.tx EXCEPT ![t] = IF d.tx[t] = "voided" THEN "absent" ELSE d.tx[t]]
           d1 == [d EXCEPT !.tx = X]
           T == [o \in Outputs |-> IF o \in outputsOf(t) /\ d1.txo[o].voided THEN NoOutput ELSE d1.txo[o]]
<1>1. X \in [Txs -> Statuses]
  BY DEF Database, Statuses
<1>2. Database(d1) /\ d1.tx = X /\ d1.txo = d.txo
  <2> HIDE DEF X
  <2> QED
    BY <1>1, SetTx
<1>3. T \in [Outputs -> OutputRows]
  <2> HIDE DEF d1
  <2> QED
    BY <1>2 DEF Database, OutputRows, NoOutput
<1>4. \A o \in Outputs :
          T[o] = IF o \in outputsOf(t) /\ d.txo[o].voided THEN NoOutput ELSE d.txo[o]
  BY <1>2
<1>5. cleanupVoidedTx(d, t) = [d1 EXCEPT !.txo = T]
  BY DEF cleanupVoidedTx, deleteVoidedOutputs
<1> HIDE DEF d1, T
<1> QED
  BY <1>2, <1>3, <1>4, <1>5, SetTxo

---------------------------------------------------------------------------
(* What each handler does to the two tables. *)

Consistent(d) == Database(d) /\ Follows(d) /\ InputsLive(d)

\* The fullnode's guarantees, of any database.
Spendable(d, t) ==
    /\ \A o \in Tx[t].spends : d.tx[Out[o].tx] = "live"
    /\ \A u \in Txs : d.tx[u] = "live" => Tx[u].spends \cap Tx[t].spends = {}
Unspent(d, t) == \A u \in Txs : d.tx[u] = "live" => Tx[u].spends \cap outputsOf(t) = {}

\* Unlocking keeps outputs and transactions consistent.
LEMMA LocksDoNotMatter ==
    ASSUME NEW d, Consistent(d), NEW e, Database(e), SameButLocks(d, e)
    PROVE  Consistent(e)
  BY DEF Consistent, SameButLocks, Follows, InputsLive, LedgerAssumption

\* So does accepting a vertex on top of live ones that spends nothing twice,
LEMMA AcceptRows ==
    ASSUME NEW d, Consistent(d), NEW t \in Txs, d.tx[t] = "absent", Spendable(d, t)
    PROVE  LET d1 == addUtxos(addOrUpdateTx(d, t), t)
               e == updateTxOutputSpentBy(bumpAddressInvolvement(d1, t), t)
           IN  Consistent(e) /\ e.tx = [d.tx EXCEPT ![t] = "live"]
<1> DEFINE d0 == addOrUpdateTx(d, t)
           d1 == addUtxos(d0, t)
           d2 == bumpAddressInvolvement(d1, t)
           e == updateTxOutputSpentBy(d2, t)
<1>1. Database(d0) /\ d0.tx = [d.tx EXCEPT ![t] = "live"] /\ d0.txo = d.txo
  BY StatusSet DEF Consistent
<1> HIDE DEF d0
<1>2. /\ Database(d1) /\ d1.tx = [d.tx EXCEPT ![t] = "live"]
      /\ \A o \in Outputs :
             IF o \in outputsOf(t) /\ ~d.txo[o].there
             THEN d1.txo[o].there /\ ~d1.txo[o].voided /\ d1.txo[o].spentBy = NoTx
             ELSE d1.txo[o] = d.txo[o]
  BY <1>1, OutputsAdded
<1> HIDE DEF d1
<1>3. Database(d2) /\ d2.tx = d1.tx /\ d2.txo = d1.txo
  BY <1>2, BalancesOnly DEF SameRows
<1> HIDE DEF d2
<1>4. /\ Database(e) /\ e.tx = [d.tx EXCEPT ![t] = "live"]
      /\ \A o \in Outputs :
             IF o \in Tx[t].spends /\ d1.txo[o].there
             THEN e.txo[o].there /\ e.txo[o].voided = d1.txo[o].voided /\ e.txo[o].spentBy = t
             ELSE e.txo[o] = d1.txo[o]
  BY <1>2, <1>3, InputsSpent
<1> HIDE DEF e
<1>5. ASSUME NEW o \in Outputs
      PROVE  /\ e.txo[o].there <=> e.tx[Out[o].tx] # "absent"
             /\ e.txo[o].voided <=> e.tx[Out[o].tx] = "voided"
             /\ e.txo[o].there => \A u \in Txs :
                    e.txo[o].spentBy = u <=> e.tx[u] = "live" /\ o \in Tx[u].spends
  <2>1. Out[o].tx \in Txs /\ o \notin Tx[Out[o].tx].spends /\ NoTx \notin Txs
    BY LedgerAssumption
  <2>2. d.tx \in [Txs -> Statuses] /\ d.txo[o] \in OutputRows
    BY DEF Consistent, Database
  <2>3. /\ d.txo[o].there <=> d.tx[Out[o].tx] # "absent"
        /\ d.txo[o].voided <=> d.tx[Out[o].tx] = "voided"
        /\ d.txo[o].there => \A u \in Txs :
               d.txo[o].spentBy = u <=> d.tx[u] = "live" /\ o \in Tx[u].spends
    BY DEF Consistent, Follows
  <2>4. CASE Out[o].tx = t
    <3>1. o \in outputsOf(t) /\ ~d.txo[o].there /\ o \notin Tx[t].spends
      BY <2>1, <2>3, <2>4 DEF outputsOf
    <3>2. e.txo[o].there /\ ~e.txo[o].voided /\ e.txo[o].spentBy = NoTx
      BY <1>2, <1>4, <3>1
    <3>3. \A u \in Txs : e.tx[u] = "live" => o \notin Tx[u].spends
      BY <1>4, <2>2, <2>4, <3>1 DEF Consistent, InputsLive
    <3> QED
      BY <1>4, <2>1, <2>2, <2>4, <3>2, <3>3
  <2>5. CASE Out[o].tx # t /\ o \in Tx[t].spends
    <3>1. d.tx[Out[o].tx] = "live" /\ \A u \in Txs : d.tx[u] = "live" => o \notin Tx[u].spends
      BY <2>5 DEF Spendable
    <3>2. d1.txo[o] = d.txo[o]
      BY <1>2, <2>5 DEF outputsOf
    <3>3. e.txo[o].there /\ e.txo[o].voided = d.txo[o].voided /\ e.txo[o].spentBy = t
      BY <1>4, <2>3, <2>5, <3>1, <3>2
    <3> QED
      BY <1>4, <2>1, <2>2, <2>3, <2>5, <3>1, <3>3
  <2>6. CASE Out[o].tx # t /\ o \notin Tx[t].spends
    <3>1. e.txo[o] = d.txo[o]
      BY <1>2, <1>4, <2>6 DEF outputsOf
    <3> QED
      BY <1>4, <2>1, <2>2, <2>3, <2>6, <3>1
  <2> QED
    BY <2>4, <2>5, <2>6
<1>6. Follows(e)
  BY <1>5 DEF Follows
<1>7. InputsLive(e)
  BY <1>4, LedgerAssumption DEF Consistent, Database, InputsLive, Spendable
<1> QED
  BY <1>4, <1>6, <1>7 DEF Consistent, d0, d1, d2, e

\* voiding one that no live vertex spends,
LEMMA VoidRows ==
    ASSUME NEW d, Consistent(d), NEW t \in Txs, d.tx[t] = "live", Unspent(d, t)
    PROVE  Consistent(voidTx(d, t)) /\ voidTx(d, t).tx = [d.tx EXCEPT ![t] = "voided"]
<1> DEFINE L == {o \in outputsOf(t) : d.txo[o].locked}
           d0 == voidTransaction(d, t)
           d1 == markUtxosAsVoided(d0, t)
           d2 == voidAddressTransaction(d1, t, L)
           d3 == decrementAddressInvolvement(d2, t)
           d4 == unspendUtxos(d3, t)
           e == voidWalletTransaction(d4, t, L)
<1>0. voidTx(d, t) = e
  BY DEF voidTx
<1> HIDE DEF L
<1>1. Database(d0) /\ d0.tx = [d.tx EXCEPT ![t] = "voided"] /\ d0.txo = d.txo
  BY StatusSet DEF Consistent
<1> HIDE DEF d0
<1>2. /\ Database(d1) /\ d1.tx = [d.tx EXCEPT ![t] = "voided"]
      /\ \A o \in Outputs :
             IF o \in outputsOf(t) /\ d.txo[o].there
             THEN d1.txo[o].there /\ d1.txo[o].voided /\ d1.txo[o].spentBy = d.txo[o].spentBy
             ELSE d1.txo[o] = d.txo[o]
  BY <1>1, OutputsVoided
<1> HIDE DEF d1
<1>3. Database(d2) /\ d2.tx = d1.tx /\ d2.txo = d1.txo
  BY <1>2, TablesOnly DEF SameRows
<1> HIDE DEF d2
<1>4. Database(d3) /\ d3.tx = d1.tx /\ d3.txo = d1.txo
  BY <1>3, BalancesOnly DEF SameRows
<1> HIDE DEF d3
<1>5. /\ Database(d4) /\ d4.tx = d1.tx
      /\ \A o \in Outputs :
             IF o \in Tx[t].spends /\ ~d1.txo[o].voided /\ d1.txo[o].spentBy = t
             THEN d4.txo[o].there = d1.txo[o].there /\ ~d4.txo[o].voided /\ d4.txo[o].spentBy = NoTx
             ELSE d4.txo[o] = d1.txo[o]
  BY <1>4, InputsUnspent
<1> HIDE DEF d4
<1>6. Database(e) /\ e.tx = [d.tx EXCEPT ![t] = "voided"] /\ e.txo = d4.txo
  BY <1>2, <1>5, TablesOnly DEF SameRows
<1> HIDE DEF e
<1>7. ASSUME NEW o \in Outputs
      PROVE  /\ e.txo[o].there <=> e.tx[Out[o].tx] # "absent"
             /\ e.txo[o].voided <=> e.tx[Out[o].tx] = "voided"
             /\ e.txo[o].there => \A u \in Txs :
                    e.txo[o].spentBy = u <=> e.tx[u] = "live" /\ o \in Tx[u].spends
  <2>1. Out[o].tx \in Txs /\ o \notin Tx[Out[o].tx].spends /\ NoTx \notin Txs
    BY LedgerAssumption
  <2>2. d.tx \in [Txs -> Statuses] /\ d.txo[o] \in OutputRows
    BY DEF Consistent, Database
  <2>3. /\ d.txo[o].there <=> d.tx[Out[o].tx] # "absent"
        /\ d.txo[o].voided <=> d.tx[Out[o].tx] = "voided"
        /\ d.txo[o].there => \A u \in Txs :
               d.txo[o].spentBy = u <=> d.tx[u] = "live" /\ o \in Tx[u].spends
    BY DEF Consistent, Follows
  <2>4. CASE Out[o].tx = t
    <3>1. o \in outputsOf(t) /\ d.txo[o].there /\ o \notin Tx[t].spends
      BY <2>1, <2>3, <2>4 DEF outputsOf
    <3>2. e.txo[o].there /\ e.txo[o].voided /\ e.txo[o].spentBy = d.txo[o].spentBy
      BY <1>2, <1>5, <1>6, <3>1
    <3> QED
      BY <1>6, <2>1, <2>2, <2>3, <2>4, <3>1, <3>2
  <2>5. CASE Out[o].tx # t /\ o \in Tx[t].spends
    <3>1. d1.txo[o] = d.txo[o]
      BY <1>2, <2>5 DEF outputsOf
    <3>2. d.tx[Out[o].tx] = "live" /\ d.txo[o].there /\ ~d.txo[o].voided
      BY <2>2, <2>3, <2>5 DEF Consistent, InputsLive
    <3>3. d.txo[o].spentBy = t
      BY <2>3, <2>5, <3>2
    <3>4. e.txo[o].there /\ ~e.txo[o].voided /\ e.txo[o].spentBy = NoTx
      BY <1>5, <1>6, <2>5, <3>1, <3>2, <3>3
    <3>5. \A u \in Txs : u # t /\ d.tx[u] = "live" => o \notin Tx[u].spends
      BY <2>3, <3>2, <3>3
    <3> QED
      BY <1>6, <2>1, <2>2, <2>5, <3>2, <3>4, <3>5
  <2>6. CASE Out[o].tx # t /\ o \notin Tx[t].spends
    <3>1. e.txo[o] = d.txo[o]
      BY <1>2, <1>5, <1>6, <2>6 DEF outputsOf
    <3> QED
      BY <1>6, <2>1, <2>2, <2>3, <2>6, <3>1
  <2> QED
    BY <2>4, <2>5, <2>6
<1>8. Follows(e)
  BY <1>7 DEF Follows
<1>9. InputsLive(e)
  BY <1>6, LedgerAssumption DEF Consistent, Database, InputsLive, Unspent, outputsOf
<1> QED
  BY <1>0, <1>6, <1>8, <1>9 DEF Consistent

\* and deleting a voided one.
LEMMA CleanupRows ==
    ASSUME NEW d, Consistent(d), NEW t \in Txs, d.tx[t] = "voided"
    PROVE  Consistent(cleanupVoidedTx(d, t)) /\ cleanupVoidedTx(d, t).tx = [d.tx EXCEPT ![t] = "absent"]
<1> DEFINE e == cleanupVoidedTx(d, t)
<1>1. /\ Database(e) /\ e.tx = [d.tx EXCEPT ![t] = "absent"]
      /\ \A o \in Outputs :
             e.txo[o] = IF o \in outputsOf(t) /\ d.txo[o].voided THEN NoOutput ELSE d.txo[o]
  BY VoidedDeleted DEF Consistent
<1> HIDE DEF e
<1>2. ASSUME NEW o \in Outputs
      PROVE  /\ e.txo[o].there <=> e.tx[Out[o].tx] # "absent"
             /\ e.txo[o].voided <=> e.tx[Out[o].tx] = "voided"
             /\ e.txo[o].there => \A u \in Txs :
                    e.txo[o].spentBy = u <=> e.tx[u] = "live" /\ o \in Tx[u].spends
  BY <1>1, LedgerAssumption DEF Consistent, Database, Follows, NoOutput, outputsOf
<1>3. Follows(e)
  BY <1>2 DEF Follows
<1>4. InputsLive(e)
  BY <1>1, LedgerAssumption DEF Consistent, Database, InputsLive
<1> QED
  BY <1>1, <1>3, <1>4 DEF Consistent, e

---------------------------------------------------------------------------
(* Induction over the subsets of a finite set, and sums over it. *)

\* Induction over the subsets of a finite set, with the property as a set.
LEMMA SubsetInduction ==
    ASSUME NEW S, IsFiniteSet(S), NEW Good,
           ASSUME NEW T \in SUBSET S, \A U \in SUBSET T : U # T => U \in Good
           PROVE  T \in Good
    PROVE  S \in Good
<1> DEFINE Bad == {T \in SUBSET S : T \notin Good}
           R == StrictSubsetOrdering(S)
<1>1. IsWellFoundedOn(R, SUBSET S)
  BY FS_StrictSubsetOrderingWellFounded, FS_FiniteSubsetsOfFinite
<1>2. \A T, U : T \in SUBSET S /\ U \in SUBSET T /\ U # T => <<U, T>> \in R
  BY DEF StrictSubsetOrdering
<1> SUFFICES ASSUME Bad # {} PROVE FALSE
  OBVIOUS
<1>3. PICK T \in Bad : \A U \in Bad : ~(<<U, T>> \in R)
  <2> HIDE DEF R, Bad
  <2>1. Bad \subseteq SUBSET S
    BY DEF Bad
  <2> QED
    BY <1>1, <2>1, WFMin
<1>4. ASSUME NEW U \in SUBSET T, U # T
      PROVE  U \in Good
  <2>1. T \in SUBSET S /\ U \in SUBSET S
    OBVIOUS
  <2>2. <<U, T>> \in R
    BY <1>2, <1>4, <2>1
  <2> HIDE DEF R
  <2> QED
    BY <1>3, <2>1, <2>2
<1> QED
  BY <1>3, <1>4

\* The member that SumFunctionOnSet takes first.
Pick(S) == CHOOSE x \in S : TRUE

\* g holds the running sums of f over the subsets of S.
Runs(g, f, S) ==
    g = [s \in SUBSET S |-> IF s = {} THEN 0 ELSE f[Pick(s)] + g[s \ {Pick(s)}]]

\* The sum is the value at S of a function that unfolds it.
LEMMA SumIsRun ==
    ASSUME NEW f, NEW S
    PROVE  SumFunctionOnSet(f, S) = (CHOOSE g : Runs(g, f, S))[S]
  BY DEF SumFunctionOnSet, FoldFunctionOnSet, MapThenFoldSet, Runs, Pick

\* The element the sum takes next belongs to the set.
LEMMA PickIn ==
    ASSUME NEW S, S # {}
    PROVE  Pick(S) \in S
  BY DEF Pick

\* Two functions that unfold a sum agree, by induction over the subsets.
LEMMA RunsAgree ==
    ASSUME NEW S, IsFiniteSet(S), NEW f, NEW g, NEW h, NEW T, S \subseteq T, Runs(g, f, S), Runs(h, f, T)
    PROVE  g[S] = h[S]
<1> DEFINE Good == {s \in SUBSET S : g[s] = h[s]}
<1>1. ASSUME NEW s \in SUBSET S, \A u \in SUBSET s : u # s => u \in Good
      PROVE  s \in Good
  <2>1. /\ g[s] = IF s = {} THEN 0 ELSE f[Pick(s)] + g[s \ {Pick(s)}]
        /\ h[s] = IF s = {} THEN 0 ELSE f[Pick(s)] + h[s \ {Pick(s)}]
    BY DEF Runs
  <2>2. s # {} => s \ {Pick(s)} \in Good
    <3> SUFFICES ASSUME s # {} PROVE s \ {Pick(s)} \in Good
      OBVIOUS
    <3>1. Pick(s) \in s
      BY PickIn
    <3> QED
      BY <1>1, <3>1
  <2> QED
    BY <2>1, <2>2
<1> HIDE DEF Good
<1>2. S \in Good
  BY <1>1, SubsetInduction
<1> QED
  BY <1>2 DEF Good

\* There is one for every finite set.
LEMMA RunExists ==
    ASSUME NEW S, IsFiniteSet(S), NEW f
    PROVE  \E g : Runs(g, f, S)
<1> DEFINE Good == {T \in SUBSET S : \E g : Runs(g, f, T)}
<1>1. ASSUME NEW T \in SUBSET S, \A U \in SUBSET T : U # T => U \in Good
      PROVE  T \in Good
  <2> DEFINE G(s) == CHOOSE g : Runs(g, f, s)
             v(s) == IF s = {} THEN 0 ELSE f[Pick(s)] + G(s \ {Pick(s)})[s \ {Pick(s)}]
             g == [s \in SUBSET T |-> v(s)]
  <2>1. \A U \in SUBSET T : U # T => Runs(G(U), f, U)
    BY <1>1
  <2>2. \A U \in SUBSET T : U # T => G(U)[U] = v(U)
    <3> SUFFICES ASSUME NEW U \in SUBSET T, U # T PROVE G(U)[U] = v(U)
      OBVIOUS
    <3>1. Runs(G(U), f, U)
      BY <2>1
    <3>2. G(U)[U] = IF U = {} THEN 0 ELSE f[Pick(U)] + G(U)[U \ {Pick(U)}]
      <4> HIDE DEF G
      <4> QED
        BY <3>1 DEF Runs
    <3>3. CASE U = {}
      BY <3>2, <3>3
    <3>4. CASE U # {}
      <4> DEFINE W == U \ {Pick(U)}
      <4>1. Pick(U) \in U
        BY <3>4, PickIn
      <4>2. W \in SUBSET T /\ W # T /\ W \subseteq U
        BY <4>1
      <4>3. Runs(G(W), f, W)
        BY <4>2, <2>1
      <4>4. IsFiniteSet(W)
        BY <4>2, FS_Subset
      <4> HIDE DEF G, W
      <4>5. G(W)[W] = G(U)[W]
        BY <3>1, <4>2, <4>3, <4>4, RunsAgree
      <4> QED
        BY <3>2, <3>4, <4>5 DEF W
    <3> QED
      BY <3>3, <3>4
  <2>3. g = [s \in SUBSET T |-> IF s = {} THEN 0 ELSE f[Pick(s)] + g[s \ {Pick(s)}]]
    <3>1. ASSUME NEW s \in SUBSET T
          PROVE  v(s) = IF s = {} THEN 0 ELSE f[Pick(s)] + g[s \ {Pick(s)}]
      <4> SUFFICES ASSUME s # {} PROVE v(s) = f[Pick(s)] + g[s \ {Pick(s)}]
        OBVIOUS
      <4> DEFINE W == s \ {Pick(s)}
      <4>1. Pick(s) \in s
        BY PickIn
      <4>2. W \in SUBSET T /\ W # T
        BY <4>1
      <4>3. G(W)[W] = v(W)
        <5> HIDE DEF G, v, W
        <5> QED
          BY <2>2, <4>2
      <4>4. g[W] = v(W)
        <5> HIDE DEF v, W
        <5> QED
          BY <4>2
      <4>5. v(s) = f[Pick(s)] + G(W)[W]
        OBVIOUS
      <4> HIDE DEF v, g, G
      <4> QED
        BY <4>3, <4>4, <4>5
    <3>2. g = [s \in SUBSET T |-> v(s)]
      OBVIOUS
    <3> HIDE DEF v, g
    <3> QED
      BY <3>1, <3>2
  <2>4. Runs(g, f, T)
    <3> HIDE DEF g
    <3> QED
      BY <2>3 DEF Runs
  <2> QED
    BY <2>4
<1> HIDE DEF Good
<1>2. S \in Good
  BY <1>1, SubsetInduction
<1> QED
  BY <1>2 DEF Good

---------------------------------------------------------------------------
\* One unfolding of a sum: what every other fact on sums rests on.
LEMMA SumStep ==
    ASSUME NEW S, IsFiniteSet(S), NEW f
    PROVE  SumFunctionOnSet(f, S) = IF S = {} THEN 0 ELSE f[Pick(S)] + SumFunctionOnSet(f, S \ {Pick(S)})
<1> DEFINE g == CHOOSE r : Runs(r, f, S)
           T == S \ {Pick(S)}
           h == CHOOSE r : Runs(r, f, T)
<1>1. Runs(g, f, S) /\ IsFiniteSet(T) /\ T \subseteq S
  BY RunExists, FS_Subset
<1>2. Runs(h, f, T)
  BY <1>1, RunExists
<1>3. SumFunctionOnSet(f, S) = g[S] /\ SumFunctionOnSet(f, T) = h[T]
  BY SumIsRun
<1> HIDE DEF g, h
<1>4. h[T] = g[T]
  BY <1>1, <1>2, RunsAgree
<1>5. g[S] = IF S = {} THEN 0 ELSE f[Pick(S)] + g[T]
  BY <1>1 DEF Runs
<1> QED
  BY <1>3, <1>4, <1>5

\* Induction by one element at a time.
LEMMA InsertInduction ==
    ASSUME NEW S, IsFiniteSet(S), NEW Good, {} \in Good,
           ASSUME NEW T \in SUBSET S, NEW x \in T, T \ {x} \in Good
           PROVE  T \in Good
    PROVE  S \in Good
<1>1. ASSUME NEW T \in SUBSET S, \A U \in SUBSET T : U # T => U \in Good
      PROVE  T \in Good
  <2>1. CASE T = {}
    BY <2>1
  <2>2. CASE T # {}
    <3>1. PICK x \in T : TRUE
      BY <2>2
    <3>2. T \ {x} \in SUBSET T /\ T \ {x} # T
      OBVIOUS
    <3>3. T \ {x} \in Good
      BY <1>1, <3>2
    <3> QED
      BY <3>3
  <2> QED
    BY <2>1, <2>2
<1> QED
  BY <1>1, SubsetInduction

\* Sums: of nothing,
LEMMA SumEmpty ==
    ASSUME NEW f
    PROVE  SumFunctionOnSet(f, {}) = 0
  BY SumStep, FS_EmptySet

\* of integers,
LEMMA SumType ==
    ASSUME NEW S, IsFiniteSet(S), NEW f, \A x \in S : f[x] \in Int
    PROVE  SumFunctionOnSet(f, S) \in Int
<1> DEFINE Good == {T \in SUBSET S : SumFunctionOnSet(f, T) \in Int}
<1>1. ASSUME NEW T \in SUBSET S, \A U \in SUBSET T : U # T => U \in Good
      PROVE  T \in Good
  <2>1. CASE T = {}
    BY <2>1, SumEmpty
  <2>2. CASE T # {}
    <3> DEFINE U == T \ {Pick(T)}
    <3>1. Pick(T) \in T /\ U \in SUBSET T /\ U # T /\ IsFiniteSet(T)
      BY <2>2, PickIn, FS_Subset
    <3>2. SumFunctionOnSet(f, U) \in Int /\ f[Pick(T)] \in Int
      BY <1>1, <3>1
    <3>3. SumFunctionOnSet(f, T) = f[Pick(T)] + SumFunctionOnSet(f, U)
      BY <2>2, <3>1, SumStep
    <3> QED
      BY <3>2, <3>3
  <2> QED
    BY <2>1, <2>2
<1> HIDE DEF Good
<1>2. S \in Good
  BY <1>1, SubsetInduction
<1> QED
  BY <1>2 DEF Good

\* with any element taken out first,
LEMMA SumRemove ==
    ASSUME NEW S, IsFiniteSet(S), NEW f, \A x \in S : f[x] \in Int, NEW y \in S
    PROVE  SumFunctionOnSet(f, S) = f[y] + SumFunctionOnSet(f, S \ {y})
<1> DEFINE Good == {T \in SUBSET S : \A x \in T : SumFunctionOnSet(f, T) = f[x] + SumFunctionOnSet(f, T \ {x})}
<1>1. ASSUME NEW T \in SUBSET S, \A U \in SUBSET T : U # T => U \in Good, NEW x \in T
      PROVE  SumFunctionOnSet(f, T) = f[x] + SumFunctionOnSet(f, T \ {x})
  <2> DEFINE p == Pick(T)
             A == T \ {p}
             B == T \ {x}
             C == T \ {x, p}
  <2>1. p \in T /\ IsFiniteSet(T) /\ T # {}
    BY PickIn, FS_Subset
  <2>2. SumFunctionOnSet(f, T) = f[p] + SumFunctionOnSet(f, A)
    BY <2>1, SumStep
  <2>3. CASE x = p
    BY <2>2, <2>3
  <2>4. CASE x # p
    <3>1. A \in Good /\ B \in Good /\ x \in A /\ p \in B /\ A \ {x} = C /\ B \ {p} = C
      BY <1>1, <2>1, <2>4
    <3>2. C \in SUBSET S /\ IsFiniteSet(C) /\ \A z \in C : f[z] \in Int
      BY FS_Subset
    <3>3. SumFunctionOnSet(f, C) \in Int
      BY <3>2, SumType
    <3>4. SumFunctionOnSet(f, A) = f[x] + SumFunctionOnSet(f, C) /\ SumFunctionOnSet(f, B) = f[p] + SumFunctionOnSet(f, C)
      <4> HIDE DEF p, A, B, C
      <4> QED
        BY <3>1
    <3>5. f[x] \in Int /\ f[p] \in Int
      BY <2>1
    <3> HIDE DEF p, A, C
    <3> QED
      BY <2>2, <3>3, <3>4, <3>5 DEF B
  <2> QED
    BY <2>3, <2>4
<1>2. ASSUME NEW T \in SUBSET S, \A U \in SUBSET T : U # T => U \in Good
      PROVE  T \in Good
  BY <1>1, <1>2
<1> HIDE DEF Good
<1>3. S \in Good
  BY <1>2, SubsetInduction
<1> QED
  BY <1>3 DEF Good

\* A sum depends on the terms only.
LEMMA SumSame ==
    ASSUME NEW S, IsFiniteSet(S), NEW f, NEW g,
           \A x \in S : f[x] \in Int, \A x \in S : f[x] = g[x]
    PROVE  SumFunctionOnSet(f, S) = SumFunctionOnSet(g, S)
<1> DEFINE Good == {T \in SUBSET S : SumFunctionOnSet(f, T) = SumFunctionOnSet(g, T)}
<1>1. {} \in Good
  BY SumEmpty
<1>2. ASSUME NEW T \in SUBSET S, NEW x \in T, T \ {x} \in Good
      PROVE  T \in Good
  <2>1. IsFiniteSet(T)
    BY FS_Subset
  <2>2. SumFunctionOnSet(f, T) = f[x] + SumFunctionOnSet(f, T \ {x}) /\ SumFunctionOnSet(g, T) = g[x] + SumFunctionOnSet(g, T \ {x})
    BY <2>1, SumRemove
  <2> QED
    BY <1>2, <2>2
<1> HIDE DEF Good
<1>3. S \in Good
  BY <1>1, <1>2, InsertInduction
<1> QED
  BY <1>3 DEF Good

\* of naturals,
LEMMA SumNat ==
    ASSUME NEW S, IsFiniteSet(S), NEW f, \A x \in S : f[x] \in Nat
    PROVE  SumFunctionOnSet(f, S) \in Nat
<1> DEFINE Good == {T \in SUBSET S : SumFunctionOnSet(f, T) \in Nat}
<1>1. {} \in Good
  BY SumEmpty
<1>2. ASSUME NEW T \in SUBSET S, NEW x \in T, T \ {x} \in Good
      PROVE  T \in Good
  <2>1. IsFiniteSet(T) /\ \A z \in T : f[z] \in Int
    BY FS_Subset
  <2>2. SumFunctionOnSet(f, T) = f[x] + SumFunctionOnSet(f, T \ {x})
    BY <2>1, SumRemove
  <2> QED
    BY <1>2, <2>2
<1> HIDE DEF Good
<1>3. S \in Good
  BY <1>1, <1>2, InsertInduction
<1> QED
  BY <1>3 DEF Good

\* over a part and the rest,
LEMMA SumUnion ==
    ASSUME NEW S, IsFiniteSet(S), NEW f, \A x \in S : f[x] \in Int, NEW A \in SUBSET S
    PROVE  SumFunctionOnSet(f, S) = SumFunctionOnSet(f, A) + SumFunctionOnSet(f, S \ A)
<1> DEFINE Good == {T \in SUBSET A : SumFunctionOnSet(f, S) = SumFunctionOnSet(f, T) + SumFunctionOnSet(f, S \ T)}
<1>0. IsFiniteSet(A) /\ SumFunctionOnSet(f, S) \in Int
  BY FS_Subset, SumType
<1>1. {} \in Good
  BY <1>0, SumEmpty
<1>2. ASSUME NEW T \in SUBSET A, NEW x \in T, T \ {x} \in Good
      PROVE  T \in Good
  <2> DEFINE U == T \ {x}
             V == S \ U
             W == S \ T
  <2>1. /\ IsFiniteSet(T) /\ IsFiniteSet(U) /\ IsFiniteSet(V) /\ IsFiniteSet(W)
        /\ T \subseteq S /\ x \in V /\ V \ {x} = W
    BY <1>0, FS_Subset
  <2>2. SumFunctionOnSet(f, T) = f[x] + SumFunctionOnSet(f, U)
    BY <2>1, SumRemove
  <2>3. SumFunctionOnSet(f, V) = f[x] + SumFunctionOnSet(f, W)
    BY <2>1, SumRemove
  <2>4. SumFunctionOnSet(f, S) = SumFunctionOnSet(f, U) + SumFunctionOnSet(f, V)
    BY <1>2
  <2>5. f[x] \in Int /\ SumFunctionOnSet(f, U) \in Int /\ SumFunctionOnSet(f, V) \in Int /\ SumFunctionOnSet(f, W) \in Int
    BY <2>1, SumType
  <2>6. SumFunctionOnSet(f, S) = SumFunctionOnSet(f, T) + SumFunctionOnSet(f, W)
    <3> HIDE DEF U, V, W
    <3> QED
      BY <2>2, <2>3, <2>4, <2>5
  <2> QED
    BY <2>6
<1> HIDE DEF Good
<1>3. A \in Good
  BY <1>0, <1>1, <1>2, InsertInduction
<1> QED
  BY <1>3 DEF Good

\* of sums.
LEMMA SumPlus ==
    ASSUME NEW S, IsFiniteSet(S), NEW f, NEW g, NEW h,
           \A x \in S : f[x] \in Int /\ g[x] \in Int /\ h[x] = f[x] + g[x]
    PROVE  SumFunctionOnSet(h, S) = SumFunctionOnSet(f, S) + SumFunctionOnSet(g, S)
<1> DEFINE Good == {T \in SUBSET S : SumFunctionOnSet(h, T) = SumFunctionOnSet(f, T) + SumFunctionOnSet(g, T)}
<1>1. {} \in Good
  BY SumEmpty
<1>2. ASSUME NEW T \in SUBSET S, NEW x \in T, T \ {x} \in Good
      PROVE  T \in Good
  <2> DEFINE U == T \ {x}
  <2>1. IsFiniteSet(T) /\ IsFiniteSet(U) /\ \A z \in T : f[z] \in Int /\ g[z] \in Int /\ h[z] \in Int
    BY FS_Subset
  <2>2. SumFunctionOnSet(f, T) = f[x] + SumFunctionOnSet(f, U) /\ SumFunctionOnSet(g, T) = g[x] + SumFunctionOnSet(g, U) /\ SumFunctionOnSet(h, T) = h[x] + SumFunctionOnSet(h, U)
    BY <2>1, SumRemove
  <2>3. SumFunctionOnSet(f, U) \in Int /\ SumFunctionOnSet(g, U) \in Int /\ SumFunctionOnSet(h, U) = SumFunctionOnSet(f, U) + SumFunctionOnSet(g, U)
    BY <1>2, <2>1, SumType
  <2>4. h[x] = f[x] + g[x] /\ f[x] \in Int /\ g[x] \in Int
    OBVIOUS
  <2>5. SumFunctionOnSet(h, T) = SumFunctionOnSet(f, T) + SumFunctionOnSet(g, T)
    <3> HIDE DEF U
    <3> QED
      BY <2>2, <2>3, <2>4
  <2> QED
    BY <2>5
<1> HIDE DEF Good
<1>3. S \in Good
  BY <1>1, <1>2, InsertInduction
<1> QED
  BY <1>3 DEF Good

\* The only integer that is twice itself.
LEMMA NotTwice ==
    ASSUME NEW n \in Int, n + n = n
    PROVE  n = 0
  OBVIOUS

\* Summing per key first.
LEMMA SumByKey ==
    ASSUME NEW S, IsFiniteSet(S), NEW f, \A x \in S : f[x] \in Int,
           NEW A, IsFiniteSet(A), NEW key, \A x \in S : key[x] \in A
    PROVE  SumFunctionOnSet([a \in A |-> SumFunctionOnSet(f, {x \in S : key[x] = a})], A) = SumFunctionOnSet(f, S)
<1> DEFINE part(T) == [a \in A |-> SumFunctionOnSet(f, {x \in T : key[x] = a})]
           Good == {T \in SUBSET S : SumFunctionOnSet(part(T), A) = SumFunctionOnSet(f, T)}
<1>1. {} \in Good
  <2>1. \A a \in A : {x \in {} : key[x] = a} = {}
    OBVIOUS
  <2>2. \A a \in A : part({})[a] = 0
    BY <2>1, SumEmpty
  <2> DEFINE p == part({})
  <2> HIDE DEF p, part
  <2>3. \A a \in A : p[a] \in Int /\ p[a] = p[a] + p[a]
    BY <2>2 DEF p
  <2>4. SumFunctionOnSet(p, A) = SumFunctionOnSet(p, A) + SumFunctionOnSet(p, A) /\ SumFunctionOnSet(p, A) \in Int
    BY <2>3, SumPlus, SumType
  <2>5. SumFunctionOnSet(p, A) = 0
    <3> DEFINE n == SumFunctionOnSet(p, A)
    <3>1. n \in Int /\ n + n = n
      BY <2>4
    <3> HIDE DEF n
    <3> QED
      BY <3>1, NotTwice DEF n
  <2> QED
    BY <2>5, SumEmpty DEF p
<1>2. ASSUME NEW T \in SUBSET S, NEW x \in T, T \ {x} \in Good
      PROVE  T \in Good
  <2> DEFINE U == T \ {x}
             p == part(T)
             q == part(U)
             at(V, a) == {z \in V : key[z] = a}
             k == key[x]
  <2>1. IsFiniteSet(T) /\ IsFiniteSet(U) /\ k \in A
    BY FS_Subset
  <2>2. ASSUME NEW V \in SUBSET S, NEW a \in A
        PROVE  IsFiniteSet(at(V, a)) /\ SumFunctionOnSet(f, at(V, a)) \in Int
    <3>1. IsFiniteSet(at(V, a)) /\ \A z \in at(V, a) : f[z] \in Int
      BY FS_Subset
    <3> HIDE DEF at
    <3> QED
      BY <3>1, SumType
  <2>3. ASSUME NEW a \in A PROVE p[a] \in Int /\ q[a] \in Int
    BY <2>2
  <2>4. \A a \in A \ {k} : p[a] = q[a]
    <3>1. \A a \in A \ {k} : at(T, a) = at(U, a)
      OBVIOUS
    <3> QED
      BY <3>1
  <2>5. p[k] = f[x] + q[k]
    <3>1. x \in at(T, k) /\ at(U, k) = at(T, k) \ {x} /\ at(T, k) \subseteq S
      OBVIOUS
    <3>2. IsFiniteSet(at(T, k)) /\ \A z \in at(T, k) : f[z] \in Int
      BY <2>1, <2>2, <3>1
    <3>3. p[k] = SumFunctionOnSet(f, at(T, k)) /\ q[k] = SumFunctionOnSet(f, at(U, k))
      BY <2>1
    <3> DEFINE V == at(T, k)
               W == at(U, k)
    <3>4. SumFunctionOnSet(f, V) = f[x] + SumFunctionOnSet(f, V \ {x})
      <4> HIDE DEF V
      <4> QED
        BY <3>1, <3>2, SumRemove DEF V
    <3>5. SumFunctionOnSet(f, W) = SumFunctionOnSet(f, V \ {x})
      BY <3>1
    <3> QED
      BY <3>3, <3>4, <3>5
  <2> HIDE DEF p, q, k, part, Good
  <2>6. SumFunctionOnSet(p, A) = p[k] + SumFunctionOnSet(p, A \ {k}) /\ SumFunctionOnSet(q, A) = q[k] + SumFunctionOnSet(q, A \ {k})
    BY <2>1, <2>3, SumRemove
  <2>7. SumFunctionOnSet(p, A \ {k}) = SumFunctionOnSet(q, A \ {k}) /\ SumFunctionOnSet(p, A \ {k}) \in Int
    <3>1. IsFiniteSet(A \ {k})
      BY FS_Subset
    <3> QED
      BY <2>3, <2>4, <3>1, SumSame, SumType
  <2>8. SumFunctionOnSet(f, T) = f[x] + SumFunctionOnSet(f, U) /\ f[x] \in Int
    BY <2>1, SumRemove
  <2>9. SumFunctionOnSet(q, A) = SumFunctionOnSet(f, U)
    BY <1>2 DEF q, Good
  <2>10. SumFunctionOnSet(p, A) = SumFunctionOnSet(f, T)
    BY <2>1, <2>3, <2>5, <2>6, <2>7, <2>8, <2>9
  <2> QED
    BY <2>10 DEF p, Good
<1> HIDE DEF Good
<1>3. S \in Good
  BY <1>1, <1>2, InsertInduction
<1> QED
  BY <1>3 DEF Good

\* Renaming the terms.
LEMMA SumImage ==
    ASSUME NEW S, IsFiniteSet(S), NEW f, NEW T, NEW m \in [S -> T],
           \A x, y \in S : m[x] = m[y] => x = y,
           {m[x] : x \in S} = T,
           \A x \in S : f[m[x]] \in Int
    PROVE  IsFiniteSet(T) /\ SumFunctionOnSet([x \in S |-> f[m[x]]], S) = SumFunctionOnSet(f, T)
<1> DEFINE g == [x \in S |-> f[m[x]]]
           image(A) == {m[x] : x \in A}
           Good == {A \in SUBSET S : IsFiniteSet(image(A)) /\ SumFunctionOnSet(g, A) = SumFunctionOnSet(f, image(A))}
<1>1. {} \in Good
  <2>1. image({}) = {}
    OBVIOUS
  <2> QED
    BY <2>1, SumEmpty, FS_EmptySet
<1>2. ASSUME NEW A \in SUBSET S, NEW x \in A, A \ {x} \in Good
      PROVE  A \in Good
  <2> DEFINE B == A \ {x}
             V == image(A)
             W == image(B)
             y == m[x]
  <2>1. y \in V /\ W = V \ {y} /\ g[x] = f[y] /\ IsFiniteSet(A)
    BY FS_Subset
  <2>2. IsFiniteSet(W) /\ SumFunctionOnSet(g, B) = SumFunctionOnSet(f, W)
    BY <1>2
  <2>3. IsFiniteSet(V) /\ \A z \in V : f[z] \in Int
    <3>1. V = W \cup {y}
      BY <2>1
    <3>2. IsFiniteSet(V)
      <4> HIDE DEF V, W
      <4> QED
        BY <2>2, <3>1, FS_AddElement
    <3> QED
      BY <3>2
  <2>4. \A z \in A : g[z] \in Int
    OBVIOUS
  <2>5. SumFunctionOnSet(g, A) = g[x] + SumFunctionOnSet(g, B)
    <3> HIDE DEF g
    <3> QED
      BY <2>1, <2>4, SumRemove
  <2>6. SumFunctionOnSet(f, V) = f[y] + SumFunctionOnSet(f, W)
    <3> HIDE DEF V, W
    <3> QED
      BY <2>1, <2>3, SumRemove
  <2> HIDE DEF g, V, W
  <2>7. SumFunctionOnSet(g, A) = SumFunctionOnSet(f, V)
    BY <2>1, <2>2, <2>5, <2>6
  <2> QED
    BY <2>3, <2>7 DEF V
<1> HIDE DEF Good
<1>3. S \in Good
  BY <1>1, <1>2, InsertInduction
<1> QED
  BY <1>3 DEF Good

---------------------------------------------------------------------------
(* Rows of the balance tables: what one credit, debit or unlock preserves. *)

\* Amounts: a natural number,
LEMMA AmountNat ==
    ASSUME NEW S \in SUBSET Outputs
    PROVE  IsFiniteSet(S) /\ Amount(S) \in Nat
<1> DEFINE v == [o \in Outputs |-> Out[o].value]
<1>1. IsFiniteSet(S) /\ \A o \in S : v[o] \in Nat
  BY LedgerAssumption, FS_Subset
<1>2. Amount(S) = SumFunctionOnSet(v, S)
  BY DEF Amount
<1> HIDE DEF v
<1> QED
  BY <1>1, <1>2, SumNat

\* zero of nothing,
LEMMA AmountEmpty == Amount({}) = 0
  BY SumEmpty DEF Amount

\* and a sum over two disjoint parts.
LEMMA AmountSplit ==
    ASSUME NEW S \in SUBSET Outputs, NEW A, NEW B, A \cup B = S, A \cap B = {}
    PROVE  Amount(S) = Amount(A) + Amount(B)
<1> DEFINE v == [o \in Outputs |-> Out[o].value]
<1>1. IsFiniteSet(S) /\ (\A o \in S : v[o] \in Int) /\ A \in SUBSET S /\ S \ A = B
  BY LedgerAssumption, FS_Subset
<1>2. \A T : Amount(T) = SumFunctionOnSet(v, T)
  BY DEF Amount
<1> HIDE DEF v
<1> QED
  BY <1>1, <1>2, SumUnion

---------------------------------------------------------------------------
\* A row of a balance table, whose holder receives at the outputs H.
IsRow(r) ==
    /\ r = [unlocked |-> r.unlocked, locked |-> r.locked, received |-> r.received,
            uAuth |-> r.uAuth, lAuth |-> r.lAuth, txs |-> r.txs]
    /\ r.unlocked \in Int /\ r.locked \in Int /\ r.received \in Int /\ r.txs \in Int

\* The transactions of L that touch the outputs H, and what one leaves there.
Touching(H, L) == {t \in L : (outputsOf(t) \cup Tx[t].spends) \cap H # {}}
Net(H) == [t \in Txs |-> Amount(outputsOf(t) \cap H) - Amount(Tx[t].spends \cap H)]

\* Count and total of a row are those of the live transactions L that touch its holder.
CountedRow(r, H, L) ==
    /\ IsRow(r)
    /\ r.txs = Cardinality(Touching(H, L))
    /\ r.unlocked + r.locked = SumFunctionOnSet(Net(H), Touching(H, L))

\* L live, U unspent, K locked among the unspent.
ExactRow(r, H, L, U, K) ==
    /\ r.received = Amount({o \in H : Out[o].tx \in L})
    /\ r.locked = Amount(K \cap H)
    /\ r.unlocked = Amount((U \ K) \cap H)

\* b is what t changes for that holder, with the outputs M locked.
IsBalance(b, H, t, M) ==
    /\ b.received = Amount(outputsOf(t) \cap H)
    /\ b.unlocked = Amount((outputsOf(t) \ M) \cap H) - Amount(Tx[t].spends \cap H)
    /\ b.locked = Amount(outputsOf(t) \cap M \cap H)

\* What a transaction changes, unlocked and locked together, is what it leaves.
LEMMA BalanceInts ==
    ASSUME NEW H \in SUBSET Outputs, NEW t \in Txs, NEW M, NEW b, IsBalance(b, H, t, M)
    PROVE  /\ b.received \in Int /\ b.unlocked \in Int /\ b.locked \in Int
           /\ b.unlocked + b.locked = Net(H)[t]
<1> DEFINE A == (outputsOf(t) \ M) \cap H
           B == outputsOf(t) \cap M \cap H
           C == outputsOf(t) \cap H
           D == Tx[t].spends \cap H
<1>1. A \in SUBSET Outputs /\ B \in SUBSET Outputs /\ C \in SUBSET Outputs /\ D \in SUBSET Outputs
  BY LedgerAssumption
<1>2. Amount(A) \in Int /\ Amount(B) \in Int /\ Amount(C) \in Int /\ Amount(D) \in Int
  BY <1>1, AmountNat
<1>3. Amount(C) = Amount(A) + Amount(B)
  <2>1. A \cup B = C /\ A \cap B = {}
    OBVIOUS
  <2> HIDE DEF A, B, C
  <2> QED
    BY <1>1, <2>1, AmountSplit
<1>4. Net(H)[t] = Amount(C) - Amount(D)
  BY DEF Net
<1>5. b.received = Amount(C) /\ b.unlocked = Amount(A) - Amount(D) /\ b.locked = Amount(B)
  BY DEF IsBalance
<1> HIDE DEF A, B, C, D
<1> QED
  BY <1>2, <1>3, <1>4, <1>5

\* What a transaction leaves is an integer.
LEMMA NetInt ==
    ASSUME NEW H \in SUBSET Outputs, NEW t \in Txs
    PROVE  Net(H)[t] \in Int
<1>1. outputsOf(t) \cap H \in SUBSET Outputs /\ Tx[t].spends \cap H \in SUBSET Outputs
  BY LedgerAssumption
<1>2. Amount(outputsOf(t) \cap H) \in Int /\ Amount(Tx[t].spends \cap H) \in Int
  BY <1>1, AmountNat
<1> QED
  BY <1>2 DEF Net

\* One more or one less transaction that touches H.
LEMMA TouchingOne ==
    ASSUME NEW H \in SUBSET Outputs, NEW L \in SUBSET Txs, NEW t \in Txs, t \notin L,
           NEW J, J = L \cup {t}
    PROVE  LET T == Touching(H, L)
               V == Touching(H, J)
           IN  /\ IsFiniteSet(T) /\ Cardinality(T) \in Nat
               /\ SumFunctionOnSet(Net(H), T) \in Int
               /\ IF (outputsOf(t) \cup Tx[t].spends) \cap H # {}
                  THEN /\ Cardinality(V) = Cardinality(T) + 1
                       /\ SumFunctionOnSet(Net(H), V) = SumFunctionOnSet(Net(H), T) + Net(H)[t]
                  ELSE V = T
<1> DEFINE T == Touching(H, L)
           V == Touching(H, J)
<1>1. T \in SUBSET Txs /\ V \in SUBSET Txs /\ t \notin T
  BY DEF Touching
<1>2. IF (outputsOf(t) \cup Tx[t].spends) \cap H # {} THEN V = T \cup {t} ELSE V = T
  BY DEF Touching
<1> HIDE DEF T, V
<1>3. IsFiniteSet(T) /\ IsFiniteSet(V)
  BY <1>1, LedgerAssumption, FS_Subset
<1>4. Cardinality(T) \in Nat
  BY <1>3, FS_CardinalityType
<1>5. \A u \in Txs : Net(H)[u] \in Int
  BY NetInt
<1>6. SumFunctionOnSet(Net(H), T) \in Int
  BY <1>1, <1>3, <1>5, SumType
<1>7. ASSUME V = T \cup {t}
      PROVE  /\ Cardinality(V) = Cardinality(T) + 1
             /\ SumFunctionOnSet(Net(H), V) = SumFunctionOnSet(Net(H), T) + Net(H)[t]
  <2>1. Cardinality(V) = Cardinality(T) + 1
    BY <1>1, <1>3, <1>7, FS_AddElement
  <2>2. V \ {t} = T /\ t \in V
    BY <1>1, <1>7
  <2>3. SumFunctionOnSet(Net(H), V) = Net(H)[t] + SumFunctionOnSet(Net(H), T)
    BY <1>1, <1>3, <1>5, <2>2, SumRemove
  <2> QED
    BY <1>5, <1>6, <2>1, <2>3
<1> QED
  BY <1>2, <1>3, <1>4, <1>6, <1>7 DEF T, V

\* A row that counts no transaction has nothing that a transaction could spend.
LEMMA NoRowTouched ==
    ASSUME NEW H \in SUBSET Outputs, NEW L \in SUBSET Txs, NEW r, CountedRow(r, H, L), r = NoRow
    PROVE  \A o \in H : Out[o].tx \notin L
<1>1. Touching(H, L) \in SUBSET Txs
  BY DEF Touching
<1>2. IsFiniteSet(Touching(H, L))
  BY <1>1, LedgerAssumption, FS_Subset
<1>3. Cardinality(Touching(H, L)) = 0
  BY DEF CountedRow, NoRow
<1>4. Touching(H, L) = {}
  BY <1>2, <1>3, FS_EmptySet
<1> QED
  BY <1>4 DEF Touching, outputsOf

\* A credit counts the transaction in; the clamp of the INSERT never bites, since a
\* holder without a row has no live output to spend.
LEMMA CreditCounted ==
    ASSUME NEW H \in SUBSET Outputs, NEW L \in SUBSET Txs, NEW t \in Txs, t \notin L,
           (outputsOf(t) \cup Tx[t].spends) \cap H # {},
           \A o \in Tx[t].spends : Out[o].tx \in L,
           NEW M, NEW b, IsBalance(b, H, t, M),
           NEW r, CountedRow(r, H, L), NEW x
    PROVE  LET c == creditRow(r, b, x)
           IN  /\ CountedRow(c, H, L \cup {t})
               /\ c.unlocked = r.unlocked + b.unlocked /\ c.locked = r.locked + b.locked
               /\ c.received = r.received + b.received
<1> DEFINE c == creditRow(r, b, x)
<1>1. b.received \in Int /\ b.unlocked \in Int /\ b.locked \in Int /\ b.unlocked + b.locked = Net(H)[t]
  BY BalanceInts
<1>2. IsRow(r) /\ r.txs = Cardinality(Touching(H, L))
      /\ r.unlocked + r.locked = SumFunctionOnSet(Net(H), Touching(H, L))
  BY DEF CountedRow
<1>3. ~(r = NoRow /\ b.unlocked < 0)
  <2> SUFFICES ASSUME r = NoRow PROVE b.unlocked >= 0
    BY <1>1
  <2>1. Tx[t].spends \cap H = {}
    BY NoRowTouched
  <2>2. (outputsOf(t) \ M) \cap H \in SUBSET Outputs
    OBVIOUS
  <2>3. Amount((outputsOf(t) \ M) \cap H) \in Nat
    BY <2>2, AmountNat
  <2> QED
    BY <2>1, <2>3, AmountEmpty DEF IsBalance
<1>4. /\ c.unlocked = r.unlocked + b.unlocked /\ c.locked = r.locked + b.locked
      /\ c.received = r.received + b.received /\ c.txs = r.txs + 1
      /\ c = [unlocked |-> c.unlocked, locked |-> c.locked, received |-> c.received,
              uAuth |-> c.uAuth, lAuth |-> c.lAuth, txs |-> c.txs]
  BY <1>3 DEF creditRow
<1> HIDE DEF c
<1>5. IsRow(c)
  BY <1>1, <1>2, <1>4 DEF IsRow
<1>6. /\ Cardinality(Touching(H, L \cup {t})) = Cardinality(Touching(H, L)) + 1
      /\ SumFunctionOnSet(Net(H), Touching(H, L \cup {t}))
           = SumFunctionOnSet(Net(H), Touching(H, L)) + Net(H)[t]
  BY TouchingOne
<1>7. c.unlocked + c.locked = SumFunctionOnSet(Net(H), Touching(H, L)) + Net(H)[t]
  BY <1>1, <1>2, <1>4 DEF IsRow
<1>8. CountedRow(c, H, L \cup {t})
  BY <1>2, <1>4, <1>5, <1>6, <1>7 DEF CountedRow
<1> QED
  BY <1>4, <1>8 DEF c

\* A debit counts it out.
LEMMA DebitCounted ==
    ASSUME NEW H \in SUBSET Outputs, NEW J \in SUBSET Txs, NEW t \in Txs, t \notin J,
           NEW L, L = J \cup {t},
           (outputsOf(t) \cup Tx[t].spends) \cap H # {},
           NEW M, NEW b, IsBalance(b, H, t, M),
           NEW r, CountedRow(r, H, L), NEW x
    PROVE  LET c == debitRow(r, b, x)
           IN  /\ CountedRow(c, H, J)
               /\ c.unlocked = r.unlocked - b.unlocked /\ c.locked = r.locked - b.locked
               /\ c.received = r.received - b.received
<1> DEFINE c == debitRow(r, b, x)
<1>1. b.received \in Int /\ b.unlocked \in Int /\ b.locked \in Int /\ b.unlocked + b.locked = Net(H)[t]
  BY BalanceInts
<1>2. IsRow(r) /\ r.txs = Cardinality(Touching(H, L))
      /\ r.unlocked + r.locked = SumFunctionOnSet(Net(H), Touching(H, L))
  BY DEF CountedRow
<1>3. /\ Cardinality(Touching(H, J)) \in Nat /\ SumFunctionOnSet(Net(H), Touching(H, J)) \in Int
      /\ Cardinality(Touching(H, L)) = Cardinality(Touching(H, J)) + 1
      /\ SumFunctionOnSet(Net(H), Touching(H, L))
           = SumFunctionOnSet(Net(H), Touching(H, J)) + Net(H)[t]
  BY TouchingOne
<1>4. r # NoRow
  BY <1>2, <1>3 DEF NoRow
<1>5. /\ c.unlocked = r.unlocked - b.unlocked /\ c.locked = r.locked - b.locked
      /\ c.received = r.received - b.received /\ c.txs = r.txs - 1
      /\ c = [unlocked |-> c.unlocked, locked |-> c.locked, received |-> c.received,
              uAuth |-> c.uAuth, lAuth |-> c.lAuth, txs |-> c.txs]
  BY <1>4 DEF debitRow
<1> HIDE DEF c
<1>6. IsRow(c)
  BY <1>1, <1>2, <1>5 DEF IsRow
<1>7. c.unlocked + c.locked = (r.unlocked + r.locked) - Net(H)[t]
  BY <1>1, <1>2, <1>5 DEF IsRow
<1>8. Net(H)[t] \in Int
  BY NetInt
<1>9. CountedRow(c, H, J)
  BY <1>2, <1>3, <1>5, <1>6, <1>7, <1>8 DEF CountedRow
<1> QED
  BY <1>5, <1>9 DEF c

\* An unlock moves an amount and changes neither the count nor the sum, whatever S is.
LEMMA UnlockCounted ==
    ASSUME NEW H \in SUBSET Outputs, NEW L, NEW S \in SUBSET Outputs,
           NEW r, CountedRow(r, H, L), NEW x
    PROVE  LET c == unlockRow(r, S, x)
           IN  /\ CountedRow(c, H, L) /\ c.received = r.received
               /\ r # NoRow => /\ c.unlocked = r.unlocked + Amount(S)
                               /\ c.locked = r.locked - Amount(S)
               /\ r = NoRow => c = r
<1> DEFINE c == unlockRow(r, S, x)
<1>1. Amount(S) \in Int
  BY AmountNat
<1>2. IsRow(r) /\ r.txs = Cardinality(Touching(H, L))
      /\ r.unlocked + r.locked = SumFunctionOnSet(Net(H), Touching(H, L))
  BY DEF CountedRow
<1>3. CASE r = NoRow
  BY <1>3 DEF unlockRow
<1>4. CASE r # NoRow
  <2>1. /\ c.unlocked = r.unlocked + Amount(S) /\ c.locked = r.locked - Amount(S)
        /\ c.received = r.received /\ c.txs = r.txs
        /\ c = [unlocked |-> c.unlocked, locked |-> c.locked, received |-> c.received,
                uAuth |-> c.uAuth, lAuth |-> c.lAuth, txs |-> c.txs]
    <3> DEFINE ua == r.unlocked
               m == Amount(S)
               A == Authority(S)
    <3>1. c = [r EXCEPT !.unlocked = @ + m, !.locked = @ - m, !.uAuth = @ \cup A,
                        !.lAuth = IF A = {} THEN @ ELSE x]
      BY <1>4 DEF unlockRow
    <3> HIDE DEF m, A, c
    <3>2. r = [unlocked |-> r.unlocked, locked |-> r.locked, received |-> r.received,
               uAuth |-> r.uAuth, lAuth |-> r.lAuth, txs |-> r.txs]
      BY <1>2 DEF IsRow
    <3>3. c = [unlocked |-> r.unlocked + m, locked |-> r.locked - m, received |-> r.received,
               uAuth |-> r.uAuth \cup A, lAuth |-> IF A = {} THEN r.lAuth ELSE x, txs |-> r.txs]
      BY <3>1, <3>2
    <3> QED
      BY <3>3 DEF m
  <2> HIDE DEF c
  <2>2. IsRow(c) /\ c.unlocked + c.locked = r.unlocked + r.locked
    BY <1>1, <1>2, <2>1 DEF IsRow
  <2> QED
    BY <1>2, <1>4, <2>1, <2>2 DEF CountedRow, c
<1> QED
  BY <1>3, <1>4

\* A credit keeps a row equal to the outputs when it spends unlocked ones.
LEMMA CreditExact ==
    ASSUME NEW H \in SUBSET Outputs, NEW L \in SUBSET Txs, NEW t \in Txs, t \notin L,
           NEW U \in SUBSET Outputs, NEW K \in SUBSET U,
           Tx[t].spends \subseteq U \ K, outputsOf(t) \cap U = {},
           NEW M \in SUBSET outputsOf(t), NEW b, IsBalance(b, H, t, M),
           NEW r, ExactRow(r, H, L, U, K), NEW c,
           c.unlocked = r.unlocked + b.unlocked, c.locked = r.locked + b.locked,
           c.received = r.received + b.received
    PROVE  ExactRow(c, H, L \cup {t}, (U \ Tx[t].spends) \cup outputsOf(t), K \cup M)
<1> DEFINE outs == outputsOf(t)
           ins == Tx[t].spends
           U2 == (U \ ins) \cup outs
           K2 == K \cup M
<1>0. outs \subseteq Outputs /\ ins \subseteq Outputs
  BY LedgerAssumption DEF outputsOf
<1>1. c.received = Amount({o \in H : Out[o].tx \in L \cup {t}})
  <2> DEFINE A == {o \in H : Out[o].tx \in L}
             B == outs \cap H
             C == {o \in H : Out[o].tx \in L \cup {t}}
  <2>1. A \cup B = C /\ A \cap B = {} /\ C \in SUBSET Outputs
    BY DEF outputsOf
  <2>2. c.received = Amount(A) + Amount(B)
    BY DEF ExactRow, IsBalance
  <2> HIDE DEF A, B, C
  <2> QED
    BY <2>1, <2>2, AmountSplit DEF C
<1>2. c.locked = Amount(K2 \cap H)
  <2> DEFINE A == K \cap H
             B == outs \cap M \cap H
             C == K2 \cap H
  <2>1. A \cup B = C /\ A \cap B = {} /\ C \in SUBSET Outputs
    BY <1>0
  <2>2. c.locked = Amount(A) + Amount(B)
    BY DEF ExactRow, IsBalance
  <2> HIDE DEF A, B, C
  <2> QED
    BY <2>1, <2>2, AmountSplit DEF C
<1>3. c.unlocked = Amount((U2 \ K2) \cap H)
  <2> DEFINE A == (U \ K) \cap H
             B == (outs \ M) \cap H
             C == (U2 \ K2) \cap H
             D == ins \cap H
             E == ((U \ K) \ ins) \cap H
  <2>1. /\ E \cup D = A /\ E \cap D = {} /\ E \cup B = C /\ E \cap B = {}
        /\ A \in SUBSET Outputs /\ B \in SUBSET Outputs /\ C \in SUBSET Outputs
        /\ D \in SUBSET Outputs /\ E \in SUBSET Outputs
    BY <1>0
  <2>2. c.unlocked = Amount(A) + (Amount(B) - Amount(D))
    BY DEF ExactRow, IsBalance
  <2> HIDE DEF A, B, C, D, E
  <2>3. Amount(A) = Amount(E) + Amount(D) /\ Amount(C) = Amount(E) + Amount(B)
    BY <2>1, AmountSplit
  <2>4. Amount(A) \in Nat /\ Amount(B) \in Nat /\ Amount(D) \in Nat /\ Amount(E) \in Nat
    BY <2>1, AmountNat
  <2>5. c.unlocked = Amount(C)
    BY <2>2, <2>3, <2>4
  <2> QED
    BY <2>5 DEF C
<1> QED
  BY <1>1, <1>2, <1>3 DEF ExactRow

\* A debit keeps it when it voids unspent outputs, with the locks they still have.
LEMMA DebitExact ==
    ASSUME NEW H \in SUBSET Outputs, NEW J \in SUBSET Txs, NEW t \in Txs, t \notin J,
           NEW L, L = J \cup {t},
           NEW U \in SUBSET Outputs, NEW K \in SUBSET U,
           outputsOf(t) \subseteq U, Tx[t].spends \cap U = {},
           NEW M, M = outputsOf(t) \cap K, NEW b, IsBalance(b, H, t, M),
           NEW r, ExactRow(r, H, L, U, K), NEW c,
           c.unlocked = r.unlocked - b.unlocked, c.locked = r.locked - b.locked,
           c.received = r.received - b.received
    PROVE  ExactRow(c, H, J, (U \ outputsOf(t)) \cup Tx[t].spends, K \ outputsOf(t))
<1> DEFINE outs == outputsOf(t)
           ins == Tx[t].spends
           U2 == (U \ outs) \cup ins
           K2 == K \ outs
<1>0. outs \subseteq Outputs /\ ins \subseteq Outputs /\ outs \cap ins = {}
  BY LedgerAssumption DEF outputsOf
<1>1. c.received = Amount({o \in H : Out[o].tx \in J})
  <2> DEFINE A == {o \in H : Out[o].tx \in J}
             B == outs \cap H
             C == {o \in H : Out[o].tx \in L}
  <2>1. A \cup B = C /\ A \cap B = {} /\ C \in SUBSET Outputs /\ A \in SUBSET Outputs /\ B \in SUBSET Outputs
    BY DEF outputsOf
  <2>2. c.received = Amount(C) - Amount(B)
    BY DEF ExactRow, IsBalance
  <2> HIDE DEF A, B, C
  <2>3. Amount(C) = Amount(A) + Amount(B) /\ Amount(A) \in Nat /\ Amount(B) \in Nat
    BY <2>1, AmountSplit, AmountNat
  <2>4. c.received = Amount(A)
    BY <2>2, <2>3
  <2> QED
    BY <2>4 DEF A
<1>2. c.locked = Amount(K2 \cap H)
  <2> DEFINE A == K2 \cap H
             B == outs \cap M \cap H
             C == K \cap H
  <2>1. A \cup B = C /\ A \cap B = {} /\ C \in SUBSET Outputs /\ A \in SUBSET Outputs /\ B \in SUBSET Outputs
    BY <1>0
  <2>2. c.locked = Amount(C) - Amount(B)
    BY DEF ExactRow, IsBalance
  <2> HIDE DEF A, B, C
  <2>3. Amount(C) = Amount(A) + Amount(B) /\ Amount(A) \in Nat /\ Amount(B) \in Nat
    BY <2>1, AmountSplit, AmountNat
  <2>4. c.locked = Amount(A)
    BY <2>2, <2>3
  <2> QED
    BY <2>4 DEF A
<1>3. c.unlocked = Amount((U2 \ K2) \cap H)
  <2> DEFINE A == (U \ K) \cap H
             B == (outs \ M) \cap H
             C == (U2 \ K2) \cap H
             D == ins \cap H
             E == ((U \ K) \ outs) \cap H
  <2>1. /\ E \cup B = A /\ E \cap B = {} /\ E \cup D = C /\ E \cap D = {}
        /\ A \in SUBSET Outputs /\ B \in SUBSET Outputs /\ C \in SUBSET Outputs
        /\ D \in SUBSET Outputs /\ E \in SUBSET Outputs
    BY <1>0
  <2>2. c.unlocked = Amount(A) - (Amount(B) - Amount(D))
    BY DEF ExactRow, IsBalance
  <2> HIDE DEF A, B, C, D, E
  <2>3. Amount(A) = Amount(E) + Amount(B) /\ Amount(C) = Amount(E) + Amount(D)
    BY <2>1, AmountSplit
  <2>4. Amount(A) \in Nat /\ Amount(B) \in Nat /\ Amount(D) \in Nat /\ Amount(E) \in Nat
    BY <2>1, AmountNat
  <2>5. c.unlocked = Amount(C)
    BY <2>2, <2>3, <2>4
  <2> QED
    BY <2>5 DEF C
<1> QED
  BY <1>1, <1>2, <1>3 DEF ExactRow

\* An unlock keeps it when what it unlocks is unspent and locked.
LEMMA UnlockExact ==
    ASSUME NEW H \in SUBSET Outputs, NEW L,
           NEW U \in SUBSET Outputs, NEW K \in SUBSET U, NEW S \in SUBSET K,
           NEW r, ExactRow(r, H, L, U, K), NEW c,
           c.unlocked = r.unlocked + Amount(S \cap H), c.locked = r.locked - Amount(S \cap H),
           c.received = r.received
    PROVE  ExactRow(c, H, L, U, K \ S)
<1> DEFINE A == (U \ K) \cap H
           B == S \cap H
           C == (U \ (K \ S)) \cap H
           D == (K \ S) \cap H
           E == K \cap H
<1>1. /\ A \cup B = C /\ A \cap B = {} /\ D \cup B = E /\ D \cap B = {}
      /\ A \in SUBSET Outputs /\ B \in SUBSET Outputs /\ C \in SUBSET Outputs
      /\ D \in SUBSET Outputs /\ E \in SUBSET Outputs
  OBVIOUS
<1>2. c.unlocked = Amount(A) + Amount(B) /\ c.locked = Amount(E) - Amount(B)
  BY DEF ExactRow
<1>3. c.received = Amount({o \in H : Out[o].tx \in L})
  BY DEF ExactRow
<1> HIDE DEF A, B, C, D, E
<1>4. Amount(C) = Amount(A) + Amount(B)
  BY <1>1, AmountSplit
<1>5. Amount(E) = Amount(D) + Amount(B)
  BY <1>1, AmountSplit
<1>6. Amount(D) \in Nat /\ Amount(B) \in Nat
  BY <1>1, AmountNat
<1>7. c.unlocked = Amount(C) /\ c.locked = Amount(D)
  BY <1>2, <1>4, <1>5, <1>6
<1> QED
  BY <1>3, <1>7 DEF ExactRow, C, D

---------------------------------------------------------------------------
(* The outputs of an address and token, and of a wallet and token. *)

PairOutputs(p) == {o \in Outputs : pairOf(o) = p}
WalletOutputs(w) == {o \in Outputs : walletPairOf(o) = w}

\* At and OfWallet are intersections with the outputs of the holder.
LEMMA Holders ==
    ASSUME NEW S \in SUBSET Outputs, NEW p
    PROVE  At(S, p) = S \cap PairOutputs(p) /\ OfWallet(S, p) = S \cap WalletOutputs(p)
  BY DEF At, OfWallet, PairOutputs, WalletOutputs

\* The pairs of a transaction are those whose outputs it creates or spends,
LEMMA PairTouches ==
    ASSUME NEW t \in Txs
    PROVE  /\ \A p \in AddressPairs :
                  p \in pairsOf(t) <=> (outputsOf(t) \cup Tx[t].spends) \cap PairOutputs(p) # {}
           /\ pairsOf(t) \subseteq AddressPairs
           /\ IsFiniteSet(pairsOf(t))
<1> DEFINE S == outputsOf(t) \cup Tx[t].spends
<1>1. S \in SUBSET Outputs
  BY LedgerAssumption DEF outputsOf
<1>2. pairsOf(t) = {pairOf(o) : o \in S}
  BY DEF pairsOf
<1>3. \A o \in Outputs : pairOf(o) \in AddressPairs
  BY LedgerAssumption DEF pairOf, AddressPairs
<1>4. IsFiniteSet(S)
  BY <1>1, LedgerAssumption, FS_Subset
<1>5. IsFiniteSet(pairsOf(t))
  <2> DEFINE f == [o \in S |-> pairOf(o)]
             T == {pairOf(o) : o \in S}
  <2>1. f \in [S -> T] /\ \A y \in T : \E x \in S : f[x] = y
    OBVIOUS
  <2>2. f \in Surjection(S, T)
    <3> HIDE DEF f, T
    <3> QED
      BY <2>1 DEF Surjection
  <2> HIDE DEF f, T, S
  <2>3. IsFiniteSet(T)
    BY <1>4, <2>2, FS_Surjection
  <2> QED
    BY <1>2, <2>3 DEF T
<1>6. \A p \in AddressPairs : p \in pairsOf(t) <=> S \cap PairOutputs(p) # {}
  BY <1>1, <1>2 DEF PairOutputs
<1> QED
  BY <1>1, <1>2, <1>3, <1>5, <1>6

\* and so are its wallets and tokens.
LEMMA WalletTouches ==
    ASSUME NEW t \in Txs
    PROVE  \A w \in WalletPairs :
               w \in walletPairsOf(t) <=> (outputsOf(t) \cup Tx[t].spends) \cap WalletOutputs(w) # {}
<1> DEFINE S == outputsOf(t) \cup Tx[t].spends
<1>1. S \in SUBSET Outputs
  BY LedgerAssumption DEF outputsOf
<1>2. pairsOf(t) = {pairOf(o) : o \in S}
  BY DEF pairsOf
<1>3. \A o \in S : <<Owner[pairOf(o)[1]], pairOf(o)[2]>> = walletPairOf(o)
  BY DEF pairOf, walletPairOf
<1>4. \A w : w \in {<<Owner[p[1]], p[2]>> : p \in pairsOf(t)} <=> \E o \in S : walletPairOf(o) = w
  BY <1>2, <1>3
<1> QED
  BY <1>1, <1>4 DEF walletPairsOf, WalletOutputs

\* getUnifiedBalanceMap is the balance of its pair,
LEMMA AddressBalance ==
    ASSUME NEW t \in Txs, NEW p, NEW M
    PROVE  IsBalance(getUnifiedBalanceMap(t, p, M), PairOutputs(p), t, M)
<1> DEFINE outs == At(outputsOf(t), p)
           ins == At(Tx[t].spends, p)
           b == getUnifiedBalanceMap(t, p, M)
<1>1. /\ b.received = Amount(outs) /\ b.unlocked = Amount(outs \ M) - Amount(ins)
      /\ b.locked = Amount(outs \cap M)
  BY DEF getUnifiedBalanceMap
<1>2. outputsOf(t) \in SUBSET Outputs /\ Tx[t].spends \in SUBSET Outputs
  BY LedgerAssumption DEF outputsOf
<1>3. /\ outs = outputsOf(t) \cap PairOutputs(p) /\ ins = Tx[t].spends \cap PairOutputs(p)
      /\ outs \ M = (outputsOf(t) \ M) \cap PairOutputs(p)
      /\ outs \cap M = outputsOf(t) \cap M \cap PairOutputs(p)
  BY <1>2 DEF At, PairOutputs
<1> HIDE DEF outs, ins, b
<1> QED
  BY <1>1, <1>3, Zenon DEF IsBalance, b

\* The sum of a function is the sum over its domain.
LEMMA SumFunctionIsOnDomain ==
    ASSUME NEW f
    PROVE  SumFunction(f) = SumFunctionOnSet(f, DOMAIN f)
  BY DEF SumFunction, SumFunctionOnSet, FoldFunction

\* What a wallet holds of S is what the pairs A of its addresses hold.
PerPair(f, A, S, w) ==
    /\ IsFiniteSet(A) /\ DOMAIN f = A /\ S \in SUBSET Outputs
    /\ \A o \in S \cap WalletOutputs(w) : pairOf(o) \in A
    /\ \A p \in A : <<Owner[p[1]], p[2]>> = w
    /\ \A p \in A : f[p] = Amount(S \cap PairOutputs(p))

\* Summed pair by pair, what a wallet holds of S.
LEMMA AmountByPair ==
    ASSUME NEW f, NEW A, NEW S, NEW w, PerPair(f, A, S, w)
    PROVE  SumFunction(f) = Amount(S \cap WalletOutputs(w))
<1> USE DEF PerPair
<1> DEFINE v == [o \in Outputs |-> Out[o].value]
           T == S \cap WalletOutputs(w)
           key == [o \in Outputs |-> pairOf(o)]
           g == [p \in A |-> SumFunctionOnSet(v, {o \in T : key[o] = p})]
<1>1. T \in SUBSET Outputs /\ (\A o \in T : v[o] \in Int) /\ \A o \in T : key[o] \in A
  BY LedgerAssumption
<1>2. IsFiniteSet(T)
  BY <1>1, AmountNat
<1>3. SumFunctionOnSet(v, T) = Amount(T)
  BY DEF Amount
<1>4. ASSUME NEW p \in A
      PROVE  {o \in T : key[o] = p} = S \cap PairOutputs(p)
  <2>1. \A o \in S : pairOf(o) = p => walletPairOf(o) = w
    BY <1>4 DEF pairOf, walletPairOf
  <2> QED
    BY <2>1 DEF PairOutputs, WalletOutputs
<1>5. \A p \in A : g[p] = f[p]
  BY <1>4 DEF Amount
<1>6. \A p \in A : f[p] \in Int
  <2> SUFFICES ASSUME NEW p \in A PROVE f[p] \in Int
    OBVIOUS
  <2>1. S \cap PairOutputs(p) \in SUBSET Outputs
    OBVIOUS
  <2>2. Amount(S \cap PairOutputs(p)) \in Nat
    BY <2>1, AmountNat
  <2> QED
    BY <2>2
<1> HIDE DEF v, T, key
<1>7. SumFunctionOnSet(g, A) = Amount(T)
  BY <1>1, <1>2, <1>3, SumByKey
<1> HIDE DEF g
<1>8. SumFunctionOnSet(f, A) = SumFunctionOnSet(g, A)
  BY <1>5, <1>6, SumSame
<1>9. SumFunction(f) = SumFunctionOnSet(f, A)
  BY SumFunctionIsOnDomain
<1> QED
  BY <1>7, <1>8, <1>9 DEF T

\* and getWalletBalanceMap the balance of its wallet.
LEMMA WalletBalance ==
    ASSUME NEW t \in Txs, NEW w, NEW M
    PROVE  IsBalance(getWalletBalanceMap(t, w, M), WalletOutputs(w), t, M)
<1> DEFINE A == {p \in pairsOf(t) : <<Owner[p[1]], p[2]>> = w}
           B(p) == getUnifiedBalanceMap(t, p, M)
           b == getWalletBalanceMap(t, w, M)
           outs == outputsOf(t)
           ins == Tx[t].spends
           W == WalletOutputs(w)
           r == [p \in A |-> B(p).received]
           u == [p \in A |-> B(p).unlocked]
           l == [p \in A |-> B(p).locked]
           i == [p \in A |-> Amount(ins \cap PairOutputs(p))]
           n == [p \in A |-> Amount((outs \ M) \cap PairOutputs(p))]
<1>1. b.received = SumFunction(r) /\ b.unlocked = SumFunction(u) /\ b.locked = SumFunction(l)
  BY DEF getWalletBalanceMap
<1>2. outs \in SUBSET Outputs /\ ins \in SUBSET Outputs
  BY LedgerAssumption DEF outputsOf
<1>3. /\ \A o \in outs \cap W : pairOf(o) \in A
      /\ \A o \in ins \cap W : pairOf(o) \in A
  BY DEF pairsOf, pairOf, WalletOutputs, walletPairOf
<1>4. IsFiniteSet(A) /\ \A p \in A : <<Owner[p[1]], p[2]>> = w
  BY PairTouches, FS_Subset
<1>5. \A p \in A : /\ r[p] = Amount(outs \cap PairOutputs(p))
                   /\ u[p] = n[p] - i[p]
                   /\ l[p] = Amount((outs \cap M) \cap PairOutputs(p))
  <2> SUFFICES ASSUME NEW p \in A
               PROVE  /\ B(p).received = Amount(outs \cap PairOutputs(p))
                      /\ B(p).unlocked = n[p] - i[p]
                      /\ B(p).locked = Amount((outs \cap M) \cap PairOutputs(p))
    OBVIOUS
  <2> QED
    BY AddressBalance DEF IsBalance
<1> DEFINE om == outs \cap M
           ox == outs \ M
<1>6. om \in SUBSET Outputs /\ ox \in SUBSET Outputs /\ om \subseteq outs /\ ox \subseteq outs
  BY <1>2
<1>7. DOMAIN r = A /\ DOMAIN u = A /\ DOMAIN l = A /\ DOMAIN i = A /\ DOMAIN n = A
  OBVIOUS
<1>8. \A p \in A : n[p] = Amount(ox \cap PairOutputs(p))
  BY <1>5
<1>81. \A p \in A : i[p] = Amount(ins \cap PairOutputs(p))
  BY <1>5
<1>82. \A p \in A : r[p] = Amount(outs \cap PairOutputs(p))
  BY <1>5
<1>83. \A p \in A : l[p] = Amount(om \cap PairOutputs(p))
  BY <1>5
<1>84. \A p \in A : u[p] = n[p] - i[p]
  BY <1>5
<1>9. \A p \in A : n[p] \in Int /\ i[p] \in Int
  <2> SUFFICES ASSUME NEW p \in A PROVE n[p] \in Int /\ i[p] \in Int
    OBVIOUS
  <2>1. ox \cap PairOutputs(p) \in SUBSET Outputs /\ ins \cap PairOutputs(p) \in SUBSET Outputs
    BY <1>2
  <2>2. Amount(ox \cap PairOutputs(p)) \in Nat /\ Amount(ins \cap PairOutputs(p)) \in Nat
    BY <2>1, AmountNat
  <2> QED
    BY <1>8, <1>81, <2>2
<1>91. /\ \A o \in om \cap WalletOutputs(w) : pairOf(o) \in A
       /\ \A o \in ox \cap WalletOutputs(w) : pairOf(o) \in A
  BY <1>3
<1> HIDE DEF r, u, l, i, n, A, om, ox, b, B, outs, ins
<1>10. SumFunction(r) = Amount(outs \cap W)
  <2>1. PerPair(r, A, outs, w)
    BY <1>2, <1>3, <1>4, <1>7, <1>82 DEF PerPair
  <2> QED
    BY <2>1, AmountByPair
<1>11. SumFunction(l) = Amount(om \cap W)
  <2>1. PerPair(l, A, om, w)
    BY <1>91, <1>4, <1>6, <1>7, <1>83 DEF PerPair
  <2> QED
    BY <2>1, AmountByPair
<1>12. SumFunction(n) = Amount(ox \cap W)
  <2>1. PerPair(n, A, ox, w)
    BY <1>91, <1>4, <1>6, <1>7, <1>8 DEF PerPair
  <2> QED
    BY <2>1, AmountByPair
<1>13. SumFunction(i) = Amount(ins \cap W)
  <2>1. PerPair(i, A, ins, w)
    BY <1>2, <1>3, <1>4, <1>7, <1>81 DEF PerPair
  <2> QED
    BY <2>1, AmountByPair
<1>14. SumFunction(u) = SumFunction(n) - SumFunction(i)
  <2>1. \A p \in A : u[p] \in Int /\ i[p] \in Int /\ n[p] = u[p] + i[p]
    BY <1>84, <1>9
  <2>2. SumFunctionOnSet(n, A) = SumFunctionOnSet(u, A) + SumFunctionOnSet(i, A)
    BY <1>4, <2>1, SumPlus
  <2>3. SumFunctionOnSet(u, A) \in Int /\ SumFunctionOnSet(i, A) \in Int
    BY <1>4, <2>1, SumType
  <2>4. /\ SumFunction(n) = SumFunctionOnSet(n, A) /\ SumFunction(u) = SumFunctionOnSet(u, A)
        /\ SumFunction(i) = SumFunctionOnSet(i, A)
    BY <1>7, SumFunctionIsOnDomain
  <2> QED
    BY <2>2, <2>3, <2>4
<1> QED
  BY <1>1, <1>10, <1>11, <1>12, <1>13, <1>14 DEF IsBalance, om, ox, b, outs, ins

---------------------------------------------------------------------------
(* What each statement does to balances, history and counters. *)

\* A statement on one table leaves the four of balances, history and counts as they were.
LEMMA SetTables ==
    ASSUME NEW d, Database(d), NEW T
    PROVE  /\ LET e == [d EXCEPT !.tx = T]
              IN  /\ e.addressBalance = d.addressBalance /\ e.walletBalance = d.walletBalance
                  /\ e.history = d.history /\ e.involved = d.involved
           /\ LET e == [d EXCEPT !.txo = T]
              IN  /\ e.addressBalance = d.addressBalance /\ e.walletBalance = d.walletBalance
                  /\ e.history = d.history /\ e.involved = d.involved
           /\ LET e == [d EXCEPT !.addressBalance = T]
              IN  /\ e.addressBalance = T /\ e.walletBalance = d.walletBalance
                  /\ e.history = d.history /\ e.involved = d.involved
           /\ LET e == [d EXCEPT !.walletBalance = T]
              IN  /\ e.addressBalance = d.addressBalance /\ e.walletBalance = T
                  /\ e.history = d.history /\ e.involved = d.involved
           /\ LET e == [d EXCEPT !.history = T]
              IN  /\ e.addressBalance = d.addressBalance /\ e.walletBalance = d.walletBalance
                  /\ e.history = T /\ e.involved = d.involved
           /\ LET e == [d EXCEPT !.involved = T]
              IN  /\ e.addressBalance = d.addressBalance /\ e.walletBalance = d.walletBalance
                  /\ e.history = d.history /\ e.involved = T
  BY DEF Database

\* The statements that change no balance, count or history.
SameBalances(d, e) ==
    /\ e.addressBalance = d.addressBalance /\ e.walletBalance = d.walletBalance
    /\ e.history = d.history /\ e.involved = d.involved

\* The statements on transactions and outputs change none of the four.
LEMMA OutputStatements ==
    ASSUME NEW d, Database(d), NEW t \in Txs
    PROVE  /\ SameBalances(d, addOrUpdateTx(d, t)) /\ SameBalances(d, voidTransaction(d, t))
           /\ SameBalances(d, addUtxos(d, t)) /\ SameBalances(d, updateTxOutputSpentBy(d, t))
           /\ SameBalances(d, markUtxosAsVoided(d, t)) /\ SameBalances(d, unspendUtxos(d, t))
           /\ SameBalances(d, cleanupVoidedTx(d, t))
<1>1. SameBalances(d, addOrUpdateTx(d, t)) /\ SameBalances(d, voidTransaction(d, t))
  BY DEF Database, SameBalances, addOrUpdateTx, voidTransaction
<1>2. SameBalances(d, addUtxos(d, t)) /\ SameBalances(d, updateTxOutputSpentBy(d, t))
  BY SetTables DEF SameBalances, addUtxos, updateTxOutputSpentBy
<1>3. SameBalances(d, markUtxosAsVoided(d, t)) /\ SameBalances(d, unspendUtxos(d, t))
  BY SetTables DEF SameBalances, markUtxosAsVoided, unspendUtxos
<1>4. SameBalances(d, cleanupVoidedTx(d, t))
  <2> DEFINE X == [d.tx EXCEPT ![t] = IF d.tx[t] = "voided" THEN "absent" ELSE d.tx[t]]
             d1 == [d EXCEPT !.tx = X]
  <2>1. X \in [Txs -> Statuses]
    BY DEF Database, Statuses
  <2> HIDE DEF X
  <2>2. Database(d1) /\ SameBalances(d, d1)
    BY <2>1, SetTx, SetTables DEF SameBalances
  <2> HIDE DEF d1
  <2>3. SameBalances(d1, deleteVoidedOutputs(d1, t))
    BY <2>2, SetTables DEF SameBalances, deleteVoidedOutputs
  <2>4. cleanupVoidedTx(d, t) = deleteVoidedOutputs(d1, t)
    BY DEF cleanupVoidedTx, d1, X
  <2> QED
    BY <2>2, <2>3, <2>4 DEF SameBalances
<1> QED
  BY <1>1, <1>2, <1>3, <1>4

\* Unlocking the outputs S.
UnlockedTables(d, e, S) ==
    /\ \A o \in Outputs : e.txo[o].locked <=> d.txo[o].locked /\ o \notin S
    /\ \A p \in AddressPairs : \E x : e.addressBalance[p] = unlockRow(d.addressBalance[p], At(S, p), x)
    /\ \A w \in WalletPairs : \E x : e.walletBalance[w] = unlockRow(d.walletBalance[w], OfWallet(S, w), x)
    /\ e.history = d.history /\ e.involved = d.involved

\* unlockUtxos unlocks S and moves its amount in both balance tables.
LEMMA UnlockTables ==
    ASSUME NEW d, Database(d), NEW S
    PROVE  UnlockedTables(d, unlockUtxos(d, S), S)
<1> DEFINE T == [o \in Outputs |-> IF o \in S THEN [d.txo[o] EXCEPT !.locked = FALSE] ELSE d.txo[o]]
           d1 == dbUnlockUtxos(d, S)
           d2 == updateAddressLockedBalance(d1, S)
           d3 == updateWalletLockedBalance(d2, S)
<1>1. T \in [Outputs -> OutputRows] /\ \A o \in Outputs : T[o].locked <=> d.txo[o].locked /\ o \notin S
  BY DEF Database, OutputRows
<1>2. d1 = [d EXCEPT !.txo = T]
  BY DEF dbUnlockUtxos
<1> HIDE DEF T, d1
<1>3. Database(d1) /\ d1.txo = T /\ SameBalances(d, d1)
  BY <1>1, <1>2, SetTxo, SetTables DEF SameBalances
<1> DEFINE TA == [p \in AddressPairs |->
                     unlockRow(d1.addressBalance[p], At(S, p),
                               Authority(At({o \in unspentRows(d1) : d1.txo[o].locked}, p)))]
<1>21. d2 = [d1 EXCEPT !.addressBalance = TA]
  BY DEF updateAddressLockedBalance
<1>22. \A p \in AddressPairs : \E x : TA[p] = unlockRow(d1.addressBalance[p], At(S, p), x)
  OBVIOUS
<1> HIDE DEF d2, TA
<1>4. /\ Database(d2) /\ d2.txo = T /\ d2.walletBalance = d1.walletBalance
      /\ d2.history = d1.history /\ d2.involved = d1.involved
      /\ d2.addressBalance = TA
  <2>1. Database(d2) /\ d2.txo = T
    BY <1>3, <1>21, SetOthers
  <2>2. /\ d2.walletBalance = d1.walletBalance /\ d2.addressBalance = TA
        /\ d2.history = d1.history /\ d2.involved = d1.involved
    BY <1>3, <1>21, SetTables
  <2> QED
    BY <2>1, <2>2
<1> DEFINE TW == [w \in WalletPairs |->
                     unlockRow(d2.walletBalance[w], OfWallet(S, w),
                               UNION {d2.addressBalance[<<a, w[2]>>].lAuth : a \in AddressesOf(w[1])})]
<1>41. d3 = [d2 EXCEPT !.walletBalance = TW]
  BY DEF updateWalletLockedBalance
<1>42. \A w \in WalletPairs : \E x : TW[w] = unlockRow(d2.walletBalance[w], OfWallet(S, w), x)
  <2> SUFFICES ASSUME NEW w \in WalletPairs
               PROVE  \E x : TW[w] = unlockRow(d2.walletBalance[w], OfWallet(S, w), x)
    OBVIOUS
  <2> WITNESS UNION {d2.addressBalance[<<a, w[2]>>].lAuth : a \in AddressesOf(w[1])}
  <2> QED
    OBVIOUS
<1> HIDE DEF d3, TW
<1>5. /\ d3.txo = T /\ d3.addressBalance = d2.addressBalance
      /\ d3.history = d1.history /\ d3.involved = d1.involved
      /\ d3.walletBalance = TW
  BY <1>4, <1>41, SetOthers, SetTables
<1>6. unlockUtxos(d, S) = d3
  BY DEF unlockUtxos, d1, d2, d3
<1>7. \A p \in AddressPairs : \E x : d3.addressBalance[p] = unlockRow(d.addressBalance[p], At(S, p), x)
  BY <1>3, <1>4, <1>5, <1>22 DEF SameBalances
<1>8. \A w \in WalletPairs : \E x : d3.walletBalance[w] = unlockRow(d.walletBalance[w], OfWallet(S, w), x)
  BY <1>3, <1>4, <1>42, <1>5 DEF SameBalances
<1> QED
  BY <1>1, <1>3, <1>5, <1>6, <1>7, <1>8 DEF UnlockedTables, SameBalances

\* The history rows of a transaction: what it leaves to each of its holders.
AddressRows(t) == {[holder |-> p, tx |-> t, balance |-> Net(PairOutputs(p))[t]] : p \in pairsOf(t)}
WalletRows(t) ==
    {[holder |-> w, tx |-> t, balance |-> Net(WalletOutputs(w))[t]] : w \in walletPairsOf(t)}

\* The row r of a holder becomes c, if t touches it.
Credited(r, c, b, touched) == IF touched THEN \E x : c = creditRow(r, b, x) ELSE c = r
Debited(r, c, b, touched) == IF touched THEN \E x : c = debitRow(r, b, x) ELSE c = r

\* The rows inserted into the histories hold what the transaction leaves, locked or not.
LEMMA NewRows ==
    ASSUME NEW t \in Txs, NEW M
    PROVE  /\ {[holder |-> p, tx |-> t, balance |-> getUnifiedBalanceMap(t, p, M).unlocked
                                                  + getUnifiedBalanceMap(t, p, M).locked] : p \in pairsOf(t)}
                = AddressRows(t)
           /\ {[holder |-> w, tx |-> t, balance |-> getWalletBalanceMap(t, w, M).unlocked
                                                  + getWalletBalanceMap(t, w, M).locked] : w \in walletPairsOf(t)}
                = WalletRows(t)
<1>1. \A p : getUnifiedBalanceMap(t, p, M).unlocked + getUnifiedBalanceMap(t, p, M).locked
                 = Net(PairOutputs(p))[t]
  <2> SUFFICES ASSUME NEW p
               PROVE  getUnifiedBalanceMap(t, p, M).unlocked + getUnifiedBalanceMap(t, p, M).locked
                          = Net(PairOutputs(p))[t]
    OBVIOUS
  <2>1. PairOutputs(p) \in SUBSET Outputs
    BY DEF PairOutputs
  <2> QED
    BY <2>1, AddressBalance, BalanceInts
<1>2. \A w : getWalletBalanceMap(t, w, M).unlocked + getWalletBalanceMap(t, w, M).locked
                 = Net(WalletOutputs(w))[t]
  <2> SUFFICES ASSUME NEW w
               PROVE  getWalletBalanceMap(t, w, M).unlocked + getWalletBalanceMap(t, w, M).locked
                          = Net(WalletOutputs(w))[t]
    OBVIOUS
  <2>1. WalletOutputs(w) \in SUBSET Outputs
    BY DEF WalletOutputs
  <2> QED
    BY <2>1, WalletBalance, BalanceInts
<1> QED
  BY <1>1, <1>2 DEF AddressRows, WalletRows

\* updateAddressTablesWithTx,
LEMMA AddressTables ==
    ASSUME NEW d, Database(d), NEW t \in Txs, NEW M
    PROVE  LET e == updateAddressTablesWithTx(d, t, M)
           IN  /\ Database(e) /\ e.tx = d.tx /\ e.txo = d.txo
               /\ e.walletBalance = d.walletBalance /\ e.involved = d.involved
               /\ e.history = d.history \cup AddressRows(t)
               /\ \A p \in AddressPairs :
                      Credited(d.addressBalance[p], e.addressBalance[p],
                               getUnifiedBalanceMap(t, p, M), p \in pairsOf(t))
<1> DEFINE TA == [p \in AddressPairs |->
                     IF p \in pairsOf(t)
                     THEN creditRow(d.addressBalance[p], getUnifiedBalanceMap(t, p, M), unlockedAuthority(d, p))
                     ELSE d.addressBalance[p]]
           d1 == creditAddresses(d, t, M)
           R == {[holder |-> p, tx |-> t, balance |-> getUnifiedBalanceMap(t, p, M).unlocked
                                                    + getUnifiedBalanceMap(t, p, M).locked] : p \in pairsOf(t)}
           e == insertHistory(d1, R)
<1>1. d1 = [d EXCEPT !.addressBalance = TA]
  BY DEF creditAddresses
<1>2. \A p \in AddressPairs :
          Credited(d.addressBalance[p], TA[p], getUnifiedBalanceMap(t, p, M), p \in pairsOf(t))
  BY DEF Credited
<1>3. updateAddressTablesWithTx(d, t, M) = e
  BY DEF updateAddressTablesWithTx
<1>4. R = AddressRows(t)
  BY NewRows
<1> HIDE DEF TA, d1, R
<1>5. Database(d1) /\ d1.tx = d.tx /\ d1.txo = d.txo
  BY <1>1, SetOthers
<1>6. /\ d1.walletBalance = d.walletBalance /\ d1.involved = d.involved
      /\ d1.history = d.history /\ d1.addressBalance = TA
  BY <1>1, SetTables
<1>7. e = [d1 EXCEPT !.history = d.history \cup R]
  BY <1>6 DEF insertHistory
<1> HIDE DEF e
<1>8. Database(e) /\ e.tx = d.tx /\ e.txo = d.txo
  BY <1>5, <1>7, SetOthers
<1>9. /\ e.walletBalance = d.walletBalance /\ e.involved = d.involved
      /\ e.history = d.history \cup R /\ e.addressBalance = TA
  BY <1>5, <1>6, <1>7, SetTables
<1> QED
  BY <1>2, <1>3, <1>4, <1>8, <1>9

\* updateWalletTablesWithTx,
LEMMA WalletTables ==
    ASSUME NEW d, Database(d), NEW t \in Txs, NEW M
    PROVE  LET e == updateWalletTablesWithTx(d, t, M)
           IN  /\ Database(e) /\ e.tx = d.tx /\ e.txo = d.txo
               /\ e.addressBalance = d.addressBalance /\ e.involved = d.involved
               /\ e.history = d.history \cup WalletRows(t)
               /\ \A w \in WalletPairs :
                      Credited(d.walletBalance[w], e.walletBalance[w],
                               getWalletBalanceMap(t, w, M), w \in walletPairsOf(t))
<1> DEFINE TW == [w \in WalletPairs |->
                     IF w \in walletPairsOf(t)
                     THEN creditRow(d.walletBalance[w], getWalletBalanceMap(t, w, M), walletAuthority(d, w))
                     ELSE d.walletBalance[w]]
           d1 == creditWallets(d, t, M)
           R == {[holder |-> w, tx |-> t, balance |-> getWalletBalanceMap(t, w, M).unlocked
                                                    + getWalletBalanceMap(t, w, M).locked] : w \in walletPairsOf(t)}
           e == insertHistory(d1, R)
<1>1. d1 = [d EXCEPT !.walletBalance = TW]
  BY DEF creditWallets
<1>2. \A w \in WalletPairs :
          Credited(d.walletBalance[w], TW[w], getWalletBalanceMap(t, w, M), w \in walletPairsOf(t))
  BY DEF Credited
<1>3. updateWalletTablesWithTx(d, t, M) = e
  BY DEF updateWalletTablesWithTx
<1>4. R = WalletRows(t)
  BY NewRows
<1> HIDE DEF TW, d1, R
<1>5. Database(d1) /\ d1.tx = d.tx /\ d1.txo = d.txo
  BY <1>1, SetOthers
<1>6. /\ d1.addressBalance = d.addressBalance /\ d1.involved = d.involved
      /\ d1.history = d.history /\ d1.walletBalance = TW
  BY <1>1, SetTables
<1>7. e = [d1 EXCEPT !.history = d.history \cup R]
  BY <1>6 DEF insertHistory
<1> HIDE DEF e
<1>8. Database(e) /\ e.tx = d.tx /\ e.txo = d.txo
  BY <1>5, <1>7, SetOthers
<1>9. /\ e.addressBalance = d.addressBalance /\ e.involved = d.involved
      /\ e.history = d.history \cup R /\ e.walletBalance = TW
  BY <1>5, <1>6, <1>7, SetTables
<1> QED
  BY <1>2, <1>3, <1>4, <1>8, <1>9

\* voidAddressTransaction
LEMMA VoidedAddressTables ==
    ASSUME NEW d, Database(d), NEW t \in Txs, NEW M
    PROVE  LET e == voidAddressTransaction(d, t, M)
           IN  /\ Database(e) /\ e.tx = d.tx /\ e.txo = d.txo
               /\ e.walletBalance = d.walletBalance /\ e.involved = d.involved
               /\ e.history = {h \in d.history : ~(h.tx = t /\ h.holder \in AddressPairs)}
               /\ \A p \in AddressPairs :
                      Debited(d.addressBalance[p], e.addressBalance[p],
                              getUnifiedBalanceMap(t, p, M), p \in pairsOf(t))
<1> DEFINE TA == [p \in AddressPairs |->
                     IF p \in pairsOf(t)
                     THEN debitRow(d.addressBalance[p], getUnifiedBalanceMap(t, p, M), unlockedAuthority(d, p))
                     ELSE d.addressBalance[p]]
           d1 == debitAddresses(d, t, M)
           R == {h \in d.history : ~(h.tx = t /\ h.holder \in AddressPairs)}
           e == deleteHistory(d1, t, AddressPairs)
<1>1. d1 = [d EXCEPT !.addressBalance = TA]
  BY DEF debitAddresses
<1>2. \A p \in AddressPairs :
          Debited(d.addressBalance[p], TA[p], getUnifiedBalanceMap(t, p, M), p \in pairsOf(t))
  BY DEF Debited
<1>3. voidAddressTransaction(d, t, M) = e
  BY DEF voidAddressTransaction
<1> HIDE DEF TA, d1
<1>5. Database(d1) /\ d1.tx = d.tx /\ d1.txo = d.txo
  BY <1>1, SetOthers
<1>6. /\ d1.walletBalance = d.walletBalance /\ d1.involved = d.involved
      /\ d1.history = d.history /\ d1.addressBalance = TA
  BY <1>1, SetTables
<1>7. e = [d1 EXCEPT !.history = R]
  BY <1>6 DEF deleteHistory
<1> HIDE DEF e, R
<1>8. Database(e) /\ e.tx = d.tx /\ e.txo = d.txo
  BY <1>5, <1>7, SetOthers
<1>9. /\ e.walletBalance = d.walletBalance /\ e.involved = d.involved
      /\ e.history = R /\ e.addressBalance = TA
  BY <1>5, <1>6, <1>7, SetTables
<1> QED
  BY <1>2, <1>3, <1>8, <1>9 DEF R

\* and voidWalletTransaction, table by table.
LEMMA VoidedWalletTables ==
    ASSUME NEW d, Database(d), NEW t \in Txs, NEW M
    PROVE  LET e == voidWalletTransaction(d, t, M)
           IN  /\ Database(e) /\ e.tx = d.tx /\ e.txo = d.txo
               /\ e.addressBalance = d.addressBalance /\ e.involved = d.involved
               /\ e.history = {h \in d.history : ~(h.tx = t /\ h.holder \in WalletPairs)}
               /\ \A w \in WalletPairs :
                      Debited(d.walletBalance[w], e.walletBalance[w],
                              getWalletBalanceMap(t, w, M), w \in walletPairsOf(t))
<1> DEFINE TW == [w \in WalletPairs |->
                     IF w \in walletPairsOf(t)
                     THEN debitRow(d.walletBalance[w], getWalletBalanceMap(t, w, M), walletAuthority(d, w))
                     ELSE d.walletBalance[w]]
           d1 == debitWallets(d, t, M)
           R == {h \in d.history : ~(h.tx = t /\ h.holder \in WalletPairs)}
           e == deleteHistory(d1, t, WalletPairs)
<1>1. d1 = [d EXCEPT !.walletBalance = TW]
  BY DEF debitWallets
<1>2. \A w \in WalletPairs :
          Debited(d.walletBalance[w], TW[w], getWalletBalanceMap(t, w, M), w \in walletPairsOf(t))
  BY DEF Debited
<1>3. voidWalletTransaction(d, t, M) = e
  BY DEF voidWalletTransaction
<1> HIDE DEF TW, d1
<1>5. Database(d1) /\ d1.tx = d.tx /\ d1.txo = d.txo
  BY <1>1, SetOthers
<1>6. /\ d1.addressBalance = d.addressBalance /\ d1.involved = d.involved
      /\ d1.history = d.history /\ d1.walletBalance = TW
  BY <1>1, SetTables
<1>7. e = [d1 EXCEPT !.history = R]
  BY <1>6 DEF deleteHistory
<1> HIDE DEF e, R
<1>8. Database(e) /\ e.tx = d.tx /\ e.txo = d.txo
  BY <1>5, <1>7, SetOthers
<1>9. /\ e.addressBalance = d.addressBalance /\ e.involved = d.involved
      /\ e.history = R /\ e.walletBalance = TW
  BY <1>5, <1>6, <1>7, SetTables
<1> QED
  BY <1>2, <1>3, <1>8, <1>9 DEF R

\* The live transactions, and the outputs that are unspent and still locked.
LiveIn(d) == {t \in Txs : d.tx[t] = "live"}
LockedRows(d) == {o \in unspentRows(d) : d.txo[o].locked}

\* An output is unspent when its transaction is live and no live transaction spends it.
LEMMA UnspentMeans ==
    ASSUME NEW d, Consistent(d)
    PROVE  unspentRows(d) = {o \in Outputs : /\ Out[o].tx \in LiveIn(d)
                                             /\ \A u \in LiveIn(d) : o \notin Tx[u].spends}
<1> SUFFICES ASSUME NEW o \in Outputs
             PROVE  d.txo[o].there /\ ~d.txo[o].voided /\ d.txo[o].spentBy = NoTx
                    <=> Out[o].tx \in LiveIn(d) /\ \A u \in LiveIn(d) : o \notin Tx[u].spends
  BY DEF unspentRows
<1>1. Out[o].tx \in Txs /\ NoTx \notin Txs
  BY LedgerAssumption
<1>2. d.txo[o] \in OutputRows /\ d.tx[Out[o].tx] \in Statuses
  BY <1>1 DEF Consistent, Database
<1>3. /\ d.txo[o].there <=> d.tx[Out[o].tx] # "absent"
      /\ d.txo[o].voided <=> d.tx[Out[o].tx] = "voided"
      /\ d.txo[o].there => \A t \in Txs :
             d.txo[o].spentBy = t <=> d.tx[t] = "live" /\ o \in Tx[t].spends
  BY DEF Consistent, Follows
<1>4. d.txo[o].spentBy \in Txs \cup {NoTx}
  BY <1>2 DEF OutputRows
<1>5. d.txo[o].there /\ ~d.txo[o].voided <=> Out[o].tx \in LiveIn(d)
  BY <1>1, <1>2, <1>3 DEF LiveIn, Statuses
<1>6. d.txo[o].there => (d.txo[o].spentBy = NoTx <=> \A u \in LiveIn(d) : o \notin Tx[u].spends)
  BY <1>1, <1>3, <1>4 DEF LiveIn
<1> QED
  BY <1>5, <1>6

\* What accepting t has done to the six tables, from d to e.
AcceptTablesTo(d, e, t) ==
    /\ \A o \in Outputs : e.txo[o].locked <=> IF o \in outputsOf(t) THEN o \in markLockedOutputs(t)
                                               ELSE d.txo[o].locked
    /\ \A p \in AddressPairs :
           Credited(d.addressBalance[p], e.addressBalance[p],
                    getUnifiedBalanceMap(t, p, markLockedOutputs(t)), p \in pairsOf(t))
    /\ \A w \in WalletPairs :
           Credited(d.walletBalance[w], e.walletBalance[w],
                    getWalletBalanceMap(t, w, markLockedOutputs(t)), w \in walletPairsOf(t))
    /\ e.history = d.history \cup AddressRows(t) \cup WalletRows(t)
    /\ \A a \in Addresses :
           e.involved[a] = IF a \in getInvolvedAddresses(t) THEN d.involved[a] + 1 ELSE d.involved[a]

\* What handleVertexAccepted does after unlocking, from the first INSERT to the last.
LEMMA AcceptTables ==
    ASSUME NEW d, Consistent(d), NEW t \in Txs, d.tx[t] = "absent"
    PROVE  LET d1 == addUtxos(addOrUpdateTx(d, t), t)
               d2 == updateTxOutputSpentBy(bumpAddressInvolvement(d1, t), t)
               d3 == updateAddressTablesWithTx(d2, t, markLockedOutputs(t))
           IN  AcceptTablesTo(d, updateWalletTablesWithTx(d3, t, markLockedOutputs(t)), t)
<1> DEFINE M == markLockedOutputs(t)
           d0 == addOrUpdateTx(d, t)
           d1 == addUtxos(d0, t)
           db1 == bumpAddressInvolvement(d1, t)
           d2 == updateTxOutputSpentBy(db1, t)
           d3 == updateAddressTablesWithTx(d2, t, M)
           e == updateWalletTablesWithTx(d3, t, M)
<1>0. \A o \in outputsOf(t) : o \in Outputs /\ ~d.txo[o].there
  BY DEF Consistent, Follows, outputsOf
<1>1. Database(d0) /\ d0.txo = d.txo /\ SameBalances(d, d0)
  BY StatusSet, OutputStatements DEF Consistent
<1> HIDE DEF d0, M
<1>2. /\ Database(d1) /\ SameBalances(d, d1)
      /\ \A o \in Outputs : d1.txo[o].locked <=> IF o \in outputsOf(t) THEN o \in markLockedOutputs(t)
                                                  ELSE d.txo[o].locked
  <2>1. Database(d1) /\ SameBalances(d0, d1)
    BY <1>1, OutputsAdded, OutputStatements
  <2>2. \A o \in Outputs :
            IF o \in outputsOf(t) /\ ~d.txo[o].there
            THEN d1.txo[o].locked <=> o \in markLockedOutputs(t)
            ELSE d1.txo[o] = d.txo[o]
    BY <1>1, OutputsAdded
  <2> HIDE DEF d1
  <2> QED
    BY <1>0, <1>1, <2>1, <2>2 DEF SameBalances
<1> HIDE DEF d1
<1>3. /\ Database(db1) /\ db1.txo = d1.txo /\ db1.addressBalance = d.addressBalance
      /\ db1.walletBalance = d.walletBalance /\ db1.history = d.history
      /\ \A a \in Addresses :
             db1.involved[a] = IF a \in getInvolvedAddresses(t) THEN d.involved[a] + 1 ELSE d.involved[a]
  <2> DEFINE T == [a \in Addresses |-> IF a \in getInvolvedAddresses(t) THEN d1.involved[a] + 1 ELSE d1.involved[a]]
  <2>1. db1 = [d1 EXCEPT !.involved = T]
    BY DEF bumpAddressInvolvement
  <2>2. \A a \in Addresses : T[a] = IF a \in getInvolvedAddresses(t) THEN d.involved[a] + 1 ELSE d.involved[a]
    BY <1>2 DEF SameBalances
  <2> HIDE DEF T, db1
  <2>3. Database(db1) /\ db1.txo = d1.txo
    BY <1>2, <2>1, SetOthers
  <2>4. /\ db1.addressBalance = d1.addressBalance /\ db1.walletBalance = d1.walletBalance
        /\ db1.history = d1.history /\ db1.involved = T
    BY <1>2, <2>1, SetTables
  <2> QED
    BY <1>2, <2>2, <2>3, <2>4 DEF SameBalances
<1> HIDE DEF db1
<1>4. /\ Database(d2) /\ SameBalances(db1, d2)
      /\ \A o \in Outputs : d2.txo[o].locked <=> d1.txo[o].locked
  <2>1. Database(d2) /\ SameBalances(db1, d2)
    BY <1>3, InputsSpent, OutputStatements
  <2>2. \A o \in Outputs :
            IF o \in Tx[t].spends /\ db1.txo[o].there
            THEN d2.txo[o].locked = db1.txo[o].locked
            ELSE d2.txo[o] = db1.txo[o]
    BY <1>3, InputsSpent
  <2> HIDE DEF d2
  <2> QED
    BY <1>3, <2>1, <2>2
<1> HIDE DEF d2
<1>5. /\ Database(d3) /\ d3.txo = d2.txo
      /\ d3.walletBalance = d2.walletBalance /\ d3.involved = d2.involved
      /\ d3.history = d2.history \cup AddressRows(t)
      /\ \A p \in AddressPairs :
             Credited(d2.addressBalance[p], d3.addressBalance[p], getUnifiedBalanceMap(t, p, M), p \in pairsOf(t))
  BY <1>4, AddressTables
<1> HIDE DEF d3
<1>6. /\ e.txo = d3.txo
      /\ e.addressBalance = d3.addressBalance /\ e.involved = d3.involved
      /\ e.history = d3.history \cup WalletRows(t)
      /\ \A w \in WalletPairs :
             Credited(d3.walletBalance[w], e.walletBalance[w], getWalletBalanceMap(t, w, M), w \in walletPairsOf(t))
  BY <1>5, WalletTables
<1> HIDE DEF e
<1>7. AcceptTablesTo(d, e, t)
  BY <1>2, <1>3, <1>4, <1>5, <1>6 DEF AcceptTablesTo, SameBalances, M
<1> QED
  BY <1>7 DEF e, d3, d2, db1, d1, d0, M

\* What voiding or removing the live t has done to the six tables, from d to e.
VoidTablesTo(d, e, t) ==
    LET M == {o \in outputsOf(t) : d.txo[o].locked}
    IN  /\ \A o \in Outputs : e.txo[o].locked <=> d.txo[o].locked
        /\ \A p \in AddressPairs :
               Debited(d.addressBalance[p], e.addressBalance[p], getUnifiedBalanceMap(t, p, M), p \in pairsOf(t))
        /\ \A w \in WalletPairs :
               Debited(d.walletBalance[w], e.walletBalance[w], getWalletBalanceMap(t, w, M), w \in walletPairsOf(t))
        /\ e.history = {h \in d.history : ~(h.tx = t /\ h.holder \in AddressPairs \cup WalletPairs)}
        /\ \A a \in Addresses :
               e.involved[a] = IF a \in getInvolvedAddresses(t) THEN d.involved[a] - 1 ELSE d.involved[a]

\* What a void does.
LEMMA VoidTables ==
    ASSUME NEW d, Consistent(d), NEW t \in Txs
    PROVE  VoidTablesTo(d, voidTx(d, t), t)
<1> DEFINE M == {o \in outputsOf(t) : d.txo[o].locked}
           d0 == voidTransaction(d, t)
           d1 == markUtxosAsVoided(d0, t)
           d2 == voidAddressTransaction(d1, t, M)
           d3 == decrementAddressInvolvement(d2, t)
           d4 == unspendUtxos(d3, t)
           e == voidWalletTransaction(d4, t, M)
<1>0. voidTx(d, t) = e
  BY DEF voidTx
<1>1. Database(d0) /\ d0.txo = d.txo /\ SameBalances(d, d0)
  BY StatusSet, OutputStatements DEF Consistent
<1> HIDE DEF d0, M
<1>2. /\ Database(d1) /\ SameBalances(d0, d1)
      /\ \A o \in Outputs : d1.txo[o].locked <=> d.txo[o].locked
  <2>1. Database(d1) /\ SameBalances(d0, d1)
    BY <1>1, OutputsVoided, OutputStatements
  <2>2. \A o \in Outputs :
            IF o \in outputsOf(t) /\ d0.txo[o].there
            THEN d1.txo[o].locked = d0.txo[o].locked
            ELSE d1.txo[o] = d0.txo[o]
    BY <1>1, OutputsVoided
  <2> HIDE DEF d1
  <2> QED
    BY <1>1, <2>1, <2>2
<1> HIDE DEF d1
<1>3. /\ Database(d2) /\ d2.txo = d1.txo
      /\ d2.walletBalance = d1.walletBalance /\ d2.involved = d1.involved
      /\ d2.history = {h \in d1.history : ~(h.tx = t /\ h.holder \in AddressPairs)}
      /\ \A p \in AddressPairs :
             Debited(d1.addressBalance[p], d2.addressBalance[p], getUnifiedBalanceMap(t, p, M), p \in pairsOf(t))
  BY <1>2, VoidedAddressTables
<1> HIDE DEF d2
<1>4. /\ Database(d3) /\ d3.txo = d2.txo /\ d3.addressBalance = d2.addressBalance
      /\ d3.walletBalance = d2.walletBalance /\ d3.history = d2.history
      /\ \A a \in Addresses :
             d3.involved[a] = IF a \in getInvolvedAddresses(t) THEN d2.involved[a] - 1 ELSE d2.involved[a]
  <2> DEFINE T == [a \in Addresses |-> IF a \in getInvolvedAddresses(t) THEN d2.involved[a] - 1 ELSE d2.involved[a]]
  <2>1. d3 = [d2 EXCEPT !.involved = T]
    BY DEF decrementAddressInvolvement
  <2>2. \A a \in Addresses : T[a] = IF a \in getInvolvedAddresses(t) THEN d2.involved[a] - 1 ELSE d2.involved[a]
    OBVIOUS
  <2> HIDE DEF T, d3
  <2>3. Database(d3) /\ d3.txo = d2.txo
    BY <1>3, <2>1, SetOthers
  <2>4. /\ d3.addressBalance = d2.addressBalance /\ d3.walletBalance = d2.walletBalance
        /\ d3.history = d2.history /\ d3.involved = T
    BY <1>3, <2>1, SetTables
  <2> QED
    BY <2>2, <2>3, <2>4
<1> HIDE DEF d3
<1>5. /\ Database(d4) /\ SameBalances(d3, d4)
      /\ \A o \in Outputs : d4.txo[o].locked <=> d3.txo[o].locked
  <2>1. Database(d4) /\ SameBalances(d3, d4)
    BY <1>4, InputsUnspent, OutputStatements
  <2>2. \A o \in Outputs :
            IF o \in Tx[t].spends /\ ~d3.txo[o].voided /\ d3.txo[o].spentBy = t
            THEN d4.txo[o].locked = d3.txo[o].locked
            ELSE d4.txo[o] = d3.txo[o]
    BY <1>4, InputsUnspent
  <2> HIDE DEF d4
  <2> QED
    BY <2>1, <2>2
<1> HIDE DEF d4
<1>6. /\ e.txo = d4.txo
      /\ e.addressBalance = d4.addressBalance /\ e.involved = d4.involved
      /\ e.history = {h \in d4.history : ~(h.tx = t /\ h.holder \in WalletPairs)}
      /\ \A w \in WalletPairs :
             Debited(d4.walletBalance[w], e.walletBalance[w], getWalletBalanceMap(t, w, M), w \in walletPairsOf(t))
  BY <1>5, VoidedWalletTables
<1> HIDE DEF e
<1>7. e.history = {h \in d.history : ~(h.tx = t /\ h.holder \in AddressPairs \cup WalletPairs)}
  BY <1>1, <1>2, <1>3, <1>4, <1>5, <1>6 DEF SameBalances
<1>8. VoidTablesTo(d, e, t)
  BY <1>1, <1>2, <1>3, <1>4, <1>5, <1>6, <1>7 DEF VoidTablesTo, SameBalances, M
<1> QED
  BY <1>0, <1>8

\* What the deletion of a voided transaction does.
LEMMA CleanupTables ==
    ASSUME NEW d, Consistent(d), NEW t \in Txs
    PROVE  LET e == cleanupVoidedTx(d, t)
           IN  /\ SameBalances(d, e)
               /\ \A o \in Outputs :
                      e.txo[o].locked <=> d.txo[o].locked /\ ~(o \in outputsOf(t) /\ d.txo[o].voided)
<1> DEFINE e == cleanupVoidedTx(d, t)
<1>1. SameBalances(d, e)
  BY OutputStatements DEF Consistent
<1>2. \A o \in Outputs : e.txo[o] = IF o \in outputsOf(t) /\ d.txo[o].voided THEN NoOutput ELSE d.txo[o]
  BY VoidedDeleted DEF Consistent
<1>3. \A o \in Outputs : d.txo[o].locked \in BOOLEAN
  BY DEF Consistent, Database, OutputRows
<1> HIDE DEF e
<1>4. \A o \in Outputs : e.txo[o].locked <=> d.txo[o].locked /\ ~(o \in outputsOf(t) /\ d.txo[o].voided)
  BY <1>2, <1>3 DEF NoOutput
<1> QED
  BY <1>1, <1>4 DEF e

---------------------------------------------------------------------------
(* What each handler does to balances, history and counters. *)

\* The outputs of an address in every token, and what it is to touch a holder's outputs.
AddressOutputs(a) == {o \in Outputs : Out[o].address = a}
Touches(t, H) == (outputsOf(t) \cup Tx[t].spends) \cap H # {}

\* One row through one handler, whoever its holder is.
LEMMA RowUnlocked ==
    ASSUME NEW H \in SUBSET Outputs, NEW L \in SUBSET Txs, NEW S \in SUBSET Outputs,
           NEW U \in SUBSET Outputs, NEW K \in SUBSET U, \A o \in U : Out[o].tx \in L,
           NEW r, CountedRow(r, H, L), NEW x, NEW c, c = unlockRow(r, S \cap H, x)
    PROVE  /\ CountedRow(c, H, L)
           /\ ExactRow(r, H, L, U, K) /\ S \subseteq K => ExactRow(c, H, L, U, K \ S)
<1>1. S \cap H \in SUBSET Outputs
  OBVIOUS
<1>2. /\ CountedRow(c, H, L) /\ c.received = r.received
      /\ r # NoRow => c.unlocked = r.unlocked + Amount(S \cap H) /\ c.locked = r.locked - Amount(S \cap H)
      /\ r = NoRow => c = r
  BY <1>1, UnlockCounted
<1>3. ASSUME ExactRow(r, H, L, U, K), S \subseteq K PROVE ExactRow(c, H, L, U, K \ S)
  <2>1. c.unlocked = r.unlocked + Amount(S \cap H) /\ c.locked = r.locked - Amount(S \cap H)
    <3>1. CASE r = NoRow
      <4>1. S \cap H = {}
        BY <1>3, <3>1, NoRowTouched
      <4>2. Amount(S \cap H) = 0
        BY <4>1, AmountEmpty
      <4> QED
        BY <1>2, <3>1, <4>2 DEF NoRow
    <3> QED
      BY <1>2, <3>1
  <2> QED
    BY <1>2, <1>3, <2>1, UnlockExact
<1> QED
  BY <1>2, <1>3

\* The same row through an accepted transaction,
LEMMA RowCredited ==
    ASSUME NEW H \in SUBSET Outputs, NEW L \in SUBSET Txs, NEW t \in Txs, t \notin L,
           \A o \in Tx[t].spends : Out[o].tx \in L,
           NEW M \in SUBSET outputsOf(t), NEW b, IsBalance(b, H, t, M),
           NEW r, CountedRow(r, H, L), NEW c, Credited(r, c, b, Touches(t, H)),
           NEW U \in SUBSET Outputs, NEW K \in SUBSET U,
           Tx[t].spends \subseteq U \ K, outputsOf(t) \cap U = {}
    PROVE  /\ CountedRow(c, H, L \cup {t})
           /\ ExactRow(r, H, L, U, K) =>
                  ExactRow(c, H, L \cup {t}, (U \ Tx[t].spends) \cup outputsOf(t), K \cup M)
<1>1. CASE Touches(t, H)
  <2>1. PICK x : c = creditRow(r, b, x)
    BY <1>1 DEF Credited
  <2>2. /\ CountedRow(c, H, L \cup {t})
        /\ c.unlocked = r.unlocked + b.unlocked /\ c.locked = r.locked + b.locked
        /\ c.received = r.received + b.received
    BY <1>1, <2>1, CreditCounted DEF Touches
  <2> QED
    BY <2>2, CreditExact
<1>2. CASE ~Touches(t, H)
  <2>1. c = r
    BY <1>2 DEF Credited
  <2>2. Touching(H, L \cup {t}) = Touching(H, L)
    BY <1>2 DEF Touching, Touches
  <2>3. {o \in H : Out[o].tx \in L \cup {t}} = {o \in H : Out[o].tx \in L}
    BY <1>2 DEF outputsOf, Touches
  <2> DEFINE V == (U \ Tx[t].spends) \cup outputsOf(t)
  <2>4. (K \cup M) \cap H = K \cap H /\ (V \ (K \cup M)) \cap H = (U \ K) \cap H
    BY <1>2 DEF Touches
  <2> QED
    BY <2>1, <2>2, <2>3, <2>4 DEF CountedRow, ExactRow
<1> QED
  BY <1>1, <1>2

\* and through a voided one.
LEMMA RowDebited ==
    ASSUME NEW H \in SUBSET Outputs, NEW J \in SUBSET Txs, NEW t \in Txs, t \notin J,
           NEW L, L = J \cup {t},
           NEW U \in SUBSET Outputs, NEW K \in SUBSET U,
           outputsOf(t) \subseteq U, Tx[t].spends \cap U = {},
           NEW M, M = outputsOf(t) \cap K, NEW b, IsBalance(b, H, t, M),
           NEW r, CountedRow(r, H, L), NEW c, Debited(r, c, b, Touches(t, H))
    PROVE  /\ CountedRow(c, H, J)
           /\ ExactRow(r, H, L, U, K) =>
                  ExactRow(c, H, J, (U \ outputsOf(t)) \cup Tx[t].spends, K \ outputsOf(t))
<1>1. CASE Touches(t, H)
  <2>1. PICK x : c = debitRow(r, b, x)
    BY <1>1 DEF Debited
  <2>2. /\ CountedRow(c, H, J)
        /\ c.unlocked = r.unlocked - b.unlocked /\ c.locked = r.locked - b.locked
        /\ c.received = r.received - b.received
    BY <1>1, <2>1, DebitCounted DEF Touches
  <2> QED
    BY <2>2, DebitExact
<1>2. CASE ~Touches(t, H)
  <2>1. c = r
    BY <1>2 DEF Debited
  <2>2. Touching(H, L) = Touching(H, J)
    BY <1>2 DEF Touching, Touches
  <2>3. {o \in H : Out[o].tx \in L} = {o \in H : Out[o].tx \in J}
    BY <1>2 DEF outputsOf, Touches
  <2> DEFINE V == (U \ outputsOf(t)) \cup Tx[t].spends
             N == K \ outputsOf(t)
  <2>4. N \cap H = K \cap H /\ (V \ N) \cap H = (U \ K) \cap H
    BY <1>2 DEF Touches
  <2> QED
    BY <2>1, <2>2, <2>3, <2>4 DEF CountedRow, ExactRow
<1> QED
  BY <1>1, <1>2

\* The addresses of a transaction are those whose outputs it touches.
LEMMA Involves ==
    ASSUME NEW t \in Txs, NEW a
    PROVE  a \in getInvolvedAddresses(t) <=> Touches(t, AddressOutputs(a))
<1>1. outputsOf(t) \cup Tx[t].spends \subseteq Outputs
  BY LedgerAssumption DEF outputsOf
<1>2. \A p \in pairsOf(t) : \E o \in outputsOf(t) \cup Tx[t].spends : p[1] = Out[o].address
  BY DEF pairsOf, pairOf
<1>3. \A o \in outputsOf(t) \cup Tx[t].spends : pairOf(o) \in pairsOf(t) /\ pairOf(o)[1] = Out[o].address
  BY DEF pairsOf, pairOf
<1> QED
  BY <1>1, <1>2, <1>3 DEF getInvolvedAddresses, AddressOutputs, Touches

\* The rows of the history of the transactions L.
HistoryOf(L) == UNION {AddressRows(t) \cup WalletRows(t) : t \in L}

\* Totals, counters and histories are those of the live transactions, for every holder.
Counted(d) ==
    /\ \A p \in AddressPairs : CountedRow(d.addressBalance[p], PairOutputs(p), LiveIn(d))
    /\ \A w \in WalletPairs : CountedRow(d.walletBalance[w], WalletOutputs(w), LiveIn(d))
    /\ \A a \in Addresses : d.involved[a] = Cardinality(Touching(AddressOutputs(a), LiveIn(d)))
    /\ d.history = HistoryOf(LiveIn(d))

\* Received, locked and unlocked are those of the live, locked and unlocked outputs.
Exactly(d) ==
    /\ \A p \in AddressPairs :
           ExactRow(d.addressBalance[p], PairOutputs(p), LiveIn(d), unspentRows(d), LockedRows(d))
    /\ \A w \in WalletPairs :
           ExactRow(d.walletBalance[w], WalletOutputs(w), LiveIn(d), unspentRows(d), LockedRows(d))

\* A spent output was unlocked first.
SpentUnlocked(d) == \A u \in LiveIn(d) : \A o \in Tx[u].spends : ~d.txo[o].locked

\* Where live transactions, unspent and locked outputs come from.
LEMMA RowSets ==
    ASSUME NEW d, Consistent(d)
    PROVE  /\ LiveIn(d) \in SUBSET Txs /\ unspentRows(d) \in SUBSET Outputs
           /\ LockedRows(d) \in SUBSET unspentRows(d)
           /\ \A o \in unspentRows(d) : Out[o].tx \in LiveIn(d)
<1>1. \A o \in unspentRows(d) : Out[o].tx \in LiveIn(d)
  BY UnspentMeans
<1> QED
  BY <1>1 DEF LiveIn, unspentRows, LockedRows

\* The outputs of a holder are outputs.
LEMMA HolderSets ==
    /\ \A p : PairOutputs(p) \in SUBSET Outputs
    /\ \A w : WalletOutputs(w) \in SUBSET Outputs
    /\ \A a : AddressOutputs(a) \in SUBSET Outputs
  BY DEF PairOutputs, WalletOutputs, AddressOutputs

\* Unlocking keeps every count, and every balance when it unlocks unspent outputs only.
LEMMA DatabaseUnlocked ==
    ASSUME NEW d, Consistent(d), NEW e, Consistent(e), SameButLocks(d, e),
           NEW S \in SUBSET Outputs, UnlockedTables(d, e, S), Counted(d)
    PROVE  /\ Counted(e) /\ LiveIn(e) = LiveIn(d) /\ unspentRows(e) = unspentRows(d)
           /\ LockedRows(e) = LockedRows(d) \ S
           /\ SpentUnlocked(d) => SpentUnlocked(e)
           /\ Exactly(d) /\ S \subseteq LockedRows(d) => Exactly(e)
<1> DEFINE L == LiveIn(d)
           U == unspentRows(d)
           K == LockedRows(d)
<1>1. LiveIn(e) = L /\ unspentRows(e) = U
  BY DEF SameButLocks, LiveIn, unspentRows
<1>2. LockedRows(e) = K \ S
  BY <1>1 DEF LockedRows, UnlockedTables, unspentRows
<1>3. L \in SUBSET Txs /\ U \in SUBSET Outputs /\ K \in SUBSET U /\ \A o \in U : Out[o].tx \in L
  BY RowSets
<1>4. SpentUnlocked(d) => SpentUnlocked(e)
  BY <1>1, LedgerAssumption DEF SpentUnlocked, UnlockedTables, LiveIn
<1> HIDE DEF L, U, K
<1>5. ASSUME NEW p \in AddressPairs
      PROVE  /\ CountedRow(e.addressBalance[p], PairOutputs(p), L)
             /\ ExactRow(d.addressBalance[p], PairOutputs(p), L, U, K) /\ S \subseteq K
                  => ExactRow(e.addressBalance[p], PairOutputs(p), L, U, K \ S)
  <2>1. PICK x : e.addressBalance[p] = unlockRow(d.addressBalance[p], At(S, p), x)
    BY <1>5 DEF UnlockedTables
  <2>2. e.addressBalance[p] = unlockRow(d.addressBalance[p], S \cap PairOutputs(p), x)
    BY <2>1, Holders
  <2>3. CountedRow(d.addressBalance[p], PairOutputs(p), L) /\ PairOutputs(p) \in SUBSET Outputs
    BY <1>5, HolderSets DEF Counted, L
  <2> QED
    BY <1>3, <2>2, <2>3, RowUnlocked
<1>6. ASSUME NEW w \in WalletPairs
      PROVE  /\ CountedRow(e.walletBalance[w], WalletOutputs(w), L)
             /\ ExactRow(d.walletBalance[w], WalletOutputs(w), L, U, K) /\ S \subseteq K
                  => ExactRow(e.walletBalance[w], WalletOutputs(w), L, U, K \ S)
  <2>1. PICK x : e.walletBalance[w] = unlockRow(d.walletBalance[w], OfWallet(S, w), x)
    BY <1>6 DEF UnlockedTables
  <2>2. e.walletBalance[w] = unlockRow(d.walletBalance[w], S \cap WalletOutputs(w), x)
    BY <2>1, Holders
  <2>3. CountedRow(d.walletBalance[w], WalletOutputs(w), L) /\ WalletOutputs(w) \in SUBSET Outputs
    BY <1>6, HolderSets DEF Counted, L
  <2> QED
    BY <1>3, <2>2, <2>3, RowUnlocked
<1>7. Counted(e)
  BY <1>1, <1>5, <1>6 DEF Counted, UnlockedTables, L
<1>8. ASSUME Exactly(d), S \subseteq K PROVE Exactly(e)
  BY <1>1, <1>2, <1>5, <1>6, <1>8 DEF Exactly, L, U, K
<1> QED
  BY <1>1, <1>2, <1>4, <1>7, <1>8 DEF L, U, K

\* Accepting keeps counts, histories and balances.
LEMMA DatabaseAccepted ==
    ASSUME NEW d, Consistent(d), NEW e, Consistent(e),
           NEW t \in Txs, d.tx[t] = "absent", Spendable(d, t), e.tx = [d.tx EXCEPT ![t] = "live"],
           AcceptTablesTo(d, e, t), Counted(d), SpentUnlocked(d),
           \A o \in Tx[t].spends : ~d.txo[o].locked
    PROVE  /\ Counted(e) /\ LiveIn(e) = LiveIn(d) \cup {t} /\ t \notin LiveIn(d)
           /\ LockedRows(e) = LockedRows(d) \cup markLockedOutputs(t)
           /\ SpentUnlocked(e)
           /\ Exactly(d) => Exactly(e)
<1> DEFINE L == LiveIn(d)
           U == unspentRows(d)
           K == LockedRows(d)
           M == markLockedOutputs(t)
           U2 == (U \ Tx[t].spends) \cup outputsOf(t)
<1>0. d.tx \in [Txs -> Statuses]
  BY DEF Consistent, Database
<1>1. LiveIn(e) = L \cup {t} /\ t \notin L
  BY <1>0 DEF LiveIn, Statuses
<1>2. L \in SUBSET Txs /\ U \in SUBSET Outputs /\ K \in SUBSET U /\ \A o \in U : Out[o].tx \in L
  BY RowSets
<1>3. M \in SUBSET outputsOf(t) /\ outputsOf(t) \in SUBSET Outputs /\ Tx[t].spends \in SUBSET Outputs
      /\ Tx[t].spends \cap outputsOf(t) = {}
  BY LedgerAssumption DEF markLockedOutputs, outputsOf
<1>4. outputsOf(t) \cap U = {}
  BY <1>1, <1>2 DEF outputsOf
<1>5. U = {o \in Outputs : Out[o].tx \in L /\ \A u \in L : o \notin Tx[u].spends}
  BY UnspentMeans
<1>6. unspentRows(e) = {o \in Outputs : Out[o].tx \in L \cup {t} /\ \A u \in L \cup {t} : o \notin Tx[u].spends}
  BY <1>1, UnspentMeans
<1>7. Tx[t].spends \subseteq U \ K
  <2> SUFFICES ASSUME NEW o \in Tx[t].spends PROVE o \in U /\ o \notin K
    OBVIOUS
  <2>1. o \in Outputs /\ Out[o].tx \in L /\ \A u \in L : o \notin Tx[u].spends
    BY <1>3, LedgerAssumption DEF Spendable, LiveIn
  <2>2. o \notin K
    BY DEF LockedRows
  <2> HIDE DEF U, K, L
  <2> QED
    BY <1>5, <2>1, <2>2
<1>8. \A u \in L : \A o \in Tx[u].spends : o \in Outputs /\ Out[o].tx \in L
  BY LedgerAssumption DEF Consistent, InputsLive, LiveIn
<1>9. unspentRows(e) = U2
  <2>1. \A o \in outputsOf(t) : \A u \in L : o \notin Tx[u].spends
    BY <1>1, <1>8 DEF outputsOf
  <2> HIDE DEF L, U
  <2> QED
    BY <1>3, <1>5, <1>6, <2>1 DEF outputsOf
<1>10. \A o \in Outputs : e.txo[o].locked <=> IF o \in outputsOf(t) THEN o \in M ELSE d.txo[o].locked
  BY DEF AcceptTablesTo
<1>11. LockedRows(e) = K \cup M
  <2>1. LockedRows(e) = {o \in U2 : e.txo[o].locked} /\ K = {o \in U : d.txo[o].locked}
    BY <1>9 DEF LockedRows
  <2> HIDE DEF U, K, M
  <2>2. \A o \in U2 : e.txo[o].locked <=> o \in K \/ o \in M
    BY <1>2, <1>3, <1>4, <1>10, <2>1
  <2>3. K \subseteq U2 /\ M \subseteq U2
    BY <1>2, <1>3, <1>7
  <2> QED
    BY <2>1, <2>2, <2>3
<1>12. SpentUnlocked(e)
  <2> SUFFICES ASSUME NEW u \in L \cup {t}, NEW o \in Tx[u].spends PROVE ~e.txo[o].locked
    BY <1>1 DEF SpentUnlocked
  <2>1. CASE u \in L
    <3>1. o \in Outputs /\ o \notin outputsOf(t) /\ ~d.txo[o].locked
      BY <1>1, <1>8, <2>1 DEF outputsOf, SpentUnlocked
    <3> QED
      BY <1>10, <3>1
  <2>2. CASE u = t
    BY <1>3, <1>10, <2>2
  <2> QED
    BY <2>1, <2>2
<1>13. \A o \in Tx[t].spends : Out[o].tx \in L
  BY <1>2, <1>7
<1>14. e.history = HistoryOf(L \cup {t})
  BY DEF AcceptTablesTo, Counted, HistoryOf
<1> HIDE DEF L, U, K, M
<1>15. ASSUME NEW p \in AddressPairs
       PROVE  /\ CountedRow(e.addressBalance[p], PairOutputs(p), L \cup {t})
              /\ ExactRow(d.addressBalance[p], PairOutputs(p), L, U, K)
                   => ExactRow(e.addressBalance[p], PairOutputs(p), L \cup {t}, U2, K \cup M)
  <2> DEFINE H == PairOutputs(p)
             b == getUnifiedBalanceMap(t, p, M)
  <2>1. p \in pairsOf(t) <=> Touches(t, H)
    BY <1>15, PairTouches DEF Touches
  <2>2. IF p \in pairsOf(t) THEN \E x : e.addressBalance[p] = creditRow(d.addressBalance[p], b, x)
        ELSE e.addressBalance[p] = d.addressBalance[p]
    BY <1>15 DEF AcceptTablesTo, Credited, M
  <2>3. IsBalance(b, H, t, M)
    BY AddressBalance
  <2>4. CountedRow(d.addressBalance[p], H, L) /\ H \in SUBSET Outputs
    BY <1>15, HolderSets DEF Counted, L
  <2> HIDE DEF H, b
  <2>5. Credited(d.addressBalance[p], e.addressBalance[p], b, Touches(t, H))
    BY <2>1, <2>2 DEF Credited
  <2> QED
    BY <1>1, <1>2, <1>3, <1>4, <1>7, <1>13, <2>3, <2>4, <2>5, RowCredited DEF H
<1>16. ASSUME NEW w \in WalletPairs
       PROVE  /\ CountedRow(e.walletBalance[w], WalletOutputs(w), L \cup {t})
              /\ ExactRow(d.walletBalance[w], WalletOutputs(w), L, U, K)
                   => ExactRow(e.walletBalance[w], WalletOutputs(w), L \cup {t}, U2, K \cup M)
  <2> DEFINE H == WalletOutputs(w)
             b == getWalletBalanceMap(t, w, M)
  <2>1. w \in walletPairsOf(t) <=> Touches(t, H)
    BY <1>16, WalletTouches DEF Touches
  <2>2. IF w \in walletPairsOf(t) THEN \E x : e.walletBalance[w] = creditRow(d.walletBalance[w], b, x)
        ELSE e.walletBalance[w] = d.walletBalance[w]
    BY <1>16 DEF AcceptTablesTo, Credited, M
  <2>3. IsBalance(b, H, t, M)
    BY WalletBalance
  <2>4. CountedRow(d.walletBalance[w], H, L) /\ H \in SUBSET Outputs
    BY <1>16, HolderSets DEF Counted, L
  <2> HIDE DEF H, b
  <2>5. Credited(d.walletBalance[w], e.walletBalance[w], b, Touches(t, H))
    BY <2>1, <2>2 DEF Credited
  <2> QED
    BY <1>1, <1>2, <1>3, <1>4, <1>7, <1>13, <2>3, <2>4, <2>5, RowCredited DEF H
<1>17. ASSUME NEW a \in Addresses
       PROVE  e.involved[a] = Cardinality(Touching(AddressOutputs(a), L \cup {t}))
  <2> DEFINE H == AddressOutputs(a)
  <2>1. H \in SUBSET Outputs /\ d.involved[a] = Cardinality(Touching(H, L))
    BY <1>17, HolderSets DEF Counted, L
  <2>2. e.involved[a] = IF Touches(t, H) THEN d.involved[a] + 1 ELSE d.involved[a]
    BY <1>17, Involves DEF AcceptTablesTo
  <2> HIDE DEF H
  <2>3. IF Touches(t, H) THEN Cardinality(Touching(H, L \cup {t})) = Cardinality(Touching(H, L)) + 1
        ELSE Touching(H, L \cup {t}) = Touching(H, L)
    BY <1>1, <1>2, <2>1, TouchingOne DEF Touches
  <2> QED
    BY <2>1, <2>2, <2>3 DEF H
<1>18. Counted(e)
  BY <1>1, <1>14, <1>15, <1>16, <1>17 DEF Counted
<1>19. ASSUME Exactly(d) PROVE Exactly(e)
  BY <1>1, <1>9, <1>11, <1>15, <1>16, <1>19 DEF Exactly, L, U, K
<1> QED
  BY <1>1, <1>11, <1>12, <1>18, <1>19 DEF L, K, M

\* Pairs of an address and pairs of a wallet are different holders.
LEMMA HoldersApart == AddressPairs \cap WalletPairs = {}
  BY LedgerAssumption DEF AddressPairs, WalletPairs

\* A void deletes its own history rows and no other.
LEMMA HistoryLess ==
    ASSUME NEW t \in Txs, NEW J \in SUBSET Txs, t \notin J, NEW L, L = J \cup {t},
           NEW F, F = {h \in HistoryOf(L) : ~(h.tx = t /\ h.holder \in AddressPairs \cup WalletPairs)}
    PROVE  F = HistoryOf(J)
<1>1. ASSUME NEW u \in Txs, NEW h \in AddressRows(u) \cup WalletRows(u)
      PROVE  h.tx = u /\ h.holder \in AddressPairs \cup WalletPairs
  <2>1. CASE h \in AddressRows(u)
    <3>1. PICK p \in pairsOf(u) : h = [holder |-> p, tx |-> u, balance |-> Net(PairOutputs(p))[u]]
      BY <2>1 DEF AddressRows
    <3>2. pairsOf(u) \subseteq AddressPairs
      BY PairTouches
    <3> QED
      BY <3>1, <3>2
  <2>2. CASE h \in WalletRows(u)
    <3>1. PICK p \in walletPairsOf(u) : h = [holder |-> p, tx |-> u, balance |-> Net(WalletOutputs(p))[u]]
      BY <2>2 DEF WalletRows
    <3>2. walletPairsOf(u) \subseteq WalletPairs
      BY DEF walletPairsOf
    <3> QED
      BY <3>1, <3>2
  <2> QED
    BY <1>1, <2>1, <2>2
<1> DEFINE R(u) == AddressRows(u) \cup WalletRows(u)
           G == HistoryOf(L)
<1>2. \A h : h \in G <=> \E u \in L : h \in R(u)
  BY DEF HistoryOf
<1>3. \A u \in Txs : \A h \in R(u) : h.tx = u /\ h.holder \in AddressPairs \cup WalletPairs
  BY <1>1
<1>4. \A h : h \in F <=> h \in G /\ ~(h.tx = t /\ h.holder \in AddressPairs \cup WalletPairs)
  OBVIOUS
<1> HIDE DEF R, G
<1>5. \A h : h \in F <=> \E u \in J : h \in R(u)
  <2>1. ASSUME NEW h \in F PROVE \E u \in J : h \in R(u)
    <3>1. PICK u \in L : h \in R(u)
      BY <1>2, <1>4
    <3>2. u \in Txs /\ h.tx = u /\ h.holder \in AddressPairs \cup WalletPairs
      BY <1>3, <3>1
    <3>3. u # t
      BY <1>4, <3>2
    <3> QED
      BY <3>1, <3>3
  <2>2. ASSUME NEW u \in J, NEW h \in R(u) PROVE h \in F
    <3>1. h \in G /\ h.tx = u /\ u # t
      BY <1>2, <1>3
    <3> QED
      BY <1>4, <3>1
  <2> QED
    BY <2>1, <2>2
<1>6. \A h : h \in UNION {R(u) : u \in J} <=> \E u \in J : h \in R(u)
  OBVIOUS
<1>7. F = UNION {R(u) : u \in J}
  BY <1>5, <1>6
<1> QED
  BY <1>7 DEF HistoryOf, R

\* Voiding takes back what accepting added.
LEMMA DatabaseVoided ==
    ASSUME NEW d, Consistent(d), NEW e, Consistent(e),
           NEW t \in Txs, d.tx[t] = "live", Unspent(d, t), e.tx = [d.tx EXCEPT ![t] = "voided"],
           VoidTablesTo(d, e, t), Counted(d), SpentUnlocked(d)
    PROVE  /\ Counted(e) /\ LiveIn(e) = LiveIn(d) \ {t} /\ t \in LiveIn(d)
           /\ LockedRows(e) = LockedRows(d) \ outputsOf(t)
           /\ SpentUnlocked(e)
           /\ Exactly(d) => Exactly(e)
<1> DEFINE L == LiveIn(d)
           J == L \ {t}
           U == unspentRows(d)
           K == LockedRows(d)
           M == {o \in outputsOf(t) : d.txo[o].locked}
           U2 == (U \ outputsOf(t)) \cup Tx[t].spends
           K2 == K \ outputsOf(t)
<1>0. d.tx \in [Txs -> Statuses]
  BY DEF Consistent, Database
<1>1. LiveIn(e) = J /\ t \in L /\ L = J \cup {t} /\ t \notin J
  BY <1>0 DEF LiveIn, Statuses
<1>2. L \in SUBSET Txs /\ U \in SUBSET Outputs /\ K \in SUBSET U /\ J \in SUBSET Txs
  BY RowSets
<1>3. outputsOf(t) \in SUBSET Outputs /\ Tx[t].spends \in SUBSET Outputs
      /\ Tx[t].spends \cap outputsOf(t) = {}
  BY LedgerAssumption DEF outputsOf
<1>4. U = {o \in Outputs : Out[o].tx \in L /\ \A u \in L : o \notin Tx[u].spends}
  BY UnspentMeans
<1>5. unspentRows(e) = {o \in Outputs : Out[o].tx \in J /\ \A u \in J : o \notin Tx[u].spends}
  BY <1>1, UnspentMeans
<1>6. outputsOf(t) \subseteq U
  <2> SUFFICES ASSUME NEW o \in outputsOf(t) PROVE o \in U
    OBVIOUS
  <2>1. o \in Outputs /\ Out[o].tx = t /\ \A u \in L : o \notin Tx[u].spends
    BY DEF outputsOf, Unspent, LiveIn
  <2> HIDE DEF U, L, J
  <2> QED
    BY <1>1, <1>4, <2>1
<1>7. Tx[t].spends \cap U = {}
  <2> HIDE DEF U, L, J
  <2> QED
    BY <1>1, <1>4
<1>8. \A o \in Tx[t].spends : Out[o].tx \in L /\ \A u \in J : o \notin Tx[u].spends
  <2> SUFFICES ASSUME NEW o \in Tx[t].spends, NEW u \in J PROVE o \notin Tx[u].spends
    BY <1>2, <1>3, LedgerAssumption DEF Consistent, InputsLive, LiveIn
  <2>1. o \in Outputs /\ Out[o].tx \in Txs /\ d.tx[Out[o].tx] = "live" /\ d.tx[u] = "live" /\ u \in Txs /\ u # t
    BY <1>3, LedgerAssumption DEF Consistent, InputsLive, LiveIn
  <2>2. d.txo[o].there
    BY <2>1 DEF Consistent, Follows
  <2>3. d.txo[o].spentBy = t
    BY <2>1, <2>2 DEF Consistent, Follows
  <2> QED
    BY <2>1, <2>2, <2>3 DEF Consistent, Follows
<1>9. unspentRows(e) = U2
  <2> HIDE DEF L, U, J
  <2>1. \A o \in Outputs : o \in outputsOf(t) <=> Out[o].tx = t
    BY DEF outputsOf
  <2>2. \A o \in U : o \notin outputsOf(t) => Out[o].tx \in J /\ \A u \in J : o \notin Tx[u].spends
    BY <1>1, <1>4, <2>1
  <2>3. \A o \in Tx[t].spends : o \in Outputs /\ Out[o].tx \in J /\ \A u \in J : o \notin Tx[u].spends
    BY <1>1, <1>3, <1>8, <2>1
  <2>4. \A o \in Outputs : Out[o].tx \in J /\ (\A u \in J : o \notin Tx[u].spends) /\ o \notin Tx[t].spends
            => o \in U /\ o \notin outputsOf(t)
    BY <1>1, <1>4, <2>1
  <2>5. U2 \subseteq unspentRows(e)
    BY <1>2, <1>5, <2>2, <2>3
  <2>6. unspentRows(e) \subseteq U2
    BY <1>5, <2>4
  <2> QED
    BY <2>5, <2>6
<1>10. \A o \in Outputs : e.txo[o].locked <=> d.txo[o].locked
  BY DEF VoidTablesTo
<1>11. \A o \in Tx[t].spends : ~d.txo[o].locked
  BY <1>1 DEF SpentUnlocked
<1>12. LockedRows(e) = K2
  <2>1. LockedRows(e) = {o \in U2 : e.txo[o].locked} /\ K = {o \in U : d.txo[o].locked}
    BY <1>9 DEF LockedRows
  <2> HIDE DEF U, K
  <2> QED
    BY <1>2, <1>3, <1>10, <1>11, <2>1
<1>13. SpentUnlocked(e)
  <2> SUFFICES ASSUME NEW u \in J, NEW o \in Tx[u].spends PROVE ~e.txo[o].locked
    BY <1>1 DEF SpentUnlocked
  <2>1. o \in Outputs /\ ~d.txo[o].locked
    BY <1>2, LedgerAssumption DEF SpentUnlocked
  <2> QED
    BY <1>10, <2>1
<1>14. M = outputsOf(t) \cap K
  BY <1>6 DEF LockedRows
<1>15. e.history = HistoryOf(J)
  <2>1. d.history = HistoryOf(L)
    BY DEF Counted
  <2>2. e.history = {h \in d.history : ~(h.tx = t /\ h.holder \in AddressPairs \cup WalletPairs)}
    BY DEF VoidTablesTo
  <2> HIDE DEF J, L
  <2>3. e.history = {h \in HistoryOf(L) : ~(h.tx = t /\ h.holder \in AddressPairs \cup WalletPairs)}
    BY <2>1, <2>2
  <2> QED
    BY <1>1, <1>2, <2>3, HistoryLess
<1>16. /\ \A p \in AddressPairs : Debited(d.addressBalance[p], e.addressBalance[p],
                                          getUnifiedBalanceMap(t, p, M), p \in pairsOf(t))
       /\ \A w \in WalletPairs : Debited(d.walletBalance[w], e.walletBalance[w],
                                         getWalletBalanceMap(t, w, M), w \in walletPairsOf(t))
  BY DEF VoidTablesTo
<1>17. /\ \A p \in AddressPairs : CountedRow(d.addressBalance[p], PairOutputs(p), L)
       /\ \A w \in WalletPairs : CountedRow(d.walletBalance[w], WalletOutputs(w), L)
  BY DEF Counted
<1> HIDE DEF L, U, K, M, J
<1>18. ASSUME NEW p \in AddressPairs
       PROVE  /\ CountedRow(e.addressBalance[p], PairOutputs(p), J)
              /\ ExactRow(d.addressBalance[p], PairOutputs(p), L, U, K)
                   => ExactRow(e.addressBalance[p], PairOutputs(p), J, U2, K2)
  <2> DEFINE H == PairOutputs(p)
             b == getUnifiedBalanceMap(t, p, M)
  <2>1. p \in pairsOf(t) <=> Touches(t, H)
    BY <1>18, PairTouches DEF Touches
  <2>2. IF p \in pairsOf(t) THEN \E x : e.addressBalance[p] = debitRow(d.addressBalance[p], b, x)
        ELSE e.addressBalance[p] = d.addressBalance[p]
    BY <1>16, <1>18 DEF Debited
  <2>3. IsBalance(b, H, t, M)
    BY AddressBalance
  <2>4. CountedRow(d.addressBalance[p], H, L) /\ H \in SUBSET Outputs
    BY <1>17, <1>18, HolderSets
  <2> HIDE DEF H, b
  <2>5. Debited(d.addressBalance[p], e.addressBalance[p], b, Touches(t, H))
    BY <2>1, <2>2 DEF Debited
  <2> QED
    BY <1>1, <1>2, <1>6, <1>7, <1>14, <2>3, <2>4, <2>5, RowDebited DEF H
<1>19. ASSUME NEW w \in WalletPairs
       PROVE  /\ CountedRow(e.walletBalance[w], WalletOutputs(w), J)
              /\ ExactRow(d.walletBalance[w], WalletOutputs(w), L, U, K)
                   => ExactRow(e.walletBalance[w], WalletOutputs(w), J, U2, K2)
  <2> DEFINE H == WalletOutputs(w)
             b == getWalletBalanceMap(t, w, M)
  <2>1. w \in walletPairsOf(t) <=> Touches(t, H)
    BY <1>19, WalletTouches DEF Touches
  <2>2. IF w \in walletPairsOf(t) THEN \E x : e.walletBalance[w] = debitRow(d.walletBalance[w], b, x)
        ELSE e.walletBalance[w] = d.walletBalance[w]
    BY <1>16, <1>19 DEF Debited
  <2>3. IsBalance(b, H, t, M)
    BY WalletBalance
  <2>4. CountedRow(d.walletBalance[w], H, L) /\ H \in SUBSET Outputs
    BY <1>17, <1>19, HolderSets
  <2> HIDE DEF H, b
  <2>5. Debited(d.walletBalance[w], e.walletBalance[w], b, Touches(t, H))
    BY <2>1, <2>2 DEF Debited
  <2> QED
    BY <1>1, <1>2, <1>6, <1>7, <1>14, <2>3, <2>4, <2>5, RowDebited DEF H
<1>20. ASSUME NEW a \in Addresses
       PROVE  e.involved[a] = Cardinality(Touching(AddressOutputs(a), J))
  <2> DEFINE H == AddressOutputs(a)
  <2>1. H \in SUBSET Outputs /\ d.involved[a] = Cardinality(Touching(H, L))
    BY <1>20, HolderSets DEF Counted, L
  <2>2. e.involved[a] = IF Touches(t, H) THEN d.involved[a] - 1 ELSE d.involved[a]
    BY <1>20, Involves DEF VoidTablesTo
  <2> HIDE DEF H
  <2>3. /\ Cardinality(Touching(H, J)) \in Nat
        /\ IF Touches(t, H) THEN Cardinality(Touching(H, L)) = Cardinality(Touching(H, J)) + 1
           ELSE Touching(H, L) = Touching(H, J)
    BY <1>1, <1>2, <2>1, TouchingOne DEF Touches
  <2> QED
    BY <2>1, <2>2, <2>3 DEF H
<1>21. Counted(e)
  BY <1>1, <1>15, <1>18, <1>19, <1>20 DEF Counted
<1>22. ASSUME Exactly(d) PROVE Exactly(e)
  BY <1>1, <1>9, <1>12, <1>18, <1>19, <1>22 DEF Exactly, L, U, K
<1> QED
  BY <1>1, <1>12, <1>13, <1>21, <1>22 DEF L, J, K

\* Deleting a voided transaction changes no live row.
LEMMA DatabaseCleaned ==
    ASSUME NEW d, Consistent(d), NEW t \in Txs, d.tx[t] = "voided", Counted(d), SpentUnlocked(d)
    PROVE  LET e == cleanupVoidedTx(d, t)
           IN  /\ Counted(e) /\ LiveIn(e) = LiveIn(d) /\ LockedRows(e) = LockedRows(d)
               /\ SpentUnlocked(e)
               /\ Exactly(d) => Exactly(e)
<1> DEFINE e == cleanupVoidedTx(d, t)
<1>1. Consistent(e) /\ e.tx = [d.tx EXCEPT ![t] = "absent"]
  BY CleanupRows
<1>2. /\ SameBalances(d, e)
      /\ \A o \in Outputs :
             e.txo[o].locked <=> d.txo[o].locked /\ ~(o \in outputsOf(t) /\ d.txo[o].voided)
  BY CleanupTables
<1> HIDE DEF e
<1>3. LiveIn(e) = LiveIn(d)
  BY <1>1 DEF LiveIn, Consistent, Database
<1>4. unspentRows(e) = unspentRows(d)
  BY <1>1, <1>3, UnspentMeans
<1>5. LockedRows(e) = LockedRows(d)
  BY <1>2, <1>4 DEF LockedRows, unspentRows
<1>6. SpentUnlocked(e)
  BY <1>2, <1>3, LedgerAssumption DEF SpentUnlocked, LiveIn
<1>7. Counted(e) /\ (Exactly(d) => Exactly(e))
  BY <1>2, <1>3, <1>4, <1>5 DEF Counted, Exactly, SameBalances
<1> QED
  BY <1>3, <1>5, <1>6, <1>7 DEF e

---------------------------------------------------------------------------
(* The invariant of the two tables of transactions and outputs. *)

\* Inductive: the two tables agree, and no committed row is negative.
LedgerInv ==
    /\ Consistent(db)
    /\ now \in 0..MaxTime /\ unvoiding \in Txs \cup {NoTx} /\ halted \in BOOLEAN
    /\ unvoiding \in Txs => db.tx[unvoiding] = "absent"
    /\ InRange(db)

\* What the consensus guarantees, in the proof's terms.
LEMMA Guards ==
    ASSUME NEW t \in Txs
    PROVE  /\ Announced(t) => Spendable(db, t)
           /\ Retracted(t) => db.tx[t] = "live" /\ Unspent(db, t)
  BY DEF Announced, Retracted, Spendable, Unspent, Spenders, Live

\* The empty tables are consistent.
LEMMA InitInv == Init => LedgerInv
<1> SUFFICES ASSUME Init PROVE LedgerInv
  OBVIOUS
<1> USE LedgerAssumption DEF Init
<1>1. Database(db)
  BY DEF Database, Statuses, OutputRows, NoOutput
<1>2. Follows(db) /\ InputsLive(db)
  BY DEF Follows, InputsLive, NoOutput
<1>3. InRange(db)
  BY DEF InRange, NoRow
<1>4. now \in 0..MaxTime /\ unvoiding = NoTx /\ NoTx \notin Txs
  OBVIOUS
<1>5. halted \in BOOLEAN
  BY Zenon
<1> QED
  BY <1>1, <1>2, <1>3, <1>4, <1>5, Zenon DEF LedgerInv, Consistent

\* The handler of an accepted vertex ends in consistent tables.
LEMMA AcceptSteps ==
    ASSUME NEW t \in Txs, Consistent(db), db.tx[t] = "absent", Spendable(db, t)
    PROVE  LET e == acceptSteps(t)[4]
           IN  /\ Consistent(e) /\ e.tx = [db.tx EXCEPT ![t] = "live"]
               /\ Len(acceptSteps(t)) = 4 /\ DOMAIN acceptSteps(t) = 1..4
<1> DEFINE height == IF Tx[t].block THEN getUtxosLockedAtHeight(db, Tx[t].height) ELSE {}
           d1 == unlockUtxos(db, height)
           d2 == unlockUtxos(d1, IF Tx[t].block THEN getExpiredTimelocksUtxos(d1) ELSE {})
           d3 == unlockUtxos(d2, getLockedUtxoFromInputs(d2, t))
           d4 == addUtxos(addOrUpdateTx(d3, t), t)
           d5 == updateTxOutputSpentBy(bumpAddressInvolvement(d4, t), t)
           d6 == updateAddressTablesWithTx(d5, t, markLockedOutputs(t))
           d7 == updateWalletTablesWithTx(d6, t, markLockedOutputs(t))
<1>1. acceptSteps(t) = <<d1, d2, d3, d7>>
  BY DEF acceptSteps
<1> HIDE DEF height
<1>2. Consistent(d1) /\ d1.tx = db.tx
  BY UnlockKeeps, LocksDoNotMatter DEF Consistent, SameButLocks
<1> HIDE DEF d1
<1>3. Consistent(d2) /\ d2.tx = db.tx
  BY <1>2, UnlockKeeps, LocksDoNotMatter DEF Consistent, SameButLocks
<1> HIDE DEF d2
<1>4. Consistent(d3) /\ d3.tx = db.tx
  BY <1>3, UnlockKeeps, LocksDoNotMatter DEF Consistent, SameButLocks
<1> HIDE DEF d3
<1>5. Consistent(d5) /\ d5.tx = [db.tx EXCEPT ![t] = "live"]
  BY <1>4, AcceptRows DEF Spendable
<1> HIDE DEF d4, d5
<1>6. Database(d6) /\ d6.tx = d5.tx /\ d6.txo = d5.txo
  BY <1>5, TablesOnly DEF Consistent, SameRows
<1> HIDE DEF d6
<1>7. Database(d7) /\ d7.tx = d5.tx /\ d7.txo = d5.txo
  BY <1>6, TablesOnly DEF Consistent, SameRows
<1> HIDE DEF d7
<1>8. Consistent(d7)
  BY <1>5, <1>7 DEF Consistent, Follows, InputsLive
<1> QED
  BY <1>1, <1>5, <1>7, <1>8

\* Every handler keeps the two tables consistent.
LEMMA NextInv == LedgerInv /\ [Next]_vars => LedgerInv'
<1> SUFFICES ASSUME LedgerInv, [Next]_vars PROVE LedgerInv'
  OBVIOUS
<1>0. db.tx \in [Txs -> Statuses]
  BY DEF LedgerInv, Consistent, Database
<1>1. ASSUME NEW t \in Txs, handleVertexAccepted(t) PROVE LedgerInv'
  <2>1. /\ Consistent(acceptSteps(t)[4]) /\ acceptSteps(t)[4].tx = [db.tx EXCEPT ![t] = "live"]
        /\ Len(acceptSteps(t)) = 4 /\ DOMAIN acceptSteps(t) = 1..4
    BY <1>1, AcceptSteps, Guards DEF handleVertexAccepted, LedgerInv
  <2>2. CASE db' = acceptSteps(t)[4] /\ InRange(acceptSteps(t)[4]) /\ UNCHANGED halted
    BY <1>1, <2>1, <2>2, LedgerAssumption DEF handleVertexAccepted, LedgerInv
  <2>3. CASE halted' = TRUE /\ UNCHANGED db
    BY <1>1, <2>3, LedgerAssumption DEF handleVertexAccepted, LedgerInv
  <2>4. \/ db' = acceptSteps(t)[4] /\ InRange(acceptSteps(t)[4]) /\ UNCHANGED halted
        \/ halted' = TRUE /\ UNCHANGED db
    <3> DEFINE s == acceptSteps(t)
    <3>1. Commit(s) /\ Len(s) = 4 /\ DOMAIN s = 1..4 /\ 4 \in 1..4
      BY <1>1, <2>1 DEF handleVertexAccepted
    <3> HIDE DEF s
    <3>2. \/ db' = s[4] /\ InRange(s[4]) /\ UNCHANGED halted
          \/ halted' = TRUE /\ UNCHANGED db
      BY <3>1, Zenon DEF Commit
    <3> QED
      BY <3>2 DEF s
  <2> QED
    BY <2>2, <2>3, <2>4
<1>2. ASSUME NEW t \in Txs, NEW e, Commit(<<e>>), Consistent(e)
      PROVE  \/ db' = e /\ Consistent(db') /\ InRange(db') /\ UNCHANGED halted
             \/ UNCHANGED db /\ halted' = TRUE
  <2> DEFINE s == <<e>>
  <2>1. DOMAIN s = {1} /\ Len(s) = 1 /\ s[1] = e
    OBVIOUS
  <2> HIDE DEF s
  <2>2. IF \A i \in DOMAIN s : InRange(s[i]) THEN db' = s[Len(s)] /\ UNCHANGED halted
        ELSE halted' = TRUE /\ UNCHANGED db
    BY <1>2 DEF Commit, s
  <2> QED
    BY <1>2, <2>1, <2>2
<1>3. ASSUME NEW t \in Txs, handleVoidedTx(t) PROVE LedgerInv'
  <2>1. Consistent(voidTx(db, t))
    BY <1>3, VoidRows, Guards DEF handleVoidedTx, LedgerInv
  <2> QED
    BY <1>2, <1>3, <2>1, LedgerAssumption DEF handleVoidedTx, LedgerInv
<1>4. ASSUME NEW t \in Txs, handleVertexRemoved(t) PROVE LedgerInv'
  <2>1. Consistent(voidTx(db, t)) /\ voidTx(db, t).tx = [db.tx EXCEPT ![t] = "voided"]
    BY <1>4, VoidRows, Guards DEF handleVertexRemoved, LedgerInv
  <2>2. voidTx(db, t).tx[t] = "voided"
    BY <2>1, <1>0
  <2>3. Consistent(cleanupVoidedTx(voidTx(db, t), t))
    BY <2>1, <2>2, CleanupRows
  <2> QED
    BY <1>2, <1>4, <2>3, LedgerAssumption DEF handleVertexRemoved, LedgerInv
<1>5. ASSUME NEW t \in Txs, handleUnvoidedTx(t) PROVE LedgerInv'
  <2>1. /\ Consistent(cleanupVoidedTx(db, t))
        /\ cleanupVoidedTx(db, t).tx = [db.tx EXCEPT ![t] = "absent"]
    BY <1>5, CleanupRows DEF handleUnvoidedTx, LedgerInv
  <2>2. cleanupVoidedTx(db, t).tx[t] = "absent"
    BY <1>0, <2>1
  <2>3. CASE db' = cleanupVoidedTx(db, t) /\ InRange(db') /\ Consistent(db') /\ UNCHANGED halted
    BY <1>5, <2>2, <2>3 DEF handleUnvoidedTx, LedgerInv
  <2>4. CASE UNCHANGED db /\ halted' = TRUE
    BY <1>5, <2>4 DEF handleUnvoidedTx, LedgerInv
  <2> QED
    BY <1>2, <1>5, <2>1, <2>3, <2>4 DEF handleUnvoidedTx
<1>6. ASSUME Tick PROVE LedgerInv'
  BY <1>6, LedgerAssumption DEF Tick, LedgerInv
<1>7. CASE UNCHANGED vars
  BY <1>7 DEF vars, LedgerInv
<1> QED
  BY <1>1, <1>3, <1>4, <1>5, <1>6, <1>7 DEF Next

---------------------------------------------------------------------------
(* The invariant of the balances. *)

\* Inductive, whatever is voided: the unlocking of a voided output moves value between
\* the two columns and leaves their sum, which is all that Counted speaks of.
Good(d) == Consistent(d) /\ Counted(d) /\ SpentUnlocked(d)

\* Exact balances are never below zero.
LEMMA ExactInRange ==
    ASSUME NEW d, Counted(d), Exactly(d), Consistent(d)
    PROVE  InRange(d)
<1> DEFINE L == LiveIn(d)
           U == unspentRows(d)
           K == LockedRows(d)
<1>1. U \in SUBSET Outputs /\ K \in SUBSET U /\ L \in SUBSET Txs
  BY RowSets
<1> HIDE DEF L, U, K
<1>2. ASSUME NEW H \in SUBSET Outputs
      PROVE  Cardinality(Touching(H, L)) \in Nat
  <2>1. Touching(H, L) \in SUBSET Txs
    BY <1>1 DEF Touching
  <2> QED
    BY <2>1, LedgerAssumption, FS_Subset, FS_CardinalityType
<1>3. ASSUME NEW H \in SUBSET Outputs, NEW r, CountedRow(r, H, L), ExactRow(r, H, L, U, K)
      PROVE  r.unlocked >= 0 /\ r.locked >= 0 /\ r.received >= 0 /\ r.txs >= 0
  <2> DEFINE A == {o \in H : Out[o].tx \in L}
             B == K \cap H
             C == (U \ K) \cap H
  <2>1. A \in SUBSET Outputs /\ B \in SUBSET Outputs /\ C \in SUBSET Outputs
    BY <1>1
  <2>2. r.received = Amount(A) /\ r.locked = Amount(B) /\ r.unlocked = Amount(C)
    BY <1>3 DEF ExactRow
  <2>3. r.txs \in Nat
    BY <1>2, <1>3 DEF CountedRow
  <2> HIDE DEF A, B, C
  <2>4. Amount(A) \in Nat /\ Amount(B) \in Nat /\ Amount(C) \in Nat
    BY <2>1, AmountNat
  <2> QED
    BY <2>2, <2>3, <2>4
<1>4. \A p \in AddressPairs : /\ CountedRow(d.addressBalance[p], PairOutputs(p), L)
                              /\ ExactRow(d.addressBalance[p], PairOutputs(p), L, U, K)
  BY DEF Counted, Exactly, L, U, K
<1>5. \A w \in WalletPairs : /\ CountedRow(d.walletBalance[w], WalletOutputs(w), L)
                             /\ ExactRow(d.walletBalance[w], WalletOutputs(w), L, U, K)
  BY DEF Counted, Exactly, L, U, K
<1>6. \A a \in Addresses : d.involved[a] \in Nat
  BY <1>2, HolderSets DEF Counted, L
<1>7. \A p \in AddressPairs : LET r == d.addressBalance[p] IN
          r.unlocked >= 0 /\ r.locked >= 0 /\ r.received >= 0 /\ r.txs >= 0
  BY <1>3, <1>4, HolderSets
<1>8. \A w \in WalletPairs : LET r == d.walletBalance[w] IN
          r.unlocked >= 0 /\ r.locked >= 0 /\ r.received >= 0 /\ r.txs >= 0
  BY <1>3, <1>5, HolderSets
<1> QED
  BY <1>6, <1>7, <1>8 DEF InRange

---------------------------------------------------------------------------
(* Authorities.  A row's columns are what the outputs of its pair give.    *)

\* An authority is given by an output.
LEMMA AuthorityHas ==
    ASSUME NEW S, NEW b
    PROVE  b \in Authority(S) <=> \E o \in S : b \in Out[o].auth
  BY DEF Authority

LEMMA AuthorityUnion ==
    ASSUME NEW S, NEW T
    PROVE  Authority(S \cup T) = Authority(S) \cup Authority(T)
<1>1. \A b : b \in Authority(S \cup T) <=> b \in Authority(S) \/ b \in Authority(T)
  <2> SUFFICES ASSUME NEW b PROVE b \in Authority(S \cup T) <=> b \in Authority(S) \/ b \in Authority(T)
    OBVIOUS
  <2>1. /\ b \in Authority(S \cup T) <=> \E o \in S \cup T : b \in Out[o].auth
        /\ b \in Authority(S) <=> \E o \in S : b \in Out[o].auth
        /\ b \in Authority(T) <=> \E o \in T : b \in Out[o].auth
    BY AuthorityHas
  <2> QED
    BY <2>1
<1> QED
  BY <1>1

LEMMA AuthorityNone == Authority({}) = {}
<1>1. \A b : b \notin Authority({})
  <2> SUFFICES ASSUME NEW b PROVE b \notin Authority({})
    OBVIOUS
  <2>1. b \in Authority({}) <=> \E o \in {} : b \in Out[o].auth
    BY AuthorityHas
  <2> QED
    BY <2>1
<1> QED
  BY <1>1

Signs == [AuthorityBits -> {-1, 0, 1}]

\* The absolute value of a signed sum is its bits when they have one sign.
LEMMA ToUnsigned ==
    ASSUME NEW sign \in Signs
    PROVE  /\ (\A b \in AuthorityBits : sign[b] # -1) => toUnsigned(sign) = {b \in AuthorityBits : sign[b] = 1}
           /\ (\A b \in AuthorityBits : sign[b] # 1) => toUnsigned(sign) = {b \in AuthorityBits : sign[b] = -1}
<1> DEFINE x == sign["mint"]
           y == sign["melt"]
           n == x * 1 + y * 2
           m == IF n < 0 THEN -n ELSE n
<1>1. x \in {-1, 0, 1} /\ y \in {-1, 0, 1} /\ AuthorityBits = {"mint", "melt"} /\ "mint" # "melt"
  BY DEF Signs, AuthorityBits
<1>2. BitValue["mint"] = 1 /\ BitValue["melt"] = 2
  BY DEF BitValue
<1>3. toUnsigned(sign) = {b \in AuthorityBits : (m \div BitValue[b]) % 2 = 1}
  BY <1>2 DEF toUnsigned
<1> HIDE DEF x, y
<1>4. ASSUME x # -1, y # -1
      PROVE  ((m \div 1) % 2 = 1 <=> x = 1) /\ ((m \div 2) % 2 = 1 <=> y = 1)
  BY <1>1, <1>4
<1>5. ASSUME x # 1, y # 1
      PROVE  ((m \div 1) % 2 = 1 <=> x = -1) /\ ((m \div 2) % 2 = 1 <=> y = -1)
  BY <1>1, <1>5
<1> HIDE DEF m
<1>6. \A b : b \in toUnsigned(sign) <=> (b = "mint" /\ (m \div 1) % 2 = 1) \/ (b = "melt" /\ (m \div 2) % 2 = 1)
  BY <1>1, <1>2, <1>3
<1> QED
  BY <1>1, <1>4, <1>5, <1>6 DEF x, y

\* The signs of what t changes at p, with the outputs M locked.
LEMMA SignsOf ==
    ASSUME NEW t \in Txs, NEW p, NEW M
    PROVE  LET s == getUnifiedBalanceMap(t, p, M).sign
               ins == Authority(At(Tx[t].spends, p))
               outs == Authority(At(outputsOf(t), p) \ M)
           IN  /\ s \in Signs
               /\ \A b \in AuthorityBits : /\ s[b] = -1 <=> b \in ins /\ b \notin outs
                                           /\ s[b] = 1 => b \in outs
                                           /\ b \in outs /\ b \notin ins => s[b] = 1
<1> DEFINE s == getUnifiedBalanceMap(t, p, M).sign
           I == At(Tx[t].spends, p)
           O == At(outputsOf(t), p) \ M
           having(S, b) == {o \in S : b \in Out[o].auth}
           value(b) == Sign(Cardinality(having(O, b)) - (IF having(I, b) = {} THEN 0 ELSE 1))
<1>1. s = [b \in AuthorityBits |-> value(b)]
  BY DEF getUnifiedBalanceMap
<1>2. O \in SUBSET Outputs
  BY DEF outputsOf, At
<1> HIDE DEF s, O, I
<1>3. ASSUME NEW b \in AuthorityBits
      PROVE  /\ value(b) \in {-1, 0, 1}
             /\ value(b) = -1 <=> b \in Authority(I) /\ b \notin Authority(O)
             /\ value(b) = 1 => b \in Authority(O)
             /\ b \in Authority(O) /\ b \notin Authority(I) => value(b) = 1
  <2> DEFINE n == Cardinality(having(O, b))
             k == IF having(I, b) = {} THEN 0 ELSE 1
  <2>1. having(O, b) \in SUBSET Outputs
    BY <1>2
  <2> HIDE DEF having
  <2>2. IsFiniteSet(having(O, b))
    BY <2>1, LedgerAssumption, FS_Subset
  <2>3. n \in Nat /\ (n = 0 <=> having(O, b) = {})
    BY <2>2, FS_CardinalityType, FS_EmptySet
  <2>4. (having(O, b) = {} <=> b \notin Authority(O)) /\ (having(I, b) = {} <=> b \notin Authority(I))
    BY AuthorityHas DEF having
  <2> HIDE DEF n
  <2>5. value(b) = Sign(n - k)
    BY DEF n
  <2>6. k \in {0, 1} /\ (k = 0 <=> b \notin Authority(I)) /\ (n = 0 <=> b \notin Authority(O))
    BY <2>3, <2>4
  <2> HIDE DEF k
  <2> QED
    BY <2>3, <2>5, <2>6 DEF Sign
<1> HIDE DEF value
<1>4. s \in Signs
  BY <1>1, <1>3 DEF Signs
<1> QED
  BY <1>1, <1>3, <1>4 DEF s, I, O

\* A credit that takes no authority away adds what its outputs give.
LEMMA BitsCredited ==
    ASSUME NEW t \in Txs, NEW p, NEW M,
           ~hasNegativeValue(getUnifiedBalanceMap(t, p, M).sign)
    PROVE  LET s == getUnifiedBalanceMap(t, p, M).sign
               ins == Authority(At(Tx[t].spends, p))
               outs == Authority(At(outputsOf(t), p) \ M)
           IN  /\ \A b \in ins : b \in AuthorityBits => b \in outs
               /\ \A b \in toUnsigned(s) : b \in outs
               /\ \A b \in outs : b \in AuthorityBits /\ b \notin ins => b \in toUnsigned(s)
<1> DEFINE s == getUnifiedBalanceMap(t, p, M).sign
<1>1. \A b \in AuthorityBits : s[b] # -1
  BY DEF hasNegativeValue
<1> HIDE DEF s
<1>2. s \in Signs /\ \A b \in AuthorityBits :
          /\ s[b] = -1 <=> b \in Authority(At(Tx[t].spends, p)) /\ b \notin Authority(At(outputsOf(t), p) \ M)
          /\ s[b] = 1 => b \in Authority(At(outputsOf(t), p) \ M)
          /\ b \in Authority(At(outputsOf(t), p) \ M) /\ b \notin Authority(At(Tx[t].spends, p)) => s[b] = 1
  BY SignsOf DEF s
<1>3. toUnsigned(s) = {b \in AuthorityBits : s[b] = 1}
  BY <1>1, <1>2, ToUnsigned
<1> QED
  BY <1>1, <1>2, <1>3 DEF s

\* What a void gives back, when its outputs give nothing there, is what it spent.
LEMMA BitsDebited ==
    ASSUME NEW t \in Txs, NEW p, NEW M
    PROVE  LET s == getUnifiedBalanceMap(t, p, M).sign
               ins == Authority(At(Tx[t].spends, p)) \cap AuthorityBits
           IN  /\ ins = {} => ~hasNegativeValue(s)
               /\ Authority(At(outputsOf(t), p) \ M) = {} =>
                      (hasNegativeValue(s) <=> ins # {}) /\ toUnsigned(s) = ins
<1> DEFINE s == getUnifiedBalanceMap(t, p, M).sign
           ins == Authority(At(Tx[t].spends, p)) \cap AuthorityBits
           outs == Authority(At(outputsOf(t), p) \ M)
<1> HIDE DEF s
<1>1. s \in Signs /\ \A b \in AuthorityBits : /\ s[b] = -1 <=> b \in ins /\ b \notin outs
                                              /\ s[b] = 1 => b \in outs
  <2>1. s \in Signs /\ \A b \in AuthorityBits :
            /\ s[b] = -1 <=> b \in Authority(At(Tx[t].spends, p)) /\ b \notin Authority(At(outputsOf(t), p) \ M)
            /\ s[b] = 1 => b \in Authority(At(outputsOf(t), p) \ M)
            /\ b \in Authority(At(outputsOf(t), p) \ M) /\ b \notin Authority(At(Tx[t].spends, p)) => s[b] = 1
    BY SignsOf DEF s
  <2> QED
    BY <2>1
<1> HIDE DEF ins, outs
<1>2. ins = {} => ~hasNegativeValue(s)
  BY <1>1 DEF hasNegativeValue
<1>3. ASSUME outs = {} PROVE (hasNegativeValue(s) <=> ins # {}) /\ toUnsigned(s) = ins
  <2>1. ins \subseteq AuthorityBits
    BY DEF ins
  <2>2. toUnsigned(s) = {b \in AuthorityBits : s[b] = -1}
    BY <1>1, <1>3, ToUnsigned
  <2> QED
    BY <1>1, <1>3, <2>1, <2>2 DEF hasNegativeValue
<1> QED
  BY <1>2, <1>3 DEF s, ins, outs

\* The outputs only give bits.
LEMMA AuthorityBitsOnly ==
    ASSUME NEW S \in SUBSET Outputs
    PROVE  Authority(S) \subseteq AuthorityBits
  BY AuthorityHas, LedgerAssumption

\* The authorities of a row, for what is unspent (U) and locked (K) of its outputs H.
AuthRow(r, H, U, K) == r.uAuth = Authority((U \ K) \cap H) /\ r.lAuth = Authority(K \cap H)

\* unlockRow moves the authorities of S, when the locked ones are looked up again.
LEMMA AuthUnlocked ==
    ASSUME NEW H \in SUBSET Outputs, NEW U \in SUBSET Outputs, NEW K \in SUBSET U, NEW S \in SUBSET K,
           NEW r, IsRow(r), AuthRow(r, H, U, K), r = NoRow => U \cap H = {}
    PROVE  AuthRow(unlockRow(r, S \cap H, Authority((K \ S) \cap H)), H, U, K \ S)
<1> DEFINE A == Authority(S \cap H)
           x == Authority((K \ S) \cap H)
           c == unlockRow(r, S \cap H, x)
           T == (U \ K) \cap H
<1>1. /\ (U \ (K \ S)) \cap H = T \cup (S \cap H)
      /\ K \cap H = ((K \ S) \cap H) \cup (S \cap H)
  OBVIOUS
<1>2. r.uAuth = Authority(T) /\ r.lAuth = Authority(K \cap H)
  BY DEF AuthRow
<1>3. Authority(T \cup (S \cap H)) = Authority(T) \cup A /\ Authority(K \cap H) = x \cup A
  <2>1. Authority(((K \ S) \cap H) \cup (S \cap H)) = x \cup A
    BY AuthorityUnion
  <2> QED
    BY <1>1, <2>1, AuthorityUnion
<1>4. CASE r = NoRow
  <2>1. c = r
    BY <1>4 DEF unlockRow
  <2>2. S \cap H = {} /\ (K \ S) \cap H = K \cap H
    BY <1>4
  <2>3. A = {}
    BY <2>2, AuthorityNone
  <2> HIDE DEF c, A, x
  <2> QED
    BY <1>1, <1>2, <1>3, <2>1, <2>2, <2>3 DEF AuthRow, c, x
<1>5. CASE r # NoRow
  <2> DEFINE u == r.unlocked + Amount(S \cap H)
             l == r.locked - Amount(S \cap H)
  <2>1. c = [r EXCEPT !.unlocked = u, !.locked = l, !.uAuth = @ \cup A, !.lAuth = IF A = {} THEN @ ELSE x]
    BY <1>5 DEF unlockRow
  <2>2. r = [unlocked |-> r.unlocked, locked |-> r.locked, received |-> r.received,
             uAuth |-> r.uAuth, lAuth |-> r.lAuth, txs |-> r.txs]
    BY DEF IsRow
  <2> HIDE DEF u, l, A, x, c
  <2>3. c.uAuth = r.uAuth \cup A /\ c.lAuth = IF A = {} THEN r.lAuth ELSE x
    <3>1. c = [unlocked |-> u, locked |-> l, received |-> r.received,
               uAuth |-> r.uAuth \cup A, lAuth |-> IF A = {} THEN r.lAuth ELSE x, txs |-> r.txs]
      BY <2>1, <2>2
    <3> QED
      BY <3>1
  <2>4. c.lAuth = x
    <3>1. CASE A = {}
      BY <1>2, <1>3, <2>3, <3>1
    <3> QED
      BY <2>3, <3>1
  <2>5. c.uAuth = Authority((U \ (K \ S)) \cap H)
    BY <1>1, <1>2, <1>3, <2>3
  <2> QED
    BY <2>4, <2>5 DEF AuthRow, c, x
<1> QED
  BY <1>4, <1>5 DEF c, x

\* creditRow adds what the outputs of t give, or looks up what is left.
LEMMA AuthCredited ==
    ASSUME NEW U \in SUBSET Outputs, NEW K \in SUBSET U, NEW t \in Txs, NEW M \in SUBSET outputsOf(t), NEW p,
           Tx[t].spends \subseteq U \ K, outputsOf(t) \cap U = {},
           NEW r, AuthRow(r, PairOutputs(p), U, K)
    PROVE  LET U2 == (U \ Tx[t].spends) \cup outputsOf(t)
               K2 == K \cup M
               x == Authority((U2 \ K2) \cap PairOutputs(p))
           IN  AuthRow(creditRow(r, getUnifiedBalanceMap(t, p, M), x), PairOutputs(p), U2, K2)
<1> DEFINE H == PairOutputs(p)
           I == Tx[t].spends \cap H
           O == (outputsOf(t) \cap H) \ M
           U2 == (U \ Tx[t].spends) \cup outputsOf(t)
           K2 == K \cup M
           x == Authority((U2 \ K2) \cap H)
           b == getUnifiedBalanceMap(t, p, M)
           c == creditRow(r, b, x)
           T == (U \ K) \cap H
<1>1. outputsOf(t) \in SUBSET Outputs /\ Tx[t].spends \in SUBSET Outputs /\ H \in SUBSET Outputs
  BY LedgerAssumption DEF outputsOf, PairOutputs
<1>2. /\ (U2 \ K2) \cap H = (T \ I) \cup O /\ T = (T \ I) \cup I
      /\ K2 \cap H = (K \cap H) \cup (outputsOf(t) \cap H \cap M)
  BY <1>1
<1>3. At(Tx[t].spends, p) = I /\ At(outputsOf(t), p) \ M = O
      /\ At(outputsOf(t), p) \cap M = outputsOf(t) \cap H \cap M
  BY <1>1, Holders
<1>4. b.lAuth = Authority(outputsOf(t) \cap H \cap M)
  BY <1>3, Zenon DEF getUnifiedBalanceMap
<1>5. r.uAuth = Authority(T) /\ r.lAuth = Authority(K \cap H)
  BY DEF AuthRow
<1>6. c.lAuth = r.lAuth \cup b.lAuth /\ c.uAuth = IF hasNegativeValue(b.sign) THEN x ELSE r.uAuth \cup toUnsigned(b.sign)
  <2> HIDE DEF b, x
  <2> QED
    BY DEF creditRow
<1>7. c.lAuth = Authority(K2 \cap H)
  <2>1. Authority((K \cap H) \cup (outputsOf(t) \cap H \cap M)) = Authority(K \cap H) \cup Authority(outputsOf(t) \cap H \cap M)
    BY AuthorityUnion
  <2> QED
    BY <1>2, <1>4, <1>5, <1>6, <2>1
<1>8. c.uAuth = x
  <2> HIDE DEF c, b, T, I, O, H, U2, K2
  <2>1. CASE hasNegativeValue(b.sign)
    BY <1>6, <2>1
  <2>2. CASE ~hasNegativeValue(b.sign)
    <3> DEFINE s == toUnsigned(b.sign)
    <3>1. /\ \A y \in Authority(I) : y \in AuthorityBits => y \in Authority(O)
          /\ \A y \in s : y \in Authority(O)
          /\ \A y \in Authority(O) : y \in AuthorityBits /\ y \notin Authority(I) => y \in s
      BY <1>3, <2>2, BitsCredited DEF b
    <3>2. x = Authority(T \ I) \cup Authority(O) /\ Authority(T) = Authority(T \ I) \cup Authority(I)
      BY <1>2, AuthorityUnion
    <3>3. Authority(O) \subseteq AuthorityBits /\ Authority(I) \subseteq AuthorityBits
      BY <1>1, AuthorityBitsOnly DEF O, I
    <3> HIDE DEF s, x
    <3>4. c.uAuth = Authority(T) \cup s
      BY <1>5, <1>6, <2>2 DEF s
    <3> QED
      BY <3>1, <3>2, <3>3, <3>4
  <2> QED
    BY <2>1, <2>2
<1> QED
  BY <1>7, <1>8 DEF AuthRow

\* debitRow gives back what t spent, or looks up what is left, if t does not both spend
\* and pay authorities of the holder.
LEMMA AuthDebited ==
    ASSUME NEW U \in SUBSET Outputs, NEW K \in SUBSET U, NEW t \in Txs, NEW p,
           outputsOf(t) \subseteq U, Tx[t].spends \cap U = {}, Authority(outputsOf(t) \cap K) = {},
           \/ Authority(At(outputsOf(t), p)) = {}
           \/ Authority(At(Tx[t].spends, p)) = {},
           NEW r, r # NoRow, AuthRow(r, PairOutputs(p), U, K)
    PROVE  LET U2 == (U \ outputsOf(t)) \cup Tx[t].spends
               K2 == K \ outputsOf(t)
               x == Authority(((U \ outputsOf(t)) \ K2) \cap PairOutputs(p))
           IN  AuthRow(debitRow(r, getUnifiedBalanceMap(t, p, outputsOf(t) \cap K), x), PairOutputs(p), U2, K2)
<1> DEFINE H == PairOutputs(p)
           M == outputsOf(t) \cap K
           I == Tx[t].spends \cap H
           P == outputsOf(t) \cap H
           U2 == (U \ outputsOf(t)) \cup Tx[t].spends
           K2 == K \ outputsOf(t)
           x == Authority(((U \ outputsOf(t)) \ K2) \cap H)
           b == getUnifiedBalanceMap(t, p, M)
           c == debitRow(r, b, x)
           T == (U \ K) \cap H
<1>1. outputsOf(t) \in SUBSET Outputs /\ Tx[t].spends \in SUBSET Outputs /\ H \in SUBSET Outputs
  BY LedgerAssumption DEF outputsOf, PairOutputs
<1>2. /\ (U2 \ K2) \cap H = (T \ P) \cup I /\ T = (T \ P) \cup (P \ M)
      /\ ((U \ outputsOf(t)) \ K2) \cap H = T \ P
      /\ K \cap H = (K2 \cap H) \cup (P \cap M)
  BY <1>1
<1>3. At(Tx[t].spends, p) = I /\ At(outputsOf(t), p) = P
  BY <1>1, Holders
<1>4. r.uAuth = Authority(T) /\ r.lAuth = Authority(K \cap H)
  BY DEF AuthRow
<1>5. b.lAuth = Authority(P \cap M)
  BY <1>3, Zenon DEF getUnifiedBalanceMap
<1>6. c.lAuth = r.lAuth \cup b.lAuth /\ c.uAuth = IF hasNegativeValue(b.sign) THEN r.uAuth \cup toUnsigned(b.sign) ELSE x
  <2> HIDE DEF b, x
  <2> QED
    BY DEF debitRow
<1> DEFINE AI == Authority(I)
           AO == Authority(P \ M)
           AR == Authority(T \ P)
<1>7. /\ Authority((T \ P) \cup I) = AR \cup AI /\ Authority(T) = AR \cup AO
      /\ Authority(K \cap H) = Authority(K2 \cap H) \cup Authority(P \cap M)
  BY <1>2, AuthorityUnion
<1>8. Authority(P \cap M) = {}
  BY AuthorityHas
<1>9. /\ AI \subseteq AuthorityBits
      /\ AO = {} \/ AI = {}
  <2>1. AI \subseteq AuthorityBits
    BY <1>1, AuthorityBitsOnly
  <2>2. Authority(P) = {} => AO = {}
    BY AuthorityHas
  <2> QED
    BY <1>3, <2>1, <2>2
<1>10. c.lAuth = Authority(K2 \cap H)
  BY <1>4, <1>5, <1>6, <1>7, <1>8
<1>11. /\ AI = {} => ~hasNegativeValue(b.sign)
       /\ AO = {} => (hasNegativeValue(b.sign) <=> AI # {}) /\ toUnsigned(b.sign) = AI
  <2>1. AI = Authority(At(Tx[t].spends, p)) \cap AuthorityBits /\ AO = Authority(At(outputsOf(t), p) \ M)
    BY <1>3, <1>9
  <2> HIDE DEF AI, AO, M
  <2> QED
    BY <2>1, BitsDebited DEF b
<1>12. c.uAuth = Authority((U2 \ K2) \cap H)
  <2>1. x = AR
    BY <1>2
  <2> HIDE DEF c, b, T, I, P, H, U2, K2, x, AI, AO, AR
  <2>2. CASE AI = {}
    BY <1>2, <1>6, <1>7, <1>11, <2>1, <2>2
  <2>3. CASE AO = {} /\ AI # {}
    <3>1. hasNegativeValue(b.sign) /\ toUnsigned(b.sign) = AI
      BY <1>11, <2>3
    <3>2. c.uAuth = r.uAuth \cup AI
      BY <1>6, <3>1
    <3>3. r.uAuth = AR
      BY <1>4, <1>7, <2>3
    <3> QED
      BY <1>2, <1>7, <3>2, <3>3
  <2> QED
    BY <1>9, <2>2, <2>3
<1> QED
  BY <1>10, <1>12 DEF AuthRow

\* What a credit, a debit and an unlock look up again: the authorities of what is then
\* unspent and unlocked, or locked.
LEMMA CreditLooksUp ==
    ASSUME NEW d, Database(d), NEW t \in Txs, NEW M, NEW p \in AddressPairs
    PROVE  updateAddressTablesWithTx(d, t, M).addressBalance[p] =
               IF p \in pairsOf(t)
               THEN creditRow(d.addressBalance[p], getUnifiedBalanceMap(t, p, M), unlockedAuthority(d, p))
               ELSE d.addressBalance[p]
<1> DEFINE TA == [q \in AddressPairs |->
                     IF q \in pairsOf(t)
                     THEN creditRow(d.addressBalance[q], getUnifiedBalanceMap(t, q, M), unlockedAuthority(d, q))
                     ELSE d.addressBalance[q]]
           d1 == creditAddresses(d, t, M)
           R == {[holder |-> q, tx |-> t, balance |-> getUnifiedBalanceMap(t, q, M).unlocked
                                                    + getUnifiedBalanceMap(t, q, M).locked] : q \in pairsOf(t)}
           e == insertHistory(d1, R)
<1>1. d1 = [d EXCEPT !.addressBalance = TA]
  BY DEF creditAddresses
<1>2. updateAddressTablesWithTx(d, t, M) = e
  BY DEF updateAddressTablesWithTx
<1> HIDE DEF TA, d1, R
<1>3. Database(d1) /\ d1.addressBalance = TA
  <2>1. Database(d1)
    BY <1>1, SetOthers
  <2>2. d1.addressBalance = TA
    BY <1>1, SetTables
  <2> QED
    BY <2>1, <2>2
<1>4. e = [d1 EXCEPT !.history = d1.history \cup R]
  BY DEF insertHistory
<1> HIDE DEF e
<1>5. e.addressBalance = TA
  BY <1>3, <1>4, SetTables
<1> QED
  BY <1>2, <1>5 DEF TA

LEMMA DebitLooksUp ==
    ASSUME NEW d, Database(d), NEW t \in Txs, NEW M, NEW p \in AddressPairs
    PROVE  voidAddressTransaction(d, t, M).addressBalance[p] =
               IF p \in pairsOf(t)
               THEN debitRow(d.addressBalance[p], getUnifiedBalanceMap(t, p, M), unlockedAuthority(d, p))
               ELSE d.addressBalance[p]
<1> DEFINE TA == [q \in AddressPairs |->
                     IF q \in pairsOf(t)
                     THEN debitRow(d.addressBalance[q], getUnifiedBalanceMap(t, q, M), unlockedAuthority(d, q))
                     ELSE d.addressBalance[q]]
           d1 == debitAddresses(d, t, M)
           R == {h \in d1.history : ~(h.tx = t /\ h.holder \in AddressPairs)}
           e == deleteHistory(d1, t, AddressPairs)
<1>1. d1 = [d EXCEPT !.addressBalance = TA]
  BY DEF debitAddresses
<1>2. voidAddressTransaction(d, t, M) = e
  BY DEF voidAddressTransaction
<1> HIDE DEF TA, d1
<1>3. Database(d1) /\ d1.addressBalance = TA
  <2>1. Database(d1)
    BY <1>1, SetOthers
  <2>2. d1.addressBalance = TA
    BY <1>1, SetTables
  <2> QED
    BY <2>1, <2>2
<1>4. e = [d1 EXCEPT !.history = R]
  BY DEF deleteHistory
<1> HIDE DEF e, R
<1>5. e.addressBalance = TA
  BY <1>3, <1>4, SetTables
<1> QED
  BY <1>2, <1>5 DEF TA

LEMMA UnlockLooksUp ==
    ASSUME NEW d, Database(d), NEW S, NEW p \in AddressPairs
    PROVE  unlockUtxos(d, S).addressBalance[p] =
               unlockRow(d.addressBalance[p], At(S, p), Authority(At(LockedRows(unlockUtxos(d, S)), p)))
<1> DEFINE T == [o \in Outputs |-> IF o \in S THEN [d.txo[o] EXCEPT !.locked = FALSE] ELSE d.txo[o]]
           d1 == dbUnlockUtxos(d, S)
           K == LockedRows(d1)
           TA == [q \in AddressPairs |-> unlockRow(d1.addressBalance[q], At(S, q), Authority(At(K, q)))]
           d2 == updateAddressLockedBalance(d1, S)
           TW == [w \in WalletPairs |->
                     unlockRow(d2.walletBalance[w], OfWallet(S, w),
                               UNION {d2.addressBalance[<<a, w[2]>>].lAuth : a \in AddressesOf(w[1])})]
           d3 == updateWalletLockedBalance(d2, S)
<1>1. d1 = [d EXCEPT !.txo = T] /\ T \in [Outputs -> OutputRows]
  BY DEF dbUnlockUtxos, Database, OutputRows
<1> HIDE DEF T, d1
<1>2. Database(d1) /\ d1.addressBalance = d.addressBalance /\ d1.txo = T
  BY <1>1, SetTxo, SetTables
<1>3. d2 = [d1 EXCEPT !.addressBalance = TA]
  BY DEF updateAddressLockedBalance, LockedRows
<1> HIDE DEF d2, TA
<1>4. Database(d2) /\ d2.addressBalance = TA /\ d2.txo = T
  <2>1. Database(d2) /\ d2.txo = T
    BY <1>2, <1>3, SetOthers
  <2>2. d2.addressBalance = TA
    BY <1>2, <1>3, SetTables
  <2> QED
    BY <2>1, <2>2
<1>5. d3 = [d2 EXCEPT !.walletBalance = TW]
  BY DEF updateWalletLockedBalance
<1> HIDE DEF d3, TW
<1>6. d3.addressBalance = TA /\ d3.txo = T
  BY <1>4, <1>5, SetOthers, SetTables
<1>7. LockedRows(d3) = K
  BY <1>2, <1>6 DEF LockedRows, unspentRows
<1>8. unlockUtxos(d, S) = d3
  BY DEF unlockUtxos, d1, d2, d3
<1> HIDE DEF K
<1> QED
  BY <1>2, <1>6, <1>7, <1>8 DEF TA

---------------------------------------------------------------------------
\* Every row of address_balance says which authorities its outputs give.
Granted(d) == \A p \in AddressPairs :
    AuthRow(d.addressBalance[p], PairOutputs(p), unspentRows(d), LockedRows(d))

\* A row is only missing where nothing is unspent.
LEMMA NoRowUnspent ==
    ASSUME NEW d, Good(d), NEW p \in AddressPairs, d.addressBalance[p] = NoRow
    PROVE  unspentRows(d) \cap PairOutputs(p) = {}
<1>1. CountedRow(d.addressBalance[p], PairOutputs(p), LiveIn(d))
  BY DEF Good, Counted
<1>2. LiveIn(d) \in SUBSET Txs /\ PairOutputs(p) \in SUBSET Outputs
      /\ \A o \in unspentRows(d) : Out[o].tx \in LiveIn(d)
  BY RowSets, HolderSets DEF Good
<1>3. \A o \in PairOutputs(p) : Out[o].tx \notin LiveIn(d)
  BY <1>1, <1>2, NoRowTouched
<1> QED
  BY <1>2, <1>3

\* An unlock of locked outputs moves their authorities.
LEMMA UnlockGrants ==
    ASSUME NEW d, Good(d), Granted(d), NEW S \in SUBSET LockedRows(d),
           LockedRows(unlockUtxos(d, S)) = LockedRows(d) \ S,
           unspentRows(unlockUtxos(d, S)) = unspentRows(d)
    PROVE  Granted(unlockUtxos(d, S))
<1> DEFINE e == unlockUtxos(d, S)
           U == unspentRows(d)
           K == LockedRows(d)
<1>1. U \in SUBSET Outputs /\ K \in SUBSET U
  BY RowSets DEF Good
<1> SUFFICES ASSUME NEW p \in AddressPairs PROVE AuthRow(e.addressBalance[p], PairOutputs(p), U, K \ S)
  BY DEF Granted
<1> DEFINE H == PairOutputs(p)
           r == d.addressBalance[p]
<1>2. e.addressBalance[p] = unlockRow(r, At(S, p), Authority(At(K \ S, p)))
  BY UnlockLooksUp DEF Good, Consistent
<1>3. At(S, p) = S \cap H /\ At(K \ S, p) = (K \ S) \cap H /\ H \in SUBSET Outputs
  BY <1>1, Holders, HolderSets
<1>4. IsRow(r) /\ AuthRow(r, H, U, K) /\ (r = NoRow => U \cap H = {})
  BY NoRowUnspent DEF Good, Counted, CountedRow, Granted
<1> HIDE DEF e, U, K, H, r
<1>5. AuthRow(unlockRow(r, S \cap H, Authority((K \ S) \cap H)), H, U, K \ S)
  BY <1>1, <1>3, <1>4, AuthUnlocked DEF K
<1> QED
  BY <1>2, <1>3, <1>5 DEF H

\* Accepting a vertex grants and takes away what it pays and spends.
LEMMA AcceptGrants ==
    ASSUME NEW d, Good(d), Granted(d), NEW t \in Txs, d.tx[t] = "absent", Spendable(d, t),
           \A o \in Tx[t].spends : ~d.txo[o].locked
    PROVE  LET d1 == addUtxos(addOrUpdateTx(d, t), t)
               d2 == updateTxOutputSpentBy(bumpAddressInvolvement(d1, t), t)
               d3 == updateAddressTablesWithTx(d2, t, markLockedOutputs(t))
           IN  Granted(updateWalletTablesWithTx(d3, t, markLockedOutputs(t)))
<1> DEFINE M == markLockedOutputs(t)
           d0 == addOrUpdateTx(d, t)
           d1 == addUtxos(d0, t)
           db1 == bumpAddressInvolvement(d1, t)
           d2 == updateTxOutputSpentBy(db1, t)
           d3 == updateAddressTablesWithTx(d2, t, M)
           e == updateWalletTablesWithTx(d3, t, M)
           U == unspentRows(d)
           K == LockedRows(d)
           U2 == (U \ Tx[t].spends) \cup outputsOf(t)
           K2 == K \cup M
<1>1. Consistent(d2) /\ d2.tx = [d.tx EXCEPT ![t] = "live"]
  BY AcceptRows DEF Good
<1>2. AcceptTablesTo(d, e, t)
  BY AcceptTables DEF Good
<1>3. d2.addressBalance = d.addressBalance
  <2>1. Database(d0) /\ SameBalances(d, d0)
    BY StatusSet, OutputStatements DEF Good, Consistent
  <2> HIDE DEF d0
  <2>2. Database(d1) /\ SameBalances(d0, d1)
    BY <2>1, OutputsAdded, OutputStatements
  <2> HIDE DEF d1
  <2>3. Database(db1) /\ db1.addressBalance = d1.addressBalance
    <3>1. Database(db1)
      BY <2>2, BalancesOnly DEF SameRows
    <3>2. db1.addressBalance = d1.addressBalance
      BY <2>2, SetTables DEF bumpAddressInvolvement
    <3> QED
      BY <3>1, <3>2
  <2> HIDE DEF db1
  <2>4. SameBalances(db1, d2)
    BY <2>3, OutputStatements
  <2> QED
    BY <2>1, <2>2, <2>3, <2>4 DEF SameBalances
<1> HIDE DEF d2
<1>4. Database(d3) /\ d3.tx = d2.tx /\ d3.txo = d2.txo
  BY <1>1, TablesOnly DEF Consistent, SameRows
<1>5. \A p \in AddressPairs : d3.addressBalance[p] =
          IF p \in pairsOf(t)
          THEN creditRow(d2.addressBalance[p], getUnifiedBalanceMap(t, p, M), unlockedAuthority(d2, p))
          ELSE d2.addressBalance[p]
  BY <1>1, CreditLooksUp DEF Consistent
<1> HIDE DEF d3
<1>6. Database(e) /\ e.tx = d2.tx /\ e.txo = d2.txo /\ e.addressBalance = d3.addressBalance
  BY <1>4, WalletTables
<1> HIDE DEF e
<1>7. Consistent(e) /\ e.tx = [d.tx EXCEPT ![t] = "live"]
  BY <1>1, <1>6 DEF Consistent, Follows, InputsLive
<1>8. LiveIn(e) = LiveIn(d) \cup {t} /\ t \notin LiveIn(d) /\ LockedRows(e) = K2
  BY <1>2, <1>7, DatabaseAccepted DEF Good
<1>9. U \in SUBSET Outputs /\ K \in SUBSET U /\ \A o \in U : Out[o].tx \in LiveIn(d)
  BY RowSets DEF Good
<1>10. M \in SUBSET outputsOf(t) /\ outputsOf(t) \in SUBSET Outputs /\ Tx[t].spends \in SUBSET Outputs
       /\ outputsOf(t) \cap U = {}
  BY <1>8, <1>9, LedgerAssumption DEF markLockedOutputs, outputsOf
<1>11. U = {o \in Outputs : Out[o].tx \in LiveIn(d) /\ \A u \in LiveIn(d) : o \notin Tx[u].spends}
  BY UnspentMeans DEF Good
<1>12. Tx[t].spends \subseteq U \ K
  <2> SUFFICES ASSUME NEW o \in Tx[t].spends PROVE o \in U /\ o \notin K
    OBVIOUS
  <2>1. o \in Outputs /\ Out[o].tx \in LiveIn(d) /\ \A u \in LiveIn(d) : o \notin Tx[u].spends
    BY LedgerAssumption DEF Spendable, LiveIn
  <2>2. o \notin K
    BY DEF LockedRows
  <2> HIDE DEF U, K
  <2> QED
    BY <1>11, <2>1, <2>2
<1>13. unspentRows(e) = U2
  <2>1. unspentRows(e) = {o \in Outputs : Out[o].tx \in LiveIn(e) /\ \A u \in LiveIn(e) : o \notin Tx[u].spends}
    BY <1>7, UnspentMeans
  <2>2. \A o \in outputsOf(t) : o \in Outputs /\ Out[o].tx = t
    BY DEF outputsOf
  <2>3. \A o \in Outputs : Out[o].tx = t => o \in outputsOf(t)
    BY DEF outputsOf
  <2>4. \A u \in LiveIn(e) : Tx[u].spends \cap outputsOf(t) = {}
    <3> SUFFICES ASSUME NEW u \in LiveIn(e), NEW o \in Tx[u].spends, o \in outputsOf(t) PROVE FALSE
      OBVIOUS
    <3>1. CASE u = t
      BY <3>1, <2>2, LedgerAssumption
    <3>2. CASE u \in LiveIn(d)
      <4>1. d.tx[u] = "live" /\ u \in Txs
        BY <3>2 DEF LiveIn
      <4>2. Out[o].tx \in LiveIn(d)
        BY <4>1, LedgerAssumption DEF Good, Consistent, InputsLive, LiveIn
      <4> QED
        BY <1>8, <2>2, <4>2
    <3> QED
      BY <1>8, <3>1, <3>2
  <2> QED
    BY <1>8, <1>11, <2>1, <2>2, <2>3, <2>4
<1> SUFFICES ASSUME NEW p \in AddressPairs PROVE AuthRow(e.addressBalance[p], PairOutputs(p), U2, K2)
  BY <1>8, <1>13 DEF Granted, e, d3, d2, db1, d1, d0, M
<1> DEFINE H == PairOutputs(p)
           r == d.addressBalance[p]
<1>14. AuthRow(r, H, U, K)
  BY DEF Granted
<1>15. unlockedAuthority(d2, p) = Authority((U2 \ K2) \cap H)
  <2>1. unspentRows(d2) = U2 /\ LockedRows(d2) = K2
    BY <1>6, <1>8, <1>13 DEF unspentRows, LockedRows
  <2>2. {o \in At(U2, p) : ~d2.txo[o].locked} = (U2 \ K2) \cap H
    <3>1. At(U2, p) = U2 \cap H
      BY <1>9, <1>10, Holders
    <3> QED
      BY <2>1, <3>1 DEF LockedRows
  <2> HIDE DEF U2, K2, H
  <2> QED
    BY <2>1, <2>2 DEF unlockedAuthority
<1>16. CASE p \in pairsOf(t)
  <2>1. AuthRow(creditRow(r, getUnifiedBalanceMap(t, p, M), Authority((U2 \ K2) \cap H)), H, U2, K2)
    <3> HIDE DEF M, U, K, r
    <3> QED
      BY <1>9, <1>10, <1>12, <1>14, AuthCredited
  <2> QED
    BY <1>3, <1>5, <1>6, <1>15, <1>16, <2>1
<1>17. CASE p \notin pairsOf(t)
  <2>1. (outputsOf(t) \cup Tx[t].spends) \cap H = {}
    BY <1>17, PairTouches
  <2>2. (U2 \ K2) \cap H = (U \ K) \cap H /\ K2 \cap H = K \cap H
    BY <1>10, <2>1
  <2>3. e.addressBalance[p] = r
    BY <1>3, <1>5, <1>6, <1>17
  <2> QED
    BY <1>14, <2>2, <2>3 DEF AuthRow
<1> QED
  BY <1>16, <1>17

\* A vertex whose locked outputs give no authority, and that does not both spend and pay
\* authorities of one token at one address.
Separate(t, K) == /\ Authority(outputsOf(t) \cap K) = {}
                  /\ \A p \in AddressPairs : \/ Authority(At(outputsOf(t), p)) = {}
                                             \/ Authority(At(Tx[t].spends, p)) = {}

\* The void of such a vertex gives back what it spent.
LEMMA VoidGrants ==
    ASSUME NEW d, Good(d), Granted(d), NEW t \in Txs, d.tx[t] = "live", Unspent(d, t),
           Separate(t, LockedRows(d))
    PROVE  Granted(voidTx(d, t))
<1> DEFINE N == {o \in outputsOf(t) : d.txo[o].locked}
           d0 == voidTransaction(d, t)
           d1 == markUtxosAsVoided(d0, t)
           d2 == voidAddressTransaction(d1, t, N)
           d3 == decrementAddressInvolvement(d2, t)
           d4 == unspendUtxos(d3, t)
           e == voidWalletTransaction(d4, t, N)
           U == unspentRows(d)
           K == LockedRows(d)
           U2 == (U \ outputsOf(t)) \cup Tx[t].spends
           K2 == K \ outputsOf(t)
<1>1. voidTx(d, t) = e
  BY DEF voidTx
<1>2. Consistent(e) /\ e.tx = [d.tx EXCEPT ![t] = "voided"]
  BY <1>1, VoidRows DEF Good
<1>3. VoidTablesTo(d, e, t)
  BY <1>1, VoidTables DEF Good
<1>4. Database(d0) /\ d0.txo = d.txo /\ SameBalances(d, d0)
  BY StatusSet, OutputStatements DEF Good, Consistent
<1> HIDE DEF d0, N
<1>5. /\ Database(d1) /\ SameBalances(d0, d1)
      /\ \A o \in Outputs :
            IF o \in outputsOf(t) /\ d0.txo[o].there
            THEN d1.txo[o].voided
            ELSE d1.txo[o] = d0.txo[o]
  BY <1>4, OutputsVoided, OutputStatements
<1> HIDE DEF d1
<1>6. \A p \in AddressPairs : d2.addressBalance[p] =
          IF p \in pairsOf(t)
          THEN debitRow(d1.addressBalance[p], getUnifiedBalanceMap(t, p, N), unlockedAuthority(d1, p))
          ELSE d1.addressBalance[p]
  BY <1>5, DebitLooksUp
<1>7. Database(d2)
  BY <1>5, VoidedAddressTables
<1> HIDE DEF d2
<1>8. Database(d3) /\ d3.addressBalance = d2.addressBalance
  <2>1. Database(d3)
    BY <1>7, BalancesOnly DEF SameRows
  <2>2. d3.addressBalance = d2.addressBalance
    BY <1>7, SetTables DEF decrementAddressInvolvement
  <2> QED
    BY <2>1, <2>2
<1> HIDE DEF d3
<1>9. Database(d4) /\ d4.addressBalance = d3.addressBalance
  BY <1>8, InputsUnspent, OutputStatements DEF SameBalances
<1> HIDE DEF d4
<1>10. e.addressBalance = d4.addressBalance
  BY <1>9, VoidedWalletTables
<1> HIDE DEF e
<1>11. LiveIn(e) = LiveIn(d) \ {t} /\ t \in LiveIn(d) /\ LockedRows(e) = K2
  BY <1>2, <1>3, DatabaseVoided DEF Good
<1>12. U \in SUBSET Outputs /\ K \in SUBSET U
  BY RowSets DEF Good
<1>13. /\ outputsOf(t) \in SUBSET Outputs /\ Tx[t].spends \in SUBSET Outputs
       /\ \A o \in outputsOf(t) : Out[o].tx = t
       /\ \A o \in Outputs : Out[o].tx = t => o \in outputsOf(t)
       /\ Tx[t].spends \cap outputsOf(t) = {}
  BY LedgerAssumption DEF outputsOf
<1>14. U = {o \in Outputs : Out[o].tx \in LiveIn(d) /\ \A u \in LiveIn(d) : o \notin Tx[u].spends}
  BY UnspentMeans DEF Good
<1>15. outputsOf(t) \subseteq U /\ Tx[t].spends \cap U = {}
  BY <1>11, <1>13, <1>14 DEF Unspent, LiveIn
<1>16. \A o \in Tx[t].spends : Out[o].tx \in LiveIn(d) /\ Out[o].tx # t
       /\ \A u \in LiveIn(d) : u # t => o \notin Tx[u].spends
  <2> SUFFICES ASSUME NEW o \in Tx[t].spends
               PROVE  Out[o].tx \in LiveIn(d) /\ Out[o].tx # t
                      /\ \A u \in LiveIn(d) : u # t => o \notin Tx[u].spends
    OBVIOUS
  <2>1. Out[o].tx \in LiveIn(d)
    BY <1>13, LedgerAssumption DEF Good, Consistent, InputsLive, LiveIn
  <2>2. \A u \in LiveIn(d) : o \in Tx[u].spends => d.txo[o].spentBy = u
    BY <1>13, <2>1 DEF Good, Consistent, Follows, LiveIn
  <2> QED
    BY <1>11, <1>13, <2>1, <2>2
<1>17. unspentRows(e) = U2
  <2>1. unspentRows(e) = {o \in Outputs : Out[o].tx \in LiveIn(e) /\ \A u \in LiveIn(e) : o \notin Tx[u].spends}
    BY <1>2, UnspentMeans
  <2> QED
    BY <1>11, <1>13, <1>14, <1>16, <2>1
<1>18. N = outputsOf(t) \cap K
  BY <1>15 DEF N, LockedRows
<1> SUFFICES ASSUME NEW p \in AddressPairs PROVE AuthRow(e.addressBalance[p], PairOutputs(p), U2, K2)
  BY <1>1, <1>11, <1>17 DEF Granted
<1> DEFINE H == PairOutputs(p)
           r == d.addressBalance[p]
<1>19. AuthRow(r, H, U, K)
  BY DEF Granted
<1>20. e.addressBalance[p] = IF p \in pairsOf(t)
                             THEN debitRow(r, getUnifiedBalanceMap(t, p, N), unlockedAuthority(d1, p))
                             ELSE r
  BY <1>4, <1>5, <1>6, <1>8, <1>9, <1>10 DEF SameBalances
<1>21. unlockedAuthority(d1, p) = Authority(((U \ outputsOf(t)) \ K2) \cap H)
  <2>1. \A o \in outputsOf(t) : d.txo[o].there
    BY <1>15 DEF unspentRows
  <2>2. unspentRows(d1) = U \ outputsOf(t)
    BY <1>4, <1>5, <1>13, <2>1 DEF unspentRows
  <2>3. \A o \in U \ outputsOf(t) : d1.txo[o].locked <=> o \in K2
    BY <1>4, <1>5, <1>12 DEF LockedRows
  <2>4. At(unspentRows(d1), p) = (U \ outputsOf(t)) \cap H
    BY <1>12, <2>2, Holders
  <2>5. {o \in At(unspentRows(d1), p) : ~d1.txo[o].locked} = ((U \ outputsOf(t)) \ K2) \cap H
    <3> HIDE DEF U, K2, H
    <3> QED
      BY <2>3, <2>4
  <2> HIDE DEF U, K2, H
  <2> QED
    BY <2>5 DEF unlockedAuthority
<1>22. CASE p \in pairsOf(t)
  <2>1. PICK o \in (outputsOf(t) \cup Tx[t].spends) \cap H : TRUE
    BY <1>22, PairTouches
  <2>2. r # NoRow
    <3>1. CountedRow(r, H, LiveIn(d)) /\ LiveIn(d) \in SUBSET Txs /\ H \in SUBSET Outputs
      BY RowSets, HolderSets DEF Good, Counted
    <3>2. Out[o].tx \in LiveIn(d)
      BY <1>11, <1>13, <1>16, <2>1
    <3> HIDE DEF r, H
    <3> QED
      BY <2>1, <3>1, <3>2, NoRowTouched
  <2>3. AuthRow(debitRow(r, getUnifiedBalanceMap(t, p, outputsOf(t) \cap K), Authority(((U \ outputsOf(t)) \ K2) \cap H)),
                H, U2, K2)
    <3>1. /\ Authority(outputsOf(t) \cap K) = {}
          /\ Authority(At(outputsOf(t), p)) = {} \/ Authority(At(Tx[t].spends, p)) = {}
      BY DEF Separate
    <3> HIDE DEF U, K, r
    <3> QED
      BY <1>12, <1>15, <1>19, <2>2, <3>1, AuthDebited
  <2> QED
    BY <1>18, <1>20, <1>21, <1>22, <2>3
<1>23. CASE p \notin pairsOf(t)
  <2>1. (outputsOf(t) \cup Tx[t].spends) \cap H = {}
    BY <1>23, PairTouches
  <2>2. (U2 \ K2) \cap H = (U \ K) \cap H /\ K2 \cap H = K \cap H
    BY <1>13, <2>1
  <2> QED
    BY <1>19, <1>20, <1>23, <2>2 DEF AuthRow
<1> QED
  BY <1>22, <1>23

\* Cleaning up a voided vertex touches no row.
LEMMA CleanGrants ==
    ASSUME NEW d, Good(d), Granted(d), NEW t \in Txs, d.tx[t] = "voided"
    PROVE  Granted(cleanupVoidedTx(d, t))
<1> DEFINE e == cleanupVoidedTx(d, t)
<1>1. LiveIn(e) = LiveIn(d) /\ LockedRows(e) = LockedRows(d)
  BY DatabaseCleaned DEF Good
<1>2. Consistent(e)
  BY CleanupRows DEF Good
<1>3. SameBalances(d, e)
  BY CleanupTables DEF Good
<1> HIDE DEF e
<1>4. unspentRows(e) = unspentRows(d)
  BY <1>1, <1>2, UnspentMeans DEF Good
<1> QED
  BY <1>1, <1>3, <1>4 DEF Granted, SameBalances, e

---------------------------------------------------------------------------
(* The steps of a handler. *)

\* One unlock, of any outputs.
LEMMA Unlocking ==
    ASSUME NEW d, Good(d), NEW S \in SUBSET Outputs
    PROVE  LET e == unlockUtxos(d, S)
           IN  /\ Good(e) /\ e.tx = d.tx /\ LiveIn(e) = LiveIn(d)
               /\ LockedRows(e) = LockedRows(d) \ S
               /\ \A o \in Outputs : o \in S => ~e.txo[o].locked
               /\ \A o \in Outputs : e.txo[o].locked => d.txo[o].locked
               /\ Exactly(d) /\ S \subseteq LockedRows(d) => Exactly(e)
               /\ Granted(d) /\ S \subseteq LockedRows(d) => Granted(e)
<1> DEFINE e == unlockUtxos(d, S)
<1>1. Database(e) /\ SameButLocks(d, e)
  BY UnlockKeeps DEF Good, Consistent
<1>2. UnlockedTables(d, e, S)
  BY UnlockTables DEF Good, Consistent
<1> HIDE DEF e
<1>3. Consistent(e)
  BY <1>1, LocksDoNotMatter DEF Good
<1>4. /\ Counted(e) /\ LiveIn(e) = LiveIn(d) /\ unspentRows(e) = unspentRows(d)
      /\ LockedRows(e) = LockedRows(d) \ S
      /\ SpentUnlocked(e)
      /\ Exactly(d) /\ S \subseteq LockedRows(d) => Exactly(e)
  BY <1>1, <1>2, <1>3, DatabaseUnlocked DEF Good
<1>5. /\ \A o \in Outputs : o \in S => ~e.txo[o].locked
      /\ \A o \in Outputs : e.txo[o].locked => d.txo[o].locked
  BY <1>2 DEF UnlockedTables
<1>6. e.tx = d.tx
  BY <1>1 DEF SameButLocks
<1>7. Granted(d) /\ S \subseteq LockedRows(d) => Granted(e)
  BY <1>4, UnlockGrants DEF e
<1> QED
  BY <1>3, <1>4, <1>5, <1>6, <1>7 DEF Good, e

\* The vertices of outputs with a timelock are never voided or removed.
TimelocksStay == \A o \in Outputs : Out[o].timelock > 0 => Out[o].tx \notin Voidable
\* Only the vertices that may be voided are.
VoidedAsAllowed(d) == \A t \in Txs : d.tx[t] = "voided" => t \in Voidable

\* Without voided timelocks, what getExpiredTimelocksUtxos returns is unspent and locked:
\* the conditions its query leaves out hold of themselves.
LEMMA ExpiredAreUnspent ==
    ASSUME NEW d, Good(d), VoidedAsAllowed(d), TimelocksStay
    PROVE  getExpiredTimelocksUtxos(d) \subseteq LockedRows(d)
<1> SUFFICES ASSUME NEW o \in Outputs, d.txo[o].there, d.txo[o].locked, Out[o].timelock \in 1..(now - 1)
             PROVE  o \in LockedRows(d)
  BY DEF getExpiredTimelocksUtxos
<1>1. Out[o].tx \in Txs /\ Out[o].timelock > 0
  BY LedgerAssumption
<1>2. Out[o].tx \in LiveIn(d)
  BY <1>1 DEF VoidedAsAllowed, TimelocksStay, Good, Consistent, Database, Follows, LiveIn, Statuses
<1>3. \A u \in LiveIn(d) : o \notin Tx[u].spends
  BY DEF Good, SpentUnlocked
<1>4. o \in unspentRows(d)
  BY <1>2, <1>3, UnspentMeans DEF Good
<1> QED
  BY <1>4 DEF LockedRows

\* What handleVertexAccepted goes through.
AcceptsTo(t, d1, d2, d3, e) ==
    /\ acceptSteps(t) = <<d1, d2, d3, e>>
    /\ Good(d1) /\ Good(d2) /\ Good(d3) /\ Good(e)
    /\ e.tx = [db.tx EXCEPT ![t] = "live"]
    /\ LiveIn(e) = LiveIn(db) \cup {t} /\ t \notin LiveIn(db)
    /\ LockedRows(e) \subseteq LockedRows(db) \cup markLockedOutputs(t)
    /\ Tx[t].block => \A o \in LockedRows(e) \ markLockedOutputs(t) :
           ~(heightlock(o) = Tx[t].height /\ Out[o].timelock <= now) /\ Out[o].timelock \notin 1..(now - 1)
    /\ Exactly(db) /\ TimelocksStay /\ VoidedAsAllowed(db)
           => Exactly(d1) /\ Exactly(d2) /\ Exactly(d3) /\ Exactly(e)
    /\ Granted(db) /\ TimelocksStay /\ VoidedAsAllowed(db) => Granted(e)

\* handleVertexAccepted goes through four good databases.
LEMMA Accepting ==
    ASSUME Good(db), NEW t \in Txs, db.tx[t] = "absent", Spendable(db, t)
    PROVE  \E d1, d2, d3, e : AcceptsTo(t, d1, d2, d3, e)
<1> DEFINE S1 == IF Tx[t].block THEN getUtxosLockedAtHeight(db, Tx[t].height) ELSE {}
           d1 == unlockUtxos(db, S1)
           S2 == IF Tx[t].block THEN getExpiredTimelocksUtxos(d1) ELSE {}
           d2 == unlockUtxos(d1, S2)
           S3 == getLockedUtxoFromInputs(d2, t)
           d3 == unlockUtxos(d2, S3)
           d4 == addUtxos(addOrUpdateTx(d3, t), t)
           d5 == updateTxOutputSpentBy(bumpAddressInvolvement(d4, t), t)
           d6 == updateAddressTablesWithTx(d5, t, markLockedOutputs(t))
           e == updateWalletTablesWithTx(d6, t, markLockedOutputs(t))
<1>1. acceptSteps(t) = <<d1, d2, d3, e>>
  BY DEF acceptSteps
<1>2. S1 \in SUBSET Outputs /\ S1 \subseteq LockedRows(db)
  BY DEF getUtxosLockedAtHeight, LockedRows, unspentRows
<1>3. \A o \in LockedRows(db) : o \notin S1 =>
          ~(Tx[t].block /\ heightlock(o) = Tx[t].height /\ Out[o].timelock <= now)
  BY DEF getUtxosLockedAtHeight, LockedRows, unspentRows
<1> HIDE DEF S1
<1>4. /\ Good(d1) /\ d1.tx = db.tx /\ LiveIn(d1) = LiveIn(db) /\ LockedRows(d1) = LockedRows(db) \ S1
      /\ Exactly(db) => Exactly(d1)
      /\ Granted(db) => Granted(d1)
  BY <1>2, Unlocking
<1> HIDE DEF d1
<1>5. S2 \in SUBSET Outputs
      /\ \A o \in LockedRows(d1) : o \notin S2 => ~(Tx[t].block /\ Out[o].timelock \in 1..(now - 1))
  BY DEF getExpiredTimelocksUtxos, LockedRows, unspentRows
<1>6. TimelocksStay /\ VoidedAsAllowed(db) => S2 \subseteq LockedRows(d1)
  BY <1>4, ExpiredAreUnspent DEF VoidedAsAllowed
<1> HIDE DEF S2
<1>7. /\ Good(d2) /\ d2.tx = db.tx /\ LiveIn(d2) = LiveIn(db) /\ LockedRows(d2) = LockedRows(d1) \ S2
      /\ Exactly(d1) /\ S2 \subseteq LockedRows(d1) => Exactly(d2)
      /\ Granted(d1) /\ S2 \subseteq LockedRows(d1) => Granted(d2)
  BY <1>4, <1>5, Unlocking
<1> HIDE DEF d2
<1>8. S3 \in SUBSET Outputs /\ S3 = LockedRows(d2) \cap Tx[t].spends
  BY DEF getLockedUtxoFromInputs, LockedRows, unspentRows
<1> HIDE DEF S3
<1>9. /\ Good(d3) /\ d3.tx = db.tx /\ LiveIn(d3) = LiveIn(db) /\ LockedRows(d3) = LockedRows(d2) \ S3
      /\ Exactly(d2) => Exactly(d3)
      /\ Granted(d2) => Granted(d3)
  BY <1>7, <1>8, Unlocking
<1> HIDE DEF d3
<1>10. Consistent(d3) /\ d3.tx[t] = "absent" /\ Spendable(d3, t)
  BY <1>9 DEF Good, Spendable
<1>11. \A o \in Tx[t].spends : ~d3.txo[o].locked
  <2> SUFFICES ASSUME NEW o \in Tx[t].spends, d3.txo[o].locked PROVE FALSE
    OBVIOUS
  <2>1. o \in Outputs /\ Out[o].tx \in LiveIn(d3) /\ \A u \in LiveIn(d3) : o \notin Tx[u].spends
    BY <1>10, LedgerAssumption DEF Spendable, LiveIn
  <2>2. o \in unspentRows(d3)
    BY <1>10, <2>1, UnspentMeans
  <2>3. o \in LockedRows(d3)
    BY <2>2 DEF LockedRows
  <2> QED
    BY <1>8, <1>9, <2>3
<1>12. Consistent(d5) /\ d5.tx = [db.tx EXCEPT ![t] = "live"]
  BY <1>9, <1>10, AcceptRows
<1>13. AcceptTablesTo(d3, e, t) /\ (Granted(d3) => Granted(e))
  BY <1>9, <1>10, <1>11, AcceptTables, AcceptGrants
<1> HIDE DEF d4, d5
<1>14. Database(d6) /\ d6.tx = d5.tx /\ d6.txo = d5.txo
  BY <1>12, TablesOnly DEF Consistent, SameRows
<1> HIDE DEF d6
<1>15. Database(e) /\ e.tx = d5.tx /\ e.txo = d5.txo
  BY <1>14, TablesOnly DEF SameRows
<1> HIDE DEF e
<1>16. Consistent(e) /\ e.tx = [d3.tx EXCEPT ![t] = "live"]
  BY <1>9, <1>12, <1>15 DEF Consistent, Follows, InputsLive
<1>17. /\ Counted(e) /\ LiveIn(e) = LiveIn(d3) \cup {t} /\ t \notin LiveIn(d3)
       /\ LockedRows(e) = LockedRows(d3) \cup markLockedOutputs(t)
       /\ SpentUnlocked(e) /\ (Exactly(d3) => Exactly(e))
  BY <1>9, <1>10, <1>11, <1>13, <1>16, DatabaseAccepted DEF Good
<1>18. AcceptsTo(t, d1, d2, d3, e)
  <2>1. Good(e)
    BY <1>16, <1>17 DEF Good
  <2>2. LockedRows(e) \subseteq LockedRows(db) \cup markLockedOutputs(t)
    BY <1>4, <1>7, <1>9, <1>17
  <2>3. Tx[t].block => \A o \in LockedRows(e) \ markLockedOutputs(t) :
           ~(heightlock(o) = Tx[t].height /\ Out[o].timelock <= now) /\ Out[o].timelock \notin 1..(now - 1)
    BY <1>3, <1>4, <1>5, <1>7, <1>9, <1>17
  <2>4. Exactly(db) /\ TimelocksStay /\ VoidedAsAllowed(db)
           => Exactly(d1) /\ Exactly(d2) /\ Exactly(d3) /\ Exactly(e)
    BY <1>4, <1>6, <1>7, <1>9, <1>17
  <2>5. Granted(db) /\ TimelocksStay /\ VoidedAsAllowed(db) => Granted(e)
    BY <1>4, <1>6, <1>7, <1>9, <1>13
  <2> QED
    BY <1>1, <1>4, <1>7, <1>9, <1>16, <1>17, <2>1, <2>2, <2>3, <2>4, <2>5 DEF AcceptsTo
<1> QED
  BY <1>18

\* One void.
LEMMA Voiding ==
    ASSUME NEW d, Good(d), NEW t \in Txs, d.tx[t] = "live", Unspent(d, t)
    PROVE  LET e == voidTx(d, t)
           IN  /\ Good(e) /\ e.tx = [d.tx EXCEPT ![t] = "voided"]
               /\ LiveIn(e) = LiveIn(d) \ {t}
               /\ LockedRows(e) = LockedRows(d) \ outputsOf(t)
               /\ Exactly(d) => Exactly(e)
               /\ Granted(d) /\ Separate(t, LockedRows(d)) => Granted(e)
<1> DEFINE e == voidTx(d, t)
<1>1. Consistent(e) /\ e.tx = [d.tx EXCEPT ![t] = "voided"]
  BY VoidRows DEF Good
<1>2. VoidTablesTo(d, e, t) /\ (Granted(d) /\ Separate(t, LockedRows(d)) => Granted(e))
  BY VoidTables, VoidGrants DEF Good
<1> HIDE DEF e
<1>3. /\ Counted(e) /\ LiveIn(e) = LiveIn(d) \ {t}
      /\ LockedRows(e) = LockedRows(d) \ outputsOf(t)
      /\ SpentUnlocked(e) /\ (Exactly(d) => Exactly(e))
  BY <1>1, <1>2, DatabaseVoided DEF Good
<1> QED
  BY <1>1, <1>2, <1>3 DEF Good, e

\* One deletion.
LEMMA Cleaning ==
    ASSUME NEW d, Good(d), NEW t \in Txs, d.tx[t] = "voided"
    PROVE  LET e == cleanupVoidedTx(d, t)
           IN  /\ Good(e) /\ e.tx = [d.tx EXCEPT ![t] = "absent"]
               /\ LiveIn(e) = LiveIn(d) /\ LockedRows(e) = LockedRows(d)
               /\ Exactly(d) => Exactly(e)
               /\ Granted(d) => Granted(e)
  BY CleanupRows, DatabaseCleaned, CleanGrants DEF Good

\* The empty tables are exact.
LEMMA GoodInit == Init => Good(db) /\ Exactly(db) /\ Granted(db) /\ VoidedAsAllowed(db)
<1> SUFFICES ASSUME Init PROVE Good(db) /\ Exactly(db) /\ Granted(db) /\ VoidedAsAllowed(db)
  OBVIOUS
<1>1. Consistent(db)
  BY InitInv DEF LedgerInv
<1>2. /\ \A t \in Txs : db.tx[t] = "absent"
      /\ \A p \in AddressPairs : db.addressBalance[p] = NoRow
      /\ \A w \in WalletPairs : db.walletBalance[w] = NoRow
      /\ \A a \in Addresses : db.involved[a] = 0
      /\ db.history = {} /\ \A o \in Outputs : db.txo[o] = NoOutput
  BY DEF Init
<1>3. LiveIn(db) = {} /\ VoidedAsAllowed(db)
  BY <1>2 DEF LiveIn, VoidedAsAllowed
<1>4. unspentRows(db) = {} /\ LockedRows(db) = {}
  BY <1>2 DEF unspentRows, LockedRows, NoOutput
<1>5. \A H : /\ Touching(H, {}) = {} /\ Cardinality(Touching(H, {})) = 0
             /\ SumFunctionOnSet(Net(H), Touching(H, {})) = 0
  <2>1. \A H : Touching(H, {}) = {}
    BY DEF Touching
  <2> QED
    BY <2>1, FS_EmptySet, SumEmpty
<1>6. \A H : CountedRow(NoRow, H, {})
  BY <1>5 DEF CountedRow, IsRow, NoRow
<1>7. \A H : ExactRow(NoRow, H, {}, {}, {})
  <2> SUFFICES ASSUME NEW H PROVE ExactRow(NoRow, H, {}, {}, {})
    OBVIOUS
  <2>1. {o \in H : Out[o].tx \in {}} = {} /\ {} \cap H = {} /\ ({} \ {}) \cap H = {}
    OBVIOUS
  <2> QED
    BY <2>1, AmountEmpty, Zenon DEF ExactRow, NoRow
<1>8. HistoryOf({}) = {}
  BY DEF HistoryOf
<1>9. Counted(db)
  BY <1>2, <1>3, <1>5, <1>6, <1>8 DEF Counted
<1>10. Exactly(db)
  BY <1>2, <1>3, <1>4, <1>7 DEF Exactly
<1>11. SpentUnlocked(db)
  BY <1>3 DEF SpentUnlocked
<1>12. Granted(db)
  <2>1. \A H : AuthRow(NoRow, H, {}, {})
    <3> SUFFICES ASSUME NEW H PROVE AuthRow(NoRow, H, {}, {})
      OBVIOUS
    <3>1. ({} \ {}) \cap H = {} /\ {} \cap H = {}
      OBVIOUS
    <3> QED
      BY <3>1, AuthorityNone, Zenon DEF AuthRow, NoRow
  <2> QED
    BY <1>2, <1>4, <2>1 DEF Granted
<1> QED
  BY <1>1, <1>3, <1>9, <1>10, <1>11, <1>12 DEF Good

\* The transaction of a handler with one statement group commits or rolls back,
LEMMA CommitOne ==
    ASSUME NEW e, Commit(<<e>>)
    PROVE  IF InRange(e) THEN db' = e /\ UNCHANGED halted ELSE UNCHANGED db /\ halted' = TRUE
<1> DEFINE s == <<e>>
<1>1. DOMAIN s = {1} /\ Len(s) = 1 /\ s[1] = e
  OBVIOUS
<1> HIDE DEF s
<1>2. IF \A i \in DOMAIN s : InRange(s[i]) THEN db' = s[Len(s)] /\ UNCHANGED halted
      ELSE halted' = TRUE /\ UNCHANGED db
  BY DEF Commit, s
<1> QED
  BY <1>1, <1>2

\* and so does the one of an accepted vertex.
LEMMA CommitFour ==
    ASSUME NEW d1, NEW d2, NEW d3, NEW e, Commit(<<d1, d2, d3, e>>)
    PROVE  IF InRange(d1) /\ InRange(d2) /\ InRange(d3) /\ InRange(e)
           THEN db' = e /\ UNCHANGED halted ELSE UNCHANGED db /\ halted' = TRUE
<1> DEFINE s == <<d1, d2, d3, e>>
<1>1. DOMAIN s = 1..4 /\ Len(s) = 4 /\ s[1] = d1 /\ s[2] = d2 /\ s[3] = d3 /\ s[4] = e
  OBVIOUS
<1> HIDE DEF s
<1>2. IF \A i \in DOMAIN s : InRange(s[i]) THEN db' = s[Len(s)] /\ UNCHANGED halted
      ELSE halted' = TRUE /\ UNCHANGED db
  BY DEF Commit, s
<1>3. (\A i \in DOMAIN s : InRange(s[i])) <=> InRange(d1) /\ InRange(d2) /\ InRange(d3) /\ InRange(e)
  <2>1. \A i : i \in 1..4 <=> i = 1 \/ i = 2 \/ i = 3 \/ i = 4
    OBVIOUS
  <2> QED
    BY <1>1, <2>1
<1> QED
  BY <1>1, <1>2, <1>3

\* What a step does to the tables: nothing, accept, void or remove, or clean up.
Accepts(t) == \E d1, d2, d3 : /\ AcceptsTo(t, d1, d2, d3, db') /\ Announced(t)
                              /\ db.tx[t] = "absent"
Voids(t) == /\ Retracted(t) /\ db.tx[t] = "live"
            /\ Good(db') /\ (db'.tx = [db.tx EXCEPT ![t] = "voided"] \/ db'.tx = [db.tx EXCEPT ![t] = "absent"])
            /\ LiveIn(db') = LiveIn(db) \ {t}
            /\ LockedRows(db') = LockedRows(db) \ outputsOf(t)
            /\ Exactly(db) => Exactly(db')
            /\ Granted(db) /\ Separate(t, LockedRows(db)) => Granted(db')
Cleans(t) == /\ db.tx[t] = "voided" /\ Good(db') /\ db'.tx = [db.tx EXCEPT ![t] = "absent"]
             /\ LiveIn(db') = LiveIn(db) /\ LockedRows(db') = LockedRows(db)
             /\ Exactly(db) => Exactly(db')
             /\ Granted(db) => Granted(db')
Rows == \/ UNCHANGED db
        \/ \E t \in Txs : UNCHANGED halted /\ (Accepts(t) \/ Voids(t) \/ Cleans(t))

\* What a step that keeps balances exact starts from.
ExactBefore == Exactly(db) /\ TimelocksStay /\ VoidedAsAllowed(db)

\* Every step leaves the tables alone, accepts, voids or cleans up; from exact balances
\* no handler fails.
LEMMA Stepping ==
    ASSUME LedgerInv, Good(db), [Next]_vars
    PROVE  Rows /\ (ExactBefore => UNCHANGED halted)
<1>0. db.tx \in [Txs -> Statuses]
  BY DEF LedgerInv, Consistent, Database
<1>1. ASSUME NEW t \in Txs, handleVertexAccepted(t)
      PROVE  Rows /\ (ExactBefore => UNCHANGED halted)
  <2>1. db.tx[t] = "absent" /\ Announced(t) /\ Commit(acceptSteps(t))
    BY <1>1 DEF handleVertexAccepted
  <2>2. Spendable(db, t)
    BY <2>1, Guards
  <2>3. PICK d1, d2, d3, e : AcceptsTo(t, d1, d2, d3, e)
    BY <2>1, <2>2, Accepting
  <2>4. Commit(<<d1, d2, d3, e>>)
    BY <2>1, <2>3 DEF AcceptsTo
  <2>5. IF InRange(d1) /\ InRange(d2) /\ InRange(d3) /\ InRange(e)
        THEN db' = e /\ UNCHANGED halted ELSE UNCHANGED db /\ halted' = TRUE
    BY <2>4, CommitFour
  <2>6. ExactBefore => InRange(d1) /\ InRange(d2) /\ InRange(d3) /\ InRange(e)
    BY <2>3, ExactInRange DEF AcceptsTo, ExactBefore, Good
  <2>7. CASE UNCHANGED db /\ ~(InRange(d1) /\ InRange(d2) /\ InRange(d3) /\ InRange(e))
    BY <2>6, <2>7 DEF Rows
  <2>8. CASE db' = e /\ UNCHANGED halted
    <3>1. Accepts(t)
      BY <2>1, <2>3, <2>8 DEF Accepts
    <3> QED
      BY <2>8, <3>1 DEF Rows
  <2> QED
    BY <2>5, <2>7, <2>8
<1>2. ASSUME NEW t \in Txs, handleVoidedTx(t)
      PROVE  Rows /\ (ExactBefore => UNCHANGED halted)
  <2> DEFINE e == voidTx(db, t)
  <2>1. Retracted(t) /\ db.tx[t] = "live" /\ Unspent(db, t) /\ Commit(<<e>>)
    BY <1>2, Guards DEF handleVoidedTx
  <2>2. /\ Good(e) /\ e.tx = [db.tx EXCEPT ![t] = "voided"]
        /\ LiveIn(e) = LiveIn(db) \ {t} /\ LockedRows(e) = LockedRows(db) \ outputsOf(t)
        /\ Exactly(db) => Exactly(e)
        /\ Granted(db) /\ Separate(t, LockedRows(db)) => Granted(e)
    BY <2>1, Voiding
  <2> HIDE DEF e
  <2>3. IF InRange(e) THEN db' = e /\ UNCHANGED halted ELSE UNCHANGED db /\ halted' = TRUE
    BY <2>1, CommitOne
  <2>4. ExactBefore => InRange(e)
    BY <2>2, ExactInRange DEF ExactBefore, Good
  <2>5. CASE db' = e /\ UNCHANGED halted
    BY <2>1, <2>2, <2>5 DEF Rows, Voids
  <2> QED
    BY <2>3, <2>4, <2>5 DEF Rows
<1>3. ASSUME NEW t \in Txs, handleVertexRemoved(t)
      PROVE  Rows /\ (ExactBefore => UNCHANGED halted)
  <2> DEFINE d == voidTx(db, t)
             e == cleanupVoidedTx(d, t)
  <2>1. Retracted(t) /\ db.tx[t] = "live" /\ Unspent(db, t) /\ Commit(<<e>>)
    BY <1>3, Guards DEF handleVertexRemoved
  <2>2. /\ Good(d) /\ d.tx = [db.tx EXCEPT ![t] = "voided"]
        /\ LiveIn(d) = LiveIn(db) \ {t} /\ LockedRows(d) = LockedRows(db) \ outputsOf(t)
        /\ Exactly(db) => Exactly(d)
        /\ Granted(db) /\ Separate(t, LockedRows(db)) => Granted(d)
    BY <2>1, Voiding
  <2> HIDE DEF d
  <2>3. d.tx[t] = "voided"
    BY <1>0, <2>2
  <2>4. /\ Good(e) /\ e.tx = [db.tx EXCEPT ![t] = "absent"]
        /\ LiveIn(e) = LiveIn(db) \ {t} /\ LockedRows(e) = LockedRows(db) \ outputsOf(t)
        /\ Exactly(db) => Exactly(e)
        /\ Granted(db) /\ Separate(t, LockedRows(db)) => Granted(e)
    BY <1>0, <2>2, <2>3, Cleaning
  <2> HIDE DEF e
  <2>5. IF InRange(e) THEN db' = e /\ UNCHANGED halted ELSE UNCHANGED db /\ halted' = TRUE
    BY <2>1, CommitOne
  <2>6. ExactBefore => InRange(e)
    BY <2>4, ExactInRange DEF ExactBefore, Good
  <2>7. CASE db' = e /\ UNCHANGED halted
    BY <2>1, <2>4, <2>7 DEF Rows, Voids
  <2> QED
    BY <2>5, <2>6, <2>7 DEF Rows
<1>4. ASSUME NEW t \in Txs, handleUnvoidedTx(t)
      PROVE  Rows /\ (ExactBefore => UNCHANGED halted)
  <2> DEFINE e == cleanupVoidedTx(db, t)
  <2>1. db.tx[t] = "voided" /\ Commit(<<e>>)
    BY <1>4 DEF handleUnvoidedTx
  <2>2. /\ Good(e) /\ e.tx = [db.tx EXCEPT ![t] = "absent"]
        /\ LiveIn(e) = LiveIn(db) /\ LockedRows(e) = LockedRows(db)
        /\ Exactly(db) => Exactly(e)
        /\ Granted(db) => Granted(e)
    BY <2>1, Cleaning
  <2> HIDE DEF e
  <2>3. IF InRange(e) THEN db' = e /\ UNCHANGED halted ELSE UNCHANGED db /\ halted' = TRUE
    BY <2>1, CommitOne
  <2>4. ExactBefore => InRange(e)
    BY <2>2, ExactInRange DEF ExactBefore, Good
  <2>5. CASE db' = e /\ UNCHANGED halted
    BY <2>1, <2>2, <2>5 DEF Rows, Cleans
  <2> QED
    BY <2>3, <2>4, <2>5 DEF Rows
<1>5. ASSUME Tick PROVE Rows /\ (ExactBefore => UNCHANGED halted)
  BY <1>5 DEF Tick, Rows
<1>6. CASE UNCHANGED vars
  BY <1>6 DEF vars, Rows
<1> QED
  BY <1>1, <1>2, <1>3, <1>4, <1>5, <1>6 DEF Next

\* Every step keeps the counted invariant.
LEMMA GoodNext == LedgerInv /\ Good(db) /\ [Next]_vars => Good(db')
<1> SUFFICES ASSUME LedgerInv, Good(db), [Next]_vars PROVE Good(db')
  OBVIOUS
<1>1. Rows
  BY Stepping
<1>2. \A t \in Txs : Accepts(t) \/ Voids(t) \/ Cleans(t) => Good(db')
  BY DEF Accepts, AcceptsTo, Voids, Cleans
<1> QED
  BY <1>1, <1>2 DEF Rows

\* Exact balances, and no handler halted.
ExactInv == Exactly(db) /\ VoidedAsAllowed(db) /\ halted = FALSE

\* Every step keeps balances exact when no timelocked output can be voided.
LEMMA ExactNext == LedgerInv /\ Good(db) /\ TimelocksStay /\ ExactInv /\ [Next]_vars => ExactInv'
<1> SUFFICES ASSUME LedgerInv, Good(db), TimelocksStay, ExactInv, [Next]_vars PROVE ExactInv'
  OBVIOUS
<1>1. Rows /\ halted' = FALSE /\ ExactBefore
  BY Stepping DEF ExactInv, ExactBefore
<1>2. db.tx \in [Txs -> Statuses]
  BY DEF LedgerInv, Consistent, Database
<1>3. ASSUME NEW t \in Txs, Accepts(t) PROVE Exactly(db') /\ VoidedAsAllowed(db')
  <2>1. Exactly(db') /\ db'.tx = [db.tx EXCEPT ![t] = "live"]
    BY <1>1, <1>3 DEF Accepts, AcceptsTo, ExactBefore
  <2> QED
    BY <1>2, <2>1 DEF ExactInv, VoidedAsAllowed
<1>4. ASSUME NEW t \in Txs, Voids(t) PROVE Exactly(db') /\ VoidedAsAllowed(db')
  <2>1. t \in Voidable
    BY <1>4 DEF Voids, Retracted
  <2> QED
    BY <1>2, <1>4, <2>1 DEF Voids, ExactInv, VoidedAsAllowed
<1>5. ASSUME NEW t \in Txs, Cleans(t) PROVE Exactly(db') /\ VoidedAsAllowed(db')
  BY <1>2, <1>5 DEF Cleans, ExactInv, VoidedAsAllowed
<1>6. CASE UNCHANGED db
  BY <1>1, <1>6 DEF ExactInv
<1> QED
  BY <1>1, <1>3, <1>4, <1>5, <1>6 DEF Rows, ExactInv

\* What the signed sum of a debit can tell apart: no vertex that may be voided both spends
\* and pays authorities of one token at one address, and a block grants none.
AuthoritiesApart ==
    /\ \A t \in Voidable : \A p \in AddressPairs :
           Authority(At(outputsOf(t), p)) = {} \/ Authority(At(Tx[t].spends, p)) = {}
    /\ \A t \in Txs : Tx[t].block => Authority(outputsOf(t)) = {}

\* The authorities of every row, and no locked authority that may be voided.
AuthInv == /\ Granted(db)
           /\ \A o \in LockedRows(db) : Out[o].tx \in Voidable => Out[o].auth = {}

\* What an accepted vertex locks may not be voided or grants nothing.
LEMMA LockedGrantNothing ==
    ASSUME TimelocksStay, AuthoritiesApart, LedgerInv, NEW t \in Txs,
           NEW o \in markLockedOutputs(t), t \in Voidable
    PROVE  Out[o].auth = {}
<1>1. o \in outputsOf(t) /\ o \in Outputs /\ Out[o].tx = t
  BY DEF markLockedOutputs, outputsOf
<1>2. now \in Nat /\ Out[o].timelock \in Nat
  BY <1>1, LedgerAssumption DEF LedgerInv
<1>3. Tx[t].block
  <2>1. ~(Out[o].timelock > 0)
    BY <1>1 DEF TimelocksStay
  <2> QED
    BY <1>2, <2>1 DEF markLockedOutputs
<1>4. Authority(outputsOf(t)) = {}
  BY <1>3 DEF AuthoritiesApart
<1> QED
  BY <1>1, <1>4, AuthorityHas

\* Every step keeps the authorities.
LEMMA AuthNext ==
    ASSUME TimelocksStay, AuthoritiesApart, LedgerInv, Good(db), ExactInv, AuthInv, [Next]_vars
    PROVE  AuthInv'
<1>1. Rows
  BY Stepping
<1>2. ASSUME NEW t \in Txs, Accepts(t) PROVE AuthInv'
  <2>1. /\ Granted(db) => Granted(db')
        /\ LockedRows(db') \subseteq LockedRows(db) \cup markLockedOutputs(t)
    BY <1>2 DEF Accepts, AcceptsTo, ExactInv
  <2>2. \A o \in markLockedOutputs(t) : Out[o].tx = t
    BY DEF markLockedOutputs, outputsOf
  <2>3. \A o \in markLockedOutputs(t) : t \in Voidable => Out[o].auth = {}
    BY LockedGrantNothing
  <2> QED
    BY <2>1, <2>2, <2>3 DEF AuthInv
<1>3. ASSUME NEW t \in Txs, Voids(t) PROVE AuthInv'
  <2>1. t \in Voidable
    BY <1>3 DEF Voids, Retracted
  <2>2. Authority(outputsOf(t) \cap LockedRows(db)) = {}
    <3>1. \A o \in outputsOf(t) \cap LockedRows(db) : Out[o].auth = {}
      BY <2>1 DEF AuthInv, outputsOf
    <3>2. \A b : b \notin Authority(outputsOf(t) \cap LockedRows(db))
      BY <3>1, AuthorityHas
    <3> QED
      BY <3>2
  <2>3. Separate(t, LockedRows(db))
    BY <2>1, <2>2 DEF Separate, AuthoritiesApart
  <2>4. Granted(db') /\ LockedRows(db') \subseteq LockedRows(db)
    BY <1>3, <2>3 DEF Voids, AuthInv
  <2> QED
    BY <2>4 DEF AuthInv
<1>4. ASSUME NEW t \in Txs, Cleans(t) PROVE AuthInv'
  BY <1>4 DEF Cleans, AuthInv
<1>5. CASE UNCHANGED db
  BY <1>5 DEF AuthInv
<1> QED
  BY <1>1, <1>2, <1>3, <1>4, <1>5 DEF Rows

---------------------------------------------------------------------------
(* From the invariant to the properties. *)

\* The rows of the addresses are what the property compares.
LEMMA GrantedMatch == Granted(db) => AuthoritiesMatch
<1> SUFFICES ASSUME Granted(db), NEW p \in AddressPairs
             PROVE  LET unspent == At(unspentRows(db), p)
                        locked == {o \in unspent : db.txo[o].locked}
                    IN  /\ db.addressBalance[p].uAuth = Authority(unspent \ locked)
                        /\ db.addressBalance[p].lAuth = Authority(locked)
  BY DEF AuthoritiesMatch
<1> DEFINE U == unspentRows(db)
           K == LockedRows(db)
           H == PairOutputs(p)
           unspent == At(U, p)
           locked == {o \in unspent : db.txo[o].locked}
<1>1. AuthRow(db.addressBalance[p], H, U, K)
  BY DEF Granted
<1>2. unspent = U \cap H
  <2>1. U \in SUBSET Outputs
    BY DEF unspentRows
  <2> QED
    BY <2>1, Holders
<1>3. locked = K \cap H /\ unspent \ locked = (U \ K) \cap H
  BY <1>2 DEF LockedRows
<1> HIDE DEF U, K, H, unspent, locked
<1>4. db.addressBalance[p].uAuth = Authority(unspent \ locked) /\ db.addressBalance[p].lAuth = Authority(locked)
  BY <1>1, <1>3 DEF AuthRow
<1> QED
  BY <1>4 DEF U, unspent, locked

\* The history rows of one holder, and their sum.
HolderRows(q, H, L) == {[holder |-> q, tx |-> t, balance |-> Net(H)[t]] : t \in Touching(H, L)}
RowSum(R) == SumFunction([h \in R |-> h.balance])

\* The history rows of a holder sum to what the transactions that touch it leave.
LEMMA HolderRowsSum ==
    ASSUME NEW q, NEW H \in SUBSET Outputs, NEW L \in SUBSET Txs,
           NEW R, R = HolderRows(q, H, L)
    PROVE  RowSum(R) = SumFunctionOnSet(Net(H), Touching(H, L))
<1> DEFINE S == Touching(H, L)
           f == [h \in R |-> h.balance]
           m == [t \in S |-> [holder |-> q, tx |-> t, balance |-> Net(H)[t]]]
           g == [t \in S |-> f[m[t]]]
           n == Net(H)
<1>1. S \in SUBSET Txs
  BY DEF Touching
<1>2. IsFiniteSet(S)
  BY <1>1, LedgerAssumption, FS_Subset
<1>3. \A t \in S : n[t] \in Int
  BY <1>1, NetInt
<1>4. /\ m \in [S -> R] /\ {m[t] : t \in S} = R
      /\ \A t, u \in S : m[t] = m[u] => t = u
      /\ \A t \in S : f[m[t]] = n[t]
  <2>1. \A t \in S : m[t] = [holder |-> q, tx |-> t, balance |-> n[t]] /\ m[t].tx = t /\ m[t].balance = n[t]
    OBVIOUS
  <2>2. R = {m[t] : t \in S} /\ m \in [S -> R]
    BY DEF HolderRows
  <2>3. \A t, u \in S : m[t] = m[u] => t = u
    BY <2>1
  <2>4. \A t \in S : m[t] \in R
    BY <2>2
  <2>5. \A t \in S : f[m[t]] = n[t]
    BY <2>1, <2>4
  <2> QED
    BY <2>2, <2>3, <2>5
<1> HIDE DEF S, f, m, n
<1>5. SumFunctionOnSet(g, S) = SumFunctionOnSet(f, R)
  BY <1>2, <1>3, <1>4, SumImage
<1>6. \A t \in S : n[t] = g[t]
  BY <1>4
<1> HIDE DEF g
<1>7. SumFunctionOnSet(n, S) = SumFunctionOnSet(g, S)
  BY <1>2, <1>3, <1>6, SumSame
<1>8. SumFunction(f) = SumFunctionOnSet(f, R)
  BY SumFunctionIsOnDomain DEF f
<1> QED
  BY <1>5, <1>7, <1>8 DEF f, n, S, RowSum

\* The rows of a holder are one for every live transaction that touches it.
LEMMA HistoryOfHolder ==
    ASSUME NEW L \in SUBSET Txs
    PROVE  /\ \A p \in AddressPairs :
                  {h \in HistoryOf(L) : h.holder = p}
                  = {[holder |-> p, tx |-> t, balance |-> Net(PairOutputs(p))[t]] : t \in Touching(PairOutputs(p), L)}
           /\ \A w \in WalletPairs :
                  {h \in HistoryOf(L) : h.holder = w}
                  = {[holder |-> w, tx |-> t, balance |-> Net(WalletOutputs(w))[t]] : t \in Touching(WalletOutputs(w), L)}
<1>1. \A t \in L : pairsOf(t) \subseteq AddressPairs /\ walletPairsOf(t) \subseteq WalletPairs
  BY PairTouches DEF walletPairsOf
<1>2. \A h : h \in HistoryOf(L) <=>
          \E t \in L : \/ \E p \in pairsOf(t) : h = [holder |-> p, tx |-> t, balance |-> Net(PairOutputs(p))[t]]
                       \/ \E w \in walletPairsOf(t) :
                              h = [holder |-> w, tx |-> t, balance |-> Net(WalletOutputs(w))[t]]
  BY DEF HistoryOf, AddressRows, WalletRows
<1>3. ASSUME NEW p \in AddressPairs
      PROVE  {h \in HistoryOf(L) : h.holder = p}
             = {[holder |-> p, tx |-> t, balance |-> Net(PairOutputs(p))[t]] : t \in Touching(PairOutputs(p), L)}
  <2> DEFINE row(t) == [holder |-> p, tx |-> t, balance |-> Net(PairOutputs(p))[t]]
  <2>1. \A t : t \in Touching(PairOutputs(p), L) <=> t \in L /\ p \in pairsOf(t)
    BY <1>3, PairTouches DEF Touching
  <2>2. ASSUME NEW h \in HistoryOf(L), h.holder = p
        PROVE  \E t \in Touching(PairOutputs(p), L) : h = row(t)
    <3>1. PICK t \in L : \/ \E q \in pairsOf(t) : h = [holder |-> q, tx |-> t, balance |-> Net(PairOutputs(q))[t]]
                         \/ \E w \in walletPairsOf(t) :
                                h = [holder |-> w, tx |-> t, balance |-> Net(WalletOutputs(w))[t]]
      BY <1>2
    <3>2. CASE \E w \in walletPairsOf(t) : h = [holder |-> w, tx |-> t, balance |-> Net(WalletOutputs(w))[t]]
      <4>1. p \in walletPairsOf(t)
        BY <2>2, <3>2
      <4> QED
        BY <1>1, <1>3, <4>1, HoldersApart
    <3>3. CASE \E q \in pairsOf(t) : h = [holder |-> q, tx |-> t, balance |-> Net(PairOutputs(q))[t]]
      <4>1. PICK q \in pairsOf(t) : h = [holder |-> q, tx |-> t, balance |-> Net(PairOutputs(q))[t]]
        BY <3>3
      <4>2. q = p
        BY <2>2, <4>1
      <4> QED
        BY <2>1, <4>1, <4>2
    <3> QED
      BY <3>1, <3>2, <3>3
  <2>3. ASSUME NEW t \in Touching(PairOutputs(p), L)
        PROVE  row(t) \in HistoryOf(L) /\ row(t).holder = p
    BY <1>2, <2>1, <2>3
  <2> QED
    BY <2>2, <2>3
<1>4. ASSUME NEW w \in WalletPairs
      PROVE  {h \in HistoryOf(L) : h.holder = w}
             = {[holder |-> w, tx |-> t, balance |-> Net(WalletOutputs(w))[t]] : t \in Touching(WalletOutputs(w), L)}
  <2> DEFINE row(t) == [holder |-> w, tx |-> t, balance |-> Net(WalletOutputs(w))[t]]
  <2>1. \A t : t \in Touching(WalletOutputs(w), L) <=> t \in L /\ w \in walletPairsOf(t)
    BY <1>4, WalletTouches DEF Touching
  <2>2. ASSUME NEW h \in HistoryOf(L), h.holder = w
        PROVE  \E t \in Touching(WalletOutputs(w), L) : h = row(t)
    <3>1. PICK t \in L : \/ \E q \in pairsOf(t) : h = [holder |-> q, tx |-> t, balance |-> Net(PairOutputs(q))[t]]
                         \/ \E q \in walletPairsOf(t) :
                                h = [holder |-> q, tx |-> t, balance |-> Net(WalletOutputs(q))[t]]
      BY <1>2
    <3>2. CASE \E q \in pairsOf(t) : h = [holder |-> q, tx |-> t, balance |-> Net(PairOutputs(q))[t]]
      <4>1. w \in pairsOf(t)
        BY <2>2, <3>2
      <4> QED
        BY <1>1, <1>4, <4>1, HoldersApart
    <3>3. CASE \E q \in walletPairsOf(t) : h = [holder |-> q, tx |-> t, balance |-> Net(WalletOutputs(q))[t]]
      <4>1. PICK q \in walletPairsOf(t) : h = [holder |-> q, tx |-> t, balance |-> Net(WalletOutputs(q))[t]]
        BY <3>3
      <4>2. q = w
        BY <2>2, <4>1
      <4> QED
        BY <2>1, <4>1, <4>2
    <3> QED
      BY <3>1, <3>2, <3>3
  <2>3. ASSUME NEW t \in Touching(WalletOutputs(w), L)
        PROVE  row(t) \in HistoryOf(L) /\ row(t).holder = w
    BY <1>2, <2>1, <2>3
  <2> QED
    BY <2>2, <2>3
<1> QED
  BY <1>3, <1>4

\* The counted invariant gives HistorySums
LEMMA CountedSums == Counted(db) => HistorySums
<1> SUFFICES ASSUME Counted(db) PROVE HistorySums
  OBVIOUS
<1> DEFINE L == LiveIn(db)
<1>1. L \in SUBSET Txs /\ db.history = HistoryOf(L)
  BY DEF LiveIn, Counted
<1>2. /\ \A p \in AddressPairs : CountedRow(db.addressBalance[p], PairOutputs(p), L)
      /\ \A w \in WalletPairs : CountedRow(db.walletBalance[w], WalletOutputs(w), L)
  BY DEF Counted
<1> HIDE DEF L
<1>3. ASSUME NEW p \in AddressPairs
      PROVE  db.addressBalance[p].unlocked + db.addressBalance[p].locked
                 = SumFunction([h \in {h \in db.history : h.holder = p} |-> h.balance])
  <2> DEFINE R == {h \in db.history : h.holder = p}
             H == PairOutputs(p)
  <2>1. R = HolderRows(p, H, L) /\ H \in SUBSET Outputs
    BY <1>1, <1>3, HistoryOfHolder, HolderSets DEF HolderRows
  <2>2. db.addressBalance[p].unlocked + db.addressBalance[p].locked = SumFunctionOnSet(Net(H), Touching(H, L))
    BY <1>2, <1>3 DEF CountedRow
  <2> HIDE DEF R, H
  <2>3. RowSum(R) = SumFunctionOnSet(Net(H), Touching(H, L))
    BY <1>1, <2>1, HolderRowsSum
  <2> QED
    BY <2>2, <2>3 DEF R, RowSum
<1>4. ASSUME NEW w \in WalletPairs
      PROVE  db.walletBalance[w].unlocked + db.walletBalance[w].locked
                 = SumFunction([h \in {h \in db.history : h.holder = w} |-> h.balance])
  <2> DEFINE R == {h \in db.history : h.holder = w}
             H == WalletOutputs(w)
  <2>1. R = HolderRows(w, H, L) /\ H \in SUBSET Outputs
    BY <1>1, <1>4, HistoryOfHolder, HolderSets DEF HolderRows
  <2>2. db.walletBalance[w].unlocked + db.walletBalance[w].locked = SumFunctionOnSet(Net(H), Touching(H, L))
    BY <1>2, <1>4 DEF CountedRow
  <2> HIDE DEF R, H
  <2>3. RowSum(R) = SumFunctionOnSet(Net(H), Touching(H, L))
    BY <1>1, <2>1, HolderRowsSum
  <2> QED
    BY <2>2, <2>3 DEF R, RowSum
<1> QED
  BY <1>3, <1>4 DEF HistorySums

\* and TransactionCounts,
LEMMA CountedCounts == Counted(db) => TransactionCounts
<1> SUFFICES ASSUME Counted(db) PROVE TransactionCounts
  OBVIOUS
<1>1. Live = LiveIn(db) /\ Live \in SUBSET Txs
  BY DEF Live, LiveIn
<1>2. \A a \in Addresses : {t \in Live : a \in getInvolvedAddresses(t)} = Touching(AddressOutputs(a), LiveIn(db))
  BY <1>1, Involves DEF Touching, Touches
<1>3. \A p \in AddressPairs : {t \in Live : p \in pairsOf(t)} = Touching(PairOutputs(p), LiveIn(db))
  BY <1>1, PairTouches DEF Touching
<1>4. \A w \in WalletPairs : {t \in Live : w \in walletPairsOf(t)} = Touching(WalletOutputs(w), LiveIn(db))
  BY <1>1, WalletTouches DEF Touching
<1> QED
  BY <1>2, <1>3, <1>4 DEF TransactionCounts, Counted, CountedRow

\* the exact one BalancesAreUtxos
LEMMA ExactBalances == Exactly(db) => BalancesAreUtxos
<1> SUFFICES ASSUME Exactly(db), NEW p \in AddressPairs
             PROVE  LET r == db.addressBalance[p]
                        unspent == At(unspentRows(db), p)
                        locked == {o \in unspent : db.txo[o].locked}
                    IN  /\ r.locked = Amount(locked)
                        /\ r.unlocked = Amount(unspent \ locked)
                        /\ r.received = Amount({o \in At(Outputs, p) : Out[o].tx \in Live})
  BY DEF BalancesAreUtxos
<1> DEFINE unspent == At(unspentRows(db), p)
           locked == {o \in unspent : db.txo[o].locked}
           H == PairOutputs(p)
<1>1. unspentRows(db) \in SUBSET Outputs
  BY DEF unspentRows
<1>2. unspent = unspentRows(db) \cap H /\ At(Outputs, p) = H
  BY <1>1, Holders DEF PairOutputs
<1>3. locked = LockedRows(db) \cap H /\ unspent \ locked = (unspentRows(db) \ LockedRows(db)) \cap H
  BY <1>2 DEF LockedRows
<1>4. {o \in At(Outputs, p) : Out[o].tx \in Live} = {o \in H : Out[o].tx \in LiveIn(db)}
  BY <1>2 DEF Live, LiveIn
<1>5. ExactRow(db.addressBalance[p], H, LiveIn(db), unspentRows(db), LockedRows(db))
  BY DEF Exactly
<1> HIDE DEF unspent, locked, H
<1>6. /\ db.addressBalance[p].locked = Amount(locked)
      /\ db.addressBalance[p].unlocked = Amount(unspent \ locked)
      /\ db.addressBalance[p].received = Amount({o \in At(Outputs, p) : Out[o].tx \in Live})
  BY <1>3, <1>4, <1>5 DEF ExactRow
<1> QED
  BY <1>6 DEF unspent, locked

\* Summed address by address, what a wallet holds of S.
LEMMA AmountByAddress ==
    ASSUME NEW S \in SUBSET Outputs, NEW w \in WalletPairs,
           NEW f, DOMAIN f = AddressesOf(w[1]),
           \A a \in AddressesOf(w[1]) : f[a] = Amount(S \cap PairOutputs(<<a, w[2]>>))
    PROVE  SumFunction(f) = Amount(S \cap WalletOutputs(w))
<1> DEFINE A == AddressesOf(w[1])
           v == [o \in Outputs |-> Out[o].value]
           T == S \cap WalletOutputs(w)
           key == [o \in Outputs |-> Out[o].address]
           g == [a \in A |-> SumFunctionOnSet(v, {o \in T : key[o] = a})]
<1>1. \A o \in Outputs : walletPairOf(o) = w <=> Owner[Out[o].address] = w[1] /\ Out[o].token = w[2]
  BY DEF walletPairOf, WalletPairs
<1>2. T \in SUBSET Outputs /\ (\A o \in T : v[o] \in Int) /\ \A o \in T : key[o] \in A
  BY <1>1, LedgerAssumption DEF AddressesOf, WalletOutputs
<1>3. IsFiniteSet(T) /\ IsFiniteSet(A)
  <2>1. A \in SUBSET Addresses
    BY DEF AddressesOf
  <2> QED
    BY <1>2, <2>1, AmountNat, LedgerAssumption, FS_Subset
<1>4. ASSUME NEW a \in A
      PROVE  {o \in T : key[o] = a} = S \cap PairOutputs(<<a, w[2]>>)
  <2>1. \A o \in Outputs : pairOf(o) = <<a, w[2]>> <=> Out[o].address = a /\ Out[o].token = w[2]
    BY DEF pairOf
  <2>2. Owner[a] = w[1]
    BY <1>4 DEF AddressesOf
  <2> QED
    BY <1>1, <2>1, <2>2 DEF PairOutputs, WalletOutputs
<1>5. SumFunctionOnSet(v, T) = Amount(T)
  BY DEF Amount
<1>6. \A a \in A : g[a] = f[a]
  BY <1>4 DEF Amount
<1>7. \A a \in A : f[a] \in Int
  <2> SUFFICES ASSUME NEW a \in A PROVE f[a] \in Int
    OBVIOUS
  <2>1. S \cap PairOutputs(<<a, w[2]>>) \in SUBSET Outputs
    OBVIOUS
  <2>2. Amount(S \cap PairOutputs(<<a, w[2]>>)) \in Nat
    BY <2>1, AmountNat
  <2> QED
    BY <2>2
<1>8. DOMAIN f = A
  OBVIOUS
<1> HIDE DEF v, T, key, A
<1>9. SumFunctionOnSet(g, A) = Amount(T)
  BY <1>2, <1>3, <1>5, SumByKey
<1> HIDE DEF g
<1>10. SumFunctionOnSet(f, A) = SumFunctionOnSet(g, A)
  BY <1>3, <1>6, <1>7, SumSame
<1>11. SumFunction(f) = SumFunctionOnSet(f, A)
  BY <1>8, SumFunctionIsOnDomain
<1> QED
  BY <1>9, <1>10, <1>11 DEF T

\* and WalletsAreAddresses.
LEMMA ExactWallets == Exactly(db) => WalletsAreAddresses
<1> SUFFICES ASSUME Exactly(db), NEW w \in WalletPairs
             PROVE  LET r == db.walletBalance[w]
                        B(a) == db.addressBalance[<<a, w[2]>>]
                    IN  /\ r.unlocked = SumFunction([a \in AddressesOf(w[1]) |-> B(a).unlocked])
                        /\ r.locked = SumFunction([a \in AddressesOf(w[1]) |-> B(a).locked])
                        /\ r.received = SumFunction([a \in AddressesOf(w[1]) |-> B(a).received])
  BY DEF WalletsAreAddresses
<1> DEFINE r == db.walletBalance[w]
           B(a) == db.addressBalance[<<a, w[2]>>]
           A == AddressesOf(w[1])
           L == LiveIn(db)
           U == unspentRows(db)
           K == LockedRows(db)
           X == {o \in Outputs : Out[o].tx \in L}
           Y == U \ K
           fu == [a \in A |-> B(a).unlocked]
           fl == [a \in A |-> B(a).locked]
           fr == [a \in A |-> B(a).received]
<1>1. K \in SUBSET Outputs /\ Y \in SUBSET Outputs /\ X \in SUBSET Outputs
  BY DEF unspentRows, LockedRows
<1>2. ASSUME NEW H \in SUBSET Outputs
      PROVE  {o \in H : Out[o].tx \in L} = X \cap H
  OBVIOUS
<1>3. \A a \in A : <<a, w[2]>> \in AddressPairs
  BY DEF AddressesOf, AddressPairs, WalletPairs
<1>4. ASSUME NEW a \in A
      PROVE  /\ B(a).unlocked = Amount(Y \cap PairOutputs(<<a, w[2]>>))
             /\ B(a).locked = Amount(K \cap PairOutputs(<<a, w[2]>>))
             /\ B(a).received = Amount(X \cap PairOutputs(<<a, w[2]>>))
  <2>1. ExactRow(B(a), PairOutputs(<<a, w[2]>>), L, U, K)
    BY <1>3, <1>4 DEF Exactly
  <2>2. PairOutputs(<<a, w[2]>>) \in SUBSET Outputs
    BY HolderSets
  <2>3. {o \in PairOutputs(<<a, w[2]>>) : Out[o].tx \in L} = X \cap PairOutputs(<<a, w[2]>>)
    BY <1>2, <2>2
  <2> QED
    BY <2>1, <2>3 DEF ExactRow
<1>5. /\ r.unlocked = Amount(Y \cap WalletOutputs(w)) /\ r.locked = Amount(K \cap WalletOutputs(w))
      /\ r.received = Amount(X \cap WalletOutputs(w))
  <2>1. ExactRow(r, WalletOutputs(w), L, U, K) /\ WalletOutputs(w) \in SUBSET Outputs
    BY HolderSets DEF Exactly
  <2>2. {o \in WalletOutputs(w) : Out[o].tx \in L} = X \cap WalletOutputs(w)
    BY <1>2, <2>1
  <2> QED
    BY <2>1, <2>2 DEF ExactRow
<1>6. /\ DOMAIN fu = A /\ \A a \in A : fu[a] = Amount(Y \cap PairOutputs(<<a, w[2]>>))
      /\ DOMAIN fl = A /\ \A a \in A : fl[a] = Amount(K \cap PairOutputs(<<a, w[2]>>))
      /\ DOMAIN fr = A /\ \A a \in A : fr[a] = Amount(X \cap PairOutputs(<<a, w[2]>>))
  BY <1>4
<1> HIDE DEF X, Y, K, U, L, fu, fl, fr, r
<1>7. SumFunction(fu) = Amount(Y \cap WalletOutputs(w))
  BY <1>1, <1>6, AmountByAddress
<1>8. SumFunction(fl) = Amount(K \cap WalletOutputs(w))
  BY <1>1, <1>6, AmountByAddress
<1>9. SumFunction(fr) = Amount(X \cap WalletOutputs(w))
  BY <1>1, <1>6, AmountByAddress
<1> QED
  BY <1>5, <1>7, <1>8, <1>9 DEF fu, fl, fr, r

---------------------------------------------------------------------------
(* Rewards and timelocks. *)

\* Block heights start at one and a reward stays locked for a block at least.
HeightsFromOne == RewardLock >= 1 /\ \A t \in Txs : Tx[t].block => Tx[t].height >= 1

\* The live blocks have no gap below the highest, and a locked reward lies above them all.
BlockIn(L, h) == \E v \in L : Tx[v].block /\ Tx[v].height = h
BlockLocks(d) ==
    /\ \A o \in LockedRows(d) : Out[o].timelock = 0 =>
           /\ Tx[Out[o].tx].block
           /\ \A u \in LiveIn(d) : Tx[u].block => Tx[u].height < heightlock(o)
    /\ \A u \in LiveIn(d) : Tx[u].block => \A h \in 1..Tx[u].height : BlockIn(LiveIn(d), h)

\* The heightlock of a reward.
LEMMA Heightlocks ==
    ASSUME NEW t \in Txs, Tx[t].block
    PROVE  /\ Tx[t].height \in Nat /\ RewardLock \in Nat
           /\ \A o \in Outputs : Out[o].tx = t => heightlock(o) = Tx[t].height + RewardLock
  BY LedgerAssumption DEF heightlock

\* A block is announced on top of a chain without gaps.
LEMMA BlocksBelow ==
    ASSUME BlockLocks(db), HeightsFromOne, NEW t \in Txs, Announced(t), Tx[t].block
    PROVE  /\ \A u \in LiveIn(db) : Tx[u].block => Tx[u].height < Tx[t].height
           /\ \A h \in 1..(Tx[t].height - 1) : BlockIn(LiveIn(db), h)
<1>1. /\ Tx[t].height \in Nat /\ Tx[t].height >= 1
      /\ \A u \in LiveIn(db) : u \in Txs /\ (Tx[u].block => Tx[u].height \in Nat)
  BY LedgerAssumption DEF HeightsFromOne, LiveIn
<1>2. /\ \A v \in LiveIn(db) : ~(Tx[v].block /\ Tx[v].height = Tx[t].height)
      /\ Tx[t].height > 1 => BlockIn(LiveIn(db), Tx[t].height - 1)
  BY DEF Announced, BlocksAt, Live, LiveIn, BlockIn
<1>3. \A u \in LiveIn(db) : Tx[u].block => \A h \in 1..Tx[u].height : BlockIn(LiveIn(db), h)
  BY DEF BlockLocks
<1>4. ASSUME NEW u \in LiveIn(db), Tx[u].block PROVE Tx[u].height < Tx[t].height
  <2> SUFFICES ASSUME Tx[u].height >= Tx[t].height PROVE FALSE
    BY <1>1, <1>4
  <2>1. Tx[t].height \in 1..Tx[u].height
    BY <1>1, <1>4
  <2>2. BlockIn(LiveIn(db), Tx[t].height)
    BY <1>3, <1>4, <2>1
  <2> QED
    BY <1>2, <2>2 DEF BlockIn
<1>5. ASSUME NEW h \in 1..(Tx[t].height - 1) PROVE BlockIn(LiveIn(db), h)
  <2>1. Tx[t].height > 1
    BY <1>1, <1>5
  <2>2. PICK v \in LiveIn(db) : Tx[v].block /\ Tx[v].height = Tx[t].height - 1
    BY <1>2, <2>1 DEF BlockIn
  <2> QED
    BY <1>3, <1>5, <2>2
<1> QED
  BY <1>4, <1>5

\* What is left locked without a timelock waits for a block above the new one.
LEMMA LockedAbove ==
    ASSUME BlockLocks(db), HeightsFromOne, NEW t \in Txs, Announced(t), Tx[t].block, now \in Nat,
           NEW d1, NEW d2, NEW d3, NEW e, AcceptsTo(t, d1, d2, d3, e), NEW o \in LockedRows(e)
    PROVE  /\ o \in Outputs
           /\ heightlock(o) > Tx[t].height \/ Out[o].timelock >= now
           /\ Out[o].timelock = 0 => Tx[Out[o].tx].block /\ heightlock(o) > Tx[t].height
<1>0. o \in Outputs
  BY DEF LockedRows, unspentRows
<1>1. Tx[t].height \in Nat /\ Tx[t].height >= 1 /\ RewardLock \in Nat /\ RewardLock >= 1
      /\ Out[o].timelock \in Nat /\ Out[o].tx \in Txs
  BY <1>0, LedgerAssumption DEF HeightsFromOne
<1>2. CASE o \in markLockedOutputs(t)
  <2>1. Out[o].tx = t
    BY <1>2 DEF markLockedOutputs, outputsOf
  <2>2. heightlock(o) = Tx[t].height + RewardLock
    BY <1>0, <2>1, Heightlocks
  <2> QED
    BY <1>0, <1>1, <2>1, <2>2
<1>3. CASE o \notin markLockedOutputs(t)
  <2>1. /\ o \in LockedRows(db)
        /\ ~(heightlock(o) = Tx[t].height /\ Out[o].timelock <= now) /\ Out[o].timelock \notin 1..(now - 1)
    BY <1>3 DEF AcceptsTo
  <2>2. ASSUME Out[o].timelock = 0
        PROVE  Tx[Out[o].tx].block /\ heightlock(o) > Tx[t].height
    <3>1. /\ Tx[Out[o].tx].block
          /\ \A u \in LiveIn(db) : Tx[u].block => Tx[u].height < heightlock(o)
      BY <2>1, <2>2 DEF BlockLocks
    <3>2. Tx[Out[o].tx].height \in Nat /\ heightlock(o) = Tx[Out[o].tx].height + RewardLock
          /\ Tx[Out[o].tx].height >= 1
      BY <1>0, <1>1, <3>1, Heightlocks DEF HeightsFromOne
    <3>3. heightlock(o) # Tx[t].height
      BY <2>1, <2>2
    <3>4. CASE Tx[t].height = 1
      BY <1>1, <3>1, <3>2, <3>4
    <3>5. CASE Tx[t].height > 1
      <4>1. Tx[t].height - 1 \in 1..(Tx[t].height - 1)
        BY <1>1, <3>5
      <4>2. PICK v \in LiveIn(db) : Tx[v].block /\ Tx[v].height = Tx[t].height - 1
        BY <4>1, BlocksBelow DEF BlockIn
      <4>3. Tx[t].height - 1 < heightlock(o)
        BY <3>1, <4>2
      <4> QED
        BY <1>1, <3>1, <3>2, <3>3, <4>3
    <3> QED
      BY <1>1, <3>4, <3>5
  <2>3. Out[o].timelock > 0 => Out[o].timelock >= now
    BY <1>1, <2>1
  <2> QED
    BY <1>0, <1>1, <2>2, <2>3
<1> QED
  BY <1>2, <1>3

\* Reorgs keep the chain without gaps and its locked rewards above it.
LEMMA BlockLocksNext ==
    LedgerInv /\ Good(db) /\ BlockLocks(db) /\ HeightsFromOne /\ [Next]_vars => BlockLocks(db')
<1> SUFFICES ASSUME LedgerInv, Good(db), BlockLocks(db), HeightsFromOne, [Next]_vars
             PROVE  BlockLocks(db')
  OBVIOUS
<1>1. Rows /\ now \in Nat
  BY Stepping, LedgerAssumption DEF LedgerInv
<1>2. ASSUME NEW t \in Txs, Accepts(t) PROVE BlockLocks(db')
  <2>1. Announced(t)
    BY <1>2 DEF Accepts
  <2>2. PICK d1, d2, d3 : AcceptsTo(t, d1, d2, d3, db')
    BY <1>2 DEF Accepts
  <2>3. /\ LiveIn(db') = LiveIn(db) \cup {t}
        /\ LockedRows(db') \subseteq LockedRows(db) \cup markLockedOutputs(t)
    BY <2>2 DEF AcceptsTo
  <2>4. \A u \in LiveIn(db) : u \in Txs /\ (Tx[u].block => Tx[u].height \in Nat)
    BY LedgerAssumption DEF LiveIn
  <2>5. CASE Tx[t].block
    <3>1. /\ \A u \in LiveIn(db) : Tx[u].block => Tx[u].height < Tx[t].height
          /\ \A h \in 1..(Tx[t].height - 1) : BlockIn(LiveIn(db), h)
          /\ Tx[t].height \in Nat
      BY <2>1, <2>5, BlocksBelow, Heightlocks
    <3>2. ASSUME NEW o \in LockedRows(db'), Out[o].timelock = 0
          PROVE  /\ Tx[Out[o].tx].block
                 /\ \A u \in LiveIn(db') : Tx[u].block => Tx[u].height < heightlock(o)
      <4>1. o \in Outputs /\ Tx[Out[o].tx].block /\ heightlock(o) > Tx[t].height
        BY <1>1, <2>1, <2>2, <2>5, <3>2, LockedAbove
      <4>2. Out[o].tx \in Txs /\ heightlock(o) \in Int
        BY <4>1, LedgerAssumption, Heightlocks
      <4> QED
        BY <2>3, <2>4, <3>1, <4>1, <4>2
    <3>3. ASSUME NEW u \in LiveIn(db'), Tx[u].block, NEW h \in 1..Tx[u].height
          PROVE  BlockIn(LiveIn(db'), h)
      <4>1. CASE u \in LiveIn(db)
        BY <2>3, <3>3, <4>1 DEF BlockLocks, BlockIn
      <4>2. CASE u = t /\ h = Tx[t].height
        BY <2>3, <2>5, <4>2 DEF BlockIn
      <4>3. CASE u = t /\ h # Tx[t].height
        <5>1. h \in 1..(Tx[t].height - 1)
          BY <3>1, <3>3, <4>3
        <5> QED
          BY <2>3, <3>1, <5>1 DEF BlockIn
      <4> QED
        BY <2>3, <4>1, <4>2, <4>3
    <3> QED
      BY <3>2, <3>3 DEF BlockLocks
  <2>6. CASE ~Tx[t].block
    <3>1. ASSUME NEW o \in LockedRows(db'), Out[o].timelock = 0
          PROVE  o \in LockedRows(db)
      BY <1>1, <2>3, <2>6, <3>1 DEF markLockedOutputs
    <3>2. \A u \in LiveIn(db') : Tx[u].block => u \in LiveIn(db)
      BY <2>3, <2>6
    <3>3. \A h : BlockIn(LiveIn(db), h) => BlockIn(LiveIn(db'), h)
      BY <2>3 DEF BlockIn
    <3> QED
      BY <3>1, <3>2, <3>3 DEF BlockLocks
  <2> QED
    BY <2>5, <2>6
<1>3. ASSUME NEW t \in Txs, Voids(t) PROVE BlockLocks(db')
  <2>1. /\ LiveIn(db') = LiveIn(db) \ {t} /\ LockedRows(db') \subseteq LockedRows(db)
        /\ t \in LiveIn(db)
    BY <1>3 DEF Voids, LiveIn
  <2>2. Tx[t].block => ~BlockIn(LiveIn(db), Tx[t].height + 1)
    BY <1>3 DEF Voids, Retracted, BlocksAt, Live, LiveIn, BlockIn
  <2>3. \A u \in LiveIn(db) : Tx[u].height \in Nat
    BY LedgerAssumption DEF LiveIn
  <2>4. ASSUME NEW u \in LiveIn(db'), Tx[u].block, NEW h \in 1..Tx[u].height
        PROVE  BlockIn(LiveIn(db'), h)
    <3>1. u \in LiveIn(db) /\ u # t
      BY <2>1
    <3>2. PICK v \in LiveIn(db) : Tx[v].block /\ Tx[v].height = h
      BY <2>4, <3>1 DEF BlockLocks, BlockIn
    <3>3. CASE v # t
      BY <2>1, <3>2, <3>3 DEF BlockIn
    <3>4. CASE v = t
      <4>1. Tx[u].height <= h
        <5> SUFFICES ASSUME Tx[u].height > h PROVE FALSE
          BY <2>3, <2>4, <3>1
        <5>1. h + 1 \in 1..Tx[u].height
          BY <2>3, <2>4, <3>1
        <5>2. BlockIn(LiveIn(db), h + 1)
          BY <2>4, <3>1, <5>1 DEF BlockLocks
        <5> QED
          BY <2>2, <3>2, <3>4, <5>2
      <4>2. Tx[u].height = h
        BY <2>3, <2>4, <3>1, <4>1
      <4> QED
        BY <2>4, <4>2 DEF BlockIn
    <3> QED
      BY <3>3, <3>4
  <2> QED
    BY <2>1, <2>4 DEF BlockLocks
<1>4. ASSUME NEW t \in Txs, Cleans(t) PROVE BlockLocks(db')
  BY <1>4 DEF Cleans, BlockLocks
<1>5. CASE UNCHANGED db
  BY <1>5
<1> QED
  BY <1>1, <1>2, <1>3, <1>4, <1>5 DEF Rows

\* UnlockedByBlock, of one step.
LEMMA UnlockedStep ==
    ASSUME LedgerInv, Good(db), BlockLocks(db), HeightsFromOne, [Next]_vars,
           NEW t \in Txs, Tx[t].block, t \notin Live, t \in Live',
           NEW o \in unspentRows(db'), db'.txo[o].locked
    PROVE  heightlock(o) > Tx[t].height \/ Out[o].timelock >= now
<1>1. Rows /\ now \in Nat
  BY Stepping, LedgerAssumption DEF LedgerInv
<1>2. Live = LiveIn(db) /\ Live' = LiveIn(db')
  BY DEF Live, LiveIn
<1>3. o \in LockedRows(db')
  BY DEF LockedRows
<1>4. ~UNCHANGED db
  BY <1>2
<1>5. \A u \in Txs : ~Voids(u) /\ ~Cleans(u)
  BY <1>2 DEF Voids, Cleans
<1>6. PICK u \in Txs : Accepts(u)
  BY <1>1, <1>4, <1>5 DEF Rows
<1>7. Announced(u)
  BY <1>6 DEF Accepts
<1>8. PICK d1, d2, d3 : AcceptsTo(u, d1, d2, d3, db')
  BY <1>6 DEF Accepts
<1>9. u = t
  BY <1>2, <1>8 DEF AcceptsTo
<1> QED
  BY <1>1, <1>3, <1>7, <1>8, <1>9, LockedAbove

---------------------------------------------------------------------------
(* The theorems. *)

\* Every table keeps its shape, whatever the chain of vertices and reorgs.
THEOREM LedgerTypeCorrect == Spec => []TypeOK
<1>1. LedgerInv => TypeOK
  BY DEF LedgerInv, TypeOK, Consistent, Database, Statuses, OutputRows
<1> QED
  BY InitInv, NextInv, <1>1, PTL DEF Spec

\* An output is there, voided and spent exactly as its transaction and the live
\* transactions say.
THEOREM OutputsFollow == Spec => []OutputsFollowTxs
<1>1. LedgerInv => OutputsFollowTxs
  BY DEF LedgerInv, OutputsFollowTxs, Consistent, Follows, Live
<1> QED
  BY InitInv, NextInv, <1>1, PTL DEF Spec

\* The three transaction counters count the live transactions that touch their holder,
\* through every chain of accepted, voided, unvoided and removed vertices.
THEOREM CountsCorrect == Spec => []TransactionCounts
<1> DEFINE Inv == LedgerInv /\ Good(db)
<1>1. Init => Inv
  BY InitInv, GoodInit
<1>2. Inv /\ [Next]_vars => Inv'
  BY NextInv, GoodNext
<1>3. Inv => TransactionCounts
  BY CountedCounts DEF Good
<1> QED
  BY <1>1, <1>2, <1>3, PTL DEF Spec

\* What validateAddressBalances asserts: balance and history agree, for addresses and
\* wallets, even where unlocking a voided output has put the balance itself wrong.
THEOREM HistoryCorrect == Spec => []HistorySums
<1> DEFINE Inv == LedgerInv /\ Good(db)
<1>1. Init => Inv
  BY InitInv, GoodInit
<1>2. Inv /\ [Next]_vars => Inv'
  BY NextInv, GoodNext
<1>3. Inv => HistorySums
  BY CountedSums DEF Good
<1> QED
  BY <1>1, <1>2, <1>3, PTL DEF Spec

\* Exact balances are inductive when no output with a timelock can be voided or removed.
LEMMA ExactAlways ==
    ASSUME TimelocksStay
    PROVE  Spec => [](LedgerInv /\ Good(db) /\ ExactInv)
<1> DEFINE Inv == LedgerInv /\ Good(db) /\ ExactInv
<1>1. Init => Inv
  BY InitInv, GoodInit DEF Init, ExactInv
<1>2. Inv /\ [Next]_vars => Inv'
  BY NextInv, GoodNext, ExactNext
<1> QED
  BY <1>1, <1>2, PTL DEF Spec

\* When no output with a timelock is ever voided or removed, every address balance is the
\* sum of its outputs, unlocked, locked and received.  Without the hypothesis the query
\* for expired timelocks unlocks a voided output: see the run timelock.
THEOREM BalancesCorrect == ASSUME TimelocksStay PROVE Spec => []BalancesAreUtxos
<1>1. LedgerInv /\ Good(db) /\ ExactInv => BalancesAreUtxos
  BY ExactBalances DEF ExactInv
<1> QED
  BY <1>1, ExactAlways, PTL

\* Under the same hypothesis the row of a wallet is the sum of its addresses' rows.
THEOREM WalletsCorrect == ASSUME TimelocksStay PROVE Spec => []WalletsAreAddresses
<1>1. LedgerInv /\ Good(db) /\ ExactInv => WalletsAreAddresses
  BY ExactWallets DEF ExactInv
<1> QED
  BY <1>1, ExactAlways, PTL

\* Under the same hypothesis no handler takes an unsigned column below zero, so that none
\* fails for ever.
THEOREM RangeKept == ASSUME TimelocksStay PROVE Spec => []NeverOutOfRange
<1>1. LedgerInv /\ Good(db) /\ ExactInv => NeverOutOfRange
  BY DEF ExactInv, NeverOutOfRange
<1> QED
  BY <1>1, ExactAlways, PTL

\* Under the same hypothesis, and when no vertex that may be voided both spends and pays
\* authorities of a token at an address, the authority columns say what the unspent outputs
\* give, unlocked and locked.  Without the second hypothesis the void of a moved authority
\* loses it: see the run authority.
THEOREM AuthoritiesCorrect == ASSUME TimelocksStay, AuthoritiesApart PROVE Spec => []AuthoritiesMatch
<1> DEFINE Exact == LedgerInv /\ Good(db) /\ ExactInv
<1>1. Init => AuthInv
  <2> SUFFICES ASSUME Init PROVE AuthInv
    OBVIOUS
  <2>1. Granted(db)
    BY GoodInit
  <2>2. LockedRows(db) = {}
    BY DEF Init, LockedRows, unspentRows, NoOutput
  <2> QED
    BY <2>1, <2>2 DEF AuthInv
<1>2. Exact /\ AuthInv /\ [Next]_vars => AuthInv'
  BY AuthNext
<1>3. AuthInv => AuthoritiesMatch
  BY GrantedMatch DEF AuthInv
<1>4. Spec => []Exact
  BY ExactAlways
<1> QED
  BY <1>1, <1>2, <1>3, <1>4, PTL DEF Spec

\* A block leaves nothing locked whose height and time have come, for every reorg: a
\* reward stays above the chain because the chain has no gap.
THEOREM UnlockedOnTime == ASSUME HeightsFromOne PROVE Spec => UnlockedByBlock
<1> DEFINE Inv == LedgerInv /\ Good(db) /\ BlockLocks(db)
<1>1. Init => Inv
  <2> SUFFICES ASSUME Init PROVE BlockLocks(db)
    BY InitInv, GoodInit
  <2>1. LiveIn(db) = {} /\ LockedRows(db) = {}
    BY DEF Init, LiveIn, LockedRows, unspentRows, NoOutput
  <2> QED
    BY <2>1 DEF BlockLocks
<1>2. Inv /\ [Next]_vars => Inv'
  BY NextInv, GoodNext, BlockLocksNext
<1>3. Inv /\ [Next]_vars =>
        [\A t \in Txs : Tx[t].block /\ t \notin Live /\ t \in Live' =>
             \A o \in unspentRows(db') : db'.txo[o].locked =>
                 heightlock(o) > Tx[t].height \/ Out[o].timelock >= now]_vars
  BY UnlockedStep
<1> QED
  BY <1>1, <1>2, <1>3, PTL DEF Spec, UnlockedByBlock
=============================================================================
