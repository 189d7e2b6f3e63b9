---------------------------- MODULE MCTxLedger ----------------------------
(* Small chains for TxLedger: a fork at height 2, a chain of two spends and a *)
(* timelock over the native token, and a token whose mint authority moves.   *)
EXTENDS TxLedger

CONSTANTS b1, b2, b2f, b3, t1, t2, t3, m1, m2, m3

BlockAt(h) == [block |-> TRUE, height |-> h, spends |-> {}]
Spending(S) == [block |-> FALSE, height |-> 0, spends |-> S]
Pays(t, a, v, lock) == [tx |-> t, address |-> a, token |-> "HTR", value |-> v, auth |-> {}, timelock |-> lock]
Grants(t, a, bits, lock) == [tx |-> t, address |-> a, token |-> "TOK", value |-> 0, auth |-> bits, timelock |-> lock]

AllTxs ==
    [t \in {b1, b2, b2f, b3, t1, t2, t3, m1, m2, m3} |->
        CASE t = b1 -> BlockAt(1)
          [] t \in {b2, b2f} -> BlockAt(2)
          [] t = b3 -> BlockAt(3)
          [] t = t1 -> Spending({"reward"})
          [] t = t2 -> Spending({"change"})
          [] t = t3 -> Spending({"later"})
          [] t = m1 -> Spending({})
          [] t \in {m2, m3} -> Spending({"mint"})]

AllOuts ==
    [reward |-> Pays(b1, "a1", 2, 0), reward2 |-> Pays(b2, "a2", 1, 0), fork |-> Pays(b2f, "a1", 1, 0),
     change |-> Pays(t1, "a1", 1, 0), paid |-> Pays(t1, "a3", 1, 0), later |-> Pays(t2, "a2", 1, 1),
     moved |-> Pays(t3, "a1", 1, 0),
     mint |-> Grants(m1, "a1", {"mint"}, 0), melt |-> Grants(m1, "a1", {"melt"}, 0),
     given |-> Grants(m2, "a2", {"mint"}, 0), kept |-> Grants(m3, "a1", {"mint"}, 0)]

MCTx == [t \in Txs |-> AllTxs[t]]
MCOutputs == {o \in DOMAIN AllOuts : AllOuts[o].tx \in Txs}
MCOut == [o \in MCOutputs |-> AllOuts[o]]
MCAddresses == {"a1", "a2", "a3"}
MCWallets == {"w"}
MCTokens == {"HTR", "TOK"}
MCOwner == [a \in MCAddresses |-> IF a = "a3" THEN NoWallet ELSE "w"]
=============================================================================
