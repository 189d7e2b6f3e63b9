---------------------------- MODULE MCTxProposal ----------------------------
(***************************************************************************)
(* Instances of TxProposal: two requests at a time next to the cron, two   *)
(* proposals that want the same outputs of one wallet, outputs of distinct *)
(* transactions.                                                           *)
(***************************************************************************)
EXTENDS TxProposal
CONSTANTS c1, c2, p1, p2, u1, u2, w1

One == {{u1}}
Overlapping == {{u1}, {u1, u2}}
MCTxIdOf == [u \in Utxos |-> u]
MCOwner == [u \in Utxos |-> w1]
=============================================================================
