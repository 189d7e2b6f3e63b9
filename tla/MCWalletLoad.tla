--------------------------- MODULE MCWalletLoad ---------------------------
(***************************************************************************)
(* Instances of WalletLoad.  A vertex pays the first address of each path, *)
(* and one pays the second shielded address, which is beyond the window of *)
(* a load until the first is used.                                         *)
(***************************************************************************)
EXTENDS WalletLoad, TLC
CONSTANTS r1, r2, l1, l2, legacyTx, shieldedTx, deepTx, keys

MCPays == [v \in Vertices |-> CASE v = legacyTx   -> <<NoKeys, 0>>
                                [] v = shieldedTx -> <<keys, 0>>
                                [] v = deepTx     -> <<keys, 1>>]
\* All to legacy addresses, two of them to the last of the second block of two.
BlockPays == [v \in Vertices |-> IF v = legacyTx THEN <<NoKeys, 0>> ELSE <<NoKeys, 3>>]
\* The first pays the first window of one, the others the address that follows it.
ExtendedPays == [v \in Vertices |-> <<NoKeys, IF v = legacyTx THEN 0 ELSE 1>>]
Interchangeable == Permutations({r1, r2}) \cup Permutations({l1, l2})
=============================================================================
