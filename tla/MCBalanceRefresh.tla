------------------------- MODULE MCBalanceRefresh -------------------------
(***************************************************************************)
(* Instances of BalanceRefresh: a coin, and later an authority at another  *)
(* address, whose locks expire, and a reward that a block unlocks.         *)
(***************************************************************************)
EXTENDS BalanceRefresh, TLC
CONSTANTS r1, r2, A1, A2, coin, mint, reward

MCOut ==
    coin   :> [address |-> A1, value |-> 1, authority |-> FALSE, timelock |-> 1, heightlock |-> 0] @@
    mint   :> [address |-> A2, value |-> 0, authority |-> TRUE,  timelock |-> 2, heightlock |-> 0] @@
    reward :> [address |-> A2, value |-> 2, authority |-> FALSE, timelock |-> 0, heightlock |-> 1]
Interchangeable == Permutations({r1, r2})
=============================================================================
