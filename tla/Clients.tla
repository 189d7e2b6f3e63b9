------------------------------ MODULE Clients ------------------------------
(***************************************************************************)
(* What WsSubscriptions and PushDevices share: the wallets clients follow, *)
(* and the calls that fail.                                                *)
(***************************************************************************)
EXTENDS Naturals, FiniteSets

CONSTANTS
  Wallets,     \* wallets that exist
  None,        \* none of what it stands for
  MaxFailures  \* bound on what fails, ends early, repeats or is lost

ASSUME ClientsAssumption == None \notin Wallets /\ MaxFailures \in Nat

VARIABLE failures  \* how many failures happened

Fails == failures < MaxFailures /\ failures' = failures + 1
=============================================================================
