--------------------------- MODULE MCPushDevices ---------------------------
(* Devices that two wallets register in turn.                              *)
EXTENDS PushDevices
=============================================================================
