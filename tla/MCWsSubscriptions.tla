------------------------- MODULE MCWsSubscriptions -------------------------
(* A client that connects and joins one wallet or two while others'        *)
(* requests, broadcasts and messages go on, two lambdas at a time.         *)
EXTENDS WsSubscriptions
=============================================================================
