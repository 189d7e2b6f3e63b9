--------------------------- MODULE FullnodeEvents ---------------------------
(***************************************************************************)
(* The events a Hathor fullnode streams to the daemon, and what a prefix   *)
(* of them means.  An event carries only the fields the daemon's sync      *)
(* machine decides on: its type, its transaction, whether the metadata     *)
(* says it is voided, its first block, and whether its nano contract       *)
(* execution is 'success' (packages/daemon/src/types/event.ts).            *)
(*                                                                         *)
(* Means and Replay are the reference against which the daemon's database  *)
(* is compared: a pure fold of the stream, written from what each event    *)
(* says, with no notion of handlers, connections, caches or restarts.      *)
(***************************************************************************)
EXTENDS Integers, Sequences

CONSTANTS
  Txs,      \* hashes of vertices
  Blocks,   \* hashes of blocks that can confirm a vertex (its first_block)
  NoBlock   \* null

ASSUME NoBlockAssumption == NoBlock \notin Blocks

BlockOrNone == Blocks \cup {NoBlock}

EventTypes == {"NEW_VERTEX_ACCEPTED", "VERTEX_METADATA_CHANGED",
               "VERTEX_REMOVED", "REORG_STARTED", "TOKEN_CREATED", "OTHER"}

(* For TOKEN_CREATED, tx is nc_exec_info.nc_tx and firstBlock is           *)
(* nc_exec_info.nc_block: only tokens created by a nano contract appear.   *)
Events == [type: EventTypes, tx: Txs, voided: BOOLEAN,
           firstBlock: BlockOrNone, nc: BOOLEAN]

(* What the wallet service shows of a vertex: whether it counts, which     *)
(* block confirms it, and the block of the nano token it created, if any.  *)
Vertex == [live: BOOLEAN, firstBlock: BlockOrNone, token: BlockOrNone]
NoVertex == [live |-> FALSE, firstBlock |-> NoBlock, token |-> NoBlock]
Views == [Txs -> Vertex]
EmptyView == [t \in Txs |-> NoVertex]

(* The view after event e, given the view before it.                       *)
Means(view, e) ==
  LET now == view[e.tx]
      seen == [live |-> TRUE, firstBlock |-> e.firstBlock,
               token |-> IF e.nc THEN now.token ELSE NoBlock]
      becomes ==
        CASE e.type \in {"NEW_VERTEX_ACCEPTED", "VERTEX_METADATA_CHANGED"} ->
               IF e.voided THEN NoVertex ELSE seen
          [] e.type = "VERTEX_REMOVED" -> NoVertex
          [] e.type = "TOKEN_CREATED" -> [now EXCEPT !.token = e.firstBlock]
          [] OTHER -> now
  IN  [view EXCEPT ![e.tx] = becomes]

(* Replay(log)[k] is the view after the first k events of log.             *)
Replay(log) ==
  LET R[k \in 0..Len(log)] ==
        IF k = 0 THEN EmptyView ELSE Means(R[k - 1], log[k])
  IN  R
=============================================================================
