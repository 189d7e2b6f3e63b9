---------------------------- MODULE MCSyncMachine ----------------------------
(* Event streams for checking SyncMachine: each is one a fullnode produces *)
(* for one or two transactions and a few blocks.                           *)
EXTENDS SyncMachine

CONSTANTS t1, t2, b1, b2

New(t, b)     == [type |-> "NEW_VERTEX_ACCEPTED", tx |-> t, voided |-> FALSE,
                  firstBlock |-> b, nc |-> FALSE]
NewVoided(t)  == [New(t, NoBlock) EXCEPT !.voided = TRUE]
Meta(t, b)    == [New(t, b) EXCEPT !.type = "VERTEX_METADATA_CHANGED"]
Exec(t, b)    == [Meta(t, b) EXCEPT !.nc = TRUE]
Voids(t)      == [Meta(t, NoBlock) EXCEPT !.voided = TRUE]
Removes(t)    == [New(t, NoBlock) EXCEPT !.type = "VERTEX_REMOVED"]
Token(t, b)   == [New(t, b) EXCEPT !.type = "TOKEN_CREATED"]
Reorg         == [New(t1, NoBlock) EXCEPT !.type = "REORG_STARTED"]
Other         == [New(t1, NoBlock) EXCEPT !.type = "OTHER"]

(* Everything the machine handles, no event asking for two changes.        *)
MCLogs == {
  <<New(t1, NoBlock), Meta(t1, b1), Meta(t1, b1), Reorg, Meta(t1, NoBlock)>>,
  <<New(t1, NoBlock), New(t2, NoBlock), Voids(t1), Meta(t2, b1), Meta(t1, NoBlock)>>,
  <<NewVoided(t1), Meta(t1, NoBlock), Meta(t1, b1), Other>>,
  <<New(t1, NoBlock), Voids(t1), Meta(t1, b2), Meta(t1, b2)>>,
  <<New(t1, NoBlock), New(t2, NoBlock), Removes(t1), Meta(t2, b2)>>,
  <<New(t1, NoBlock), Exec(t1, b1), Token(t1, b1), Voids(t1), Removes(t1)>>,
  <<New(t1, NoBlock), Exec(t1, b1), Token(t1, b1), Exec(t1, b2), Token(t1, b2)>>,
  <<Other, New(t1, b1), Reorg, Voids(t1)>> }

(* No vertex is removed: the removal of one whose NEW event was skipped,   *)
(* with a later event stored, makes the daemon fail for ever.              *)
MCStaleLogs == {
  <<New(t1, NoBlock), Voids(t1), Other>>,
  <<NewVoided(t1), Meta(t1, NoBlock), Reorg>> }

(* A vertex is removed after another one was accepted.                     *)
MCRemovalLogs == { <<New(t1, NoBlock), New(t2, NoBlock), Removes(t1)>> }

(* A reorg takes a confirmed nano contract back to the mempool: the one    *)
(* event both drops its tokens and its first block.                        *)
MCNanoLogs == {
  <<New(t1, NoBlock), Exec(t1, b1), Token(t1, b1), Meta(t1, NoBlock), Other>> }

(* A vertex is removed from the mempool and received again.                *)
MCReturnLogs == { <<New(t1, NoBlock), Removes(t1), New(t1, NoBlock)>> }

ASSUME RegularOrNot ==
  /\ \A l \in MCLogs \cup MCStaleLogs \cup MCRemovalLogs : Regular(l)
  /\ \A l \in MCNanoLogs \cup MCReturnLogs : ~Regular(l)
=============================================================================
