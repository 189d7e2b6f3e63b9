----------------------------- MODULE EventReplay -----------------------------
(***************************************************************************)
(* What the sync daemon promises: it replays the fullnode's events one by  *)
(* one, in order, each exactly once, and its database always shows the     *)
(* result.  SyncMachine implements this specification.                     *)
(***************************************************************************)
EXTENDS FullnodeEvents

CONSTANT Logs   \* the event streams the fullnode may produce

VARIABLES
  log,    \* the stream of this behaviour
  upto,   \* how many of its events have been replayed
  view    \* what the database shows

Init ==
  /\ log \in Logs
  /\ upto = 0
  /\ view = EmptyView

ReplayNext ==
  /\ upto < Len(log)
  /\ upto' = upto + 1
  /\ view' = Means(view, log[upto + 1])
  /\ UNCHANGED log

Spec == Init /\ [][ReplayNext]_<<log, upto, view>>

(* Every event of the stream is replayed in the end.                       *)
LiveSpec == Spec /\ WF_<<log, upto, view>>(ReplayNext)
=============================================================================
