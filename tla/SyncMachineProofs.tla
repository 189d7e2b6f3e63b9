-------------------------- MODULE SyncMachineProofs --------------------------
(***************************************************************************)
(* Proofs about SyncMachine, for every set of transactions, blocks and     *)
(* connections, every stream of events and any number of faults.           *)
(*                                                                         *)
(* First the type invariant, strengthened by what the types of the next    *)
(* state depend on (Shape).  Then, with no abandoned connection speaking   *)
(* ("stale" not in Faults), that events are stored in stream order and     *)
(* none is sent again: the inductive invariant (Position) ties the         *)
(* fullnode's end of the current connection to the position the machine    *)
(* would resume from, and the database to that position.                   *)
(*                                                                         *)
(* Last, with no connection closing under a running service either, and on *)
(* streams that are Regular, that the database shows the replay of the     *)
(* stream: the inductive invariant (Mirror) ties the rows, the cache and   *)
(* the running service to what the events say.                             *)
(***************************************************************************)
EXTENDS SyncMachine, TLAPS, WellFoundedInduction

InSession == Connected \cup {"CONNECTING"}

Shape ==
  /\ TypeOK
  /\ \A c \in Conns : conn[c].wire \in 0..Len(log)
  /\ state \in Handling => event # 0
  /\ state \in InSession => socket \in Conns

-----------------------------------------------------------------------------
(* What a service run leaves in the database is a database again, and its  *)
(* last_event_id is the one there was or the id of the event handled.      *)
LEMMA CommitType ==
  ASSUME log \in Seq(Events), NEW d \in Database, NEW i \in 1..Len(log), NEW s
  PROVE  /\ Commit(s, d, i) \in Database
         /\ Commit(s, d, i).synced \in {i, d.synced}
<1> DEFINE Fine(e) == e \in Database /\ e.synced \in {i, d.synced}
<1>1. log[i].tx \in Txs /\ log[i].firstBlock \in BlockOrNone
  <2>1. log[i] \in Events
    OBVIOUS
  <2> QED
    BY <2>1 DEF Events
<1>2. row_(d, i) \in Row /\ token_(d, i) \in BlockOrNone
  BY <1>1 DEF Database, row_, token_
<1>3. NoBlock \in BlockOrNone /\ NoRow \in Row
  BY DEF BlockOrNone, NoRow, Row
<1>4. ASSUME NEW row \in Row, NEW token \in BlockOrNone
      PROVE  Fine(Synced(d, i, row, token))
  BY <1>1 DEF Database, Synced
<1>5. \A st \in {"absent", "live", "voided"} : NewRow(st, i) \in Row
  BY <1>1 DEF Row, NewRow
<1>6. /\ row_(d, i).st \in {"absent", "live", "voided"}
      /\ [row_(d, i) EXCEPT !.st = "voided"] \in Row
  BY <1>2 DEF Row
<1>7. Fine([d EXCEPT !.row[log[i].tx] = NoRow]) /\ Fine(d)
  BY <1>1, <1>3 DEF Database
<1> HIDE DEF Fine
<1>8. Fine(handleVertexAccepted(d, i)) /\ Fine(handleUnvoidedTx(d, i))
  BY <1>2, <1>4, <1>5, <1>7 DEF handleVertexAccepted, handleUnvoidedTx
<1>9. Fine(handleVertexRemoved(d, i)) /\ Fine(handleVoidedTx(d, i))
  BY <1>3, <1>4, <1>6 DEF handleVertexRemoved, handleVoidedTx
<1>10. Fine(handleTxFirstBlock(d, i)) /\ Fine(handleNcExecVoided(d, i))
  BY <1>2, <1>3, <1>4, <1>5, <1>6 DEF handleTxFirstBlock, handleNcExecVoided
<1>11. Fine(handleTokenCreated(d, i)) /\ Fine(updateLastSyncedEvent(d, i))
  BY <1>1, <1>2, <1>4 DEF handleTokenCreated, updateLastSyncedEvent
<1>12. Fine(Commit(s, d, i))
  BY <1>7, <1>8, <1>9, <1>10, <1>11 DEF Commit
<1> QED
  BY <1>12 DEF Fine

LEMMA InitShape == Init => Shape
<1> SUFFICES ASSUME Init PROVE Shape
  OBVIOUS
<1> USE DEF Init
<1>1. log \in Seq(Events) /\ Len(log) \in Nat
  BY SyncAssumption
<1>2. conn \in [Conns -> Socket] /\ \A c \in Conns : conn[c].wire = 0
  BY DEF Closed, Socket
<1>3. db \in Database
  BY <1>1, NoBlockAssumption DEF Database, NoRow, Row, BlockOrNone
<1>4. txCache \in [Txs -> Hash \cup {NoHash}] /\ pending \in Seq(Changes)
  BY DEF NoCache
<1>5. state \in States /\ state \notin InSession /\ state \notin Handling
  BY DEF States, InSession, Connected, Handling
<1>6. faults \in 0..MaxFaults
  BY SyncAssumption
<1> QED
  BY <1>1, <1>2, <1>3, <1>4, <1>5, <1>6 DEF Shape, TypeOK

(* The machine's moves between its states, for the steps below.            *)
LEMMA StateSets ==
  /\ Handling \subseteq Connected /\ Connected \subseteq InSession
  /\ InSession \subseteq States
  /\ {"idle", "checkingForMissedEvents"} \subseteq Connected \ Handling
  /\ {"INITIALIZING", "RECONNECTING", "ERROR"} \subseteq States \ InSession
  /\ "CONNECTING" \in InSession \ Connected
  BY DEF States, InSession, Connected, Handling

(* A connection closed, or its event taken off the wire, is a connection.  *)
LEMMA SocketType ==
  /\ Closed \in Socket /\ Closed.wire = 0
  /\ \A s \in Socket :
       /\ [s EXCEPT !.wire = 0] \in Socket
       /\ [s EXCEPT !.unacked = FALSE] \in Socket
       /\ [s EXCEPT !.st = "opening"] \in Socket
       /\ [s EXCEPT !.st = "open"] \in Socket
  BY DEF Closed, Socket

LEMMA ExitShape == Shape /\ Exit /\ faults' \in 0..MaxFaults => Shape'
<1> SUFFICES ASSUME Shape, Exit, faults' \in 0..MaxFaults PROVE Shape'
  OBVIOUS
<1>1. log \in Seq(Events) /\ Len(log) \in Nat
  BY SyncAssumption DEF Shape, TypeOK
<1>2. UNCHANGED <<log, produced, db, acked>>
  BY DEF Exit, stream
<1>3. conn' \in [Conns -> Socket] /\ \A c \in Conns : conn'[c].wire = 0
  BY SocketType DEF Exit
<1>4. txCache' \in [Txs -> Hash \cup {NoHash}] /\ pending' \in Seq(Changes)
  BY DEF Exit, NoCache
<1>5. state' \in States /\ state' \notin Handling /\ state' \notin InSession
  BY StateSets DEF Exit
<1>6. /\ event' = 0 /\ initialEventId' = 0 /\ socket' = NoConn /\ detached' = {}
  BY DEF Exit
<1> QED
  BY <1>1, <1>2, <1>3, <1>4, <1>5, <1>6 DEF Shape, TypeOK, Database, Runs

(* Faults are counted.                                                     *)
LEMMA FaultType ==
  ASSUME faults \in 0..MaxFaults, NEW kind, Fault(kind)
  PROVE  faults' \in 0..MaxFaults
  BY SyncAssumption DEF Fault

LEMMA LeaveShape ==
  ASSUME Shape, Leave, state \in InSession
  PROVE  /\ state' = "RECONNECTING" /\ socket' = NoConn
         /\ detached' \subseteq Runs
<1>1. event \in 0..Len(log) /\ Len(log) \in Nat
  BY SyncAssumption DEF Shape, TypeOK
<1>2. state \in Handling => [in |-> state, event |-> event] \in Runs
  BY <1>1 DEF Shape, Runs
<1> QED
  BY <1>2 DEF Leave, Shape, TypeOK

(* Shape depends on the context and both ends of the connections only      *)
(* through these facts about a step that is not an exit.                   *)
LEMMA StepShape ==
  ASSUME Shape,
         log' = log, produced' \in 0..Len(log),
         conn' \in [Conns -> Socket], \A c \in Conns : conn'[c].wire \in 0..Len(log),
         db' \in Database, state' \in States, event' \in 0..Len(log),
         initialEventId' \in 0..Len(log), pending' \in Seq(Changes),
         txCache' \in [Txs -> Hash \cup {NoHash}], socket' \in Conns \cup {NoConn},
         detached' \subseteq Runs, acked' \in 0..Len(log), faults' \in 0..MaxFaults,
         state' \in Handling => event' # 0, state' \in InSession => socket' \in Conns
  PROVE  Shape'
  BY DEF Shape, TypeOK, Database, Runs

LEMMA ConnectionSteps ==
  ASSUME Shape
  PROVE  /\ FullnodeProduces => Shape'
         /\ \A c \in Conns : FullnodeSends(c) \/ LoseEvent(c) => Shape'
         /\ StoreInitialState \/ Reconnect => Shape'
         /\ \A c \in Conns : ConnOpens(c) \/ ConnCloses(c) => Shape'
         /\ MissedEvents => Shape'
<1>1. log \in Seq(Events) /\ Len(log) \in Nat /\ TypeOK
  BY SyncAssumption DEF Shape, TypeOK
<1>2. conn \in [Conns -> Socket] /\ \A c \in Conns : conn[c].wire \in 0..Len(log)
  BY DEF Shape, TypeOK
<1>3. ASSUME FullnodeProduces PROVE Shape'
  <2>1. produced' \in 0..Len(log)
    BY <1>1, <1>3 DEF FullnodeProduces, TypeOK
  <2> QED
    BY <1>3, <2>1, StepShape DEF FullnodeProduces, Shape, TypeOK, context
<1>4. ASSUME NEW c \in Conns, FullnodeSends(c) PROVE Shape'
  <2>1. conn[c].next \in 1..Len(log)
    BY <1>1, <1>4 DEF FullnodeSends, TypeOK
  <2>2. conn' \in [Conns -> Socket] /\ \A k \in Conns : conn'[k].wire \in 0..Len(log)
    BY <1>2, <1>4, <2>1 DEF FullnodeSends, Socket
  <2> QED
    BY <1>4, <2>2, StepShape DEF FullnodeSends, Shape, TypeOK, context, stream
<1>5. ASSUME NEW c \in Conns, LoseEvent(c) PROVE Shape'
  <2>1. conn' \in [Conns -> Socket] /\ \A k \in Conns : conn'[k].wire \in 0..Len(log)
    <3>1. conn' = [conn EXCEPT ![c].wire = 0]
      BY <1>5 DEF LoseEvent
    <3>2. conn' \in [Conns -> Socket]
      BY <1>2, <3>1 DEF Socket
    <3>3. \A k \in Conns : conn'[k].wire \in {0, conn[k].wire}
      BY <1>2, <3>1 DEF Socket
    <3>4. 0 \in 0..Len(log)
      BY <1>1 DEF TypeOK
    <3> QED
      BY <1>2, <3>2, <3>3, <3>4
  <2>2. faults' \in 0..MaxFaults
    BY <1>1, <1>5, FaultType DEF LoseEvent, TypeOK
  <2> QED
    BY <1>5, <2>1, <2>2, StepShape DEF LoseEvent, Shape, TypeOK, context, stream
<1>6. ASSUME Connect
      PROVE  /\ conn' \in [Conns -> Socket]
             /\ \A k \in Conns : conn'[k].wire \in 0..Len(log)
             /\ socket' \in Conns /\ state' = "CONNECTING"
  BY <1>2, <1>6, SocketType DEF Connect, Socket
<1>7. ASSUME StoreInitialState PROVE Shape'
  <2>1. initialEventId' \in 0..Len(log)
    BY <1>1, <1>7 DEF StoreInitialState, TypeOK, Database
  <2>2. /\ conn' \in [Conns -> Socket]
        /\ \A k \in Conns : conn'[k].wire \in 0..Len(log)
        /\ socket' \in Conns /\ state' = "CONNECTING"
    BY <1>6, <1>7 DEF StoreInitialState
  <2>3. UNCHANGED <<stream, db, event, pending, txCache, detached, acked, faults>>
    BY <1>7 DEF StoreInitialState
  <2> QED
    BY <2>1, <2>2, <2>3, StepShape, StateSets DEF Shape, TypeOK, stream
<1>8. ASSUME Reconnect PROVE Shape'
  BY <1>6, <1>8, StepShape, StateSets DEF Reconnect, Shape, TypeOK, stream
<1>9. ASSUME NEW c \in Conns, ConnOpens(c) PROVE Shape'
  <2>1. CASE state = "CONNECTING" /\ c = socket
    <3>1. resumeFrom \in 0..Len(log)
      BY <1>1 DEF resumeFrom, TypeOK
    <3>2. conn' \in [Conns -> Socket] /\ \A k \in Conns : conn'[k].wire \in 0..Len(log)
      BY <1>1, <1>2, <1>9, <2>1, <3>1 DEF ConnOpens, startStream, Socket
    <3>3. state' = "idle" /\ socket' \in Conns
          /\ UNCHANGED <<stream, db, context, detached, acked, faults>>
      BY <1>9, <2>1 DEF ConnOpens, context
    <3> QED
      BY <3>2, <3>3, StepShape, StateSets DEF Shape, TypeOK, stream, context
  <2>2. CASE state = "CONNECTING" /\ c # socket
    BY <1>1, <1>9, <2>2, ExitShape DEF ConnOpens, TypeOK
  <2>3. CASE state # "CONNECTING"
    <3>1. conn' \in [Conns -> Socket] /\ \A k \in Conns : conn'[k].wire \in 0..Len(log)
      <4>1. conn' = [conn EXCEPT ![c].st = "open"]
        BY <1>9, <2>3 DEF ConnOpens
      <4>2. conn' \in [Conns -> Socket]
        BY <1>2, <4>1 DEF Socket
      <4>3. \A k \in Conns : conn'[k].wire = conn[k].wire
        BY <1>2, <4>1 DEF Socket
      <4> QED
        BY <1>2, <4>2, <4>3
    <3>2. /\ state' = state /\ socket' = socket
          /\ UNCHANGED <<stream, db, context, detached, acked, faults>>
      BY <1>9, <2>3 DEF ConnOpens, context
    <3> QED
      BY <3>1, <3>2, StepShape DEF Shape, TypeOK, stream, context
  <2> QED
    BY <2>1, <2>2, <2>3
<1>10. ASSUME NEW cs \in [Conns -> Socket], \A k \in Conns : cs[k].wire \in 0..Len(log),
              Abandon(cs), socket \in Conns
       PROVE  /\ conn' \in [Conns -> Socket]
              /\ \A k \in Conns : conn'[k].wire \in 0..Len(log)
              /\ faults' \in 0..MaxFaults
  <2>1. CASE conn' = [cs EXCEPT ![socket] = Closed] /\ UNCHANGED faults
    BY <1>1, <1>10, <2>1, SocketType DEF TypeOK
  <2>2. CASE conn' = cs /\ Fault("stale")
    BY <1>1, <1>10, <2>2, FaultType DEF TypeOK
  <2> QED
    BY <1>10, <2>1, <2>2 DEF Abandon
<1>11. ASSUME NEW c \in Conns, ConnCloses(c) PROVE Shape'
  <2> DEFINE closed == [conn EXCEPT ![c] = Closed]
  <2>1. closed \in [Conns -> Socket] /\ \A k \in Conns : closed[k].wire \in 0..Len(log)
    BY <1>1, <1>2, SocketType
  <2> HIDE DEF closed
  <2>2. UNCHANGED <<log, produced, db, event, initialEventId, pending, txCache, acked>>
    BY <1>11 DEF ConnCloses, stream
  <2>3. CASE state \in InSession
    <3>1. Leave /\ \/ conn' = closed /\ faults' \in 0..MaxFaults
                   \/ Abandon(closed)
      BY <1>1, <1>11, <2>3, FaultType DEF ConnCloses, closed, TypeOK, InSession
    <3>2. conn' \in [Conns -> Socket] /\ faults' \in 0..MaxFaults
          /\ \A k \in Conns : conn'[k].wire \in 0..Len(log)
      BY <1>10, <2>1, <2>3, <3>1 DEF Shape
    <3>3. state' = "RECONNECTING" /\ socket' = NoConn /\ detached' \subseteq Runs
      BY <2>3, <3>1, LeaveShape
    <3> QED
      BY <2>2, <3>2, <3>3, StepShape, StateSets DEF Shape, TypeOK
  <2>4. CASE state \notin InSession
    <3>1. c = socket => Leave /\ Fault("drop") /\ conn' = closed
      BY <1>11, <2>4 DEF ConnCloses, InSession, Connected, closed
    <3>2. conn' = closed /\ socket' \in {socket, NoConn} /\ detached' = detached
          /\ faults' \in 0..MaxFaults /\ state' \in {state, "RECONNECTING"}
      BY <1>1, <1>11, <2>4, <3>1, FaultType, StateSets
         DEF ConnCloses, closed, InSession, TypeOK, Leave
    <3> QED
      BY <1>1, <2>1, <2>2, <2>4, <3>2, StepShape, StateSets DEF Shape, TypeOK
  <2> QED
    BY <2>3, <2>4
<1>12. ASSUME MissedEvents PROVE Shape'
  <2>1. socket \in Conns /\ state \in InSession
    BY <1>12, StateSets DEF MissedEvents, Shape
  <2>2. state' = "RECONNECTING" /\ socket' = NoConn /\ detached' \subseteq Runs
    BY <1>12, <2>1, LeaveShape DEF MissedEvents
  <2>3. conn' \in [Conns -> Socket] /\ faults' \in 0..MaxFaults
        /\ \A k \in Conns : conn'[k].wire \in 0..Len(log)
    BY <1>2, <1>10, <1>12, <2>1 DEF MissedEvents
  <2> QED
    BY <1>12, <2>2, <2>3, StepShape, StateSets DEF MissedEvents, Shape, TypeOK, stream
<1> QED
  BY <1>3, <1>4, <1>5, <1>7, <1>8, <1>9, <1>11, <1>12

(* The changes an event asks for are a queue of changes.                   *)
LEMMA DiffType ==
  ASSUME NEW d, NEW i
  PROVE  metadataDiff(d, i) \in Seq(Changes)
<1> DEFINE e == log[i]
           nano == IF ~e.nc /\ d.token[e.tx] # NoBlock THEN <<"NC_EXEC_VOIDED">> ELSE <<>>
           first == IF e.firstBlock # d.row[e.tx].firstBlock THEN <<"TX_FIRST_BLOCK">> ELSE <<>>
<1>1. /\ \A change \in Changes : <<change>> \in Seq(Changes)
      /\ <<>> \in Seq(Changes)
  OBVIOUS
<1>2. nano \in Seq(Changes) /\ first \in Seq(Changes)
  BY <1>1 DEF Changes
<1> HIDE DEF nano, first
<1>3. nano \o first \in Seq(Changes)
  BY <1>2
<1> QED
  BY <1>1, <1>3 DEF metadataDiff, nano, first, Changes

(* Dispatching enters a state that handles the event.                      *)
LEMMA DispatchType ==
  ASSUME NEW q \in Seq(Changes), Dispatch(q)
  PROVE  state' \in Handling /\ pending' \in Seq(Changes)
<1>1. CASE q = <<>>
  BY <1>1 DEF Dispatch, Handling
<1>2. CASE q # <<>>
  <2>1. Tail(q) \in Seq(Changes)
    BY <1>2
  <2> QED
    BY <1>2, <2>1 DEF Dispatch, Handling
<1> QED
  BY <1>1, <1>2

LEMMA CacheType ==
  ASSUME Shape, event \in 1..Len(log), updateCache
  PROVE  txCache' \in [Txs -> Hash \cup {NoHash}]
<1>1. log \in Seq(Events) /\ Len(log) \in Nat /\ txCache \in [Txs -> Hash \cup {NoHash}]
  BY SyncAssumption DEF Shape, TypeOK
<1>2. log[event] \in Events
  BY <1>1
<1>3. hashTxData(log[event]) \in Hash
  BY <1>2 DEF hashTxData, Hash, Events
<1> QED
  BY <1>1, <1>3 DEF updateCache

LEMMA ServiceSteps ==
  ASSUME Shape
  PROVE  /\ DetectDiff \/ ApplyChange \/ Unvoid \/ Finish \/ Fails => Shape'
         /\ \A run \in detached : DetachedEnds(run) => Shape'
<1>1. /\ log \in Seq(Events) /\ Len(log) \in Nat /\ TypeOK
      /\ event \in 0..Len(log) /\ db \in Database /\ pending \in Seq(Changes)
  BY SyncAssumption DEF Shape, TypeOK
<1>2. ASSUME state \in Handling, Ends
      PROVE  /\ db' \in Database /\ event \in 1..Len(log) /\ socket' \in Conns
             /\ UNCHANGED <<log, produced, event, initialEventId, socket, detached, faults>>
  <2>1. event \in 1..Len(log) /\ socket \in Conns
    BY <1>1, <1>2, StateSets DEF Shape
  <2>2. db' = Commit(state, db, event)
    BY <1>2 DEF Ends
  <2>3. db' \in Database
    BY <1>1, <2>1, <2>2, CommitType
  <2> QED
    BY <1>2, <2>1, <2>3 DEF Ends, stream
<1>3. Handling \subseteq States
  BY StateSets
<1>4. ASSUME DetectDiff PROVE Shape'
  <2>1. state \in Handling /\ Ends
    BY <1>4 DEF DetectDiff, Handling
  <2>2. state' \in Handling /\ pending' \in Seq(Changes)
    BY <1>4, DiffType, DispatchType DEF DetectDiff
  <2> QED
    BY <1>1, <1>2, <1>3, <1>4, <2>1, <2>2, StepShape DEF DetectDiff, Shape, TypeOK
<1>5. ASSUME ApplyChange PROVE Shape'
  <2>1. state \in Handling /\ Ends
    BY <1>5 DEF ApplyChange, Handling
  <2>2. state' \in Handling /\ pending' \in Seq(Changes)
    BY <1>1, <1>5, DispatchType DEF ApplyChange
  <2>3. txCache' \in [Txs -> Hash \cup {NoHash}]
    BY <1>2, <1>5, <2>1, CacheType DEF ApplyChange
  <2> QED
    BY <1>1, <1>2, <1>3, <1>5, <2>1, <2>2, <2>3, StepShape DEF ApplyChange, Shape, TypeOK
<1>6. ASSUME Unvoid PROVE Shape'
  <2>1. state \in Handling /\ state' \in Handling /\ Ends
    BY <1>6 DEF Unvoid, Handling
  <2>2. txCache' \in [Txs -> Hash \cup {NoHash}]
    BY <1>2, <1>6, <2>1, CacheType DEF Unvoid
  <2> QED
    BY <1>1, <1>2, <1>3, <1>6, <2>1, <2>2, StepShape DEF Unvoid, Shape, TypeOK
<1>7. ASSUME Finish PROVE Shape'
  <2>1. state \in Handling /\ state' = "idle" /\ Ends
    BY <1>7 DEF Finish, Handling
  <2>2. socket \in Conns /\ event \in 1..Len(log) /\ socket' \in Conns
    BY <1>2, <2>1, StateSets DEF Shape
  <2>3. conn' \in [Conns -> Socket] /\ \A k \in Conns : conn'[k].wire = conn[k].wire
    BY <1>1, <1>7, <2>2 DEF Finish, sendAck, TypeOK, Socket
  <2>4. acked' \in 0..Len(log)
    BY <1>1, <1>7, <2>2 DEF Finish, Larger, TypeOK
  <2> QED
    BY <1>1, <1>2, <1>7, <2>1, <2>2, <2>3, <2>4, StepShape, StateSets
       DEF Finish, Shape, TypeOK
<1>8. ASSUME Fails PROVE Shape'
  <2>1. faults' \in 0..MaxFaults
    BY <1>1, <1>8, FaultType DEF Fails, TypeOK
  <2> QED
    BY <1>8, <2>1, ExitShape DEF Fails
<1>9. ASSUME NEW run \in detached, DetachedEnds(run) PROVE Shape'
  <2>1. run \in Runs /\ detached' \subseteq Runs
    BY <1>1, <1>9 DEF DetachedEnds, TypeOK
  <2>2. Commit(run.in, db, run.event) \in Database
    BY <1>1, <2>1, CommitType DEF Runs
  <2>3. db' \in Database /\ faults' \in 0..MaxFaults
    BY <1>1, <1>9, <2>2, FaultType DEF DetachedEnds, TypeOK
  <2> QED
    BY <1>9, <2>1, <2>3, StepShape DEF DetachedEnds, Shape, TypeOK, stream, context
<1> QED
  BY <1>4, <1>5, <1>6, <1>7, <1>8, <1>9

LEMMA EventSteps ==
  ASSUME Shape
  PROVE  \A c \in Conns : Ignore(c) \/ Handle(c) \/ Discard(c) => Shape'
<1>1. /\ log \in Seq(Events) /\ Len(log) \in Nat /\ TypeOK
      /\ conn \in [Conns -> Socket] /\ \A c \in Conns : conn[c].wire \in 0..Len(log)
  BY SyncAssumption DEF Shape, TypeOK
<1> SUFFICES ASSUME NEW c \in Conns, Ignore(c) \/ Handle(c) \/ Discard(c)
             PROVE  Shape'
  OBVIOUS
<1> DEFINE taken == [conn EXCEPT ![c].wire = 0]
<1>2. taken \in [Conns -> Socket] /\ \A k \in Conns : taken[k].wire \in {0, conn[k].wire}
  BY <1>1 DEF Socket
<1> HIDE DEF taken
<1>3. CASE Ignore(c)
  <2>1. conn' = sendAck(taken, event') /\ event' \in 1..Len(log) /\ socket \in Conns
        /\ state' = "idle"
    BY <1>1, <1>3, StateSets DEF Ignore, Shape, taken
  <2>2. conn' \in [Conns -> Socket] /\ \A k \in Conns : conn'[k].wire = taken[k].wire
    BY <1>2, <2>1 DEF sendAck, Socket
  <2>3. acked' \in 0..Len(log)
    BY <1>1, <1>3 DEF Ignore, Larger, TypeOK
  <2>4. \A k \in Conns : conn'[k].wire \in 0..Len(log)
    BY <1>1, <1>2, <2>2
  <2> QED
    BY <1>1, <1>3, <2>1, <2>2, <2>3, <2>4, StepShape, StateSets
       DEF Ignore, Shape, TypeOK, stream
<1>4. CASE Handle(c)
  <2>1. conn' = taken /\ event' \in 1..Len(log) /\ socket \in Conns
    BY <1>1, <1>4, StateSets DEF Handle, Shape, taken
  <2>2. state' \in Handling
    BY <1>4 DEF Handle, HandledIn, Handling
  <2>3. \A k \in Conns : conn'[k].wire \in 0..Len(log)
    BY <1>1, <1>2, <2>1
  <2> QED
    BY <1>1, <1>2, <1>4, <2>1, <2>2, <2>3, StepShape, StateSets
       DEF Handle, Shape, TypeOK, stream
<1>5. CASE Discard(c)
  <2>1. conn' = taken /\ \A k \in Conns : taken[k].wire \in 0..Len(log)
    BY <1>1, <1>2, <1>5 DEF Discard, taken
  <2> QED
    BY <1>2, <1>5, <2>1, StepShape DEF Discard, Shape, TypeOK, stream, context
<1> QED
  BY <1>3, <1>4, <1>5

LEMMA NextShape == Shape /\ [Next]_vars => Shape'
<1> SUFFICES ASSUME Shape, [Next]_vars PROVE Shape'
  OBVIOUS
<1>1. CASE AckTimeout \/ NoMissedEvents \/ Restart
  <2>1. state' \in States /\ state' \notin Handling /\ (state' \in InSession => state \in InSession)
        /\ UNCHANGED <<stream, conn, db, context, detached, acked, faults>>
    BY <1>1, StateSets DEF AckTimeout, NoMissedEvents, Restart
  <2> QED
    BY <2>1, StepShape DEF Shape, TypeOK, stream, context
<1>2. CASE NothingToCheck \/ Crash
  <2>1. Exit /\ faults' \in 0..MaxFaults
    BY <1>2, FaultType DEF NothingToCheck, Crash, Shape, TypeOK
  <2> QED
    BY <2>1, ExitShape
<1>3. CASE FullnodeProduces \/ StoreInitialState \/ Reconnect \/ MissedEvents
  BY <1>3, ConnectionSteps
<1>4. CASE \E c \in Conns : FullnodeSends(c) \/ LoseEvent(c) \/ ConnOpens(c) \/ ConnCloses(c)
  BY <1>4, ConnectionSteps
<1>5. CASE DetectDiff \/ ApplyChange \/ Unvoid \/ Finish \/ Fails
           \/ \E run \in detached : DetachedEnds(run)
  BY <1>5, ServiceSteps
<1>6. CASE \E c \in Conns : Ignore(c) \/ Handle(c) \/ Discard(c)
  BY <1>6, EventSteps
<1>7. CASE UNCHANGED vars
  <2>1. UNCHANGED <<log, produced, conn, db, state, event, initialEventId, pending,
                    txCache, socket, detached, acked, faults>>
    BY <1>7 DEF vars, stream, context
  <2> QED
    BY <2>1, StepShape DEF Shape, TypeOK
<1> QED
  BY <1>1, <1>2, <1>3, <1>4, <1>5, <1>6, <1>7 DEF Next

(* Every variable keeps its type: ids never leave the stream, a detached   *)
(* service always has an event, whatever faults happen.                    *)
THEOREM TypeCorrect == Spec => []TypeOK
<1>1. Shape => TypeOK
  BY DEF Shape
<1> QED
  BY <1>1, InitShape, NextShape, PTL DEF Spec

-----------------------------------------------------------------------------
(* Position.  A step is judged by what it does to the current connection,  *)
(* to the position and to the database.                                    *)
Quiet == "stale" \notin Faults

LEMMA InitPosition == Init => Position
<1> SUFFICES ASSUME Init PROVE Position
  OBVIOUS
<1>1. state = "INITIALIZING" /\ conn = [c \in Conns |-> Closed]
      /\ event = 0 /\ detached = {} /\ socket = NoConn
  BY DEF Init
<1> QED
  BY <1>1, StateSets DEF Position, InSession

LEMMA ExitPosition == Exit => Position'
<1> SUFFICES ASSUME Exit PROVE Position'
  OBVIOUS
<1>1. state' = "ERROR" /\ conn' = [c \in Conns |-> Closed]
      /\ event' = 0 /\ detached' = {} /\ socket' = NoConn
  BY DEF Exit
<1> QED
  BY <1>1, StateSets DEF Position, InSession

(* Leaving for RECONNECTING with the current connection closed.            *)
LEMMA LeavePosition ==
  ASSUME Shape, Position, Leave, state \in InSession,
         conn' = [conn EXCEPT ![socket] = Closed],
         UNCHANGED <<db, event, initialEventId>>
  PROVE  Position'
<1>1. /\ event \in Nat /\ initialEventId \in Nat /\ db.synced <= resumeFrom
      /\ \A run \in detached : run.event <= resumeFrom
      /\ resumeFrom' = resumeFrom /\ socket \in Conns
  BY StateSets DEF Shape, TypeOK, Position, resumeFrom
<1>2. state \in Handling => event <= resumeFrom
  BY <1>1 DEF Shape, resumeFrom
<1>3. \A run \in detached' : run.event <= resumeFrom'
  BY <1>1, <1>2 DEF Leave
<1>4. socket' = NoConn /\ state' = "RECONNECTING" /\ \A c \in Conns : conn'[c] = Closed
  BY <1>1 DEF Leave, Position, Shape, TypeOK
<1> QED
  BY <1>1, <1>3, <1>4, StateSets DEF Position, InSession

LEMMA ConnectionPosition ==
  ASSUME Quiet, Shape, Position
  PROVE  /\ \A c \in Conns : FullnodeSends(c) \/ LoseEvent(c) => Position'
         /\ StoreInitialState \/ Reconnect => Position'
         /\ \A c \in Conns : ConnOpens(c) \/ ConnCloses(c) => Position'
         /\ MissedEvents => Position'
<1>1. /\ conn \in [Conns -> Socket] /\ NoConn \notin Conns
      /\ event \in Nat /\ initialEventId \in Nat /\ db.synced \in Nat
      /\ \A c \in Conns : conn[c].wire \in Nat
      /\ resumeFrom \in Nat
      /\ state \in InSession => socket \in Conns
  BY SyncAssumption DEF Shape, TypeOK, Database, resumeFrom
<1>2. \A c \in Conns : conn[c].st # "closed" =>
        c = socket /\ state \in InSession
  BY <1>1 DEF Position, Closed, InSession
<1>3. \A c \in Conns : conn[c].st = "open" =>
        c = socket /\ state \in Connected
  BY <1>1, <1>2 DEF Position, Closed, InSession
<1>4. ASSUME NEW c \in Conns, FullnodeSends(c) PROVE Position'
  <2>1. c = socket /\ state \in Connected /\ ~conn[c].unacked
    BY <1>3, <1>4 DEF FullnodeSends
  <2>2. state \notin Handling /\ conn[c] = At(resumeFrom + 1, FALSE, 0)
    <3>1. At(event + 1, TRUE, 0).unacked = TRUE
      BY DEF At
    <3>2. /\ At(resumeFrom + 2, TRUE, 0).unacked = TRUE
          /\ At(resumeFrom + 2, TRUE, resumeFrom + 1).unacked = TRUE
      BY DEF At
    <3>3. state \notin Handling
      BY <2>1, <3>1 DEF Position
    <3> QED
      BY <2>1, <3>2, <3>3 DEF Position, Between
  <2>3. conn' = [conn EXCEPT ![c] = At(resumeFrom + 2, TRUE, resumeFrom + 1)]
    BY <1>1, <1>4, <2>2 DEF FullnodeSends, At
  <2>4. UNCHANGED <<db, state, event, initialEventId, socket, detached>>
        /\ resumeFrom' = resumeFrom
    BY <1>4 DEF FullnodeSends, context, resumeFrom
  <2> QED
    BY <1>1, <2>1, <2>2, <2>3, <2>4, StateSets DEF Position, Between
<1>5. ASSUME NEW c \in Conns, LoseEvent(c) PROVE Position'
  <2>1. c = socket /\ state \in Connected \ Handling
        /\ conn[c] = At(resumeFrom + 2, TRUE, resumeFrom + 1)
    BY <1>1, <1>2, <1>5 DEF LoseEvent, Position, Between, At, Closed, InSession
  <2>2. /\ conn'[c] = At(resumeFrom + 2, TRUE, 0)
        /\ \A k \in Conns \ {c} : conn'[k] = conn[k]
    <3>1. conn'[c] \in Socket /\ conn'[c].st = conn[c].st /\ conn'[c].next = conn[c].next
          /\ conn'[c].unacked = conn[c].unacked /\ conn'[c].wire = 0
          /\ \A k \in Conns \ {c} : conn'[k] = conn[k]
      BY <1>1, <1>5 DEF LoseEvent, Socket
    <3>2. conn'[c].st = "open" /\ conn'[c].next = resumeFrom + 2 /\ conn'[c].unacked = TRUE
      BY <2>1, <3>1 DEF At
    <3>3. conn'[c] = [st |-> "open", next |-> resumeFrom + 2, unacked |-> TRUE, wire |-> 0]
      BY <3>1, <3>2 DEF Socket
    <3> QED
      BY <3>1, <3>3 DEF At
  <2>3. UNCHANGED <<db, state, event, initialEventId, socket, detached>>
        /\ resumeFrom' = resumeFrom
    BY <1>5 DEF LoseEvent, context, resumeFrom
  <2> QED
    BY <1>1, <2>1, <2>2, <2>3, StateSets DEF Position, Between
<1>6. ASSUME Connect, state \notin InSession
      PROVE  /\ state' = "CONNECTING" /\ socket' \in Conns
             /\ conn'[socket'] = [Closed EXCEPT !.st = "opening"]
             /\ \A c \in Conns : c # socket' => conn'[c] = Closed
  BY <1>1, <1>6 DEF Connect, Position, InSession
<1>7. ASSUME StoreInitialState PROVE Position'
  <2>1. event' = 0 /\ initialEventId' = db.synced /\ db' = db /\ detached' = {}
    BY <1>7 DEF StoreInitialState, Position
  <2>2. state \notin InSession /\ Connect
    BY <1>7, StateSets DEF StoreInitialState
  <2>3. resumeFrom' = db'.synced /\ db'.synced \in Nat
    BY <1>1, <2>1 DEF resumeFrom
  <2> QED
    <3>1. state' \notin {"INITIALIZING", "ERROR"} => db'.synced <= resumeFrom'
      BY <2>3
    <3>2. state' = "CONNECTING" /\ state' \notin Connected
      BY <1>6, <2>2, StateSets
    <3> QED
      BY <1>6, <2>1, <2>2, <3>1, <3>2, StateSets DEF Position, InSession
<1>8. ASSUME Reconnect PROVE Position'
  <2>1. state = "RECONNECTING" /\ Connect /\ UNCHANGED <<db, detached>>
        /\ resumeFrom' = resumeFrom
    BY <1>8 DEF Reconnect, resumeFrom
  <2> QED
    BY <1>6, <2>1, StateSets DEF Position, InSession
<1>9. ASSUME NEW c \in Conns, ConnOpens(c) PROVE Position'
  <2>1. c = socket /\ state = "CONNECTING"
    <3>1. c = socket /\ state \in InSession /\ conn[c].st = "opening"
      BY <1>2, <1>9 DEF ConnOpens
    <3> QED
      BY <3>1 DEF Position, Between, At, InSession
  <2>2. conn' = [conn EXCEPT ![c] = At(resumeFrom + 1, FALSE, 0)]
    BY <1>1, <1>9, <2>1 DEF ConnOpens, startStream, Position, Closed, At
  <2>3. state' = "idle" /\ UNCHANGED <<db, event, initialEventId, socket, detached>>
        /\ resumeFrom' = resumeFrom
    BY <1>9, <2>1 DEF ConnOpens, context, resumeFrom
  <2> QED
    BY <1>1, <2>1, <2>2, <2>3, StateSets DEF Position, Between
<1>10. ASSUME NEW c \in Conns, ConnCloses(c) PROVE Position'
  <2>1. c = socket /\ state \in InSession
    BY <1>2, <1>10 DEF ConnCloses
  <2>2. Leave /\ conn' = [conn EXCEPT ![socket] = Closed]
        /\ UNCHANGED <<db, event, initialEventId>>
    BY <1>10, <2>1 DEF ConnCloses
  <2> QED
    BY <2>1, <2>2, LeavePosition
<1>11. ASSUME MissedEvents PROVE Position'
  <2>1. state \in InSession /\ Leave /\ UNCHANGED <<db, event, initialEventId>>
    BY <1>11, StateSets DEF MissedEvents
  <2>2. conn' = [conn EXCEPT ![socket] = Closed]
    BY <1>11 DEF MissedEvents, Abandon, Fault, Quiet
  <2> QED
    BY <2>1, <2>2, LeavePosition
<1> QED
  BY <1>4, <1>5, <1>7, <1>8, <1>9, <1>10, <1>11

(* The ACK of the last event stored lets the fullnode send the next one.   *)
LEMMA AckPosition ==
  ASSUME NEW cs \in [Conns -> Socket], socket \in Conns, NEW i \in Nat,
         cs[socket] = At(i + 1, TRUE, 0)
  PROVE  sendAck(cs, i) = [cs EXCEPT ![socket] = At(i + 1, FALSE, 0)]
<1> DEFINE new == [cs EXCEPT ![socket].unacked = FALSE]
<1>1. /\ new \in [Conns -> Socket]
      /\ \A k \in Conns \ {socket} : new[k] = cs[k]
      /\ new[socket] \in Socket /\ new[socket].st = cs[socket].st
      /\ new[socket].next = cs[socket].next /\ new[socket].wire = cs[socket].wire
      /\ new[socket].unacked = FALSE
  BY DEF Socket
<1>2. cs[socket].st = "open" /\ cs[socket].next = i + 1 /\ cs[socket].wire = 0
  BY DEF At
<1>3. sendAck(cs, i) = new
  BY <1>2 DEF sendAck
<1> HIDE DEF new
<1>4. new[socket] = At(i + 1, FALSE, 0)
  BY <1>1, <1>2 DEF Socket, At
<1> QED
  BY <1>1, <1>3, <1>4

LEMMA ServicePosition ==
  ASSUME Shape, Position
  PROVE  /\ DetectDiff \/ ApplyChange \/ Unvoid \/ Finish => Position'
         /\ \A run \in detached : DetachedEnds(run) => Position'
<1>1. /\ log \in Seq(Events) /\ Len(log) \in Nat /\ db \in Database
      /\ event \in 0..Len(log) /\ initialEventId \in Nat /\ resumeFrom \in Nat
      /\ conn \in [Conns -> Socket] /\ detached \subseteq Runs /\ pending \in Seq(Changes)
  BY SyncAssumption DEF Shape, TypeOK, resumeFrom
<1>2. ASSUME NEW d \in Database, NEW i \in 1..Len(log), NEW s,
             d.synced <= resumeFrom, i <= resumeFrom
      PROVE  Commit(s, d, i).synced <= resumeFrom
  BY <1>1, <1>2, CommitType DEF Database
<1>3. ASSUME state \in Handling, Ends
      PROVE  /\ db'.synced <= resumeFrom' /\ resumeFrom' = resumeFrom /\ resumeFrom = event
             /\ UNCHANGED <<event, initialEventId, socket, detached>>
             /\ \A run \in detached' : run.event <= resumeFrom'
             /\ socket \in Conns /\ conn[socket] = At(event + 1, TRUE, 0)
  <2>1. event \in 1..Len(log) /\ resumeFrom = event /\ socket \in Conns
    BY <1>1, <1>3, StateSets DEF Shape, resumeFrom
  <2>2. db.synced <= resumeFrom /\ \A run \in detached : run.event <= resumeFrom
    BY <1>3, StateSets DEF Position
  <2>3. db'.synced <= resumeFrom
    BY <1>1, <1>2, <1>3, <2>1, <2>2 DEF Ends
  <2> QED
    BY <1>3, <2>1, <2>2, <2>3 DEF Ends, resumeFrom, Position
<1>4. ASSUME state \in Handling, state' \in Handling, Ends, conn' = conn PROVE Position'
  BY <1>3, <1>4, StateSets DEF Position, InSession
<1>5. ASSUME DetectDiff PROVE Position'
  <2>1. state \in Handling /\ Ends /\ conn' = conn /\ state' \in Handling
    BY <1>5, DiffType, DispatchType DEF DetectDiff, Handling
  <2> QED
    BY <1>4, <2>1
<1>6. ASSUME ApplyChange PROVE Position'
  <2>1. state \in Handling /\ Ends /\ conn' = conn /\ state' \in Handling
    BY <1>1, <1>6, DispatchType DEF ApplyChange, Handling
  <2> QED
    BY <1>4, <2>1
<1>7. ASSUME Unvoid PROVE Position'
  <2>1. state \in Handling /\ Ends /\ conn' = conn /\ state' \in Handling
    BY <1>7 DEF Unvoid, Handling
  <2> QED
    BY <1>4, <2>1
<1>8. ASSUME Finish PROVE Position'
  <2>1. state \in Handling /\ state' = "idle" /\ Ends /\ conn' = sendAck(conn, event)
    BY <1>8 DEF Finish, Handling
  <2>2. conn' = [conn EXCEPT ![socket] = At(event + 1, FALSE, 0)]
    BY <1>1, <1>3, <2>1, AckPosition
  <2> QED
    BY <1>1, <1>3, <2>1, <2>2, StateSets DEF Position, Between, InSession
<1>9. ASSUME NEW run \in detached, DetachedEnds(run) PROVE Position'
  <2>1. state \notin {"INITIALIZING", "ERROR"}
    BY <1>9 DEF Position
  <2>2. db.synced <= resumeFrom /\ run.event <= resumeFrom /\ run.event \in 1..Len(log)
    BY <1>1, <2>1 DEF Position, Runs
  <2>3. db' = Commit(run.in, db, run.event) \/ db' = db
    BY <1>9 DEF DetachedEnds
  <2>4. db'.synced <= resumeFrom
    BY <1>1, <1>2, <2>2, <2>3
  <2>5. UNCHANGED <<conn, state, event, initialEventId, socket>> /\ resumeFrom' = resumeFrom
        /\ detached' \subseteq detached
    BY <1>9 DEF DetachedEnds, context, resumeFrom
  <2> QED
    BY <2>1, <2>4, <2>5 DEF Position
<1> QED
  BY <1>5, <1>6, <1>7, <1>8, <1>9

(* An event on the wire is the next one, on the current connection.        *)
LEMMA WireIsNext ==
  ASSUME Shape, Position, NEW c \in Conns, conn[c].wire # 0
  PROVE  /\ c = socket /\ state \in Connected \ Handling
         /\ conn[c] = At(resumeFrom + 2, TRUE, resumeFrom + 1)
<1>1. Closed.wire = 0 /\ [Closed EXCEPT !.st = "opening"].wire = 0
  BY DEF Closed
<1>2. \A n : At(n, TRUE, 0).wire = 0 /\ At(n, FALSE, 0).wire = 0
  BY DEF At
<1>3. c = socket
  BY <1>1 DEF Position
<1>4. state \in Connected
  BY <1>1, <1>3, SyncAssumption DEF Position
<1>5. state \notin Handling
  BY <1>2, <1>3 DEF Position
<1> QED
  BY <1>2, <1>3, <1>4, <1>5 DEF Position, Between

LEMMA EventPosition ==
  ASSUME Shape, Position
  PROVE  \A c \in Conns : Ignore(c) \/ Handle(c) \/ Discard(c) => Position'
<1>1. /\ conn \in [Conns -> Socket] /\ Len(log) \in Nat /\ resumeFrom \in Nat
      /\ event \in Nat /\ initialEventId \in Nat /\ detached \subseteq Runs
      /\ db \in Database
  BY SyncAssumption DEF Shape, TypeOK, resumeFrom
<1> SUFFICES ASSUME NEW c \in Conns, Ignore(c) \/ Handle(c) \/ Discard(c)
             PROVE  Position'
  OBVIOUS
<1>2. conn[c].wire # 0
  BY DEF Ignore, Handle, Discard
<1>3. c = socket /\ state \in Connected \ Handling
      /\ conn[c] = At(resumeFrom + 2, TRUE, resumeFrom + 1)
  BY <1>2, WireIsNext
<1>4. conn[c].wire = resumeFrom + 1
  BY <1>3 DEF At
<1> DEFINE taken == [conn EXCEPT ![c].wire = 0]
<1>5. taken = [conn EXCEPT ![c] = At(resumeFrom + 2, TRUE, 0)]
  <2>1. /\ taken \in [Conns -> Socket]
        /\ \A k \in Conns \ {c} : taken[k] = conn[k]
        /\ taken[c].st = conn[c].st /\ taken[c].next = conn[c].next
        /\ taken[c].unacked = conn[c].unacked /\ taken[c].wire = 0
    BY <1>1 DEF Socket
  <2>2. taken[c].st = "open" /\ taken[c].next = resumeFrom + 2 /\ taken[c].unacked = TRUE
    BY <1>3, <2>1 DEF At
  <2> HIDE DEF taken
  <2>3. taken[c] = At(resumeFrom + 2, TRUE, 0)
    BY <2>1, <2>2 DEF Socket, At
  <2> QED
    BY <1>1, <2>1, <2>3
<1>6. taken \in [Conns -> Socket]
  BY <1>1 DEF Socket
<1> HIDE DEF taken
<1>7. db.synced <= resumeFrom /\ \A run \in detached : run.event <= resumeFrom
  BY <1>3, StateSets DEF Position
<1>8. ASSUME event' = resumeFrom + 1, initialEventId' = initialEventId
      PROVE  /\ resumeFrom' = resumeFrom + 1 /\ event' + 1 = resumeFrom + 2
             /\ db.synced <= resumeFrom' /\ \A run \in detached : run.event <= resumeFrom'
  BY <1>1, <1>7, <1>8 DEF resumeFrom, Database, Runs
<1>9. CASE Ignore(c)
  <2>1. event' = resumeFrom + 1 /\ conn' = sendAck(taken, resumeFrom + 1)
        /\ UNCHANGED <<db, initialEventId, socket, detached>> /\ state' = "idle"
    BY <1>4, <1>9 DEF Ignore, taken
  <2>2. conn' = [taken EXCEPT ![socket] = At(resumeFrom + 2, FALSE, 0)]
    <3> DEFINE i == resumeFrom + 1
    <3>1. i \in Nat /\ resumeFrom + 2 = i + 1 /\ conn' = sendAck(taken, i)
      BY <1>1, <2>1
    <3> HIDE DEF i
    <3>2. taken[socket] = At(i + 1, TRUE, 0) /\ socket \in Conns
      BY <1>1, <1>3, <1>5, <3>1
    <3>3. sendAck(taken, i) = [taken EXCEPT ![socket] = At(i + 1, FALSE, 0)]
      BY <1>6, <3>1, <3>2, AckPosition
    <3> QED
      BY <3>1, <3>3
  <2>3. conn'[socket] = At(resumeFrom' + 1, FALSE, 0)
        /\ \A k \in Conns \ {socket} : conn'[k] = conn[k]
    BY <1>1, <1>3, <1>5, <1>8, <2>1, <2>2
  <2> QED
    BY <1>3, <1>8, <2>1, <2>3, StateSets DEF Position, Between
<1>10. CASE Handle(c)
  <2>1. event' = resumeFrom + 1 /\ conn' = taken
        /\ UNCHANGED <<db, initialEventId, socket, detached>>
    BY <1>4, <1>10 DEF Handle, taken
  <2>2. state' \in Handling
    BY <1>10 DEF Handle, HandledIn, Handling
  <2>3. conn'[socket'] = At(event' + 1, TRUE, 0)
        /\ \A k \in Conns \ {socket'} : conn'[k] = Closed
    BY <1>1, <1>3, <1>5, <1>8, <2>1 DEF Position
  <2> QED
    BY <1>8, <2>1, <2>2, <2>3, StateSets DEF Position, InSession
<1>11. CASE Discard(c)
  <2>1. conn' = taken /\ UNCHANGED <<db, state, event, initialEventId, socket, detached>>
        /\ resumeFrom' = resumeFrom
    BY <1>11 DEF Discard, taken, context, resumeFrom
  <2> QED
    BY <1>1, <1>3, <1>5, <2>1, StateSets DEF Position, Between
<1> QED
  BY <1>9, <1>10, <1>11

LEMMA NextPosition == Quiet /\ Shape /\ Position /\ [Next]_vars => Position'
<1> SUFFICES ASSUME Quiet, Shape, Position, [Next]_vars PROVE Position'
  OBVIOUS
<1>1. CASE AckTimeout \/ NoMissedEvents \/ Restart
  <2>1. UNCHANGED <<conn, db, event, initialEventId, socket, detached>> /\ resumeFrom' = resumeFrom
    BY <1>1 DEF AckTimeout, NoMissedEvents, Restart, context, resumeFrom
  <2>2. CASE AckTimeout \/ NoMissedEvents
    <3>1. state \in Connected \ Handling /\ state' \in Connected \ Handling
      BY <2>2, StateSets DEF AckTimeout, NoMissedEvents
    <3> QED
      BY <2>1, <3>1, StateSets DEF Position
  <2>3. CASE Restart
    <3>1. state = "ERROR" /\ state' = "INITIALIZING"
      BY <2>3 DEF Restart
    <3> QED
      BY <2>1, <3>1, StateSets DEF Position, InSession
  <2> QED
    BY <1>1, <2>2, <2>3
<1>2. CASE NothingToCheck \/ Crash \/ Fails
  BY <1>2, ExitPosition DEF NothingToCheck, Crash, Fails
<1>3. CASE FullnodeProduces \/ UNCHANGED vars
  <2>1. UNCHANGED <<conn, db, state, event, initialEventId, socket, detached>>
        /\ resumeFrom' = resumeFrom
    BY <1>3 DEF FullnodeProduces, vars, context, resumeFrom
  <2> QED
    BY <2>1 DEF Position
<1>4. CASE StoreInitialState \/ Reconnect \/ MissedEvents
           \/ \E c \in Conns : FullnodeSends(c) \/ LoseEvent(c) \/ ConnOpens(c) \/ ConnCloses(c)
  BY <1>4, ConnectionPosition
<1>5. CASE DetectDiff \/ ApplyChange \/ Unvoid \/ Finish
           \/ \E run \in detached : DetachedEnds(run)
  BY <1>5, ServicePosition
<1>6. CASE \E c \in Conns : Ignore(c) \/ Handle(c) \/ Discard(c)
  BY <1>6, EventPosition
<1> QED
  BY <1>1, <1>2, <1>3, <1>4, <1>5, <1>6 DEF Next

(* With every abandoned connection silent, the fullnode's end of the       *)
(* current connection, the database and every detached service stay where  *)
(* the machine would resume from.                                          *)
THEOREM PositionKept ==
  ASSUME Quiet
  PROVE  Spec => []Position
<1>1. Init => Shape /\ Position
  BY InitShape, InitPosition
<1>2. Shape /\ Position /\ [Next]_vars => (Shape /\ Position)'
  BY NextShape, NextPosition
<1> QED
  BY <1>1, <1>2, PTL DEF Spec

(* No event whose transaction committed is sent again on the machine's own *)
(* connection, across reconnections, crashes and restarts.                 *)
THEOREM NeverResent ==
  ASSUME Quiet
  PROVE  Spec => []NothingResent
<1>1. Shape /\ Position => NothingResent
  <2> SUFFICES ASSUME Shape, Position, NEW c \in Conns, c = socket, conn[c].wire # 0
               PROVE  conn[c].wire > db.synced
    BY DEF NothingResent
  <2>1. state \in Connected /\ conn[c].wire = resumeFrom + 1
    BY WireIsNext DEF At
  <2>2. db.synced <= resumeFrom /\ db.synced \in Nat /\ resumeFrom \in Nat
    BY <2>1, StateSets, SyncAssumption DEF Position, Shape, TypeOK, Database, resumeFrom
  <2> QED
    BY <2>1, <2>2
<1>2. Spec => []Shape
  BY InitShape, NextShape, PTL DEF Spec
<1> QED
  BY <1>1, <1>2, PositionKept, PTL

(* Events are stored in stream order, with no gap and no repeat.           *)
THEOREM StoredInOrder ==
  ASSUME Quiet
  PROVE  Spec => InOrder
<1>1. ASSUME Shape, Position, [Next]_vars, event' # event
      PROVE  event' \in {0, resumeFrom + 1}
  <2>1. CASE Exit
    BY <2>1 DEF Exit
  <2>2. CASE \E c \in Conns : Ignore(c) \/ Handle(c)
    <3>1. PICK c \in Conns : Ignore(c) \/ Handle(c)
      BY <2>2
    <3>2. event' = conn[c].wire /\ conn[c].wire # 0
      BY <3>1 DEF Ignore, Handle
    <3>3. conn[c] = At(resumeFrom + 2, TRUE, resumeFrom + 1)
      BY <1>1, <3>2, WireIsNext
    <3> QED
      BY <3>2, <3>3 DEF At
  <2>3. CASE ~Exit /\ ~\E c \in Conns : Ignore(c) \/ Handle(c)
    BY <1>1, <2>3
       DEF Next, vars, context, FullnodeProduces, StoreInitialState, Reconnect, DetectDiff,
           ApplyChange, Unvoid, Finish, Ends, Fails, AckTimeout, MissedEvents,
           NoMissedEvents, NothingToCheck, Crash, Restart, DetachedEnds, FullnodeSends,
           LoseEvent, ConnOpens, ConnCloses, Discard
  <2> QED
    BY <2>1, <2>2, <2>3
<1>2. Shape /\ Position /\ [Next]_vars
        => [event' # event => event' \in {0, resumeFrom + 1}]_vars
  BY <1>1
<1>3. Spec => []Shape
  BY InitShape, NextShape, PTL DEF Spec
<1> QED
  BY <1>2, <1>3, PositionKept, PTL DEF Spec, InOrder

-----------------------------------------------------------------------------
(* The replay.  Replay is a recursive function: that it is one takes an    *)
(* induction over the events, which is a fact about sets of numbers.       *)
LEMMA CountingUp ==
  ASSUME NEW S, 0 \in S, \A n \in Nat : n \in S => n + 1 \in S
  PROVE  Nat \subseteq S
<1> DEFINE T == Nat \ S
           R == OpToRel(<, Nat)
<1>1. IsWellFoundedOn(R, Nat)
  BY NatLessThanWellFounded
<1>2. \A x, y \in Nat : y < x => <<y, x>> \in R
  BY DEF OpToRel
<1> HIDE DEF R
<1>3. ASSUME T # {}
      PROVE  \E x \in T : \A y \in T : ~ (<<y, x>> \in R)
  <2>1. T \subseteq Nat
    OBVIOUS
  <2> HIDE DEF T
  <2> QED
    BY <1>1, <1>3, <2>1, WFMin
<1>4. ASSUME NEW x \in T, \A y \in T : ~ (<<y, x>> \in R)
      PROVE  FALSE
  <2>1. x \in Nat /\ x # 0
    OBVIOUS
  <2>2. x - 1 \in Nat /\ x - 1 < x /\ x = (x - 1) + 1
    BY <2>1
  <2>3. x - 1 \in S
    BY <1>2, <1>4, <2>1, <2>2
  <2> QED
    BY <2>2, <2>3
<1> QED
  BY <1>3, <1>4

(* The first n events replayed.                                            *)
Replays(f, l, n) == f = [k \in 0..n |-> IF k = 0 THEN EmptyView ELSE Means(f[k - 1], l[k])]

LEMMA ReplayExists ==
  ASSUME NEW l
  PROVE  \A n \in Nat : \E f : Replays(f, l, n)
<1> DEFINE S == {n \in Nat : \E f : Replays(f, l, n)}
<1>1. 0 \in S
  <2> DEFINE f == [k \in 0..0 |-> EmptyView]
  <2>1. Replays(f, l, 0)
    BY DEF Replays
  <2> QED
    BY <2>1
<1>2. ASSUME NEW n \in Nat, n \in S
      PROVE  n + 1 \in S
  <2>1. PICK f : Replays(f, l, n)
    BY <1>2
  <2> DEFINE step(h, k) == IF k = 0 THEN EmptyView ELSE Means(h[k - 1], l[k])
             g == [k \in 0..(n + 1) |-> step(f, k)]
  <2>2. \A k \in 0..n : f[k] = step(f, k)
    BY <2>1 DEF Replays
  <2>3. \A k \in 0..n : g[k] = f[k]
    BY <2>2
  <2>4. \A k \in 0..(n + 1) : step(g, k) = step(f, k)
    <3> SUFFICES ASSUME NEW k \in 0..(n + 1) PROVE step(g, k) = step(f, k)
      OBVIOUS
    <3>1. k # 0 => k - 1 \in 0..n
      OBVIOUS
    <3>2. k # 0 => g[k - 1] = f[k - 1]
      BY <2>3, <3>1
    <3> HIDE DEF g
    <3> QED
      BY <3>2
  <2>5. g = [k \in 0..(n + 1) |-> step(g, k)]
    BY <2>4
  <2>6. Replays(g, l, n + 1)
    BY <2>5 DEF Replays
  <2> QED
    BY <2>6
<1> HIDE DEF S
<1>3. Nat \subseteq S
  BY <1>1, <1>2, CountingUp
<1> QED
  BY <1>3 DEF S

LEMMA ReplayIs ==
  ASSUME NEW l \in Seq(Events)
  PROVE  /\ Replay(l)[0] = EmptyView
         /\ \A k \in 1..Len(l) : Replay(l)[k] = Means(Replay(l)[k - 1], l[k])
<1>1. Len(l) \in Nat
  OBVIOUS
<1>2. Replay(l) = CHOOSE f : f = [k \in 0..Len(l) |-> IF k = 0 THEN EmptyView ELSE Means(f[k - 1], l[k])]
  BY DEF Replay
<1>3. \E f : f = [k \in 0..Len(l) |-> IF k = 0 THEN EmptyView ELSE Means(f[k - 1], l[k])]
  BY <1>1, ReplayExists DEF Replays
<1>4. PICK f : f = Replay(l) /\ f = [k \in 0..Len(l) |-> IF k = 0 THEN EmptyView ELSE Means(f[k - 1], l[k])]
  BY <1>2, <1>3
<1>5. f[0] = EmptyView /\ \A k \in 1..Len(l) : f[k] = Means(f[k - 1], l[k])
  BY <1>1, <1>4
<1> QED
  BY <1>4, <1>5

-----------------------------------------------------------------------------
(* The mirror: the database shows what the stream says, whatever crashed   *)
(* or failed, as long as no connection closes under a running service.     *)

(* What View shows of a row and a token, and what event e makes of it.     *)
Shown(row, token) ==
  IF row.st = "live" THEN [live |-> TRUE, firstBlock |-> row.firstBlock, token |-> token]
  ELSE [NoVertex EXCEPT !.token = token]
Becomes(e, now) ==
  IF aboutVertex(e)
  THEN IF e.voided THEN NoVertex
       ELSE [live |-> TRUE, firstBlock |-> e.firstBlock,
             token |-> IF e.nc THEN now.token ELSE NoBlock]
  ELSE IF e.type = "VERTEX_REMOVED" THEN NoVertex
  ELSE IF e.type = "TOKEN_CREATED" THEN [now EXCEPT !.token = e.firstBlock]
  ELSE now

(* The events between last_event_id and the last one acknowledged have     *)
(* changed nothing, and the machine is at most one event past them.        *)
Level == \A k \in db.synced..Upto : Replay(log)[k] = View
Within == state \notin {"INITIALIZING", "ERROR"} =>
            resumeFrom <= IF state \in Handling THEN Upto + 1 ELSE Upto

(* Only a live vertex has tokens, and only one an event told about a row.  *)
TokensLive == \A t \in Txs : db.row[t].st # "live" => db.token[t] = NoBlock
RowsKnown == \A t \in Txs : db.row[t].st # "absent" =>
               \E k \in 1..db.synced : aboutVertex(log[k]) /\ log[k].tx = t

(* The cache holds what the database shows, but for the vertex being added *)
(* again after an unvoid, and for the ones removed, which it never forgets.*)
Removed(t) == \E k \in 1..event : log[k].type = "VERTEX_REMOVED" /\ log[k].tx = t
CacheTrue ==
  \A t \in Txs : txCache[t] # NoHash /\ ~Removed(t) =>
    \/ state = "handlingVertexAccepted" /\ t = log[event].tx
    \/ txCache[t].voided /\ ~View[t].live
    \/ ~txCache[t].voided /\ View[t].live /\ View[t].firstBlock = txCache[t].firstBlock

(* The running service is the one the event asks for, given the row it     *)
(* finds; or the event is done and only last_event_id is left to write.    *)
DueIn(s, e, st) ==
  \/ s = "detectingDiff" /\ e.type = "VERTEX_METADATA_CHANGED"
  \/ s = "handlingVertexAccepted" /\ aboutVertex(e) /\ ~e.voided /\ st = "absent"
  \/ s = "handlingVoidedTx" /\ aboutVertex(e) /\ e.voided /\ st = "live"
  \/ s = "handlingUnvoidedTx" /\ aboutVertex(e) /\ ~e.voided /\ st = "voided"
  \/ s = "handlingFirstBlock" /\ e.type = "VERTEX_METADATA_CHANGED" /\ ~e.voided /\ st = "live"
  \/ s = "handlingVertexRemoved" /\ e.type = "VERTEX_REMOVED"
  \/ s = "handlingTokenCreated" /\ e.type = "TOKEN_CREATED"
  \/ s = "handlingReorgStarted" /\ e.type = "REORG_STARTED"
Due ==
  state \in Handling =>
    \/ state = "handlingUnhandledEvent" /\ View = Replay(log)[event]
    \/ /\ db.synced < event /\ View = Replay(log)[event - 1]
       /\ DueIn(state, log[event], db.row[log[event].tx].st)

(* No service is left behind, no change is queued behind the one under way.*)
Remembered ==
  /\ detached = {} /\ pending \in {<<>>, <<"IGNORE">>}
  /\ event = 0 => txCache = NoCache

Mirror == Level /\ Within /\ TokensLive /\ RowsKnown /\ CacheTrue /\ Due /\ Remembered

USE DEF Upto
USE SyncAssumption

(* The view of the database, one vertex at a time.                         *)

LEMMA Types ==
  ASSUME Shape
  PROVE  /\ log \in Seq(Events) /\ log \in Logs /\ Len(log) \in Nat
         /\ db \in Database /\ db.synced \in Nat /\ acked \in Nat /\ Upto \in Nat
         /\ event \in 0..Len(log) /\ initialEventId \in 0..Len(log) /\ resumeFrom \in 0..Len(log)
         /\ Upto >= db.synced /\ Upto >= acked /\ Upto \in {db.synced, acked}
         /\ \A i \in 1..Len(log) : log[i] \in Events /\ log[i].tx \in Txs
         /\ db.synced \in 0..Len(log)
<1>1. /\ log \in Seq(Events) /\ log \in Logs /\ Len(log) \in Nat
      /\ db \in Database /\ acked \in 0..Len(log)
      /\ event \in 0..Len(log) /\ initialEventId \in 0..Len(log)
  BY DEF Shape, TypeOK
<1>2. db.synced \in 0..Len(log)
  BY <1>1 DEF Database
<1>3. ASSUME NEW i \in 1..Len(log)
      PROVE  log[i] \in Events /\ log[i].tx \in Txs
  <2>1. log[i] \in Events
    BY <1>1
  <2> QED
    BY <2>1 DEF Events
<1>4. resumeFrom \in 0..Len(log)
  BY <1>1 DEF resumeFrom
<1>5. Upto >= db.synced /\ Upto >= acked /\ Upto \in {db.synced, acked}
  BY <1>1, <1>2 DEF Larger
<1> QED
  BY <1>1, <1>2, <1>3, <1>4, <1>5

LEMMA ViewAt ==
  /\ View = [t \in Txs |-> Shown(db.row[t], db.token[t])]
  /\ View' = [t \in Txs |-> Shown(db'.row[t], db'.token[t])]
  BY DEF View, Shown

LEMMA MeansBecomes ==
  ASSUME NEW v, NEW e \in Events
  PROVE  Means(v, e) = [v EXCEPT ![e.tx] = Becomes(e, v[e.tx])]
  BY DEF Means, Becomes, aboutVertex, Events, EventTypes

(* A statement that leaves the row and the token of the event's vertex.    *)
LEMMA SyncedView ==
  ASSUME db \in Database, NEW i, log[i].tx \in Txs, NEW row, NEW token, db' = Synced(db, i, row, token)
  PROVE  /\ View' = [View EXCEPT ![log[i].tx] = Shown(row, token)]
         /\ db'.synced = i /\ db'.row[log[i].tx] = row /\ db'.token[log[i].tx] = token
         /\ \A t \in Txs : t # log[i].tx => db'.row[t] = db.row[t] /\ db'.token[t] = db.token[t]
<1>1. /\ db'.synced = i
      /\ db'.row = [db.row EXCEPT ![log[i].tx] = row]
      /\ db'.token = [db.token EXCEPT ![log[i].tx] = token]
  BY DEF Synced
<1>2. db.row \in [Txs -> Row] /\ db.token \in [Txs -> BlockOrNone]
  BY DEF Database
<1>3. /\ db'.row[log[i].tx] = row /\ db'.token[log[i].tx] = token
      /\ \A t \in Txs : t # log[i].tx => db'.row[t] = db.row[t] /\ db'.token[t] = db.token[t]
  BY <1>1, <1>2
<1>4. View' = [View EXCEPT ![log[i].tx] = Shown(row, token)]
  BY <1>3, ViewAt
<1> QED
  BY <1>1, <1>3, <1>4

(* A vertex that is not live is shown as no vertex.                        *)
LEMMA NotLive ==
  ASSUME TokensLive, NEW t \in Txs, ~View[t].live
  PROVE  View[t] = NoVertex /\ db.row[t].st # "live"
<1>1. View[t] = Shown(db.row[t], db.token[t])
  BY ViewAt
<1>2. db.row[t].st # "live"
  BY <1>1 DEF Shown
<1>3. db.token[t] = NoBlock
  BY <1>2 DEF TokensLive
<1> QED
  BY <1>1, <1>2, <1>3 DEF Shown, NoVertex

(* The next event, and what the replay says before and after it.           *)
LEMMA NextEvent ==
  ASSUME Shape, NEW i \in 1..Len(log), View = Replay(log)[i - 1]
  PROVE  LET e == log[i]
         IN  Replay(log)[i] = [View EXCEPT ![e.tx] = Becomes(e, View[e.tx])]
<1>1. log \in Seq(Events) /\ log[i] \in Events
  BY Types
<1> QED
  BY <1>1, ReplayIs, MeansBecomes

(* A step of the database to event i.                                      *)
LEMMA LevelAfterCommit ==
  ASSUME Shape, Level, NEW i \in 1..Len(log), db.synced <= i, i <= Upto + 1,
         log' = log, db'.synced = i, acked' \in {acked, Larger(acked, i)}, View' = Replay(log)[i]
  PROVE  Level' /\ Upto' >= i
<1>1. acked' \in Nat /\ Upto' = Larger(i, acked') /\ i \in Nat
  BY Types DEF Larger
<1>2. ASSUME NEW k \in i..Upto' PROVE Replay(log)[k] = View'
  <2>1. CASE k = i
    BY <2>1
  <2>2. CASE k > i
    <3>1. k \in db.synced..Upto /\ i \in db.synced..Upto
      BY <1>1, <2>2, Types DEF Larger
    <3> QED
      BY <3>1 DEF Level
  <2> QED
    BY <1>1, <2>1, <2>2
<1> QED
  BY <1>1, <1>2 DEF Level, Larger

(* An event that changes nothing is acknowledged.                          *)
LEMMA LevelAfterAck ==
  ASSUME Shape, Level, NEW i \in 1..Len(log), i <= Upto + 1,
         log' = log, db' = db, acked' = Larger(acked, i), View = Replay(log)[i]
  PROVE  Level' /\ Upto' >= i
<1>1. Upto' = Larger(Upto, i) /\ View' = View /\ i \in Nat
  BY Types DEF Larger, View
<1>2. ASSUME NEW k \in db.synced..Upto' PROVE Replay(log)[k] = View
  <2>1. CASE k <= Upto
    BY <2>1, Types DEF Level
  <2>2. CASE k > Upto
    <3>1. k = i
      BY <1>1, <2>2, Types DEF Larger
    <3> QED
      BY <3>1
  <2> QED
    BY <1>1, <2>1, <2>2, Types
<1> QED
  BY <1>1, <1>2, Types DEF Level, Larger

(* The tables and the acknowledgements are left alone.                     *)
LEMMA LevelStays ==
  ASSUME Level, UNCHANGED <<log, db, acked>>
  PROVE  Level' /\ View' = View /\ Upto' = Upto
  BY DEF Level, View, Larger

(* Where the machine would resume, and what the view is there.             *)
LEMMA Resuming ==
  ASSUME Shape, Position, Mirror, state \in Connected \ Handling
  PROVE  /\ db.synced <= resumeFrom /\ resumeFrom <= Upto
         /\ View = Replay(log)[resumeFrom]
<1>1. state \notin {"INITIALIZING", "ERROR"} /\ state \notin Handling
  BY StateSets
<1>2. db.synced <= resumeFrom /\ resumeFrom <= Upto
  BY <1>1 DEF Position, Mirror, Within
<1>3. resumeFrom \in db.synced..Upto
  BY <1>2, Types
<1> QED
  BY <1>2, <1>3 DEF Mirror, Level

-----------------------------------------------------------------------------
(* Steps that leave the database alone.                                    *)

LEMMA InitMirror == Init => Mirror
<1> SUFFICES ASSUME Init PROVE Mirror
  OBVIOUS
<1>1. /\ Upto = 0 /\ db.synced = 0 /\ event = 0 /\ detached = {} /\ pending = <<>> /\ txCache = NoCache
      /\ state = "INITIALIZING" /\ log \in Seq(Events)
  BY DEF Init, Larger
<1>2. \A t \in Txs : db.row[t].st = "absent" /\ db.token[t] = NoBlock
  BY DEF Init, NoRow
<1>3. View = EmptyView
  <2>1. [NoVertex EXCEPT !.token = NoBlock] = NoVertex
    <3>1. NoVertex \in Vertex /\ NoVertex.token = NoBlock
      BY DEF NoVertex, Vertex, BlockOrNone
    <3>2. \A v \in Vertex : [v EXCEPT !.token = v.token] = v
      BY DEF Vertex
    <3> QED
      BY <3>1, <3>2
  <2> QED
    BY <1>2, <2>1 DEF View, EmptyView
<1>4. Level
  BY <1>1, <1>3, ReplayIs DEF Level
<1>5. Within /\ Due
  BY <1>1 DEF Within, Due, Handling
<1>6. TokensLive /\ RowsKnown /\ CacheTrue
  BY <1>1, <1>2 DEF TokensLive, RowsKnown, CacheTrue, NoCache
<1> QED
  BY <1>1, <1>4, <1>5, <1>6 DEF Mirror, Remembered

LEMMA ExitMirror ==
  ASSUME Mirror, Exit
  PROVE  Mirror'
<1>1. /\ state' = "ERROR" /\ event' = 0 /\ pending' = <<>> /\ txCache' = NoCache /\ detached' = {}
      /\ UNCHANGED <<log, db, acked>>
  BY DEF Exit, stream
<1>2. Level' /\ View' = View
  BY <1>1, LevelStays DEF Mirror
<1>3. Within' /\ Due' /\ Remembered'
  BY <1>1 DEF Within, Due, Handling, Remembered
<1>4. TokensLive' /\ RowsKnown'
  BY <1>1 DEF Mirror, TokensLive, RowsKnown
<1>5. CacheTrue'
  BY <1>1 DEF CacheTrue, NoCache
<1> QED
  BY <1>2, <1>3, <1>4, <1>5 DEF Mirror

(* The machine moves between states that handle nothing, or not at all.    *)
LEMMA StayMirror ==
  ASSUME Mirror, UNCHANGED <<log, db, acked, event, pending, txCache>>, detached' = {},
         \/ state' = state /\ UNCHANGED <<event, initialEventId>>
         \/ state \notin Handling /\ state' \notin Handling /\ (Within)'
  PROVE  Mirror'
<1>1. Level' /\ View' = View /\ Upto' = Upto
  BY LevelStays DEF Mirror
<1>2. Within'
  <2>1. CASE state' = state /\ UNCHANGED <<event, initialEventId>>
    BY <1>1, <2>1 DEF Mirror, Within, resumeFrom
  <2> QED
    BY <2>1
<1>3. TokensLive' /\ RowsKnown'
  BY DEF Mirror, TokensLive, RowsKnown
<1>4. CacheTrue' /\ Due'
  <2>1. \A t : Removed(t)' <=> Removed(t)
    BY DEF Removed
  <2>2. CASE state' = state
    BY <1>1, <2>1, <2>2 DEF Mirror, CacheTrue, Due
  <2>3. CASE state \notin Handling /\ state' \notin Handling
    <3>1. state # "handlingVertexAccepted"
      BY <2>3 DEF Handling
    <3> QED
      BY <1>1, <2>1, <2>3, <3>1 DEF Mirror, CacheTrue, Due
  <2> QED
    BY <2>2, <2>3
<1> QED
  BY <1>1, <1>2, <1>3, <1>4 DEF Mirror, Remembered

(* No service is left behind.                                              *)
LEMMA LeaveMirror ==
  ASSUME Shape, Mirror, Leave, state \in InSession \ Handling,
         UNCHANGED <<log, db, acked, event, initialEventId, pending, txCache>>
  PROVE  Mirror'
<1>1. detached' = {} /\ state' = "RECONNECTING"
  BY DEF Leave, Mirror, Remembered
<1>2. state' \notin Handling /\ state \notin {"INITIALIZING", "ERROR"}
  BY <1>1, StateSets
<1>3. resumeFrom <= Upto
  BY <1>2 DEF Mirror, Within
<1>4. Within'
  BY <1>2, <1>3 DEF Within, resumeFrom, Larger
<1> QED
  BY <1>1, <1>2, <1>4, StayMirror

LEMMA ConnectionMirror ==
  ASSUME Steady, Shape, Position, Mirror
  PROVE  /\ \A c \in Conns : FullnodeSends(c) \/ LoseEvent(c) \/ ConnOpens(c) \/ ConnCloses(c) => Mirror'
         /\ StoreInitialState \/ Reconnect \/ MissedEvents \/ AckTimeout \/ NoMissedEvents
            \/ Restart \/ FullnodeProduces \/ UNCHANGED vars => Mirror'
         /\ NothingToCheck \/ Crash \/ Fails => Mirror'
<1>1. ASSUME NEW c \in Conns, FullnodeSends(c) \/ LoseEvent(c)
      PROVE  Mirror'
  BY <1>1, StayMirror DEF FullnodeSends, LoseEvent, context, stream, Mirror, Remembered
<1>2. ASSUME FullnodeProduces \/ UNCHANGED vars
      PROVE  Mirror'
  BY <1>2, StayMirror DEF FullnodeProduces, vars, context, stream, Mirror, Remembered
<1>3. ASSUME NothingToCheck \/ Crash \/ Fails
      PROVE  Mirror'
  BY <1>3, ExitMirror DEF NothingToCheck, Crash, Fails
<1>4. ASSUME AckTimeout \/ NoMissedEvents
      PROVE  Mirror'
  <2>1. /\ state \notin Handling /\ state' \notin Handling
        /\ state \notin {"INITIALIZING", "ERROR"}
        /\ UNCHANGED <<log, db, acked, event, initialEventId, pending, txCache, detached>>
    BY <1>4, StateSets DEF AckTimeout, NoMissedEvents, context, stream
  <2>2. Within'
    BY <2>1 DEF Mirror, Within, resumeFrom, Larger
  <2> QED
    BY <2>1, <2>2, StayMirror DEF Mirror, Remembered
<1>5. ASSUME Restart
      PROVE  Mirror'
  <2>1. /\ state \notin Handling /\ state' \notin Handling /\ state' = "INITIALIZING"
        /\ UNCHANGED <<log, db, acked, event, initialEventId, pending, txCache, detached>>
    BY <1>5, StateSets DEF Restart, context, stream
  <2>2. Within'
    BY <2>1 DEF Within
  <2> QED
    BY <2>1, <2>2, StayMirror DEF Mirror, Remembered
<1>6. ASSUME StoreInitialState
      PROVE  Mirror'
  <2>1. /\ state = "INITIALIZING" /\ state' = "CONNECTING" /\ initialEventId' = db.synced
        /\ UNCHANGED <<log, db, acked, event, pending, txCache, detached>>
    BY <1>6 DEF StoreInitialState, Connect, stream
  <2>2. event = 0 /\ state \notin Handling /\ state' \notin Handling
    BY <2>1, StateSets DEF Position
  <2>3. Within'
    BY <2>1, <2>2, Types DEF Within, resumeFrom, Larger
  <2> QED
    BY <2>1, <2>2, <2>3, StayMirror DEF Mirror, Remembered
<1>7. ASSUME Reconnect
      PROVE  Mirror'
  <2>1. /\ state = "RECONNECTING" /\ state' = "CONNECTING"
        /\ UNCHANGED <<log, db, acked, event, initialEventId, pending, txCache, detached>>
    BY <1>7 DEF Reconnect, Connect, stream
  <2>2. state \notin Handling /\ state' \notin Handling
    BY <2>1, StateSets
  <2>3. Within'
    BY <2>1, <2>2 DEF Mirror, Within, resumeFrom, Larger
  <2> QED
    BY <2>1, <2>2, <2>3, StayMirror DEF Mirror, Remembered
<1>8. ASSUME MissedEvents
      PROVE  Mirror'
  BY <1>8, LeaveMirror, StateSets DEF MissedEvents, stream
<1>9. ASSUME NEW c \in Conns, ConnOpens(c)
      PROVE  Mirror'
  <2>1. CASE Exit
    BY <2>1, ExitMirror
  <2>2. CASE ~Exit /\ state = "CONNECTING"
    <3>1. /\ state' = "idle"
          /\ UNCHANGED <<log, db, acked, event, initialEventId, pending, txCache, detached>>
      BY <1>9, <2>2 DEF ConnOpens, context, stream
    <3>2. state \notin Handling /\ state' \notin Handling
      BY <2>2, <3>1, StateSets
    <3>3. Within'
      BY <2>2, <3>1, <3>2 DEF Mirror, Within, resumeFrom, Larger
    <3> QED
      BY <3>1, <3>2, <3>3, StayMirror DEF Mirror, Remembered
  <2>3. CASE ~Exit /\ state # "CONNECTING"
    BY <1>9, <2>3, StayMirror DEF ConnOpens, context, stream, Mirror, Remembered
  <2> QED
    BY <2>1, <2>2, <2>3
<1>10. ASSUME NEW c \in Conns, ConnCloses(c)
       PROVE  Mirror'
  <2>1. c = socket
    BY <1>10 DEF ConnCloses, Position, Closed
  <2>2. Leave /\ Fault(IF state \in Handling THEN "dropBusy" ELSE "drop")
        /\ UNCHANGED <<log, db, acked, event, initialEventId, pending, txCache>>
    BY <1>10, <2>1 DEF ConnCloses, stream
  <2>3. state \notin Handling
    BY <2>2 DEF Fault, Steady
  <2>4. state \in InSession
    <3>1. state \notin InSession => socket = NoConn
      BY DEF Position, InSession
    <3> QED
      BY <2>1, <3>1
  <2> QED
    BY <2>2, <2>3, <2>4, LeaveMirror
<1> QED
  BY <1>1, <1>2, <1>3, <1>4, <1>5, <1>6, <1>7, <1>8, <1>9, <1>10

LEMMA HashOf ==
  ASSUME NEW e \in Events
  PROVE  /\ hashTxData(e) # NoHash
         /\ e.voided = hashTxData(e).voided
         /\ hashTxData(e).firstBlock = e.firstBlock
<1>1. e.voided \in BOOLEAN /\ e.firstBlock \in BlockOrNone
  BY DEF Events
<1>2. \A v \in BOOLEAN, b \in BlockOrNone : [voided |-> v, firstBlock |-> b] # NoHash
  OBVIOUS
<1>3. hashTxData(e) # NoHash
  BY <1>1, <1>2 DEF hashTxData
<1> QED
  BY <1>3 DEF hashTxData
LEMMA SameBecomes ==
  ASSUME NEW e, NEW v \in Vertex, e.voided \in BOOLEAN, ~e.voided, aboutVertex(e),
         v.live, v.firstBlock = e.firstBlock, ~e.nc => v.token = NoBlock
  PROVE  Becomes(e, v) = v
<1>1. v = [live |-> TRUE, firstBlock |-> e.firstBlock, token |-> v.token]
  BY DEF Vertex
<1>2. CASE e.nc
  <2>1. Becomes(e, v) = [live |-> TRUE, firstBlock |-> e.firstBlock, token |-> v.token]
    BY <1>2 DEF Becomes
  <2> QED
    BY <1>1, <2>1
<1>3. CASE ~e.nc
  <2>1. Becomes(e, v) = [live |-> TRUE, firstBlock |-> e.firstBlock, token |-> NoBlock]
    BY <1>3 DEF Becomes
  <2> QED
    BY <1>1, <1>3, <2>1
<1> QED
  BY <1>2, <1>3
LEMMA ViewType ==
  ASSUME db \in Database
  PROVE  \A t \in Txs : View[t] \in Vertex
<1>1. ASSUME NEW t \in Txs PROVE View[t] \in Vertex
  <2>1. db.row[t] \in Row /\ db.token[t] \in BlockOrNone
    BY DEF Database
  <2>2. \A b \in BlockOrNone : [NoVertex EXCEPT !.token = b] \in Vertex
    BY DEF NoVertex, Vertex, BlockOrNone
  <2>3. \A b, c \in BlockOrNone : [live |-> TRUE, firstBlock |-> c, token |-> b] \in Vertex
    BY DEF Vertex
  <2>4. View[t] = Shown(db.row[t], db.token[t])
    BY ViewAt
  <2>5. db.row[t].firstBlock \in BlockOrNone
    BY <2>1 DEF Row
  <2> QED
    BY <2>1, <2>2, <2>3, <2>4, <2>5 DEF Shown
<1> QED
  BY <1>1

(* A vertex never accepted before has no row yet, and one never removed is *)
(* not Removed.                                                            *)
LEMMA Unseen ==
  ASSUME Shape, Mirror, RegularLogs, NEW i \in 1..Len(log), db.synced < i, event < i,
         aboutVertex(log[i])
  PROVE  /\ log[i].type = "NEW_VERTEX_ACCEPTED" => db.row[log[i].tx].st = "absent"
         /\ ~Removed(log[i].tx)
<1>1. Regular(log) /\ db.synced \in Nat /\ event \in Nat /\ i \in Nat
  BY Types DEF RegularLogs
<1>2. /\ log[i].type = "NEW_VERTEX_ACCEPTED" =>
             \A j \in 1..(i - 1) : aboutVertex(log[j]) => log[j].tx # log[i].tx
      /\ \A j \in 1..(i - 1) : log[j].type = "VERTEX_REMOVED" => log[j].tx # log[i].tx
  BY <1>1 DEF Regular
<1>3. \A k : k \in 1..db.synced \/ k \in 1..event => k \in 1..(i - 1)
  BY <1>1
<1>4. log[i].tx \in Txs
  BY Types
<1> QED
  BY <1>2, <1>3, <1>4 DEF Mirror, RowsKnown, Removed

(* Events the machine ignores change nothing.                              *)
LEMMA IgnoredNothing ==
  ASSUME Shape, Position, Mirror, RegularLogs, state = "idle",
         NEW i, i = resumeFrom + 1, i \in 1..Len(log),
         unchanged(log[i]) \/ (voided(log[i]) /\ log[i].type = "NEW_VERTEX_ACCEPTED")
  PROVE  View = Replay(log)[i]
<1> DEFINE e == log[i]
<1>1. /\ e \in Events /\ e.tx \in Txs /\ aboutVertex(e)
      /\ resumeFrom \in Nat /\ event \in Nat /\ db.synced \in Nat
  BY Types DEF unchanged, voided
<1>2. db.synced <= resumeFrom /\ View = Replay(log)[resumeFrom]
  BY Resuming, StateSets
<1>3. db.synced < i /\ i - 1 = resumeFrom /\ event < i
  BY <1>1, <1>2, Types DEF resumeFrom
<1>4. View = Replay(log)[i - 1]
  BY <1>2, <1>3
<1>5. Replay(log)[i] = [View EXCEPT ![e.tx] = Becomes(e, View[e.tx])]
  BY <1>4, NextEvent
<1>6. /\ e.type = "NEW_VERTEX_ACCEPTED" => db.row[e.tx].st = "absent"
      /\ ~Removed(e.tx)
  BY <1>1, <1>3, Unseen
<1>7. View[e.tx] = Shown(db.row[e.tx], db.token[e.tx])
  BY <1>1, ViewAt
<1>8. Becomes(e, View[e.tx]) = View[e.tx]
  <2>1. CASE e.voided
    <3>1. ~View[e.tx].live
      <4>1. CASE e.type = "NEW_VERTEX_ACCEPTED"
        BY <1>6, <1>7, <4>1 DEF Shown, NoVertex
      <4>2. CASE unchanged(e)
        <5>1. txCache[e.tx].voided /\ txCache[e.tx] # NoHash
          BY <1>1, <2>1, <4>2, HashOf DEF unchanged
        <5> QED
          BY <1>1, <1>6, <5>1 DEF Mirror, CacheTrue
      <4> QED
        BY <4>1, <4>2
    <3>2. View[e.tx] = NoVertex
      BY <1>1, <3>1, NotLive DEF Mirror
    <3> QED
      BY <1>1, <2>1, <3>2 DEF Becomes
  <2>2. CASE ~e.voided
    <3>1. unchanged(e)
      BY <2>2 DEF voided
    <3>2. ~txCache[e.tx].voided /\ txCache[e.tx] # NoHash /\ txCache[e.tx].firstBlock = e.firstBlock
      BY <1>1, <2>2, <3>1, HashOf DEF unchanged
    <3>3. View[e.tx].live /\ View[e.tx].firstBlock = e.firstBlock
      BY <1>1, <1>6, <3>2 DEF Mirror, CacheTrue
    <3>4. db.row[e.tx].st = "live"
      BY <1>7, <3>3 DEF Shown, NoVertex
    <3>6. ~e.nc => View[e.tx].token = NoBlock
      <4>1. e.type = "VERTEX_METADATA_CHANGED"
        BY <1>1, <1>6, <3>4 DEF aboutVertex
      <4>2. ~e.nc => Replay(log)[i - 1][e.tx].token = NoBlock
        BY <2>2, <4>1, Types DEF RegularLogs, Regular
      <4> QED
        BY <1>4, <4>2
    <3>7. View[e.tx] \in Vertex /\ e.voided \in BOOLEAN
      BY <1>1, ViewType, Types DEF Events
    <3> HIDE DEF e
    <3> QED
      BY <1>1, <2>2, <3>3, <3>6, <3>7, SameBecomes
  <2> QED
    BY <2>1, <2>2
<1> HIDE DEF e
<1> QED
  BY <1>1, <1>5, <1>8, ViewAt

LEMMA IgnoreMirror ==
  ASSUME Shape, Position, Mirror, RegularLogs, NEW c \in Conns, Ignore(c)
  PROVE  Mirror'
<1>1. PICK i : i = conn[c].wire
  OBVIOUS
<1>2. /\ state = "idle" /\ i # 0 /\ event' = i /\ acked' = Larger(acked, i)
      /\ unchanged(log[i]) \/ (voided(log[i]) /\ log[i].type = "NEW_VERTEX_ACCEPTED")
      /\ UNCHANGED <<log, db, state, initialEventId, pending, txCache, detached>>
  BY <1>1 DEF Ignore, stream
<1>3. i = resumeFrom + 1
  BY <1>1, <1>2, WireIsNext DEF At
<1>4. i \in 1..Len(log)
  BY <1>1, <1>2, Types DEF Shape
<1>5. View = Replay(log)[i] /\ resumeFrom <= Upto /\ resumeFrom \in Nat /\ event \in Nat
  BY <1>2, <1>3, <1>4, IgnoredNothing, Resuming, StateSets, Types
<1>6. i <= Upto + 1
  BY <1>3, <1>5, Types
<1>7. Level' /\ Upto' >= i
  BY <1>2, <1>4, <1>5, <1>6, LevelAfterAck DEF Mirror
<1>8. Within' /\ Due'
  BY <1>2, <1>4, <1>7, StateSets DEF Within, resumeFrom, Due
<1>9. TokensLive' /\ RowsKnown'
  BY <1>2 DEF Mirror, TokensLive, RowsKnown
<1>10. CacheTrue'
  <2>1. ASSUME NEW t \in Txs, Removed(t) PROVE Removed(t)'
    <3>1. event <= i
      BY <1>3, <1>5 DEF resumeFrom
    <3> QED
      BY <1>2, <1>4, <1>5, <2>1, <3>1 DEF Removed
  <2>2. View' = View /\ state # "handlingVertexAccepted"
    BY <1>2 DEF View
  <2> QED
    BY <1>2, <2>1, <2>2 DEF Mirror, CacheTrue
<1>11. Remembered'
  BY <1>2 DEF Mirror, Remembered
<1> QED
  BY <1>7, <1>8, <1>9, <1>10, <1>11 DEF Mirror

(* What the machine is to do with the event it has just stored.            *)
LEMMA HandledDue ==
  ASSUME Shape, Mirror, RegularLogs, NEW i \in 1..Len(log), db.synced < i, event < i,
         View = Replay(log)[i - 1],
         ~(voided(log[i]) /\ log[i].type = "NEW_VERTEX_ACCEPTED")
  PROVE  LET s == HandledIn(log[i])
         IN  \/ s = "handlingUnhandledEvent" /\ View = Replay(log)[i]
             \/ DueIn(s, log[i], db.row[log[i].tx].st)
<1> DEFINE e == log[i]
<1>1. e \in Events /\ e.tx \in Txs /\ e.type \in EventTypes
  BY Types DEF Events
<1>2. e.type = "NEW_VERTEX_ACCEPTED" => db.row[e.tx].st = "absent"
  BY Unseen DEF aboutVertex
<1>3. CASE e.type \notin {"REORG_STARTED", "OTHER"}
  BY <1>1, <1>2, <1>3 DEF HandledIn, DueIn, aboutVertex, voided, EventTypes
<1>4. CASE e.type = "REORG_STARTED"
  BY <1>4 DEF HandledIn, DueIn
<1>5. CASE e.type = "OTHER"
  <2>1. Replay(log)[i] = [View EXCEPT ![e.tx] = Becomes(e, View[e.tx])]
    BY NextEvent
  <2>2. Becomes(e, View[e.tx]) = View[e.tx]
    BY <1>5 DEF Becomes, aboutVertex
  <2>3. View = Replay(log)[i]
    BY <1>1, <2>1, <2>2, ViewAt
  <2> QED
    BY <1>5, <2>3 DEF HandledIn
<1> QED
  BY <1>3, <1>4, <1>5

LEMMA HandleMirror ==
  ASSUME Shape, Position, Mirror, RegularLogs, NEW c \in Conns, Handle(c)
  PROVE  Mirror'
<1>1. PICK i : i = conn[c].wire
  OBVIOUS
<1>2. /\ state = "idle" /\ i # 0 /\ event' = i /\ state' = HandledIn(log[i])
      /\ ~(voided(log[i]) /\ log[i].type = "NEW_VERTEX_ACCEPTED")
      /\ UNCHANGED <<log, db, acked, initialEventId, pending, txCache, detached>>
  BY <1>1 DEF Handle, stream
<1>3. i = resumeFrom + 1
  BY <1>1, <1>2, WireIsNext DEF At
<1>4. i \in 1..Len(log)
  BY <1>1, <1>2, Types DEF Shape
<1>5. /\ db.synced <= resumeFrom /\ resumeFrom <= Upto /\ View = Replay(log)[resumeFrom]
      /\ resumeFrom \in Nat /\ event \in Nat /\ db.synced \in Nat /\ event <= resumeFrom
  <2>1. state \in Connected \ Handling
    BY <1>2, StateSets
  <2>2. event <= resumeFrom
    BY Types DEF resumeFrom
  <2> QED
    BY <2>1, <2>2, Resuming, Types
<1>6. db.synced < i /\ event < i /\ i - 1 = resumeFrom
  BY <1>3, <1>5
<1>7. View = Replay(log)[i - 1]
  BY <1>5, <1>6
<1>8. \/ state' = "handlingUnhandledEvent" /\ View = Replay(log)[i]
      \/ DueIn(state', log[i], db.row[log[i].tx].st)
  BY <1>2, <1>4, <1>6, <1>7, HandledDue
<1>9. Level' /\ View' = View /\ Upto' = Upto
  BY <1>2, LevelStays DEF Mirror
<1>10. Due'
  BY <1>2, <1>6, <1>7, <1>8, <1>9 DEF Due
<1>11. Within'
  <2>1. state' \in Handling
    BY <1>2 DEF HandledIn, Handling
  <2>2. resumeFrom' = i
    BY <1>2, <1>4 DEF resumeFrom
  <2> QED
    BY <1>3, <1>5, <1>9, <2>1, <2>2, Types DEF Within
<1>12. TokensLive' /\ RowsKnown'
  BY <1>2 DEF Mirror, TokensLive, RowsKnown
<1>13. CacheTrue'
  <2>1. ASSUME NEW t \in Txs, Removed(t) PROVE Removed(t)'
    BY <1>2, <1>4, <1>5, <1>6, <2>1 DEF Removed
  <2> QED
    BY <1>2, <1>9, <2>1 DEF Mirror, CacheTrue
<1>14. Remembered'
  BY <1>2 DEF Mirror, Remembered
<1> QED
  BY <1>9, <1>10, <1>11, <1>12, <1>13, <1>14 DEF Mirror

LEMMA DiscardMirror ==
  ASSUME Mirror, NEW c \in Conns, Discard(c)
  PROVE  Mirror'
  BY StayMirror DEF Discard, context, stream, Mirror, Remembered

-----------------------------------------------------------------------------
(* The services.                                                           *)

(* Where a service is when it ends.                                        *)
LEMMA AtWork ==
  ASSUME Shape, Position, Mirror, state \in Handling
  PROVE  /\ event \in 1..Len(log) /\ resumeFrom = event /\ event <= Upto + 1
         /\ db.synced <= event /\ log[event] \in Events /\ log[event].tx \in Txs
         /\ state \notin {"INITIALIZING", "ERROR"}
<1>1. event \in 1..Len(log) /\ resumeFrom = event
  BY Types DEF Shape, resumeFrom
<1>2. state \notin {"INITIALIZING", "ERROR"}
  BY StateSets
<1> QED
  BY <1>1, <1>2, Types DEF Position, Mirror, Within

LEMMA DispatchOne ==
  ASSUME NEW x \in Changes, Dispatch(<<x>>)
  PROVE  /\ state' = CASE x = "TX_VOIDED"      -> "handlingVoidedTx"
                       [] x = "TX_UNVOIDED"    -> "handlingUnvoidedTx"
                       [] x = "TX_NEW"         -> "handlingVertexAccepted"
                       [] x = "TX_FIRST_BLOCK" -> "handlingFirstBlock"
                       [] x = "NC_EXEC_VOIDED" -> "handlingNcExecVoided"
                       [] OTHER -> "handlingUnhandledEvent"
         /\ pending' = IF x = "IGNORE" THEN <<x>> ELSE <<>>
<1>1. <<x>> # <<>> /\ Head(<<x>>) = x /\ Tail(<<x>>) = <<>>
  OBVIOUS
<1> QED
  BY <1>1 DEF Dispatch, Changes

(* With an empty queue.                                                    *)
LEMMA DispatchNone ==
  ASSUME NEW q, q = <<>>, Dispatch(q)
  PROVE  state' = "handlingUnhandledEvent" /\ pending' = q
  BY DEF Dispatch

(* With nothing left, or an IGNORE, the event is done.                     *)
LEMMA DispatchDone ==
  ASSUME pending \in {<<>>, <<"IGNORE">>}, Dispatch(pending)
  PROVE  state' = "handlingUnhandledEvent" /\ pending' = pending
<1>1. CASE pending = <<>>
  BY <1>1, DispatchNone
<1>2. CASE pending = <<"IGNORE">>
  <2>1. <<"IGNORE">> # <<>> /\ Head(<<"IGNORE">>) = "IGNORE"
    OBVIOUS
  <2> QED
    BY <1>2, <2>1 DEF Dispatch
<1> QED
  BY <1>1, <1>2

LEMMA DetectDiffMirror ==
  ASSUME Shape, Position, Mirror, RegularLogs, DetectDiff
  PROVE  Mirror'
<1> DEFINE e == log[event]
           row == db.row[e.tx]
<1>1. /\ state = "detectingDiff" /\ Dispatch(metadataDiff(db, event))
      /\ UNCHANGED <<log, db, acked, event, initialEventId, txCache, detached>>
  BY DEF DetectDiff, Ends, Commit, stream
<1>2. /\ event \in 1..Len(log) /\ e \in Events /\ e.tx \in Txs /\ resumeFrom = event
      /\ event <= Upto + 1 /\ db.synced <= event
  BY <1>1, AtWork DEF Handling
<1>3. e.type = "VERTEX_METADATA_CHANGED" /\ db.synced < event /\ View = Replay(log)[event - 1]
  BY <1>1 DEF Mirror, Due, DueIn, Handling
<1>4. Replay(log)[event] = [View EXCEPT ![e.tx] = Becomes(e, View[e.tx])]
  BY <1>2, <1>3, NextEvent
<1>5. View[e.tx] = Shown(row, db.token[e.tx]) /\ row \in Row
  BY <1>2, ViewAt, Types DEF Database
<1>6. Becomes(e, View[e.tx]) = View[e.tx] => View = Replay(log)[event]
  BY <1>2, <1>4, ViewAt
<1>7. ~e.voided /\ ~e.nc => View[e.tx].token = NoBlock
  BY <1>2, <1>3, Types DEF RegularLogs, Regular
<1>8. row.st # "live" => View[e.tx] = NoVertex
  BY <1>2, <1>5, NotLive DEF Mirror, Shown, NoVertex
<1> DEFINE Next1(x) == metadataDiff(db, event) = <<x>>
<1>9. \/ Next1("IGNORE") /\ View = Replay(log)[event]
      \/ Next1("TX_NEW") /\ row.st = "absent" /\ ~e.voided
      \/ Next1("TX_VOIDED") /\ row.st = "live" /\ e.voided
      \/ Next1("TX_UNVOIDED") /\ row.st = "voided" /\ ~e.voided
      \/ Next1("TX_FIRST_BLOCK") /\ row.st = "live" /\ ~e.voided
  <2>1. CASE row.st # "live" /\ e.voided
    <3>1. Next1("IGNORE")
      BY <1>5, <2>1 DEF metadataDiff, Row
    <3>2. Becomes(e, View[e.tx]) = View[e.tx]
      BY <1>3, <1>8, <2>1 DEF Becomes, aboutVertex
    <3> QED
      BY <1>6, <3>1, <3>2
  <2>2. CASE row.st = "absent" /\ ~e.voided
    BY <2>2 DEF metadataDiff
  <2>3. CASE row.st = "live" /\ e.voided
    BY <2>3 DEF metadataDiff
  <2>4. CASE row.st = "voided" /\ ~e.voided
    BY <2>4 DEF metadataDiff
  <2>5. CASE row.st = "live" /\ ~e.voided
    <3>1. View[e.tx] = [live |-> TRUE, firstBlock |-> row.firstBlock, token |-> db.token[e.tx]]
      BY <1>5, <2>5 DEF Shown
    <3>2. ~(~e.nc /\ db.token[e.tx] # NoBlock)
      BY <1>7, <2>5, <3>1
    <3>3. CASE e.firstBlock = row.firstBlock
      <4>1. <<>> \o <<>> = <<>>
        OBVIOUS
      <4>2. Next1("IGNORE")
        BY <2>5, <3>2, <3>3, <4>1 DEF metadataDiff
      <4>3. /\ View[e.tx] \in Vertex /\ e.voided \in BOOLEAN /\ aboutVertex(e)
            /\ View[e.tx].live /\ View[e.tx].firstBlock = e.firstBlock
        BY <1>2, <1>3, <3>1, <3>3, ViewType, Types DEF Events, aboutVertex
      <4> HIDE DEF e, row
      <4>4. Becomes(e, View[e.tx]) = View[e.tx]
        BY <1>7, <2>5, <4>3, SameBecomes
      <4> QED
        BY <1>6, <4>2, <4>4
    <3>4. CASE e.firstBlock # row.firstBlock
      <4>1. <<>> \o <<"TX_FIRST_BLOCK">> = <<"TX_FIRST_BLOCK">> /\ <<"TX_FIRST_BLOCK">> # <<>>
        OBVIOUS
      <4>2. Next1("TX_FIRST_BLOCK")
        BY <2>5, <3>2, <3>4, <4>1 DEF metadataDiff
      <4> QED
        BY <2>5, <4>2
    <3> QED
      BY <3>3, <3>4
  <2> QED
    BY <1>5, <2>1, <2>2, <2>3, <2>4, <2>5 DEF Row
<1>10. /\ \/ state' = "handlingUnhandledEvent" /\ View = Replay(log)[event]
          \/ DueIn(state', e, row.st)
       /\ pending' \in {<<>>, <<"IGNORE">>} /\ state' \in Handling
  BY <1>1, <1>3, <1>9, DispatchOne DEF DueIn, aboutVertex, Changes, Handling
<1>11. Level' /\ View' = View /\ Upto' = Upto
  BY <1>1, LevelStays DEF Mirror
<1> HIDE DEF e, row
<1>12. Due'
  BY <1>1, <1>3, <1>10, <1>11 DEF Due, e, row
<1>13. Within'
  BY <1>1, <1>2, <1>10, <1>11 DEF Within, resumeFrom
<1>14. TokensLive' /\ RowsKnown' /\ Remembered'
  BY <1>1, <1>10 DEF Mirror, TokensLive, RowsKnown, Remembered
<1>15. CacheTrue'
  BY <1>1, <1>11 DEF Mirror, CacheTrue, Removed
<1> QED
  BY <1>11, <1>12, <1>13, <1>14, <1>15 DEF Mirror

LEMMA TokenSet ==
  ASSUME NEW v \in Vertex, v.live, NEW b
  PROVE  [v EXCEPT !.token = b] = [live |-> TRUE, firstBlock |-> v.firstBlock, token |-> b]
<1>1. v.live = TRUE
  BY DEF Vertex
<1>2. \A x \in [live: {TRUE}, firstBlock: BlockOrNone, token: BlockOrNone] :
       [x EXCEPT !.token = b] = [live |-> x.live, firstBlock |-> x.firstBlock, token |-> b]
  OBVIOUS
<1>3. v \in [live: {TRUE}, firstBlock: BlockOrNone, token: BlockOrNone]
  BY <1>1 DEF Vertex
<1> QED
  BY <1>1, <1>2, <1>3

(* What a statement that leaves a row and a token does to the rest of      *)
(* Mirror.                                                                 *)
LEMMA Written ==
  ASSUME Shape, TokensLive, RowsKnown, NEW i \in 1..Len(log), db.synced <= i, log' = log,
         NEW row, NEW token, db' = Synced(db, i, row, token),
         row.st # "live" => token = NoBlock,
         row.st # "absent" => aboutVertex(log[i]) \/ db.row[log[i].tx].st # "absent"
  PROVE  TokensLive' /\ RowsKnown'
<1>1. /\ log[i].tx \in Txs /\ db \in Database /\ db.synced \in Nat /\ i \in Nat
  BY Types
<1>2. /\ db'.synced = i /\ db'.row[log[i].tx] = row /\ db'.token[log[i].tx] = token
      /\ \A t \in Txs : t # log[i].tx => db'.row[t] = db.row[t] /\ db'.token[t] = db.token[t]
  BY <1>1, SyncedView
<1>3. TokensLive'
  BY <1>2 DEF TokensLive
<1>4. ASSUME NEW t \in Txs, db'.row[t].st # "absent"
      PROVE  \E k \in 1..i : aboutVertex(log[k]) /\ log[k].tx = t
  <2>1. CASE db.row[t].st # "absent"
    <3>1. 1..db.synced \subseteq 1..i
      BY <1>1
    <3> QED
      BY <2>1, <3>1 DEF RowsKnown
  <2>2. CASE db.row[t].st = "absent"
    <3>1. t = log[i].tx /\ aboutVertex(log[i]) /\ i \in 1..i
      BY <1>1, <1>2, <1>4, <2>2
    <3> QED
      BY <3>1
  <2> QED
    BY <2>1, <2>2
<1>5. RowsKnown'
  BY <1>2, <1>4 DEF RowsKnown, aboutVertex
<1> QED
  BY <1>3, <1>5

Applying == {"handlingVertexAccepted", "handlingVoidedTx", "handlingFirstBlock",
             "handlingVertexRemoved", "handlingTokenCreated"}

(* The row and the token these services leave show what the event means.   *)
LEMMA Applied ==
  ASSUME Shape, Mirror, RegularLogs, NEW i \in 1..Len(log), db.synced < i,
         View = Replay(log)[i - 1], NEW s \in Applying,
         DueIn(s, log[i], db.row[log[i].tx].st)
  PROVE  \E row, token :
           /\ Commit(s, db, i) = Synced(db, i, row, token)
           /\ Shown(row, token) = Becomes(log[i], View[log[i].tx])
           /\ row.st # "live" => token = NoBlock
           /\ row.st # "absent" => aboutVertex(log[i]) \/ db.row[log[i].tx].st # "absent"
<1> DEFINE e == log[i]
           was == db.row[e.tx]
           tok == db.token[e.tx]
           now == View[e.tx]
<1>1. /\ e \in Events /\ e.tx \in Txs /\ e.voided \in BOOLEAN /\ e.firstBlock \in BlockOrNone
      /\ was \in Row /\ tok \in BlockOrNone
      /\ was.st # "live" => tok = NoBlock
  BY Types DEF Events, Database, Mirror, TokensLive
<1>2. now = Shown(was, tok)
  BY <1>1, ViewAt
<1>3. \A row : row.st # "live" => Shown(row, NoBlock) = NoVertex
  <2>1. NoVertex \in Vertex /\ NoVertex.token = NoBlock
    BY DEF NoVertex, Vertex, BlockOrNone
  <2>2. \A v \in Vertex : [v EXCEPT !.token = v.token] = v
    BY DEF Vertex
  <2> QED
    BY <2>1, <2>2 DEF Shown
<1> HIDE DEF e
<1>4. CASE s = "handlingVertexAccepted"
  <2> DEFINE row == NewRow("live", i)
  <2>1. was.st = "absent" /\ aboutVertex(e) /\ ~e.voided
    BY <1>4 DEF DueIn, e
  <2>2. tok = NoBlock /\ now = NoVertex
    <3>1. was.st # "live" /\ tok = NoBlock
      BY <1>1, <2>1
    <3>2. Shown(was, NoBlock) = NoVertex
      BY <1>3, <3>1
    <3> QED
      BY <1>2, <3>1, <3>2
  <2>3. Commit(s, db, i) = Synced(db, i, row, NoBlock)
    BY <1>4, <2>1, <2>2 DEF Commit, handleVertexAccepted, row_, token_, e
  <2>4. row.st = "live" /\ row.firstBlock = e.firstBlock
    BY DEF NewRow, e
  <2>5. Shown(row, NoBlock) = [live |-> TRUE, firstBlock |-> e.firstBlock, token |-> NoBlock]
    BY <2>4 DEF Shown
  <2>6. now.token = NoBlock
    BY <2>2 DEF NoVertex
  <2> HIDE DEF now, row
  <2>7. Becomes(e, now) = [live |-> TRUE, firstBlock |-> e.firstBlock, token |-> NoBlock]
    BY <2>1, <2>6 DEF Becomes
  <2> QED
    BY <2>1, <2>3, <2>4, <2>5, <2>7 DEF e, now
<1>5. CASE s = "handlingVoidedTx"
  <2> DEFINE row == [was EXCEPT !.st = "voided"]
  <2>1. was.st = "live" /\ aboutVertex(e) /\ e.voided
    BY <1>5 DEF DueIn, e
  <2>2. Commit(s, db, i) = Synced(db, i, row, NoBlock)
    BY <1>5 DEF Commit, handleVoidedTx, row_, token_, e
  <2>3. row.st = "voided"
    BY <1>1 DEF Row
  <2>4. Shown(row, NoBlock) = NoVertex
    BY <1>3, <2>3
  <2> HIDE DEF now, row
  <2>5. Becomes(e, now) = NoVertex
    BY <2>1 DEF Becomes
  <2> QED
    BY <2>1, <2>2, <2>3, <2>4, <2>5 DEF e, now
<1>6. CASE s = "handlingFirstBlock"
  <2> DEFINE row == NewRow("live", i)
  <2>1. was.st = "live" /\ aboutVertex(e) /\ ~e.voided /\ e.type = "VERTEX_METADATA_CHANGED"
    BY <1>6 DEF DueIn, aboutVertex, e
  <2>2. Commit(s, db, i) = Synced(db, i, row, tok)
    BY <1>6, <2>1 DEF Commit, handleTxFirstBlock, row_, token_, e
  <2>3. row.st = "live" /\ row.firstBlock = e.firstBlock
    BY DEF NewRow, e
  <2>4. Shown(row, tok) = [live |-> TRUE, firstBlock |-> e.firstBlock, token |-> tok]
    BY <2>3 DEF Shown
  <2>5. now.token = tok
    BY <1>2, <2>1 DEF Shown
  <2>6. ~e.nc => tok = NoBlock
    BY <2>1, <2>5, Types DEF RegularLogs, Regular, e
  <2> HIDE DEF now, row
  <2>7. Becomes(e, now) = [live |-> TRUE, firstBlock |-> e.firstBlock, token |-> tok]
    BY <2>1, <2>5, <2>6 DEF Becomes
  <2> QED
    BY <2>1, <2>2, <2>3, <2>4, <2>7 DEF e, now
<1>7. CASE s = "handlingVertexRemoved"
  <2>1. e.type = "VERTEX_REMOVED"
    BY <1>7 DEF DueIn, e
  <2>2. Commit(s, db, i) = Synced(db, i, NoRow, NoBlock)
    BY <1>7 DEF Commit, handleVertexRemoved
  <2>3. NoRow.st = "absent"
    BY DEF NoRow
  <2>4. Shown(NoRow, NoBlock) = NoVertex
    BY <1>3, <2>3
  <2> HIDE DEF now
  <2>5. Becomes(e, now) = NoVertex
    BY <2>1 DEF Becomes, aboutVertex
  <2> QED
    BY <2>1, <2>2, <2>3, <2>4, <2>5 DEF e, now
<1>8. CASE s = "handlingTokenCreated"
  <2>1. e.type = "TOKEN_CREATED"
    BY <1>8 DEF DueIn, e
  <2>2. Commit(s, db, i) = Synced(db, i, was, e.firstBlock)
    BY <1>8 DEF Commit, handleTokenCreated, row_, e
  <2>3. now.live
    BY <2>1, Types DEF RegularLogs, Regular, e
  <2>4. was.st = "live"
    BY <1>2, <2>3 DEF Shown, NoVertex
  <2>5. now \in Vertex /\ now.live /\ now.firstBlock = was.firstBlock
    BY <1>1, <1>2, <2>3, <2>4, ViewType, Types DEF Shown
  <2>6. Shown(was, e.firstBlock) = [live |-> TRUE, firstBlock |-> was.firstBlock, token |-> e.firstBlock]
    BY <2>4 DEF Shown
  <2>7. [now EXCEPT !.token = e.firstBlock] = Shown(was, e.firstBlock)
    <3> HIDE DEF now
    <3> QED
      BY <2>5, <2>6, TokenSet
  <2> HIDE DEF now
  <2>8. Becomes(e, now) = [now EXCEPT !.token = e.firstBlock]
    BY <2>1 DEF Becomes, aboutVertex
  <2>9. Shown(was, e.firstBlock) = Becomes(e, now)
    BY <2>7, <2>8
  <2>10. was.st # "absent" /\ ~(was.st # "live")
    BY <2>4
  <2> QED
    BY <2>2, <2>9, <2>10 DEF e, now
<1> QED
  BY <1>4, <1>5, <1>6, <1>7, <1>8 DEF Applying

(* One of these services ends.                                             *)
LEMMA AppliedMirror ==
  ASSUME Shape, Position, Mirror, RegularLogs, state \in Applying, Ends,
         acked' \in {acked, Larger(acked, event)}
  PROVE  /\ Level' /\ Upto' >= event /\ View' = Replay(log)[event] /\ log' = log
         /\ View' = [View EXCEPT ![log[event].tx] = Becomes(log[event], View[log[event].tx])]
         /\ TokensLive' /\ RowsKnown'
<1>1. state \in Handling /\ state # "handlingUnhandledEvent"
  BY DEF Applying, Handling
<1>2. /\ event \in 1..Len(log) /\ event <= Upto + 1 /\ db.synced <= event
      /\ log[event].tx \in Txs
  BY <1>1, AtWork
<1>3. /\ db.synced < event /\ View = Replay(log)[event - 1]
      /\ DueIn(state, log[event], db.row[log[event].tx].st)
  BY <1>1 DEF Mirror, Due
<1>4. PICK row, token :
         /\ Commit(state, db, event) = Synced(db, event, row, token)
         /\ Shown(row, token) = Becomes(log[event], View[log[event].tx])
         /\ row.st # "live" => token = NoBlock
         /\ row.st # "absent" => aboutVertex(log[event]) \/ db.row[log[event].tx].st # "absent"
  BY <1>2, <1>3, Applied
<1>5. db' = Synced(db, event, row, token) /\ log' = log
  BY <1>4 DEF Ends, stream
<1>6. /\ View' = [View EXCEPT ![log[event].tx] = Becomes(log[event], View[log[event].tx])]
      /\ db'.synced = event
  BY <1>2, <1>4, <1>5, SyncedView, Types
<1>7. View' = Replay(log)[event]
  BY <1>2, <1>3, <1>6, NextEvent
<1>8. Level' /\ Upto' >= event
  BY <1>2, <1>5, <1>6, <1>7, LevelAfterCommit DEF Mirror
<1>9. TokensLive' /\ RowsKnown'
  BY <1>2, <1>4, <1>5, Written DEF Mirror
<1> QED
  BY <1>5, <1>6, <1>7, <1>8, <1>9

(* Another vertex looks as it did.                                         *)
LEMMA SyncedNat ==
  ASSUME Shape, state \in Handling, Ends, acked' \in {acked, Larger(acked, event)}, db.synced <= event
  PROVE  Upto' \in Nat /\ Upto' \in {Upto, event}
<1>1. event \in 1..Len(log) /\ log \in Seq(Events) /\ db \in Database
  BY Types DEF Shape
<1>2. db'.synced \in {event, db.synced}
  BY <1>1, CommitType DEF Ends
<1> QED
  BY <1>1, <1>2, Types DEF Larger

LEMMA OthersStay ==
  ASSUME Shape, event \in 1..Len(log), NEW x, View' = [View EXCEPT ![log[event].tx] = x],
         NEW t \in Txs, t # log[event].tx
  PROVE  View'[t] = View[t]
  BY ViewAt

(* The machine goes on in state s, with the event's own entry in the cache *)
(* right.                                                                  *)
LEMMA CacheAfter ==
  ASSUME Shape, CacheTrue, event \in 1..Len(log), log' = log, event' = event,
         \A t \in Txs : t # log[event].tx => View'[t] = View[t] /\ txCache'[t] \in {txCache[t], NoHash},
         LET e == log[event]
             hash == txCache'[e.tx]
         IN  \/ hash = NoHash \/ Removed(e.tx) \/ state' = "handlingVertexAccepted"
             \/ hash.voided /\ ~View'[e.tx].live
             \/ ~hash.voided /\ View'[e.tx].live /\ View'[e.tx].firstBlock = hash.firstBlock
  PROVE  CacheTrue'
<1> SUFFICES ASSUME NEW t \in Txs, txCache'[t] # NoHash, ~Removed(t)'
             PROVE  \/ state' = "handlingVertexAccepted" /\ t = log[event].tx
                    \/ txCache'[t].voided /\ ~View'[t].live
                    \/ ~txCache'[t].voided /\ View'[t].live /\ View'[t].firstBlock = txCache'[t].firstBlock
  BY DEF CacheTrue
<1>1. ~Removed(t)
  BY DEF Removed
<1>2. CASE t = log[event].tx
  BY <1>1, <1>2
<1>3. CASE t # log[event].tx
  <2>1. View'[t] = View[t] /\ txCache'[t] = txCache[t] /\ txCache[t] # NoHash
    BY <1>3
  <2> QED
    BY <1>1, <1>3, <2>1 DEF CacheTrue
<1> QED
  BY <1>2, <1>3

LEMMA UpdatedCache ==
  ASSUME Shape, event \in 1..Len(log), updateCache
  PROVE  /\ txCache'[log[event].tx] = hashTxData(log[event])
         /\ \A t \in Txs : t # log[event].tx => txCache'[t] \in {txCache[t], NoHash}
<1>1. txCache \in [Txs -> Hash \cup {NoHash}] /\ log[event].tx \in Txs
  BY Types DEF Shape, TypeOK
<1> QED
  BY <1>1 DEF updateCache

LEMMA ApplyChangeMirror ==
  ASSUME Shape, Position, Mirror, RegularLogs, ApplyChange
  PROVE  Mirror'
<1> DEFINE e == log[event]
<1>1. /\ Ends /\ updateCache /\ Dispatch(pending) /\ acked' = acked
      /\ event' = event /\ initialEventId' = initialEventId /\ detached' = detached
      /\ state \in {"handlingVertexAccepted", "handlingVoidedTx", "handlingFirstBlock", "handlingNcExecVoided"}
  BY DEF ApplyChange, Ends
<1>2. /\ DueIn(state, e, db.row[e.tx].st) /\ state # "handlingNcExecVoided"
  BY <1>1 DEF Mirror, Due, DueIn, Handling
<1>3. state \in Applying /\ aboutVertex(e) /\ state \in Handling
  BY <1>1, <1>2 DEF DueIn, Applying, aboutVertex, Handling
<1>4. /\ event \in 1..Len(log) /\ e \in Events /\ e.tx \in Txs /\ resumeFrom = event
      /\ event <= Upto + 1
  BY <1>3, AtWork
<1>5. /\ Level' /\ View' = Replay(log)[event] /\ log' = log
      /\ View' = [View EXCEPT ![e.tx] = Becomes(e, View[e.tx])]
      /\ TokensLive' /\ RowsKnown'
  BY <1>1, <1>3, AppliedMirror
<1>6. /\ state' = "handlingUnhandledEvent" /\ pending' = pending
      /\ pending \in {<<>>, <<"IGNORE">>}
  BY <1>1, DispatchDone DEF Mirror, Remembered
<1>7. Due'
  BY <1>1, <1>5, <1>6 DEF Due
<1>8. Within'
  <2>1. event <= Upto' + 1
    <3>1. Upto' >= event
      BY <1>1, <1>3, AppliedMirror
    <3>2. Upto' \in Nat
      BY <1>1, <1>3, <1>4, AtWork, Types, SyncedNat
    <3> QED
      BY <1>4, <3>1, <3>2, Types
  <2> QED
    BY <1>1, <1>4, <1>6, <2>1 DEF Within, Handling, resumeFrom
<1>9. CacheTrue'
  <2>1. /\ txCache'[e.tx] = hashTxData(e)
        /\ \A t \in Txs : t # e.tx => txCache'[t] \in {txCache[t], NoHash}
    BY <1>1, <1>4, UpdatedCache
  <2>2. \A t \in Txs : t # e.tx => View'[t] = View[t]
    BY <1>4, <1>5, OthersStay
  <2>3. View'[e.tx] = Becomes(e, View[e.tx])
    BY <1>4, <1>5, ViewAt
  <2> HIDE DEF e
  <2>4. /\ e.voided => ~View'[e.tx].live
        /\ ~e.voided => View'[e.tx].live /\ View'[e.tx].firstBlock = e.firstBlock
    BY <1>3, <2>3 DEF Becomes, NoVertex
  <2>5. \/ hashTxData(e).voided /\ ~View'[e.tx].live
        \/ ~hashTxData(e).voided /\ View'[e.tx].live /\ View'[e.tx].firstBlock = hashTxData(e).firstBlock
    BY <1>4, <2>4, HashOf
  <2> QED
    BY <1>1, <1>4, <1>5, <2>1, <2>2, <2>5, CacheAfter DEF Mirror, e
<1>10. Remembered'
  BY <1>1, <1>4, <1>6, Types DEF Mirror, Remembered
<1> QED
  BY <1>5, <1>7, <1>8, <1>9, <1>10 DEF Mirror

LEMMA UnvoidMirror ==
  ASSUME Shape, Position, Mirror, Unvoid
  PROVE  Mirror'
<1> DEFINE e == log[event]
<1>1. /\ Ends /\ updateCache /\ state = "handlingUnvoidedTx" /\ state' = "handlingVertexAccepted"
      /\ UNCHANGED <<log, acked, event, initialEventId, detached, pending>>
      /\ db' = handleUnvoidedTx(db, event)
  BY DEF Unvoid, Ends, Commit, stream
<1>2. /\ event \in 1..Len(log) /\ e.tx \in Txs /\ event <= Upto + 1 /\ resumeFrom = event
  BY <1>1, AtWork DEF Handling
<1>3. /\ db.synced < event /\ View = Replay(log)[event - 1]
      /\ aboutVertex(e) /\ ~e.voided /\ db.row[e.tx].st = "voided"
  BY <1>1 DEF Mirror, Due, DueIn, Handling
<1>4. /\ db' = [db EXCEPT !.row[e.tx] = NoRow]
      /\ db \in Database
  BY <1>1, <1>3, Types DEF handleUnvoidedTx, row_
<1>5. /\ db'.synced = db.synced /\ db'.token = db.token /\ db'.row[e.tx] = NoRow
      /\ \A t \in Txs : t # e.tx => db'.row[t] = db.row[t]
  BY <1>2, <1>4 DEF Database
<1> HIDE DEF e
<1>6. NoRow.st = "absent"
  BY DEF NoRow
<1>7. View' = View
  <2>1. Shown(NoRow, db.token[e.tx]) = Shown(db.row[e.tx], db.token[e.tx])
    BY <1>3, <1>6 DEF Shown
  <2>2. \A t \in Txs : Shown(db'.row[t], db'.token[t]) = Shown(db.row[t], db.token[t])
    BY <1>5, <2>1
  <2> QED
    BY <2>2, ViewAt
<1>8. Level' /\ Upto' = Upto
  BY <1>1, <1>5, <1>7 DEF Mirror, Level
<1>9. TokensLive' /\ RowsKnown'
  <2>1. TokensLive'
    BY <1>3, <1>5, <1>6 DEF Mirror, TokensLive
  <2>2. \A t \in Txs : db'.row[t].st # "absent" => db.row[t].st # "absent"
    BY <1>5, <1>6
  <2> QED
    BY <1>1, <1>5, <2>1, <2>2 DEF Mirror, RowsKnown, aboutVertex
<1>10. Due' /\ Within'
  <2>1. DueIn(state', e, "absent")
    BY <1>1, <1>3 DEF DueIn
  <2>2. db'.row[e.tx].st = "absent"
    BY <1>5, <1>6
  <2>3. Due'
    BY <1>1, <1>3, <1>5, <1>7, <2>1, <2>2 DEF Due, e
  <2> QED
    BY <1>1, <1>2, <1>8, <2>3 DEF Within, resumeFrom, Handling
<1>11. CacheTrue'
  <2>1. \A t \in Txs : t # e.tx => txCache'[t] \in {txCache[t], NoHash} /\ View'[t] = View[t]
    BY <1>1, <1>2, <1>7, UpdatedCache DEF e
  <2> QED
    BY <1>1, <1>2, <2>1, CacheAfter DEF Mirror, e
<1>12. Remembered'
  BY <1>1, <1>2, Types DEF Mirror, Remembered
<1> QED
  BY <1>8, <1>9, <1>10, <1>11, <1>12 DEF Mirror

LEMMA FinishMirror ==
  ASSUME Shape, Position, Mirror, RegularLogs, Finish
  PROVE  Mirror'
<1> DEFINE e == log[event]
<1>1. /\ Ends /\ state' = "idle" /\ acked' = Larger(acked, event) /\ db' = Commit(state, db, event)
      /\ UNCHANGED <<log, event, initialEventId, detached, pending, txCache>>
      /\ state \in {"handlingUnhandledEvent", "handlingVertexRemoved",
                    "handlingReorgStarted", "handlingTokenCreated"}
  BY DEF Finish, Ends, stream
<1>2. state \in Handling
  BY <1>1 DEF Handling
<1>3. /\ event \in 1..Len(log) /\ e \in Events /\ e.tx \in Txs /\ resumeFrom = event
      /\ event <= Upto + 1 /\ db.synced <= event
  BY <1>2, AtWork
<1>4. /\ Level' /\ TokensLive' /\ RowsKnown' /\ Upto' >= event
      /\ \A t \in Txs \ {e.tx} : View'[t] = View[t]
      /\ \/ e.type = "VERTEX_REMOVED"
         \/ View'[e.tx].live = View[e.tx].live /\ View'[e.tx].firstBlock = View[e.tx].firstBlock
  <2>1. CASE state = "handlingUnhandledEvent"
    <3> DEFINE row == db.row[e.tx]
               token == db.token[e.tx]
    <3>1. View = Replay(log)[event]
      BY <2>1 DEF Mirror, Due, DueIn, Handling
    <3>2. db' = Synced(db, event, row, token)
      BY <1>1, <2>1 DEF Commit, updateLastSyncedEvent, row_, token_
    <3>3. /\ View' = [View EXCEPT ![e.tx] = Shown(row, token)] /\ db'.synced = event
      BY <1>3, <3>2, SyncedView, Types
    <3>4. View[e.tx] = Shown(row, token)
      BY <1>3, ViewAt
    <3>5. View' = View
      BY <1>3, <3>3, <3>4, ViewAt
    <3>6. row.st # "live" => token = NoBlock
      BY <1>3 DEF Mirror, TokensLive
    <3> HIDE DEF row, token
    <3>7. TokensLive' /\ RowsKnown'
      <4>1. row.st # "absent" => db.row[log[event].tx].st # "absent"
        BY DEF row
      <4> QED
        BY <1>1, <1>3, <3>2, <3>6, <4>1, Written DEF Mirror
    <3>8. Level' /\ Upto' >= event
      BY <1>1, <1>3, <3>1, <3>3, <3>5, LevelAfterCommit DEF Mirror
    <3> QED
      BY <3>5, <3>7, <3>8
  <2>2. CASE state = "handlingReorgStarted"
    <3>1. db' = db
      BY <1>1, <2>2 DEF Commit
    <3>2. e.type = "REORG_STARTED" /\ View = Replay(log)[event - 1]
      BY <1>2, <2>2 DEF Mirror, Due, DueIn
    <3>3. Replay(log)[event] = [View EXCEPT ![e.tx] = Becomes(e, View[e.tx])]
      BY <1>3, <3>2, NextEvent
    <3>4. Becomes(e, View[e.tx]) = View[e.tx]
      BY <3>2 DEF Becomes, aboutVertex
    <3>5. View = Replay(log)[event]
      BY <1>3, <3>3, <3>4, ViewAt
    <3>6. Level' /\ Upto' >= event
      BY <1>1, <1>3, <3>1, <3>5, LevelAfterAck DEF Mirror
    <3>7. View' = View /\ TokensLive' /\ RowsKnown'
      BY <1>1, <3>1 DEF View, Mirror, TokensLive, RowsKnown
    <3> QED
      BY <3>6, <3>7
  <2>3. CASE state \in {"handlingVertexRemoved", "handlingTokenCreated"}
    <3>1. state \in Applying
      BY <2>3 DEF Applying
    <3>2. /\ Level' /\ Upto' >= event /\ TokensLive' /\ RowsKnown'
          /\ View' = [View EXCEPT ![e.tx] = Becomes(e, View[e.tx])]
      BY <1>1, <3>1, AppliedMirror
    <3>3. \A t \in Txs \ {e.tx} : View'[t] = View[t]
      BY <1>3, <3>2, OthersStay
    <3>4. View'[e.tx] = Becomes(e, View[e.tx])
      BY <1>3, <3>2, ViewAt
    <3>5. \/ e.type = "VERTEX_REMOVED"
          \/ View'[e.tx].live = View[e.tx].live /\ View'[e.tx].firstBlock = View[e.tx].firstBlock
      <4>1. e.type = "VERTEX_REMOVED" \/ e.type = "TOKEN_CREATED"
        BY <1>2, <2>3 DEF Mirror, Due, DueIn
      <4>2. CASE e.type = "TOKEN_CREATED"
        <5>1. View'[e.tx] = [View[e.tx] EXCEPT !.token = e.firstBlock]
          BY <3>4, <4>2 DEF Becomes, aboutVertex
        <5>2. View[e.tx] \in Vertex
          BY <1>3, ViewType, Types
        <5>3. \A v \in Vertex : \A b : LET w == [v EXCEPT !.token = b] IN w.live = v.live /\ w.firstBlock = v.firstBlock
          BY DEF Vertex
        <5> QED
          BY <5>1, <5>2, <5>3
      <4> QED
        BY <4>1, <4>2
    <3> QED
      BY <3>2, <3>3, <3>5
  <2> QED
    BY <1>1, <2>1, <2>2, <2>3
<1>5. Within' /\ Due'
  BY <1>1, <1>3, <1>4, StateSets DEF Within, Due, resumeFrom
<1>6. CacheTrue'
  <2>1. e.type = "VERTEX_REMOVED" => Removed(e.tx)
    <3>1. event \in 1..event
      BY <1>3
    <3> QED
      BY <3>1 DEF Removed
  <2>2. state # "handlingVertexAccepted"
    BY <1>1
  <2>3. \/ txCache[e.tx] = NoHash \/ Removed(e.tx)
        \/ txCache[e.tx].voided /\ ~View[e.tx].live
        \/ ~txCache[e.tx].voided /\ View[e.tx].live /\ View[e.tx].firstBlock = txCache[e.tx].firstBlock
    BY <1>3, <2>2 DEF Mirror, CacheTrue
  <2>4. \/ txCache[e.tx] = NoHash \/ Removed(e.tx)
        \/ txCache[e.tx].voided /\ ~View'[e.tx].live
        \/ ~txCache[e.tx].voided /\ View'[e.tx].live /\ View'[e.tx].firstBlock = txCache[e.tx].firstBlock
    BY <1>4, <2>1, <2>3
  <2>5. txCache' = txCache
    BY <1>1
  <2> HIDE DEF e
  <2>6. \/ txCache'[e.tx] = NoHash \/ Removed(e.tx)
        \/ txCache'[e.tx].voided /\ ~View'[e.tx].live
        \/ ~txCache'[e.tx].voided /\ View'[e.tx].live /\ View'[e.tx].firstBlock = txCache'[e.tx].firstBlock
    BY <2>4, <2>5
  <2>7. \A t \in Txs : t # e.tx => View'[t] = View[t] /\ txCache'[t] \in {txCache[t], NoHash}
    BY <1>4, <2>5
  <2> QED
    BY <1>1, <1>3, <2>6, <2>7, CacheAfter DEF Mirror, e
<1>7. Remembered'
  BY <1>1 DEF Mirror, Remembered
<1> QED
  BY <1>4, <1>5, <1>6, <1>7 DEF Mirror

LEMMA NextMirror ==
  ASSUME Steady, RegularLogs
  PROVE  Shape /\ Position /\ Mirror /\ [Next]_vars => Mirror'
<1> SUFFICES ASSUME Shape, Position, Mirror, [Next]_vars PROVE Mirror'
  OBVIOUS
<1>1. CASE \E c \in Conns : FullnodeSends(c) \/ LoseEvent(c) \/ ConnOpens(c) \/ ConnCloses(c)
  BY <1>1, ConnectionMirror
<1>2. CASE StoreInitialState \/ Reconnect \/ MissedEvents \/ AckTimeout \/ NoMissedEvents
           \/ Restart \/ FullnodeProduces \/ UNCHANGED vars
  BY <1>2, ConnectionMirror
<1>3. CASE NothingToCheck \/ Crash \/ Fails
  BY <1>3, ConnectionMirror
<1>4. CASE \E c \in Conns : Ignore(c) \/ Handle(c) \/ Discard(c)
  BY <1>4, IgnoreMirror, HandleMirror, DiscardMirror
<1>5. CASE DetectDiff \/ ApplyChange \/ Unvoid \/ Finish
  BY <1>5, DetectDiffMirror, ApplyChangeMirror, UnvoidMirror, FinishMirror
<1>6. CASE \E run \in detached : DetachedEnds(run)
  BY <1>6 DEF Mirror, Remembered
<1> QED
  BY <1>1, <1>2, <1>3, <1>4, <1>5, <1>6 DEF Next

(* One event at a time.                                                    *)
LEMMA UptoSteps ==
  ASSUME Shape, Position, Mirror, [Next]_vars
  PROVE  log' = log /\ Upto' \in {Upto, Upto + 1}
<1>1. /\ log \in Seq(Events) /\ db \in Database /\ event \in 0..Len(log) /\ Len(log) \in Nat
      /\ db.synced \in Nat /\ acked \in Nat /\ Upto \in Nat
  BY Types
<1>2. ASSUME UNCHANGED <<log, db, acked>>
      PROVE  log' = log /\ Upto' \in {Upto, Upto + 1}
  BY <1>2
<1>3. CASE DetectDiff \/ ApplyChange \/ Unvoid \/ Finish
  <2>1. state \in Handling /\ Ends /\ acked' \in {acked, Larger(acked, event)} /\ log' = log
    BY <1>3 DEF DetectDiff, ApplyChange, Unvoid, Finish, Handling, Ends, stream
  <2>2. event <= Upto + 1 /\ db.synced <= event /\ event \in Nat
    BY <2>1, AtWork, <1>1
  <2>3. Upto' \in {Upto, event} /\ Upto' >= Upto
    <3>1. event \in 1..Len(log)
      BY <2>1, AtWork
    <3>2. db'.synced \in {event, db.synced}
      BY <1>1, <2>1, <3>1, CommitType DEF Ends
    <3> QED
      BY <1>1, <2>1, <2>2, <3>2 DEF Larger
  <2> QED
    BY <1>1, <2>1, <2>2, <2>3
<1>4. CASE \E c \in Conns : Ignore(c)
  <2>1. PICK c \in Conns : Ignore(c)
    BY <1>4
  <2>2. PICK i : i = conn[c].wire
    OBVIOUS
  <2>3. i # 0 /\ acked' = Larger(acked, i) /\ log' = log /\ db' = db
    BY <2>1, <2>2 DEF Ignore, stream
  <2>4. i = resumeFrom + 1 /\ state \in Connected \ Handling
    BY <2>1, <2>2, <2>3, WireIsNext DEF At
  <2>5. resumeFrom <= Upto /\ resumeFrom \in Nat
    BY <2>4, Resuming, Types
  <2> QED
    BY <1>1, <2>3, <2>4, <2>5 DEF Larger
<1>5. CASE \E run \in detached : DetachedEnds(run)
  BY <1>5 DEF Mirror, Remembered
<1>6. CASE ~(DetectDiff \/ ApplyChange \/ Unvoid \/ Finish) /\ ~(\E c \in Conns : Ignore(c))
           /\ ~(\E run \in detached : DetachedEnds(run))
  <2>1. UNCHANGED <<log, db, acked>>
    BY <1>6
       DEF Next, vars, stream, context, FullnodeProduces, StoreInitialState, Reconnect, Fails, Exit,
           AckTimeout, MissedEvents, NoMissedEvents, NothingToCheck, Crash, Restart,
           FullnodeSends, LoseEvent, ConnOpens, ConnCloses, Handle, Discard
  <2> QED
    BY <1>2, <2>1
<1> QED
  BY <1>3, <1>4, <1>5, <1>6

LEMMA SnapshotHere ==
  ASSUME Shape, Level
  PROVE  Snapshot /\ RestartLosesNothing
<1>1. Upto \in db.synced..Upto /\ db.synced \in db.synced..Upto
  BY Types
<1> QED
  BY <1>1 DEF Level, Snapshot, RestartLosesNothing

LEMMA SameReplay ==
  /\ Abstract!EmptyView = EmptyView
  /\ \A v, e : Abstract!Means(v, e) = Means(v, e)
<1>1. Abstract!NoVertex = NoVertex
  BY Zenon DEF Abstract!NoVertex, NoVertex
<1>2. ASSUME NEW v, NEW e PROVE Abstract!Means(v, e) = Means(v, e)
  BY <1>1, Zenon DEF Abstract!Means, Means
<1> QED
  BY <1>1, <1>2 DEF Abstract!EmptyView, EmptyView

LEMMA Bounded == Shape => Upto \in db.synced..Upto /\ Upto \in 0..Len(log)
  BY Types DEF Shape, TypeOK, Larger

LEMMA MirrorKept ==
  ASSUME Steady, RegularLogs
  PROVE  Spec => [](Shape /\ Position /\ Mirror)
<1>1. Quiet
  BY DEF Steady, Quiet
<1>2. Init => Shape /\ Position /\ Mirror
  BY InitShape, InitPosition, InitMirror
<1>3. Shape /\ Position /\ Mirror /\ [Next]_vars => (Shape /\ Position /\ Mirror)'
  BY <1>1, NextShape, NextPosition, NextMirror
<1> QED
  BY <1>2, <1>3, PTL DEF Spec

(* The database always shows the vertices as the events up to Upto leave   *)
(* them, over any stream that is Regular and any number of crashes, failed *)
(* services, lost events and connections that close while idle.            *)
THEOREM ShowsTheReplay ==
  ASSUME Steady, RegularLogs
  PROVE  Spec => []Snapshot
<1>1. Shape /\ Position /\ Mirror => Snapshot
  BY SnapshotHere DEF Mirror
<1> QED
  BY <1>1, MirrorKept, PTL

(* Nothing acknowledged is undone by a crash: from last_event_id to the    *)
(* last event acknowledged, no event changes what the database shows.      *)
THEOREM NothingLost ==
  ASSUME Steady, RegularLogs
  PROVE  Spec => []RestartLosesNothing
<1>1. Shape /\ Position /\ Mirror => RestartLosesNothing
  BY SnapshotHere DEF Mirror
<1> QED
  BY <1>1, MirrorKept, PTL

(* The machine implements the replay of the stream: each of its steps      *)
(* changes nothing of what the database shows, or replays the next event.  *)
(* (That every event is replayed in the end is liveness: TLC checks it.)   *)
THEOREM ReplaysTheStream ==
  ASSUME Steady, RegularLogs
  PROVE  Spec => Abstract!Spec
<1>1. Init => Abstract!Init
  <2> SUFFICES ASSUME Init PROVE Abstract!Init
    OBVIOUS
  <2>1. Shape /\ Mirror /\ Upto = 0
    BY InitShape, InitMirror DEF Init, Larger
  <2>2. View = Replay(log)[0]
    BY <2>1, SnapshotHere DEF Mirror, Snapshot
  <2> QED
    BY <2>1, <2>2, Types, ReplayIs, SameReplay DEF Init, Abstract!Init
<1>2. ASSUME Shape, Position, Mirror, (Shape /\ Position /\ Mirror)', [Next]_vars
      PROVE  [Abstract!ReplayNext]_<<log, Upto, View>>
  <2>1. log' = log /\ Upto' \in {Upto, Upto + 1} /\ Upto \in Nat
    BY <1>2, UptoSteps, Types
  <2>2. View = Replay(log)[Upto]
    BY <1>2, SnapshotHere DEF Mirror, Snapshot
  <2>3. View' = Replay(log)[Upto'] /\ Upto' \in 0..Len(log)
    <3>1. (Level)' /\ (Shape)'
      BY <1>2 DEF Mirror
    <3>2. Upto' \in db'.synced..Upto' /\ Upto' \in 0..Len(log')
      <4>1. (Upto \in db.synced..Upto /\ Upto \in 0..Len(log))'
        BY <3>1, Bounded, PTL
      <4> QED
        BY <4>1
    <3> QED
      BY <2>1, <3>1, <3>2 DEF Level
  <2>4. CASE Upto' = Upto
    BY <2>1, <2>2, <2>3, <2>4
  <2>5. CASE Upto' = Upto + 1
    <3>1. Upto + 1 \in 1..Len(log) /\ log \in Seq(Events)
      BY <1>2, <2>1, <2>3, <2>5, Types
    <3>2. View' = Means(View, log[Upto + 1])
      BY <2>2, <2>3, <2>5, <3>1, <2>1, ReplayIs
    <3> QED
      <4>1. View' = Abstract!Means(View, log[Upto + 1])
        BY <3>2, SameReplay
      <4>2. Upto < Len(log)
        BY <2>1, <3>1
      <4>3. Abstract!ReplayNext
        BY <2>1, <2>5, <4>1, <4>2 DEF Abstract!ReplayNext
      <4> QED
        BY <4>3
  <2> QED
    BY <2>1, <2>4, <2>5
<1>3. Shape /\ Position /\ Mirror /\ (Shape /\ Position /\ Mirror)' /\ [Next]_vars
        => [Abstract!ReplayNext]_<<log, Upto, View>>
  BY <1>2
<1> QED
  BY <1>1, <1>3, MirrorKept, PTL DEF Spec, Abstract!Spec
=============================================================================
