----------------------------- MODULE SyncMachine -----------------------------
(***************************************************************************)
(* The daemon's SyncMachine (packages/daemon/src/machines/SyncMachine.ts)  *)
(* with its guards, actions, WebSocketActor and the services it invokes,   *)
(* the fullnode's event stream it is connected to (window size 1), and the *)
(* part of MySQL that decides whether an event was processed.              *)
(*                                                                         *)
(* Values of state are the machine's states; CONNECTED.x is written x, and *)
(* handlingMetadataChanged.detectingDiff is written detectingDiff.  Every  *)
(* service that writes does so in one MySQL transaction, so a service run  *)
(* is one step: it commits and its onDone transition is taken, or it fails *)
(* and the process ends.  A connection lost meanwhile leaves the service   *)
(* running with nobody waiting for it: it moves to `detached`.             *)
(***************************************************************************)
EXTENDS FullnodeEvents

CONSTANTS
  Logs,       \* the event streams the fullnode may produce
  Conns,      \* names for WebSocket connections, reused once closed
  NoConn,     \* no connection
  NoHash,     \* no entry in the cache
  Faults,     \* which faults may happen, a subset of FaultKinds
  MaxFaults   \* bound on their number

FaultKinds == {"crash",     \* the process ends: kill, alert timeout, wrong stream
               "fail",      \* a service rejects: MySQL or HTTP error
               "loss",      \* an event on the wire is lost
               "drop",      \* the connection closes while no service runs
               "dropBusy",  \* the connection closes while a service runs
               "stale"}     \* a connection the machine let go of still speaks

ASSUME SyncAssumption ==
  /\ NoConn \notin Conns
  /\ NoHash \notin [voided: BOOLEAN, firstBlock: BlockOrNone]
  /\ Faults \subseteq FaultKinds
  /\ MaxFaults \in Nat
  /\ Logs \subseteq Seq(Events)

VARIABLES
  log,             \* the fullnode's stream; events are numbered from 1
  produced,        \* how many of them it has produced so far
  conn,            \* both ends of each WebSocket
  db,              \* sync_metadata.last_event_id, transaction, token_creation
  state,           \* state of the machine
  event,           \* context.event: the id of the last event stored, 0 if null
  initialEventId,  \* context.initialEventId, 0 if undefined
  pending,         \* context.pendingMetadataChanges
  txCache,         \* context.txCache
  socket,          \* context.socket
  detached,        \* service runs whose state was left before they ended
  acked,           \* history: the highest id the machine sent an ACK for
  faults           \* how many faults happened

stream == <<log, produced>>
context == <<event, initialEventId, pending, txCache, socket>>
vars == <<stream, conn, db, state, context, detached, acked, faults>>

Larger(a, b) == IF a < b THEN b ELSE a

-----------------------------------------------------------------------------
(* Data                                                                    *)

Changes == {"IGNORE", "TX_VOIDED", "TX_UNVOIDED", "TX_NEW",
            "TX_FIRST_BLOCK", "NC_EXEC_VOIDED"}

(* States whose service works on context.event.                            *)
Handling == {"handlingUnhandledEvent", "detectingDiff", "handlingVertexAccepted",
             "handlingVertexRemoved", "handlingVoidedTx", "handlingUnvoidedTx",
             "handlingFirstBlock", "handlingNcExecVoided",
             "handlingReorgStarted", "handlingTokenCreated"}

Connected == Handling \cup {"idle", "checkingForMissedEvents"}
States == Connected \cup {"INITIALIZING", "CONNECTING", "RECONNECTING", "ERROR"}

Row == [st: {"absent", "live", "voided"}, firstBlock: BlockOrNone]
NoRow == [st |-> "absent", firstBlock |-> NoBlock]
Hash == [voided: BOOLEAN, firstBlock: BlockOrNone]

(* next: the id the fullnode sends next, 0 before START_STREAM;            *)
(* unacked: it waits for an ACK; wire: the event on its way, 0 if none.    *)
Socket == [st: {"closed", "opening", "open"}, next: Nat, unacked: BOOLEAN, wire: Nat]
Closed == [st |-> "closed", next |-> 0, unacked |-> FALSE, wire |-> 0]

Database == [synced: 0..Len(log), row: [Txs -> Row], token: [Txs -> BlockOrNone]]
Runs == [in: Handling, event: 1..Len(log)]

TypeOK ==
  /\ log \in Logs
  /\ produced \in 0..Len(log)
  /\ conn \in [Conns -> Socket]
  /\ db \in Database
  /\ state \in States
  /\ event \in 0..Len(log)
  /\ initialEventId \in 0..Len(log)
  /\ pending \in Seq(Changes)
  /\ txCache \in [Txs -> Hash \cup {NoHash}]
  /\ socket \in Conns \cup {NoConn}
  /\ detached \subseteq Runs
  /\ acked \in 0..Len(log)
  /\ faults \in 0..MaxFaults

NoCache == [t \in Txs |-> NoHash]

(* Mutation of hashTxData: the first block is left out.                    *)
HashWithoutFirstBlock(e) == [voided |-> e.voided, firstBlock |-> NoBlock]

(* hashTxData: nc_execution is not part of it.                             *)
hashTxData(e) == [voided |-> e.voided, firstBlock |-> e.firstBlock]

-----------------------------------------------------------------------------
(* Guards of the idle state                                                *)

aboutVertex(e) == e.type \in {"NEW_VERTEX_ACCEPTED", "VERTEX_METADATA_CHANGED"}

(* Mutation of unchanged: any cached hash counts as the same hash.         *)
UnchangedIfCached(e) == aboutVertex(e) /\ txCache[e.tx] # NoHash

unchanged(e) == aboutVertex(e) /\ txCache[e.tx] = hashTxData(e)
voided(e) == aboutVertex(e) /\ e.voided

(* The state in which an event the guards let through is handled.          *)
HandledIn(e) ==
  CASE e.type = "VERTEX_METADATA_CHANGED" -> "detectingDiff"
    [] e.type = "VERTEX_REMOVED"          -> "handlingVertexRemoved"
    [] e.type = "NEW_VERTEX_ACCEPTED"     -> "handlingVertexAccepted"
    [] e.type = "REORG_STARTED"           -> "handlingReorgStarted"
    [] e.type = "TOKEN_CREATED"           -> "handlingTokenCreated"
    [] OTHER                              -> "handlingUnhandledEvent"

-----------------------------------------------------------------------------
(* Services: what a run in state s for event i does to the database d      *)

metadataDiff(d, i) ==
  LET e == log[i]
      row == d.row[e.tx]
      nano  == IF ~e.nc /\ d.token[e.tx] # NoBlock THEN <<"NC_EXEC_VOIDED">> ELSE <<>>
      first == IF e.firstBlock # row.firstBlock THEN <<"TX_FIRST_BLOCK">> ELSE <<>>
  IN  CASE row.st = "absent" -> IF e.voided THEN <<"IGNORE">> ELSE <<"TX_NEW">>
        [] row.st = "live" /\ e.voided    -> <<"TX_VOIDED">>
        [] row.st = "voided" /\ e.voided  -> <<"IGNORE">>
        [] row.st = "voided" /\ ~e.voided -> <<"TX_UNVOIDED">>
        [] OTHER -> IF nano \o first = <<>> THEN <<"IGNORE">> ELSE nano \o first

(* Event i, the row and the token of its transaction after it.             *)
Synced(d, i, row, token) ==
  [synced |-> i, row |-> [d.row EXCEPT ![log[i].tx] = row],
   token |-> [d.token EXCEPT ![log[i].tx] = token]]
row_(d, i) == d.row[log[i].tx]
token_(d, i) == d.token[log[i].tx]
NewRow(st, i) == [st |-> st, firstBlock |-> log[i].firstBlock]

(* A vertex that is in the database already is left alone.                 *)
handleVertexAccepted(d, i) ==
  IF row_(d, i).st = "absent" THEN Synced(d, i, NewRow("live", i), token_(d, i)) ELSE d

handleVertexRemoved(d, i) == Synced(d, i, NoRow, NoBlock)
handleVoidedTx(d, i) == Synced(d, i, [row_(d, i) EXCEPT !.st = "voided"], NoBlock)

(* cleanupVoidedTx deletes only what is voided.                            *)
handleUnvoidedTx(d, i) ==
  IF row_(d, i).st = "voided" THEN [d EXCEPT !.row[log[i].tx] = NoRow] ELSE d

(* addOrUpdateTx: an absent vertex becomes a row of its own.               *)
handleTxFirstBlock(d, i) ==
  Synced(d, i, NewRow(IF row_(d, i).st = "absent" THEN "live" ELSE row_(d, i).st, i),
         token_(d, i))

handleNcExecVoided(d, i) == Synced(d, i, row_(d, i), NoBlock)
handleTokenCreated(d, i) == Synced(d, i, row_(d, i), log[i].firstBlock)
updateLastSyncedEvent(d, i) == Synced(d, i, row_(d, i), token_(d, i))

Commit(s, d, i) ==
  CASE s = "handlingVertexAccepted" -> handleVertexAccepted(d, i)
    [] s = "handlingVertexRemoved"  -> handleVertexRemoved(d, i)
    [] s = "handlingVoidedTx"       -> handleVoidedTx(d, i)
    [] s = "handlingUnvoidedTx"     -> handleUnvoidedTx(d, i)
    [] s = "handlingFirstBlock"     -> handleTxFirstBlock(d, i)
    [] s = "handlingNcExecVoided"   -> handleNcExecVoided(d, i)
    [] s = "handlingTokenCreated"   -> handleTokenCreated(d, i)
    [] s = "handlingUnhandledEvent" -> updateLastSyncedEvent(d, i)
    [] OTHER -> d     \* detectingDiff reads, handlingReorgStarted alerts

(* A run the database itself makes fail.                                   *)
Rejects(s, d, i) ==
  \/ s = "handlingUnhandledEvent" /\ d.synced > i
  \/ s \in {"handlingVertexRemoved", "handlingVoidedTx"} /\ row_(d, i).st = "absent"

-----------------------------------------------------------------------------
(* Connections                                                             *)

(* Mutations: the last event is asked for again; the stream always starts  *)
(* where the process started it.                                           *)
ResumeBeforeLast == IF event > 1 THEN event - 1 ELSE initialEventId
StartFromInitial == [conn EXCEPT ![socket].next = initialEventId + 1, ![socket].st = "open"]

(* START_STREAM and ACK reach the fullnode's end of the current socket.    *)
resumeFrom == IF event # 0 THEN event ELSE initialEventId
startStream == [conn EXCEPT ![socket].next = resumeFrom + 1, ![socket].st = "open"]

sendAck(cs, i) == IF cs[socket].st = "open" /\ cs[socket].next = i + 1
                  THEN [cs EXCEPT ![socket].unacked = FALSE]
                  ELSE cs

Fault(kind) == kind \in Faults /\ faults < MaxFaults /\ faults' = faults + 1

(* CONNECTING spawns a WebSocketActor.                                     *)
Connect ==
  \E c \in Conns :
    /\ conn[c].st = "closed"
    /\ conn' = [conn EXCEPT ![c].st = "opening"]
    /\ socket' = c
    /\ state' = "CONNECTING"

(* Entering RECONNECTING: clearSocket; a running service is left behind.   *)
Leave ==
  /\ state' = "RECONNECTING"
  /\ socket' = NoConn
  /\ detached' = IF state \in Handling
                 THEN detached \cup {[in |-> state, event |-> event]} ELSE detached

(* clearSocket drops the reference and closes nothing: the socket it held  *)
(* goes silent, or goes on speaking.                                       *)
Abandon(cs) ==
  \/ conn' = [cs EXCEPT ![socket] = Closed] /\ UNCHANGED faults
  \/ conn' = cs /\ Fault("stale")

(* ERROR is final and index.ts exits the process, as does a crash.         *)
Exit ==
  /\ state' = "ERROR"
  /\ conn' = [c \in Conns |-> Closed]
  /\ event' = 0 /\ initialEventId' = 0 /\ pending' = <<>>
  /\ txCache' = NoCache /\ socket' = NoConn /\ detached' = {}
  /\ UNCHANGED <<stream, db, acked>>

-----------------------------------------------------------------------------
Init ==
  /\ log \in Logs
  /\ produced = 0
  /\ conn = [c \in Conns |-> Closed]
  /\ db = [synced |-> 0, row |-> [t \in Txs |-> NoRow], token |-> [t \in Txs |-> NoBlock]]
  /\ state = "INITIALIZING"
  /\ event = 0 /\ initialEventId = 0 /\ pending = <<>>
  /\ txCache = NoCache /\ socket = NoConn /\ detached = {}
  /\ acked = 0 /\ faults = 0

FullnodeProduces ==
  /\ produced < Len(log)
  /\ produced' = produced + 1
  /\ UNCHANGED <<log, conn, db, state, context, detached, acked, faults>>

FullnodeSends(c) ==
  /\ conn[c].st = "open" /\ conn[c].next \in 1..produced /\ ~conn[c].unacked
  /\ conn' = [conn EXCEPT ![c].wire = conn[c].next, ![c].next = @ + 1,
                          ![c].unacked = TRUE]
  /\ UNCHANGED <<stream, db, state, context, detached, acked, faults>>

LoseEvent(c) ==
  /\ conn[c].wire # 0
  /\ conn' = [conn EXCEPT ![c].wire = 0]
  /\ Fault("loss")
  /\ UNCHANGED <<stream, db, state, context, detached, acked>>

(* fetchInitialState                                                       *)
StoreInitialState ==
  /\ state = "INITIALIZING"
  /\ initialEventId' = db.synced
  /\ Connect
  /\ UNCHANGED <<stream, db, event, pending, txCache, detached, acked, faults>>

(* BACKOFF_DELAYED_RECONNECT                                               *)
Reconnect ==
  /\ state = "RECONNECTING"
  /\ Connect
  /\ UNCHANGED <<stream, db, event, initialEventId, pending, txCache, detached, acked, faults>>

(* The socket of c opens.  The machine takes any CONNECTED for its own: if *)
(* its own socket is still opening, startStream throws in send().          *)
ConnOpens(c) ==
  /\ conn[c].st = "opening"
  /\ \/ /\ state = "CONNECTING" /\ c = socket
        /\ state' = "idle"
        /\ conn' = startStream
        /\ UNCHANGED <<stream, db, context, detached, acked, faults>>
     \/ /\ state = "CONNECTING" /\ c # socket
        /\ Exit /\ UNCHANGED faults
     \/ /\ state # "CONNECTING"
        /\ conn' = [conn EXCEPT ![c].st = "open"]
        /\ UNCHANGED <<stream, db, state, context, detached, acked, faults>>

(* The socket of c closes.  CONNECTING and CONNECTED leave for             *)
(* RECONNECTING whichever socket it was.                                   *)
ConnCloses(c) ==
  /\ conn[c].st # "closed"
  /\ LET closed == [conn EXCEPT ![c] = Closed] IN
     \/ /\ c = socket
        /\ Fault(IF state \in Handling THEN "dropBusy" ELSE "drop")
        /\ conn' = closed
        /\ Leave
     \/ /\ c # socket /\ state \in Connected \cup {"CONNECTING"}
        /\ Abandon(closed)
        /\ Leave
     \/ /\ c # socket /\ state \notin Connected \cup {"CONNECTING"}
        /\ conn' = closed
        /\ UNCHANGED <<state, socket, detached, faults>>
  /\ UNCHANGED <<stream, db, event, initialEventId, pending, txCache, acked>>

-----------------------------------------------------------------------------
(* An event arrives on connection c                                        *)

(* idle acknowledges it at once: nothing to do.                            *)
Ignore(c) ==
  LET i == conn[c].wire IN
  /\ i # 0 /\ state = "idle"
  /\ unchanged(log[i]) \/ (voided(log[i]) /\ log[i].type = "NEW_VERTEX_ACCEPTED")
  /\ event' = i
  /\ conn' = sendAck([conn EXCEPT ![c].wire = 0], i)
  /\ acked' = Larger(acked, i)
  /\ UNCHANGED <<stream, db, state, initialEventId, pending, txCache, socket, detached, faults>>

(* idle stores it and enters the state that handles it.                    *)
Handle(c) ==
  LET i == conn[c].wire IN
  /\ i # 0 /\ state = "idle"
  /\ ~unchanged(log[i])
  /\ ~(voided(log[i]) /\ log[i].type = "NEW_VERTEX_ACCEPTED")
  /\ event' = i
  /\ state' = HandledIn(log[i])
  /\ conn' = [conn EXCEPT ![c].wire = 0]
  /\ UNCHANGED <<stream, db, initialEventId, pending, txCache, socket, detached, acked, faults>>

(* No other state listens to events.                                       *)
Discard(c) ==
  /\ conn[c].wire # 0 /\ state # "idle"
  /\ conn' = [conn EXCEPT ![c].wire = 0]
  /\ UNCHANGED <<stream, db, state, context, detached, acked, faults>>

-----------------------------------------------------------------------------
(* The running service ends                                                *)

(* dispatchingMetadataChange, with the queue q.                            *)
Dispatch(q) ==
  LET target == IF q = <<>> THEN "handlingUnhandledEvent"
                ELSE CASE Head(q) = "TX_VOIDED"      -> "handlingVoidedTx"
                       [] Head(q) = "TX_UNVOIDED"    -> "handlingUnvoidedTx"
                       [] Head(q) = "TX_NEW"         -> "handlingVertexAccepted"
                       [] Head(q) = "TX_FIRST_BLOCK" -> "handlingFirstBlock"
                       [] Head(q) = "NC_EXEC_VOIDED" -> "handlingNcExecVoided"
                       [] OTHER -> "handlingUnhandledEvent"
  IN  /\ state' = target
      /\ pending' = IF target = "handlingUnhandledEvent" THEN q ELSE Tail(q)

(* txCache.set; the LRU may evict one other entry.                         *)
updateCache ==
  LET e == log[event]
      kept == [txCache EXCEPT ![e.tx] = hashTxData(e)]
  IN  \/ txCache' = kept
      \/ \E t \in Txs \ {e.tx} : txCache' = [kept EXCEPT ![t] = NoHash]

Ends ==
  /\ ~Rejects(state, db, event)
  /\ db' = Commit(state, db, event)
  /\ UNCHANGED <<stream, event, initialEventId, socket, detached, faults>>

DetectDiff ==
  /\ state = "detectingDiff"
  /\ Ends
  /\ Dispatch(metadataDiff(db, event))
  /\ UNCHANGED <<conn, txCache, acked>>

(* The handlers that return to dispatching.                                *)
ApplyChange ==
  /\ state \in {"handlingVertexAccepted", "handlingVoidedTx",
                "handlingFirstBlock", "handlingNcExecVoided"}
  /\ Ends
  /\ updateCache
  /\ Dispatch(pending)
  /\ UNCHANGED <<conn, acked>>

(* handleUnvoidedTx cleaned up: the vertex is added again.                 *)
Unvoid ==
  /\ state = "handlingUnvoidedTx"
  /\ Ends
  /\ updateCache
  /\ state' = "handlingVertexAccepted"
  /\ UNCHANGED <<conn, pending, acked>>

(* The handlers that acknowledge and return to idle.                       *)
Finish ==
  /\ state \in {"handlingUnhandledEvent", "handlingVertexRemoved",
                "handlingReorgStarted", "handlingTokenCreated"}
  /\ Ends
  /\ state' = "idle"
  /\ conn' = sendAck(conn, event)
  /\ acked' = Larger(acked, event)
  /\ UNCHANGED <<pending, txCache>>

(* onError of the running service.                                         *)
Fails ==
  /\ state \in Handling \cup {"INITIALIZING", "checkingForMissedEvents"}
  /\ \/ state \in Handling /\ Rejects(state, db, event) /\ UNCHANGED faults
     \/ Fault("fail")
  /\ Exit

(* A service nobody waits for commits, or fails unnoticed.                 *)
DetachedEnds(run) ==
  /\ run \in detached
  /\ detached' = detached \ {run}
  /\ \/ /\ ~Rejects(run.in, db, run.event)
        /\ db' = Commit(run.in, db, run.event)
        /\ UNCHANGED faults
     \/ /\ Rejects(run.in, db, run.event)
        /\ UNCHANGED <<db, faults>>
     \/ Fault("fail") /\ UNCHANGED db
  /\ UNCHANGED <<stream, conn, state, context, acked>>

-----------------------------------------------------------------------------
(* ACK_TIMEOUT and checkForMissedEvents                                    *)

AckTimeout ==
  /\ state = "idle"
  /\ state' = "checkingForMissedEvents"
  /\ UNCHANGED <<stream, conn, db, context, detached, acked, faults>>

(* Mutation of hasNewEvents: one missed event is not noticed.              *)
MoreThanOneNewEvent == produced > resumeFrom + 1

(* The HTTP API has events after the last one stored.                      *)
hasNewEvents == produced > resumeFrom

MissedEvents ==
  /\ state = "checkingForMissedEvents" /\ resumeFrom # 0
  /\ hasNewEvents
  /\ Abandon(conn)
  /\ Leave
  /\ UNCHANGED <<stream, db, event, initialEventId, pending, txCache, acked>>

NoMissedEvents ==
  /\ state = "checkingForMissedEvents" /\ resumeFrom # 0
  /\ ~hasNewEvents
  /\ state' = "idle"
  /\ UNCHANGED <<stream, conn, db, context, detached, acked, faults>>

(* Neither context.event nor initialEventId is set: the service throws.    *)
NothingToCheck ==
  /\ state = "checkingForMissedEvents" /\ resumeFrom = 0
  /\ Exit /\ UNCHANGED faults

Crash == state # "ERROR" /\ Exit /\ Fault("crash")

(* The process is started again.                                           *)
Restart ==
  /\ state = "ERROR"
  /\ state' = "INITIALIZING"
  /\ UNCHANGED <<stream, conn, db, context, detached, acked, faults>>

Next ==
  \/ FullnodeProduces \/ StoreInitialState \/ Reconnect
  \/ DetectDiff \/ ApplyChange \/ Unvoid \/ Finish \/ Fails
  \/ AckTimeout \/ MissedEvents \/ NoMissedEvents \/ NothingToCheck
  \/ Crash \/ Restart
  \/ \E run \in detached : DetachedEnds(run)
  \/ \E c \in Conns : \/ FullnodeSends(c) \/ LoseEvent(c)
                      \/ ConnOpens(c) \/ ConnCloses(c)
                      \/ Ignore(c) \/ Handle(c) \/ Discard(c)

Spec == Init /\ [][Next]_vars

(* The process is restarted, timers fire, MySQL and HTTP calls return.     *)
(* Sending and delivering an event take milliseconds and ACK_TIMEOUT is    *)
(* counted in seconds: the timer cannot win that race for ever, hence SF.  *)
Fairness ==
  /\ WF_vars(FullnodeProduces) /\ WF_vars(StoreInitialState) /\ WF_vars(Reconnect)
  /\ WF_vars(DetectDiff) /\ WF_vars(ApplyChange) /\ WF_vars(Unvoid) /\ WF_vars(Finish)
  /\ WF_vars(Fails) /\ WF_vars(AckTimeout) /\ WF_vars(MissedEvents)
  /\ WF_vars(NoMissedEvents) /\ WF_vars(NothingToCheck) /\ WF_vars(Restart)
  /\ WF_vars(\E run \in detached : DetachedEnds(run))
  /\ \A c \in Conns : /\ WF_vars(ConnOpens(c))
                      /\ SF_vars(state = "idle" /\ FullnodeSends(c))
                      /\ SF_vars(Ignore(c) \/ Handle(c))

FairSpec == Spec /\ Fairness

-----------------------------------------------------------------------------
(* Properties                                                              *)

(* What the database shows of each vertex, and how far it is.              *)
View == [t \in Txs |->
           IF db.row[t].st = "live"
           THEN [live |-> TRUE, firstBlock |-> db.row[t].firstBlock, token |-> db.token[t]]
           ELSE [NoVertex EXCEPT !.token = db.token[t]]]
Upto == Larger(db.synced, acked)

(* The database always shows the vertices as the events handled so far     *)
(* left them, whatever crashed, failed or was lost in between: voids,      *)
(* removals, confirmations and token deletions are neither skipped nor     *)
(* applied twice (services/index.ts handlers, last_event_id committed with *)
(* each).                                                                  *)
Snapshot == View = Replay(log)[Upto]

(* A restart resumes from last_event_id, and events acknowledged after it  *)
(* (unchanged, voided, REORG_STARTED: acknowledged but not persisted) have *)
(* nothing left to do: an ACK is never sent for work a crash can undo.     *)
RestartLosesNothing == Replay(log)[Upto] = Replay(log)[db.synced]

(* No event whose transaction committed is on its way to be handled again  *)
(* on the machine's own connection: START_STREAM never asks for it.        *)
NothingResent ==
  \A c \in Conns : c = socket /\ conn[c].wire # 0 => conn[c].wire > db.synced

(* Why: the fullnode's end of the current connection is one event ahead of *)
(* the machine at most, the database and every detached service are not    *)
(* ahead of it at all, and no other connection is alive.                   *)
At(next, unacked, wire) ==
  [st |-> "open", next |-> next, unacked |-> unacked, wire |-> wire]
Between(r) == {At(r + 1, FALSE, 0), At(r + 2, TRUE, 0), At(r + 2, TRUE, r + 1)}

Position ==
  /\ \A c \in Conns : c # socket => conn[c] = Closed
  /\ state \notin Connected \cup {"CONNECTING"} => socket = NoConn
  /\ state \in {"INITIALIZING", "ERROR"} => event = 0 /\ detached = {}
  /\ state \notin {"INITIALIZING", "ERROR"} =>
       db.synced <= resumeFrom /\ \A run \in detached : run.event <= resumeFrom
  /\ state = "CONNECTING" => conn[socket] = [Closed EXCEPT !.st = "opening"]
  /\ state \in Handling => conn[socket] = At(event + 1, TRUE, 0)
  /\ state \in Connected \ Handling => conn[socket] \in Between(resumeFrom)

(* The machine stores events in stream order, with no gap and no repeat:   *)
(* the next one after the last stored, or after last_event_id on a start.  *)
InOrder == [][event' # event => event' \in {0, resumeFrom + 1}]_vars

(* The machine never stops consuming the stream: again and again it waits  *)
(* in idle with everything the fullnode produced behind it.                *)
Drains == []<>(state = "idle" /\ resumeFrom = Len(log))

(* A nano token is deleted by the event that takes the execution which     *)
(* created it back (types/event.ts, Token Creation Implications).          *)
NanoTokensDeleted ==
  state = "idle" /\ detached = {} =>
    \A t \in Txs : db.token[t] # NoBlock => Replay(log)[resumeFrom][t].token # NoBlock

(* When one event changes both, nano tokens are deleted and first_block is *)
(* updated (services.test.ts, metadataDiff).                               *)
FirstBlockUpdated ==
  state = "idle" /\ detached = {} =>
    \A t \in Txs : db.row[t].st = "live" /\ Replay(log)[resumeFrom][t].live =>
      db.row[t].firstBlock = Replay(log)[resumeFrom][t].firstBlock

(* The events ignored without querying the database change nothing of what *)
(* the daemon is interested in (guards/index.ts, unchanged).               *)
IgnoredChangeNothing ==
  [][state = "idle" /\ state' = "idle" /\ event' # event =>
       Means(View, log[event']) = View]_vars

(* The streams on which View can follow the replay: an accepted vertex is  *)
(* new, nothing is said of one after its removal, a token is created by a  *)
(* live vertex and is taken back by the event that voids or removes it.    *)
Regular(l) ==
  \A i \in 1..Len(l) :
    LET e == l[i]
        now == Replay(l)[i - 1][e.tx]
    IN  /\ e.type = "NEW_VERTEX_ACCEPTED" =>
             \A j \in 1..(i - 1) : aboutVertex(l[j]) => l[j].tx # e.tx
        /\ aboutVertex(e) => \A j \in 1..(i - 1) : l[j].type = "VERTEX_REMOVED" => l[j].tx # e.tx
        /\ e.type = "VERTEX_METADATA_CHANGED" /\ ~e.voided /\ ~e.nc => now.token = NoBlock
        /\ e.type = "TOKEN_CREATED" => now.live
RegularLogs == \A l \in Logs : Regular(l)

(* No abandoned connection speaks, none closes under a running service.    *)
Steady == {"stale", "dropBusy"} \cap Faults = {}

(* The daemon replays the stream.                                          *)
Abstract == INSTANCE EventReplay WITH view <- View, upto <- Upto
Implements == Abstract!LiveSpec
=============================================================================
