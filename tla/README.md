# hathor-wallet-service in TLA+

TLA+ models of the wallet service's daemon and its watchdogs, of its tables, of the lambdas that write rows
beside it (loading a wallet, proposals, balance requests, WebSocket subscriptions, push devices) and of the event
downloader; TLC configurations that check them on small instances; and proofs, checked by TLAPS, of the
properties that matter most for every value of the constants. Paths below are relative to the repository's
`packages/`, unless they start with `src/`.

1. [The system](#1-the-system)
2. [The modules](#2-the-modules)
3. [The runs](#3-the-runs)
4. [Fairness](#4-fairness)
5. [The proofs](#5-the-proofs)
6. [What was found](#6-what-was-found)
7. [What is not modelled, and the plan](#7-what-is-not-modelled-and-the-plan)

## 1. The system

A Hathor fullnode keeps the ledger and publishes a numbered queue of events. The **daemon** follows that queue
over a WebSocket and writes a MySQL database. The **wallet service** is a set of AWS lambdas that read that
database for wallets and write the part of it that is theirs: wallets, transaction proposals, push devices. The
**event downloader** is a tool that copies the whole queue to SQLite.

```
 fullnode --- event queue, WebSocket ---> daemon --- SQL ---> MySQL <--- SQL --- lambdas <--- clients
     ^  \                                                                          |
     |   +--- event queue, N WebSockets ---> event downloader ---> SQLite          |
     +----------------------------- push_tx ---------------------------------------+
```

| Component | State | Operations | What is hard |
|---|---|---|---|
| Fullnode event queue (`daemon/src/types/event.ts`, `actors/helpers.ts`) | the queue; per connection, what was sent and acknowledged | produce an event; START_STREAM from an id; send one; take an ACK | events lost on a connection; ACK and START_STREAM must agree on a position |
| SyncMachine (`daemon/src/machines`, `actions`, `guards`, `delays`) | state, `context.event`, retry count, the cache of hashes | transitions on events, timeouts and the ends of services | a disconnection leaves a service running; timers race late events; two writes of one event; restarts |
| WebSocketActor (`daemon/src/actors/WebSocketActor.ts`) | a socket | open, deliver, close | an abandoned socket is not closed and goes on speaking |
| MonitoringActor, HealthCheckActor (`daemon/src/actors`) | timers, timestamps, counters | start and stop timers, alert, validate balances, end the process | timers that outlive the state they watch; an alert awaited while events arrive; debounced alerts |
| Event handlers (`daemon/src/services/index.ts`) | none; one database transaction each, two for an unvoid | accept, void, unvoid, remove a vertex; first block; nano execution; token created | they are replayed after a crash; several changes in one event |
| Ledger tables (`daemon/src/db/index.ts`, `utils/wallet.ts`, `common/src/types.ts`) | `transaction`, `tx_output`, `address_balance`, `wallet_balance`, histories, counters | credit, void, unlock, refresh, delete | balances are kept by increments through any sequence of reorgs; locks by height and by time; authorities as bit sets |
| Wallet loading and shielded recovery (`wallet-service/src/api/wallet.ts`, `db/shielded.ts`, `shieldedRecovery.ts`) | `wallet` (two statuses, keys, retries), ownership of addresses, recovery of outputs | load, loadWallet, loadWalletFailed; claim, rewind, rebuild, settle | balances are rebuilt while the daemon writes them; asynchronous workers fail, die and are run again |
| Balance requests (`wallet-service/src/commons.ts`, `api/balances.ts`) | none: they write the daemon's tables | unlock what has expired, then answer | several requests and the daemon unlock the same outputs, without a transaction |
| Transaction proposals (`wallet-service/src/api/txProposal*.ts`) | `tx_proposal`; marks in `tx_output` | POST, PUT, DELETE | several lambdas and the daemon write the same rows, one statement at a time |
| Cron (`wallet-service/src/db/cronRoutines.ts`) | none | release what was not sent; forget stale devices | it races the requests; its three statements are not a transaction |
| WebSocket API (`wallet-service/src/ws`, `redis.ts`) | keys of connections and of subscriptions in Redis | connect, join, announce, end | cleanups cross joins; links close at any time; $disconnect may be lost; SQS delivers again |
| Push notifications (`wallet-service/src/api/push*.ts`, `txPushNotificationRequested.ts`) | `push_devices` | register, update, unregister, notify | a device changes wallets while requests and notifications for it are under way |
| Event downloader (`event-downloader/src`) | three SQLite tables; per worker, buffers and a window | split, resume, download in parallel, flush | partial flushes, messages after a failure, other batch sizes from run to run |
| Mempool, queries, proxies, authentication (`wallet-service/src`) | none of their own | read | not modelled, see section 7 |

The components interact through rows. The daemon and the lambdas never call each other: what a lambda may rely on
is what the daemon committed, and the daemon must leave rows right whatever lambda runs next to it. Within the
daemon, actors and machine exchange events through xstate, one at a time; a service is a promise the machine waits
for, but does not cancel.

What makes each component correct:

* *Machine and handlers*: at any moment the tables show the events up to some position, each applied once; a
  restart continues there; the stream is always consumed again.
* *Ledger*: balances are the sums of what the live outputs say, after any reorg; a lock opens on time; nothing
  goes below zero, since that stops the daemon for good.
* *Proposals*: an output is set aside for at most one proposal that may still need it, and is given back.
* *Watchdogs*: a timer runs exactly in the states it watches, and a stream that goes silent is always noticed.
* *Loading*: a wallet is ready only with balances that are the sum of its addresses and with nothing left to rewind;
  a load is never abandoned as "creating"; what was ready stays ready.
* *Balance requests*: unlocking moves coins between two columns and loses none; no lock is forgotten.
* *Subscriptions*: who was told it listens does listen, until it leaves; a message is not dropped before it was
  posted; the keys of those who left go away.
* *Devices*: a row says what its own wallet asked for; no notification unregisters a living device; dead ones are
  forgotten.
* *Downloader*: progress is never ahead of what is stored, and "complete" means complete.

`PROJECT.json` lists the components, the lines each definition models, and the hazards, each at its line.

## 2. The modules

| Module | Models | Used by |
|---|---|---|
| `FullnodeEvents` | the events, what each says of a vertex, and `Replay`: what the whole stream means | `EventReplay`, `SyncMachine` |
| `EventReplay` | abstract specification: a view of the vertices moves along the stream, one event at a time, each exactly once, in order | `SyncMachine` (`Implements`) |
| `SyncMachine` | daemon state machine, sockets, detached services, database positions and rows | `MCSyncMachine`, `SyncMachineProofs` |
| `Monitoring` | the two monitoring actors, the machine as they see it, the process | `MCMonitoring`, `MonitoringProofs` |
| `TxLedger` | the statements of the handlers on the ledger tables | `MCTxLedger`, `TxLedgerProofs` |
| `WalletLoad` | loading a wallet, its shielded outputs, the daemon beside it | `MCWalletLoad`, `WalletLoadProofs` |
| `BalanceRefresh` | balance requests that unlock, the daemon's unlocking beside them | `MCBalanceRefresh`, `BalanceRefreshProofs` |
| `TxProposal` | proposals, the cron, the fullnode's and the daemon's part in them | `MCTxProposal`, `TxProposalProofs` |
| `Clients` | the wallets that clients follow, and the count of failures | `WsSubscriptions`, `PushDevices` |
| `WsSubscriptions` | connections, subscriptions and announcements | `MCWsSubscriptions`, `NotificationProofs` |
| `PushDevices` | devices and the way of a notification | `MCPushDevices`, `NotificationProofs` |
| `EventDownloader` | the downloader | `MCEventDownloader`, `EventDownloaderProofs` |
| `MC*` | streams, chains and small sets for TLC | the `.cfg` files |
| `*Proofs` | theorems and their proofs | |

### SyncMachine

`state` is the state of the machine (`machines/SyncMachine.ts`), `event` the id in `context.event`, `pending` the
queue of metadata changes, `socket` the connection in the context, `conn` what is at each end of every connection,
`detached` the services that a disconnection left running, `db` the rows of vertices and nano tokens and
`last_event_id`, `txCache` the LRU of hashes, `acked` what was acknowledged. One action per transition: `Handle` is
a FULLNODE_EVENT in idle that a guard sends to a service, `Ignore` one that is only acknowledged, `Discard` one
that arrives where nothing listens. A service ends in `DetectDiff`, `ApplyChange`, `Unvoid`, `Finish` or `Fails`, which
commit what the handler commits (`Commit`); `DetachedEnds` is the same for a service the machine no longer waits
for. `ConnOpens` and `ConnCloses` are the socket's; `AckTimeout`, `MissedEvents`, `NoMissedEvents` and
`NothingToCheck` the check for missed events; `Crash` and `Restart` are the process's, the idle monitor's
termination included. `Faults` names what may go wrong in an instance and `MaxFaults` bounds how often:

| fault | what it is |
|---|---|
| `crash` | the process dies and loses machine, cache and sockets |
| `fail` | a service throws: its transaction is rolled back and the machine ends in ERROR |
| `loss` | an event is lost on its way |
| `drop` | a connection closes while no service runs |
| `dropBusy` | a connection closes under a running service, which goes on detached |
| `stale` | a connection the machine abandoned still delivers, or reports a close |

A handler is what it commits for a vertex: its row (voided, first block), its nano token and `last_event_id`. The
hash the cache compares is an injection of the fields the code serialises. `FullnodeProduces`, `FullnodeSends` and
`LoseEvent` are the fullnode and the network.

### EventReplay

What the daemon promises, with no machine: `view` is always the replay of the first `upto` events, every step
replays the next one, and in the end all are replayed. `SyncMachine` implements it with `view <- View` (the rows) and
`upto <- Upto` (the greater of `last_event_id` and the last ACK).

### Monitoring

`monitor` is the variables of MonitoringActor, `pinging` HealthCheckActor's timer, `state`, `retry` and `backoff` what
the actors see of the machine (`handling` stands for every state whose service works on an event, since
`monitoredState` treats them alike), `alerts` the idle alerts being sent. `silent` and `heard` are history. Time is
discrete and unbounded: a timer holds the time it has left, a timestamp its age up to the largest age the code tells
apart, so the state space is finite without a clock that stops. One action per message, per timer and per end of an
awaited call; `Tick` waits for timers that are due. The process ends when the actor says so or when the machine
reaches ERROR, and is started again with nothing remembered.

### TxLedger

`db` is the database: one operator per SQL statement or helper, from a database to a database, composed in the
code's order. `acceptSteps` is handleVertexAccepted (unlock by height, unlock by time, unlock inputs, add
transaction and outputs, mark inputs, count, credit addresses, credit wallets); `voidTx`, `cleanupVoidedTx` and the
refreshes are those of the void path. Each handler is one action because it is one database transaction, except
that unvoiding is two: `unvoiding` is the vertex between them. A statement that would take an UNSIGNED column below
zero rolls the handler back and sets `halted`: the event would be retried, and fail, for ever. `Announced` and
`Retracted` are what the fullnode's consensus guarantees of the events: parents before children, nothing spent
twice, locks expired, voids and removals from the leaves down and of live
vertices only. Authorities are sets of bits with the code's signed merge and the
absolute value it takes of their sum.

### WalletLoad

`wallet` is the row: `status`, the status of the shielded side (`ct`), the keys attached and `retry_count`. `call` is
the POST /wallet lambdas with what each read (`RequestReads`) before its one write (`RequestCreates`,
`RequestAttaches`, `RequestRetries`) and before it invokes the worker. `load` is the invocations of loadWallet with
the phase they have reached: read, derive, claim, sweep twice, rebuild, lock, settle, and the queue and dead letters of
AWS around them (`LoadCrashes`, `loadWalletFailed`). `owner`, `tx`, `recovery`, `credit`, `counted`, `walCredit` and
`walHistory` are the rows both sides write, kept per vertex: what the vertex adds to its row of `address_balance`, of
`wallet_balance`, and so on. `daemon` is the vertex being handled, in two actions: `DaemonOpens` reads, since
REPEATABLE READ fixes everything at the first read, and `DaemonAccepts` or `DaemonVoids` commits, waiting for the row
locks that `lockAddressBalancesForUpdate` takes. `Allowed` names what else may happen:

| `Allowed` | what it is |
|---|---|
| `crash` | a worker dies; AWS runs it again, any number of times, or gives up and calls loadWalletFailed |
| `dbError`, `markFails` | a statement of the worker fails; so does the one that records it |
| `invokeFails`, `requestDies` | the worker cannot be invoked; the lambda dies before it tries |
| `daemonError` | the daemon's transaction is rolled back |
| `rewindFails` | an output cannot be rewound |
| `voidInUpgrade` | a vertex is voided while shielded keys are being loaded |
| `slowIngest` | a transaction of the daemon that read before the claim outlasts the second sweep |
| `overlap` | keys are attached while an older load, or retry, is under way |
| `again` | a worker starts while another is at work, or when the wallet is loaded |

### BalanceRefresh

`request` is the lambdas that answer GET /balances: read the balances, and if the earliest lock has expired, select the
outputs, mark them unlocked and update the two balance tables, one statement at a time and outside any transaction.
What a request still has to do is its `row`, the statement that is `next` and the addresses that are `left`, which come in
any order (`Begins`, `Follows`).
`daemon` reads in one action and commits in another: `accept` and `spend` unlock what they touch, `block` what has
matured or expired. `addressBalance` and `walletBalance` have the columns of the tables, with one
authority bit. `failures` counts lambdas and statements that fail; `crossed` records that two have
unlocked the same output.

### TxProposal

`call` holds the lambdas that serve requests, each with the place it has reached; `cron` the pass of
cleanUnsentTxProposalsUtxos. One action per statement, or per database transaction where the code opens one
(`CreateCommits`, `DestroyCommits`, `SendErrors`). `fullnode` and `daemon` say how far a transaction is on either
side: `PushAccepted` is push_tx, `updateTxOutputSpentBy` and `voidTx` what the daemon does to the same rows.
`Ages` is the five minutes after which the cron considers a proposal. Faults: lambdas that time out, statements
that fail, push_tx responses that are lost, transactions the fullnode voids.

### WsSubscriptions

`known` and `chan` are the keys in Redis, `link` API Gateway's view of each connection, `leaving` the
$disconnect events it owes, `queue` the messages in SQS, each with the subscribers it still owes a post (`owed`).
`lambda` is a request under way: what is left of the keys to write, wallets to look up, posts to make and cleanups to do.
A connection opens in two steps: `initWsConnection` writes its key, and only when the lambda has answered does API
Gateway open the link (`Connects`), or refuse it (`ConnectErrs`, `ConnectDies`); a post in between gets 410 Gone
(`GoneOrNotYet`), as one to a closed link does. A Redis command is a step, and a SCAN with its GETs goes from key to key
(`look`), so that a cleanup that scans and deletes crosses whatever else is written meanwhile. onUpdateTx and
multicast are `onNewTx` with another payload. `told` is history: the subscriptions clients got a join-success for;
`crossed` are those whose key was written while a cleanup of the same connection was under way (`Threatened`).

### PushDevices

`device` is `push_devices`, by device id; `alive` the ids Firebase knows. An update is two actions, its check
(`existsPushDevice`) and its UPDATE. A notification goes through `accepting` (the daemon's transaction, which may roll
back after it has invoked the lambda), `invoked`, `fanout`, `sending`, `posting` and, when Firebase calls the device
invalid, `removing`: between any two of them anything else may happen, and each may be lost or repeated. `chosenBy` is
history: on whose behalf a row was last written.

### EventDownloader

`events`, `txEvents` and `progress` are the three tables; `run` is the process and the batches it has not started;
`worker`, by batch start, is a batch being downloaded, with its socket, its window and its buffers. `downloadAllEvents(size)` starts a run with a
batch size of its own. `Save` is a flush: three statements, of which the first `done` go through. `onEvent`,
`onComplete` and `onError` are the callbacks, together with what the worker does before and after them; a worker that
failed stays `closing` until its socket is closed, and messages still reach it, as in the code. After the run has ended the database is
closed and every statement throws.

## 3. The runs

Every passing run explores its whole state space. "States" are distinct states.

| Run | Checks | Instance |
|---|---|---|
| `crash` | `Snapshot`, `RestartLosesNothing`, `NothingResent`, `InOrder`, `Drains`, `Implements` | eight streams of four or five events, one connection at a time, faults crash, fail, loss, drop, three in all |
| `stale` | `Drains` | two streams that remove no vertex, three connections alive at a time, drop, dropBusy and stale, two in all |
| `skip` | `NanoTokensDeleted`, violated | the shortest stream that shows it |
| `monitor` | `TimersFollowMachine`, `IdleDetected`, `StormHeard`, `NeverSilentForEver` | timeouts of 2 to 5, a storm of 3 in a window of 5; 33k states |
| `reorg` | the seven invariants of `TxLedger` and `UnlockedByBlock` | nine vertices: a fork at height 2, a chain of spends, a timelock, a moving authority; three addresses, two of one wallet |
| `timelock` | `NeverOutOfRange`, violated | five vertices |
| `load` | `TypeOK`, `ReadyIsSummed`, `NothingUnowned`, `NoLoadLost`, `NeverGoesBack` | two requests at a time, two workers one after the other, two retries, one legacy and two shielded vertices, crash, dbError, invokeFails; 1.34M states |
| `refresh` | `TypeOK`, `Conserved`, `ExpiryIsAnnounced`, `ExactUnlessCrossed` | two requests, a coin, an authority and a reward at two addresses, one failure; 722k states |
| `proposal` | `MarksAreHeld`, `UnsentAreReleased` | two requests at a time, two proposals, one output, every fault |
| `subscribe` | `LiveStaySubscribed`, `PostedToSubscribers`, `OrphansReaped` | one client, two wallets, one message at a time, two lambdas, one failure; 315k states |
| `push` | `OwnSettings`, `LiveStayRegistered`, `DeadForgotten` | one device, two wallets, one update, one notification per stage, one failure; 425k states |
| `download` | `ProgressIsStored`, `CompleteIsAll`, `NeverGoesBack`, `Completes` | five events, batches of 2 or 3, two workers, windows and flushes of 2, two faults |

What they show:

* `crash`: whatever crashes, fails, is lost or closes *between* services, rows and nano tokens are at every moment
  what the events up to the position mean (`Snapshot`); what was acknowledged but not persisted (unchanged events,
  voided ones, REORG_STARTED) has nothing left to do (`RestartLosesNothing`); the stream is consumed to its end
  again and again (`Drains`); and all of this together is the abstract replay (`Implements`). A connection that closes
  under a running service is not in this run, because there the property is false: see `skip`. Even there events are
  never stored out of order or twice, and never asked for again once committed (`InOrder`, `NothingResent`,
  `MCSyncMachine_drop.cfg`). `Position` says why, and is the inductive invariant of the proofs.
* `stale`: with every defect of the connections together the machine does not get stuck in streams that remove no
  vertex. In one that removes a vertex whose NEW event was skipped it does: the handler throws, and throws again after
  every restart (`MCSyncMachine_removed.cfg`, section 6).
* `monitor`: the timers follow the machine over any order of disconnections, handlers and restarts; every silence is
  noticed within one and a half idle timeouts and ends; storm alerts that are debounced never hide a whole storm.
* `reorg`: the increments add up. `OutputsFollowTxs` ties rows to the vertices that are live,
  `BalancesAreUtxos` the balance columns to the rows, `WalletsAreAddresses` wallets to addresses, `HistorySums` the
  validation the code runs on itself, `TransactionCounts` the three counters, `AuthoritiesMatch` the bit columns,
  `UnlockedByBlock` the locks and `NeverOutOfRange` the UNSIGNED columns. Its instance leaves out the two situations
  in which the code does break `AuthoritiesMatch` and `NeverOutOfRange` (a vertex that moves an authority within one
  address; voiding a transaction with an unexpired timelock, see `timelock`): everything else around them holds.
* `load`: with workers that fail, die and are run again, one at a time and never on a ready wallet, a wallet is ready
  only with the sum of its addresses' rows, which is what their outputs are worth, and with its whole history and
  nothing left to rewind; a wallet that is being created is being loaded by somebody; no late failure undoes what another
  worker finished. The daemon's transaction is free to read and to commit before, between and after the claim, the sweeps,
  the lock and the settle; only row locks order them. Two conditions are where the code ends. `NothingUnowned`, which the
  second sweep is for, holds as long as no transaction that read before the claim is still open after that sweep
  (`slowIngest` is not in the run). `ReadyIsSummed` leaves out what a transaction credits that read before the settle, waited
  for the row locks and wrote after it (`late`): such a vertex is missing from the wallet, and `MCWalletLoad_straddle.cfg`
  shows it. The faults of the table in section 2 that are not in the run are those under which the code does break
  a property, or which it cannot survive: section 6 says how.
* `refresh`: requests that die between statements, cross each other or cross the daemon never lose or make coins, and
  never forget a lock; and as long as no two unlock the same output, the columns are exact and the daemon is never
  refused. What happens when they do is in section 6.
* `proposal`: a mark belongs to a proposal that is open or sent, whatever interleaves or dies, and one that is
  never sent is given back.
* `subscribe`: whoever was told that it listens has its key as long as its link is open, unless the key was written
  while a cleanup of that very connection was scanning; a message is deleted only after a post to every earlier
  subscriber, but for those; and orphan keys are reaped by later posts. That the exception is needed,
  `MCWsSubscriptions_early.cfg` shows: no link has to close for it.
* `push`: a row's settings are its own wallet's, no notification unregisters a device Firebase knows, and the cron
  forgets removed apps.
* `download`: claims are true, complete is complete, and nothing saved is given up, with other batch sizes and a
  longer stream in every run, and messages that come after a failure.

Beside the runs there are configurations that reproduce what section 6 says; `tlc -config X.cfg M` runs them:
`MCSyncMachine_half`, `_return`, `_removed`, `MCTxLedger_authority`, `MCTxProposal_sent`, `MCMonitoring_longhandler`,
`MCWalletLoad_caughtup`, `_overlap`, `_widened`, `_block`, `_extended`, `_straddle`, `_slow`,
`MCWsSubscriptions_early` (each ends in a violation), `MCSyncMachine_drop` and
`MCWalletLoad_again` (which pass).

*Bounds.* Streams of five events contain every handler (but for NC_EXEC_VOIDED on a vertex that stays live, which the
streams of `crash` leave out, as it commits twice: see `_half` and `skip`) and every pair of handlers that share a row (accept then
void, confirm then orphan, execute then take back); a fault acts within an event or between two neighbours, and
two or three of them cover a fault during the recovery from another. Connections are identities: one is enough
when an old one never speaks, three let two abandoned ones speak next to the current one. The ledger's rows
interact through an address, a wallet or a spent output, and the chain has each twice. An output has one mark and
two lambdas are enough to interleave any two statements; the third party, the cron, is always there. In `load` a
worker of the wallet, another one in the queue, and the daemon are the writers of its rows; two retries let a wallet
fail, be retried, have keys attached and fail again (with one, a retry of a first load never happens). The legacy side
has one vertex and the shielded one two, the second of which is beyond the window of a load until the first is used, so
that a load run again claims more. `Voidable` is the first shielded vertex, whose void depends on its
recovery; with either of the others instead the run passes as well. `Gap` is 1, so that a block of derived addresses is
the window and no row is claimed beyond it: `MCWalletLoad_block` and `_extended` have the other cases. Loads that overlap or
repeat are in `MCWalletLoad_again`, where the first windows hold all that is paid (1.14M states, it passes), and in
`_widened`, where they do not. In `refresh` two addresses give
the wallet a lock of its own next to theirs. In `monitor` the timeouts differ in order and in parity, so that every
pair of timers can be due in both orders; with the stuck timeout below the idle one both alerts happen.
In the downloader batches of 2 and 3 over five events give rows that start together and end apart, rows that start
inside another batch, and a short last batch; a window of 2 needs an ACK in every batch of 3. `MaxTime`, `MaxHeight`,
`MaxEvent`, `MaxFaults`, `MaxFailures`, `MaxAlerts`, `MaxInFlight`, the numbers of requests and workers at a time and
the lengths of the streams are the only bounds on what is unbounded in the code.

`CHECK_DEADLOCK FALSE` is given for `TxProposal`, `WalletLoad` and `BalanceRefresh`: a service nobody calls any
more, with nothing left to do, rests. The others always have a step.

## 4. Fairness

* `SyncMachine`: weak fairness for what always happens in the end: a process is restarted, timers fire, SQL and
  HTTP calls return, sockets open. Strong fairness for sending and for delivering an event, because ACK_TIMEOUT
  (seconds) may interrupt them but not for ever: an event takes milliseconds. No fairness for faults, which
  `MaxFaults` bounds.
* `Monitoring`: weak fairness for timers, for the awaited alert, whose failure is caught, and for the delay before a
  reconnection. Nothing is assumed of the fullnode, of MySQL or of the handlers: the watchdogs are there for when
  these do not answer.
* `TxProposal`: weak fairness for time (`Ages`) and for the cron's query, which the scheduler runs every five
  minutes. Strong fairness for its two writes: a pass may be cut short by a timeout, not every pass. Nothing is
  assumed of clients: a request may never come and a lambda may never end.
* `WsSubscriptions`: weak fairness for the steps of a lambda, which runs to its end or is ended, and strong
  fairness for the delivery of a message by SQS, which keeps it until it is deleted and competes with other requests
  for lambdas. Nothing is assumed of clients or of $disconnect events.
* `PushDevices`: weak fairness for time (`GetsStale`), for the cron, which the scheduler runs, and for an UPDATE
  whose check was made. Nothing is assumed of Firebase or of invocations.
* `EventDownloader`: weak fairness for the steps of a run, for the fullnode's sending, and for whoever starts the
  tool again when it has failed: rows of progress are kept for that, and nothing in the code does it by itself. Faults are bounded, so that some run is undisturbed.
* `TxLedger`, `WalletLoad` and `BalanceRefresh` have no liveness property and no fairness: a load ends when AWS or a
  client says so, and the code retries nothing by itself; `NoLoadLost` is the safety part of "every load ends".

## 5. The proofs

TLAPS checks the following for every value of the constants that satisfies the named assumptions of each module.

| Module | Theorem | Says |
|---|---|---|
| `SyncMachineProofs` | `TypeCorrect` | `Spec => []TypeOK`, under every fault |
| | `PositionKept` | `Spec => []Position`, when abandoned connections do not speak |
| | `NeverResent` | `Spec => []NothingResent`, same assumption |
| | `StoredInOrder` | `Spec => InOrder`, same assumption |
| | `ShowsTheReplay` | `Steady`, `RegularLogs`: `Spec => []Snapshot` |
| | `NothingLost` | same assumptions: `Spec => []RestartLosesNothing` |
| | `ReplaysTheStream` | same assumptions: `Spec => Abstract!Spec`, the refinement of `EventReplay` |
| `MonitoringProofs` | `TypeCorrect` | `Spec => []TypeOK`, for all timeouts |
| | `TimersRight` | `Spec => []TimersFollowMachine` |
| | `ValidatesOnce` | `Spec => []OneValidation` |
| | `SilenceNoticed` | `Spec => []IdleDetected` |
| | `StormsAreHeard` | `Spec => []StormHeard` |
| `TxLedgerProofs` | `LedgerTypeCorrect` | `Spec => []TypeOK` |
| | `OutputsFollow` | `Spec => []OutputsFollowTxs` |
| | `CountsCorrect` | `Spec => []TransactionCounts` |
| | `HistoryCorrect` | `Spec => []HistorySums` |
| | `BalancesCorrect` | `TimelocksStay`: `Spec => []BalancesAreUtxos` |
| | `WalletsCorrect` | `TimelocksStay`: `Spec => []WalletsAreAddresses` |
| | `RangeKept` | `TimelocksStay`: `Spec => []NeverOutOfRange` |
| | `AuthoritiesCorrect` | `TimelocksStay`, `AuthoritiesApart`: `Spec => []AuthoritiesMatch` |
| | `UnlockedOnTime` | `HeightsFromOne`: `Spec => UnlockedByBlock` |
| `TxProposalProofs` | `RowsTypeCorrect` | `Spec => []TypeOK` |
| | `MarksHeld` | `Spec => []MarksAreHeld` |
| `NotificationProofs` | `TypeCorrect` | `Spec => []TypeOK` |
| | `SubscriptionsLive` | `Spec => []LiveStaySubscribed` |
| | `SubscribersPosted` | `Spec => PostedToSubscribers` |
| | `PushTypeCorrect` | `PushSpec => []PushTypeOK` |
| | `SettingsAreOwn` | `PushSpec => []OwnSettings` |
| | `LiveKeepTheirRow` | `PushSpec => LiveStayRegistered` |
| `WalletLoadProofs` | `LoadTypeCorrect` | `Spec => []TypeOK` |
| | `ReadyStaysReady` | `Spec => NeverGoesBack` |
| | `LoadsAreDriven` | `Recorded /\ Spec => []NoLoadLost` |
| | `NoneWaits` | `Orderly /\ Spec => []NothingUnowned` |
| | `ReadyHasItsSums` | `Plain /\ Spec /\ [][WithinList]_vars => []ReadyIsSummed` |
| | `SmallWalletsSum` | `Plain /\ FirstWindow /\ Spec => []ReadyIsSummed` |
| `BalanceRefreshProofs` | `RefreshTypes` | `Spec => []TypeOK` |
| | `RefreshConserves` | `Spec => []Conserved` |
| | `RefreshAnnounces` | `Spec => []ExpiryIsAnnounced` |
| | `RefreshIsExact` | `Spec => []ExactUnlessCrossed` |
| `EventDownloaderProofs` | `TypeCorrect` | `Spec => []TypeOK` |
| | `RowsAreTrue` | `Spec => []ProgressIsStored` |
| | `DoneHasAll` | `Spec => []CompleteIsAll` |
| | `RowsMoveForward` | `Spec => NeverGoesBack` |

*SyncMachine.* `TypeOK` is not inductive: an event on the wire must be one of the stream, a service must have an
event to handle and a session a socket (`Shape`). For the order of events the invariant is `Position`, which ties
four counters: what the fullnode will send next, what is on the wire, the machine's position (`resumeFrom`) and
`last_event_id`. It needs the assumption `Quiet`, that `"stale"` is not among the faults, and is false without it.

That the rows are the replay needs `Mirror`. Its parts: between `last_event_id` and the last ACK no event changed
anything (`Level`), and the machine is at most one event further (`Within`); only live vertices have tokens
(`TokensLive`), and a row exists only for a vertex some stored event was about (`RowsKnown`); what the cache says of a
vertex that was not removed is what the rows say (`CacheTrue`), which is why an unchanged event may be ignored; the
service that runs is the one the event asks for (`Due`); and nothing is left behind or queued (`Remembered`). `Replay` is a
recursive function, and what it is at a position follows by induction over the naturals (`ReplayIs`). The assumptions are
where the theorem stops being true of the code, and each has a configuration that shows it. `Steady`: no
abandoned connection speaks and none closes under a running service (`skip`). `RegularLogs`: in each stream
a vertex is accepted once and not mentioned after its removal (`MCSyncMachine_return`), an event that takes back the
nano execution of a vertex that stays live meets none of its tokens (`_half`), and tokens are created for
live vertices. `MCSyncMachine` asserts that the streams of `crash` are regular and those of `_half`, `_return` and `skip`
are not. Crashes, services that fail, lost events and connections that close between services are all allowed,
without a bound.

*Monitoring.* `IdleDetected` speaks of the history `silent`, the code of its own clock and of checks every half
timeout. The invariant ties them: the actor's clock is the silence (`Clock`), the next check comes before the bound
as long as no alert was raised (`NextCheck`), and an alert raised in this connection is still being sent
(`AlertSent`). `StormHeard` needs that the actor's clock of its last storm alert is the alert's age (`StormAge`).

*TxLedger.* `LedgerInv` adds to the types that no live transaction spends an output of one that is not
live (`InputsLive`). It holds because the fullnode voids from the leaves down and announces from the roots
(`Announced`, `Retracted`, the assumptions about the environment); without it the two directions of
`spent_by` cannot both be kept when a parent is deleted and inserted again.

The balances take two more invariants. `Good` holds whatever is voided: the count of every row of `address_balance` and
`wallet_balance`, the sum of its two columns and the histories are those of the live transactions (`Counted`), and
what is spent was unlocked (`SpentUnlocked`). `ExactInv` says what each column is: what is received, locked and unlocked is the
amount of the live, the locked and the other unspent outputs (`Exactly`). That a
handler's increments keep a sum is a fact about sums over finite sets (`SumStep`, `SumUnion` and their kin), proved by
induction over the subsets of a finite set. `TimelocksStay`, that no
vertex with a timelocked output is voided, is where the code ends: the run `timelock` refutes `NeverOutOfRange`
without it, since the query for expired timelocks finds voided outputs too; the instance of `reorg` satisfies it.
`AuthInv` adds the two bit columns of every address (`Granted`), and that a locked output whose vertex may be voided
grants nothing. The columns are no sums: a credit takes the union and looks up what is left when a sign is negative, a void the
other way round, and an unlock that moves a bit looks up what stays locked. `AuthoritiesApart` is again where the code ends. The lookup of a void comes before
its inputs are unspent, and a vertex that both spends and pays an authority of one token at one address has a signed sum
that cannot tell the two apart: `MCTxLedger_authority` is such a vertex, and the hypothesis excludes just those that may
be voided; its other half, that a block pays no authority, is a rule of the network, since a block pays rewards. For
`UnlockedOnTime` the invariant says that live blocks have no gap and that a locked reward is above them all
(`BlockLocks`); `HeightsFromOne` leaves genesis, at height 0, out of the chain, and says that a reward is locked for at
least a block.

*TxProposal.* `MarksAreHeld` needs two facts about what lambdas remember: the id a POST drew is nobody else's and
marks nothing until it commits (`Drawn`), and between the cron's release and its cancellation the proposals it
found hold no marks (`Passing`).

*WsSubscriptions.* A lambda remembers connections and keys it will delete. Not each of those connections is closed: one
that is connecting answered a post with 410 and opens later. What a cleanup has still to scan or to delete is spare
(`Spare`, in `JobOK`): its link is closed for good, its key is not there, or the key was written while the cleanup was under
way (`crossed`). So what a cleanup takes is nobody's, but for those. A message owes a post only to
subscribers that were told and not crossed (`HistoriesOK`), and each of them is among those its delivery has still to look
up or to post to (`Covers`), since a key that stays is found by a scan that goes from key to key.

*PushDevices.* `NotificationProofs` extends it beside `WsSubscriptions`, which is why its specification is `PushSpec`. The
invariant says what is remembered of a device on the way to its deletion: Firebase called it invalid, and it never
knows that id again (`RemovingDead`).

*EventDownloader.* The invariant follows an event from the socket to the tables: what a worker counted is stored or
in its buffers, hash included (`Buffered`, which a partial flush must keep); a batch waits with what it has
already stored (`PendingStored`); and as long as nothing failed, what a run lacks is in a batch that waits or is
being downloaded (`Remaining`), so that when none is left nothing lacks. That `calculateBatches` covers
0..latest for every size is a lemma about `%` (`BatchOf`). For `NeverGoesBack` it says that a row is never ahead of the
worker or of the batch that will write it next (`Ahead`): a run resumes at a row or past it, whatever its batch size.

*WalletLoad.* `Known`: what a lambda remembers of the row is still true when it writes (a request that retries or
invokes found a wallet, one that saw it ready finds it ready), since every statement takes the row `Forward`. That gives
`NeverGoesBack` whatever happens, overlapping loads included. `NoLoadLost` needs `Current` as well: during an upgrade
every lambda that may still mark the wallet knows that it is one. `Recorded` is its assumption: without `overlap`,
`requestDies` and `markFails`; each of the three breaks it (section 6). `Amounts` makes the types inductive: vertices
only go from absent to live to voided, an absent one is in no row and in no sum a worker holds, a live one at most once.

Why a ready wallet is right takes two more. `Undisturbed`: one worker loads, and only a wallet that is not loaded
(`Single`); what is left, when the daemon's transaction commits, of what it read (`Seen`: an owner it saw is still the
owner, but an address it saw unowned may have been claimed, an output recovered and the wallet settled since); a shielded
address is owned only once the row has keys (`ShieldedLast`); and from the end of the second sweep on nothing owned is
unowned and no transaction is open that read before the claim (`Swept`), for the daemon now sees the owner. `NoneWaits` follows. `Accounted` counts: an address that was paid has
a row (`Traced`), and the list a load sums has every live transparent output, of the shielded ones those the wallet owns, and
nothing that it does not own (`Covered`); a row of `address_balance` never has more than what its live outputs add to it
(`Kept`), each at most what it is worth, since a rewound output is added by the rebuild (`Rows`), and no less from the
rebuild on (`Rebuilt`); before the shielded side is ready only transparent outputs are in the wallet's row, so that an
upgrade may overwrite it (`NotYetShielded`), and a void that found the wallet not attributable leaves nothing in it
(`Uncredited`); between the lock and the settle the sums a worker holds stay what the addresses are worth, because the
daemon waits (`Settles`); and a ready wallet has every output but the late ones (`Credited`). A transaction that waited for
the locks and goes on with what it read before the settle puts its vertex in `late`. An accepted one is counted by the
next settle, so that the account goes on; a voided one is not, so that the induction is on `Timely => Accounted`, where
`Timely` says that nothing late was voided. `ReadyIsSummed` speaks of `late = {}`.
The hypotheses are again where the code ends, each with a behaviour that shows it (section 6). `Orderly`: no load
runs beside another or on a ready wallet (`again`), and an ingest that read before the claim is over before the second
sweep ends the window (`slowIngest`). `Plain`: moreover no void during an upgrade (`voidInUpgrade`). `WithinList` is a condition on the behaviour: no
transparent output is accepted for an address past the list of a load under way, which is the step that
`MCWalletLoad_block` and `MCWalletLoad_extended` refute it with. Addresses of any index may be paid before the first load
derives its list or when no load is under way, also when that extends the gap. `SmallWalletsSum` draws the consequence
without a condition on behaviours: every list has the first window (`AllFirstListed`, an invariant), so that `WithinList`
holds of itself where transparent outputs are paid to the first window only (`FirstWindow`, of the constants, true of the
instance of `load`). Workers
that crash, statements and invocations that fail, keys attached in the middle of a load, failures that cannot be recorded,
outputs that cannot be rewound and transactions that are rolled back are all allowed, in any number.

*BalanceRefresh.* A row of either table is at a *place*, an address or the wallet, and everything is said once of a
place: what a statement of a request does to the row of its place, and what the daemon's transaction does to it, are
lemmas (`Statements`, and those on `UnlockedAt`) that the four theorems share. `Types` holds what a request and an event
remember: a request has picked outputs exactly while it marks and updates, and an event that was read is still to come. That
the two columns keep their sum (`Balanced`) and that no lock is later than the expiry of its row (`Announced`) are
inductive given the types, under every crossing and every failure. `ExactUnlessCrossed` is not: it says nothing of the
moments at which a request is half way. `Calm` does, as long as nothing crossed and nobody died. No two have picked an
output in common, nor has one picked what the daemon touches (`Apart`); what is picked is unspent, and locked until it is
marked (`Marked`); what the daemon read is still so when it commits (`Held`); and `Columns` says of a row in the middle of
an update that its locked column is what is locked and what a request still owes it (`Owed`), and that its authorities may
lag behind by what has not been looked up again (`Unasked`). From it follows that no statement of a request leaves
the UNSIGNED range (`StatementInRange`) and that the daemon's transaction fits (`DaemonFits`). The theorems have no
hypothesis but `RefreshAssumption`: outputs and addresses are finite, and a reward has no timelock.

*Only model-checked.* Liveness (`Drains`, `UnsentAreReleased`, `Completes`, `NeverSilentForEver`, `OrphansReaped`,
`DeadForgotten`, and that `Implements` replays every event in the end), which is out of the prover's reach. Every
safety invariant and action property that a run checks is a theorem, under the hypotheses above.

## 6. What was found

`PROJECT.json` has an entry for the two that a run shows, with the code and what the repository says of it.

* `skip`: START_STREAM resumes after the last event *stored*, not the last one *handled*. A socket that closes
  under a handler leaves the rest of the event undone; a nano token stays that the reorg should have deleted.
* `timelock`: the query for expired timelocks does not ask whether an output is voided or spent; the balance
  goes below zero and the daemon stops at that block for good.

The configurations beside the runs show these:

* `MCSyncMachine_half`: two changes of one metadata event are two transactions, and the first already commits
  `last_event_id`: a crash between them leaves `first_block` wrong, although a test
  (`daemon/__tests__/services/services.test.ts:1360`) expects both to be processed.
* `MCSyncMachine_return`: VERTEX_REMOVED leaves the vertex's hash in the cache; the same vertex, accepted again, is
  ignored (`daemon/src/guards/index.ts:159-160` says ignored events have changed nothing).
* `MCTxLedger_authority`: voiding refreshes authorities before the inputs are unspent; an address loses an authority
  it still has (`daemon/src/db/index.ts:836`).
* `MCTxProposal_sent`: a POST checks marks before its transaction and takes them unconditionally: it can take over the
  marks of a proposal that has been sent.
* `MCMonitoring_longhandler`: with the default timeouts (idle 5 minutes, stuck an hour) a handler that needs longer
  than the idle timeout is ended with its process, and again after every restart, although
  `daemon/src/actors/MonitoringActor.ts:28-29` says that "a long-running handler (e.g. a large reorg) is allowed to
  finish"; the stuck alert can never be raised.
* `MCWalletLoad_caughtup`: a shielded output accepted before its wallet is loaded gets its row of `address_balance`
  from the load, with no count of transactions; the void of its vertex subtracts one from an UNSIGNED
  column and is refused for ever, although "those same rows must be reversed when the vertex is voided"
  (`daemon/src/services/index.ts:966`). No failure is needed.
* `MCWalletLoad_overlap`: shielded keys attached while a load that knows nothing of them is under way. That load sets
  the legacy side ready; if the new worker then cannot be invoked, or an older client's failed retry is the last to
  write, neither mark applies to what is left, and the wallet stays "creating": every later POST answers that it is
  loading.
* `MCWalletLoad_widened`: loadWallet does not ask whether the wallet is loaded already. A worker that settled and dies
  before it answers, or one that a second request queued, loads a ready wallet again; the window has grown, it claims
  more addresses and then fails. The mark is a no-op on a ready wallet, so nobody rewinds the outputs at the new
  addresses, although "one more (cheap when empty) sweep closes that window"
  (`wallet-service/src/api/wallet.ts:831`). With `ReadyIsSummed` instead the configuration shows that while the second load is at work the wallet is ready with
  addresses it has not summed.
* `MCWalletLoad_block`: addresses are derived in blocks of `max_gap`. An existing row in the last block, beyond the
  window, is claimed with the others but is not in the list that is locked and summed. When the vertices that made the
  row were voided and one pays it again during the load, the wallet gets ready without it, although "the locks make it
  wait until we're ready" (`api/wallet.ts:848`). No failure is needed.
* `MCWalletLoad_extended`: while a wallet is loaded its first address is used, the daemon extends the gap by an
  address that is not in the load's list (`daemon/src/services/index.ts:687-690`), and a vertex pays that one before
  the load settles: the wallet gets ready without it. No failure is needed here either.

* `MCWalletLoad_straddle`: the daemon's transaction took its snapshot before the settle, when the wallet was not
  attributable, waits for the row locks of the load, and then goes on with what it read: the vertex is credited to the
  address and not to the wallet, and is missing from its history until the next load, although "the locks make it wait
  until we're ready" (`api/wallet.ts:848`). A void does the same the other way round. No failure is needed.
* `MCWalletLoad_slow`: an ingest that read before the claim and commits after the second sweep leaves an unowned output
  of an owned address behind, although the second sweep "closes that window" (`api/wallet.ts:831`).
* `MCSyncMachine_removed`: a connection that closes under the service of a NEW event makes the daemon skip the vertex
  (`skip`). When that vertex is removed, handleVertexRemoved does not find its row and throws
  (`daemon/src/services/index.ts:854`); so it does after every restart, and no event after it is ever handled.
* `MCWsSubscriptions_early`: the key of a connection is written before API Gateway opens it
  (`wallet-service/src/redis.ts:64`, `ws/connection.ts:52-66`). A broadcast (`ws/admin.ts:40`) in between gets 410 Gone
  (`ws/utils.ts:84-86`) and starts endWsConnection for a client that is about to listen; the client joins
  meanwhile, the scan (`redis.ts:81-86`) finds the new key of the channel and deletes it: the client was told that it
  listens, its link is open, and nothing is ever sent to it. No failure is needed.

With other values of `Allowed` in `MCWalletLoad_load.cfg` and one property, `WalletLoad` shows also:

* `{"voidInUpgrade"}` with the legacy vertex voidable, `ReadyIsSummed`: a vertex voided while the wallet is not
  attributable keeps its row of `wallet_tx_history`, or its value in `wallet_balance`.
* `{"overlap", "again", "dbError"}`, `NoLoadLost`: as `overlap`, with a worker that fails.
* `{"requestDies"}` or `{"dbError", "markFails"}`, `NoLoadLost`: a lambda that dies after its write, or a failure
  that could not be recorded, leaves "creating" for ever; nothing retries it.

Noticed while modelling, in the model but without a property:

* A worker that fails during an upgrade leaves a ready legacy wallet not attributable: the daemon stops
  crediting its balance until somebody retries. The daemon's gap extension is a plain INSERT that fails on an
  address another load added; a
  vertex accepted between derivation and claim leaves the gap unextended. An output that could not be rewound and is
  reloaded is credited to its address before its wallet.
* Two balance requests, or one and the daemon, can unlock the same output: the second is refused by an UNSIGNED column
  or takes the value from other locked coins. A lambda that dies between two statements leaves rows unlocked and balances
  not; the daemon's later spending of them may be refused, and is retried for ever. `getLatestHeight`
  takes neither voided nor merged-mined blocks into account as the daemon does.
* An idle alert of an earlier connection, sent late, can end the process under a fresh one. `retryAttempt` is never
  reset: after ten reconnections each one waits ten seconds. CONNECTING has no timeout. The stuck timer starts again
  at each sub-state. Storms are forgotten at a restart.
* A join writes its key without asking whether the link is still open: an orphan, until a post to it fails. The branch
  of an administrator's disconnect that handles a connection that is gone may never run, since the SDK throws first
  (both outcomes are modelled). A transaction is announced, to sockets and to devices, before it is committed, and again
  when it is retried.
* A notification names a device and no wallet: one under way when the device changes wallets or turns amounts off
  still reaches it. MySQL leaves `updated_at` alone when an UPDATE changes nothing, so refreshing the same
  settings does not keep a row from the cron.

Noticed while reading, outside the models: `storeEvent` (`daemon/src/actions/index.ts`) looks for the id at
`event.id`, where it never is, so its check that ids go up never fails. After a run with failed batches the downloader
prints the error and exits with code 0. VERTEX_REMOVED asks only whether the row is there
(`daemon/src/services/index.ts:852-872`): of a vertex already voided it would take the amounts away a second time, and
`TxLedger` removes live vertices only (`Retracted`). The comment on reconnection storms says "more than" the threshold
(`MonitoringActor.ts:34-35`), while the code, its configuration and its test count the one that reaches it. A spender unvoided before the transaction it spends marks a voided row (1130). The
token counters and sequence numbers go up on accept and never down (`daemon/src/db/index.ts:1836`). Unvoiding does not
add the tokens back that voiding deleted (`services/index.ts:1058`). The token of a spent output is looked up in the
spender's own list (`daemon/src/utils/wallet.ts:537`). The cron cancels without looking whether the proposal was sent
meanwhile (`wallet-service/src/db/cronRoutines.ts:67`), and a second PUT may follow SEND_ERROR
(`api/txProposalSend.ts:105`), which compares inputs by transaction id only (113).

## 7. What is not modelled, and the plan

Left out for good: proxies, authentication, formatting, statistics and the scripts, which keep no state or
none that can go wrong; queries that only read; the cryptography of shielded outputs, which is data; stream and peer
identities, whose mismatch ends the machine in ERROR; the mempool's cleanup, which is not part of the running system
(`serverless.yml` declares no function for `onHandleOldVoidedTxs`, and `handleReorg` has no caller).

In the modelled parts: the token tables, shielded outputs and nano headers in `TxLedger`, whose next module would be
`TokenTables` (`token`, `token_creation` and the counters against nano executions taken back and vertices voided);
incrementAddressSeqnum next to the proposals; validateShieldedRegistration (it checks data) and changeAuthXpub (no balance
depends on it) in `WalletLoad`; voids in `BalanceRefresh`, which are in `TxLedger`; ownership of a wallet in a WebSocket
join, which the code leaves as a TODO.

What is left, in order: a condition on behaviours in place of `voidInUpgrade` in `ReadyHasItsSums`, as `WithinList` is one for
the window; and `TokenTables`.
