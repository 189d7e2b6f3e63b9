------------------------- MODULE EventDownloader -------------------------
(***************************************************************************)
(* The tool that copies the fullnode's events to SQLite                    *)
(* (packages/event-downloader).  A run asks for the latest event, splits   *)
(* 0..latest into batches and downloads a few of them at a time, each over *)
(* a WebSocket of its own.  Events are buffered in memory and written a    *)
(* few at a time; download_progress says where each batch may resume, in a *)
(* run that may use another BATCH_SIZE and see more events.                *)
(***************************************************************************)
EXTENDS Integers, FiniteSets

CONSTANTS MaxEvent,            \* bound: the stream ends here
          BatchSizes,          \* the values BATCH_SIZE takes from run to run
          ParallelConnections, WindowSize,
          FlushSize,           \* 10 in the code
          Hashed,              \* events with a transaction hash (extractTxHash)
          MaxFaults            \* bound: failed statements, sockets and crashes

ASSUME DownloaderAssumption ==
    /\ MaxEvent \in Nat /\ MaxFaults \in Nat
    /\ BatchSizes \subseteq Nat \ {0}
    /\ ParallelConnections \in Nat \ {0}
    /\ WindowSize \in Nat \ {0} /\ FlushSize \in Nat \ {0}
    /\ Hashed \subseteq Nat

Ids == 0..MaxEvent
None == -1    \* a null or undefined last_downloaded; also the event before the first

VARIABLES latest,    \* the fullnode's latest event
          events,    \* ids in table events
          txEvents,  \* ids in table tx_events
          progress,  \* download_progress: by batch_start
          run,       \* the process and what is left to start
          worker,    \* by the batch_start of the batch it downloads
          faults
vars == <<latest, events, txEvents, progress, run, worker, faults>>
tables == <<events, txEvents, progress>>

NoRow == [end |-> None, last |-> None, completed |-> FALSE]
NoWorker == [at |-> "none", end |-> None, last |-> None, sent |-> None, acked |-> None,
             since |-> 0, buffer |-> {}, txBuffer |-> {}]
NoRun == [at |-> "stopped", latest |-> None, pending |-> {}, failed |-> FALSE]

Init ==
    /\ latest = 0 /\ events = {} /\ txEvents = {}
    /\ progress = [b \in Ids |-> NoRow]
    /\ run = NoRun
    /\ worker = [b \in Ids |-> NoWorker]
    /\ faults = 0

FullnodeProduces ==
    /\ latest < MaxEvent /\ latest' = latest + 1
    /\ UNCHANGED <<events, txEvents, progress, run, worker, faults>>

---------------------------------------------------------------------------
(* Writing.  Each statement is a transaction of its own; "done" says how   *)
(* many of insertEvents, insertTxEvents and updateBatchProgress went       *)
(* through before one threw.  A crash in the middle leaves the same tables. *)

Outcomes == IF run.at # "running" THEN {0}    \* db.close
            ELSE IF faults < MaxFaults THEN 0..3 ELSE {3}
Counted(done) == faults' = IF run.at = "running" /\ done < 3 THEN faults + 1 ELSE faults

\* A mutant: progress is saved whether or not the events were.
SaveAnyway(b, w, done, row) ==
    /\ events' = IF done >= 1 THEN events \cup w.buffer ELSE events
    /\ txEvents' = IF done >= 2 THEN txEvents \cup w.txBuffer ELSE txEvents
    /\ progress' = [progress EXCEPT ![b] = row]
\* flushBuffers, then updateBatchProgress.
Save(b, w, done, row) ==
    /\ events' = IF done >= 1 THEN events \cup w.buffer ELSE events
    /\ txEvents' = IF done >= 2 THEN txEvents \cup w.txBuffer ELSE txEvents
    /\ progress' = IF done = 3 THEN [progress EXCEPT ![b] = row] ELSE progress
Unsaved(w, done) == [w EXCEPT !.buffer = IF done >= 1 THEN {} ELSE @,
                              !.txBuffer = IF done >= 2 THEN {} ELSE @]

Row(w, last, completed) == [end |-> w.end, last |-> last, completed |-> completed]

---------------------------------------------------------------------------
(* The orchestrator. *)

calculateBatches(size, last) ==
    {[start |-> b, end |-> IF b + size - 1 < last THEN b + size - 1 ELSE last] :
        b \in {i \in 0..last : i % size = 0}}

\* A mutant: a completed row covers the batch that starts with it, whatever its end.
ResumeTrustingStatus(b) ==
    IF progress[b.start].completed THEN b.end ELSE progress[b.start].last
\* Where a batch resumes; last_downloaded of a completed row is its batch_end.
resumeAt(b) ==
    LET row == progress[b.start] IN
    IF row.completed /\ row.end >= b.end THEN b.end
    ELSE IF row.completed THEN row.end ELSE row.last

mergeBatchesWithProgress(batches) ==
    {[start |-> b.start, end |-> b.end, last |-> resumeAt(b)] :
        b \in {b \in batches : resumeAt(b) < b.end}}

\* downloadAllEvents, to the first worker.
downloadAllEvents(size) ==
    LET pending == mergeBatchesWithProgress(calculateBatches(size, latest)) IN
    /\ run.at = "stopped"
    /\ run' = [at |-> IF pending = {} THEN "done" ELSE "running",
               latest |-> latest, pending |-> pending, failed |-> FALSE]
    /\ UNCHANGED <<latest, tables, worker, faults>>

Active == {b \in Ids : worker[b].at \in {"connecting", "streaming"}}

\* The next batch, in order.
NextBatch(p) == p \in run.pending /\ \A q \in run.pending : p.start <= q.start
\* lastEventId before any event.
FirstEventId(p) == IF p.last = None THEN p.start - 1 ELSE p.last

\* A mutant: the row starts over.
RowOfNewBatch(p) == [end |-> p.end, last |-> None, completed |-> FALSE]
RowOfBatch(p) == [end |-> p.end, last |-> p.last, completed |-> FALSE]

\* A slot of runWithConcurrency takes a batch: the row, then the socket.
runWorker(p) ==
    /\ run.at = "running" /\ NextBatch(p)
    /\ Cardinality(Active) < ParallelConnections
    /\ \/ /\ progress' = [progress EXCEPT ![p.start] = RowOfBatch(p)]
          /\ worker' = [worker EXCEPT ![p.start] =
                 [NoWorker EXCEPT !.at = "connecting", !.end = p.end, !.last = FirstEventId(p)]]
          /\ run' = [run EXCEPT !.pending = @ \ {p}]
          /\ UNCHANGED faults
       \/ /\ faults < MaxFaults /\ faults' = faults + 1
          /\ run' = [run EXCEPT !.pending = @ \ {p}, !.failed = TRUE]
          /\ UNCHANGED <<progress, worker>>
    /\ UNCHANGED <<latest, events, txEvents>>

EndRun ==
    /\ run.at = "running" /\ run.pending = {} /\ Active = {}
    /\ run' = [run EXCEPT !.at = IF run.failed THEN "failed" ELSE "done"]
    /\ UNCHANGED <<latest, tables, worker, faults>>

\* The process leaves, and with it the sockets that were still closing.
Exit ==
    /\ run.at \in {"done", "failed"}
    /\ run' = NoRun /\ worker' = [b \in Ids |-> NoWorker]
    /\ UNCHANGED <<latest, tables, faults>>

Crash ==
    /\ run.at # "stopped" /\ faults < MaxFaults
    /\ faults' = faults + 1
    /\ run' = NoRun /\ worker' = [b \in Ids |-> NoWorker]
    /\ UNCHANGED <<latest, tables>>

---------------------------------------------------------------------------
(* A worker and its socket. *)

\* onopen: START_STREAM after the last event the batch has.
Opens(b) ==
    /\ worker[b].at = "connecting"
    /\ worker' = [worker EXCEPT ![b] =
           [@ EXCEPT !.at = "streaming", !.sent = worker[b].last, !.acked = worker[b].last]]
    /\ UNCHANGED <<latest, tables, run, faults>>

\* The fullnode sends as long as fewer than window_size events wait for an ACK.
FullnodeSends(b) ==
    /\ worker[b].at = "streaming"
    /\ worker[b].sent < latest /\ worker[b].sent - worker[b].acked < WindowSize
    /\ worker' = [worker EXCEPT ![b].sent = @ + 1]
    /\ UNCHANGED <<latest, tables, run, faults>>

\* onEvent's buffers: event id has come.
Received(w, id) ==
    [w EXCEPT !.last = id, !.buffer = @ \cup {id}, !.txBuffer = @ \cup ({id} \cap Hashed)]
\* A mutant: one event too late.
AckPastWindow(w) == w.since + 1 > WindowSize
AckDue(w) == w.since + 1 >= WindowSize
\* The ACK; a socket that is closing sends nothing.
Acked(w) ==
    IF ~AckDue(w) THEN [w EXCEPT !.since = @ + 1]
    ELSE [w EXCEPT !.since = 0, !.acked = IF w.at = "streaming" THEN w.last ELSE @]

\* onmessage also serves a socket that is closing after a failure: only isDone stops it.
Delivers(b) == worker[b].at \in {"streaming", "closing"} /\ worker[b].last < worker[b].sent

\* onmessage, not the last event of the batch.  An error of the tables is swallowed.
onEvent(b) ==
    LET w == Received(worker[b], worker[b].last + 1) IN
    /\ Delivers(b) /\ w.last < w.end
    /\ IF Cardinality(w.buffer) < FlushSize
       THEN worker' = [worker EXCEPT ![b] = Acked(w)] /\ UNCHANGED <<tables, faults>>
       ELSE \E done \in Outcomes :
                /\ Save(b, w, done, Row(w, w.last, FALSE))
                /\ worker' = [worker EXCEPT ![b] = Acked(Unsaved(w, done))]
                /\ Counted(done)
    /\ UNCHANGED <<latest, run>>

\* onmessage, the last event: onComplete, and stop.  When FlushSize events are due,
\* onEvent has tried to write them first; what that leaves behind and the outcomes
\* here do not is a row that says all was downloaded, but not completed.
onComplete(b) ==
    LET w == Received(worker[b], worker[b].last + 1) IN
    /\ Delivers(b) /\ w.last >= w.end
    /\ \/ \E done \in Outcomes :
              /\ Save(b, w, done, Row(w, w.end, TRUE))
              /\ run' = [run EXCEPT !.failed = @ \/ done < 3]
              /\ Counted(done)
       \/ /\ Cardinality(w.buffer) >= FlushSize
          /\ run.at = "running" /\ faults < MaxFaults
          /\ Save(b, w, 3, Row(w, w.last, FALSE))
          /\ run' = [run EXCEPT !.failed = TRUE]
          /\ faults' = faults + 1
    /\ worker' = [worker EXCEPT ![b] = NoWorker]
    /\ UNCHANGED latest

\* A refused connection: onError with nothing to write but the row as it is, and stop.
Refused(b) ==
    /\ worker[b].at = "connecting" /\ faults < MaxFaults
    /\ worker' = [worker EXCEPT ![b] = NoWorker]
    /\ run' = [run EXCEPT !.failed = TRUE] /\ faults' = faults + 1
    /\ UNCHANGED <<latest, tables>>

\* A socket that breaks, or no activity for too long: onError, and stop.
onError(b) ==
    LET w == worker[b] IN
    /\ w.at = "streaming" /\ faults < MaxFaults
    /\ \E done \in 0..3 :
           /\ IF w.last >= b THEN Save(b, w, done, Row(w, w.last, FALSE)) ELSE UNCHANGED tables
           /\ worker' = [worker EXCEPT ![b] = [Unsaved(w, done) EXCEPT !.at = "closing"]]
    /\ run' = [run EXCEPT !.failed = TRUE] /\ faults' = faults + 1
    /\ UNCHANGED latest

Closes(b) ==
    /\ worker[b].at = "closing"
    /\ worker' = [worker EXCEPT ![b] = NoWorker]
    /\ UNCHANGED <<latest, tables, run, faults>>

Next ==
    \/ FullnodeProduces \/ EndRun \/ Exit \/ Crash
    \/ \E size \in BatchSizes : downloadAllEvents(size)
    \/ \E p \in run.pending : runWorker(p)
    \/ \E b \in Ids : \/ Opens(b) \/ FullnodeSends(b) \/ onEvent(b) \/ onComplete(b)
                      \/ Refused(b) \/ onError(b) \/ Closes(b)

Spec == Init /\ [][Next]_vars
\* Whoever runs the tool runs it again until it is done.
Fairness ==
    /\ WF_vars(\E size \in BatchSizes : downloadAllEvents(size))
    /\ WF_vars(\E p \in run.pending : runWorker(p)) /\ WF_vars(EndRun) /\ WF_vars(Exit)
    /\ \A b \in Ids : WF_vars(Opens(b)) /\ WF_vars(FullnodeSends(b)) /\ WF_vars(onEvent(b) \/ onComplete(b))
FairSpec == Spec /\ Fairness

---------------------------------------------------------------------------
(* Properties. *)

Batches == [start : Ids, end : Ids, last : {None} \cup Ids]
Rows == [end : {None} \cup Ids, last : {None} \cup Ids, completed : BOOLEAN]
Workers == [at : {"none", "connecting", "streaming", "closing"},
            end : {None} \cup Ids, last : {None} \cup Ids, sent : {None} \cup Ids,
            acked : {None} \cup Ids, since : 0..(WindowSize - 1),
            buffer : SUBSET Ids, txBuffer : SUBSET (Ids \cap Hashed)]

\* Tables, run and workers keep their shape; no batch reaches beyond what the
\* fullnode said there is, and no more than a window of events is on its way.
TypeOK ==
    /\ latest \in Ids /\ faults \in 0..MaxFaults
    /\ events \subseteq Ids /\ txEvents \subseteq Ids \cap Hashed
    /\ progress \in [Ids -> Rows]
    /\ run \in [at : {"stopped", "running", "done", "failed"}, latest : {None} \cup Ids,
                pending : SUBSET Batches, failed : BOOLEAN]
    /\ worker \in [Ids -> Workers]
    /\ \A p \in run.pending : p.end <= run.latest
    /\ \A b \in Ids : worker[b].end <= run.latest /\ worker[b].sent - worker[b].acked <= WindowSize

Stored(S) == S \subseteq events /\ S \cap Hashed \subseteq txEvents

\* A row never claims an event that is not in the tables: whatever statement fails,
\* whenever the process dies, and with messages that come after a failure.
ProgressIsStored ==
    \A b \in Ids :
        /\ Stored(b..progress[b].last)
        /\ progress[b].completed => Stored(b..progress[b].end)

\* "Download complete!" is the truth: every event up to the latest of the run, and
\* the hash of each, whatever batches earlier runs were cut into.
CompleteIsAll == run.at = "done" => Stored(0..run.latest)

\* What a run saved is not given up by a later one.
NeverGoesBack == [][\A b \in Ids : progress'[b].last >= progress[b].last]_vars

\* Run again and again, the tool gets there: no window stalls a worker.
Completes == []<>(run.at = "done")
=============================================================================
