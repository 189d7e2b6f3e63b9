---------------------- MODULE EventDownloaderProofs ----------------------
(***************************************************************************)
(* For any stream, any batch sizes from run to run, any windows and any    *)
(* number of workers and faults: tables keep their shape, a row never      *)
(* claims what is not stored nor goes back, and a run that ends well has   *)
(* everything.                                                             *)
(* None is inductive alone.  What a worker counted as received is stored   *)
(* or still in its buffers (Buffered), a batch waits with what it has      *)
(* stored (PendingStored), and what a run that has not failed lacks is in  *)
(* a batch that waits or is being downloaded (Remaining).                  *)
(***************************************************************************)
EXTENDS EventDownloader, TLAPS

\* Memory does not outlive the process.
Idle == run.at = "stopped" => \A b \in Ids : worker[b] = NoWorker

\* What is acknowledged was received, what is received was sent.
Windows == \A b \in Ids : worker[b].at \in {"streaming", "closing"} =>
               worker[b].acked <= worker[b].last /\ worker[b].last <= worker[b].sent

\* Event i is stored, or in the buffers of worker w.
Has(w, i) == /\ i \in events \/ i \in w.buffer
             /\ i \in Hashed => i \in txEvents \/ i \in w.txBuffer
Buffered == \A b \in Ids : worker[b].at # "none" => \A i \in b..worker[b].last : Has(worker[b], i)

PendingStored ==
    \A p \in run.pending : /\ Stored(p.start..p.last)
                           /\ worker[p.start].at = "none"
                           /\ \A q \in run.pending : q.start = p.start => q = p

Remaining ==
    run.at \in {"running", "done"} /\ ~run.failed =>
        \A i \in 0..run.latest :
            \/ Stored({i})
            \/ \E p \in run.pending : i \in p.start..p.end
            \/ \E b \in Active : i \in b..worker[b].end

\* Where a run is: batches wait only while it works; it is done only if nothing failed.
Stages ==
    /\ run.at # "running" => run.pending = {} /\ Active = {}
    /\ run.at = "done" => ~run.failed
    /\ \A b \in Ids : worker[b].at = "closing" => run.failed

Inv == /\ TypeOK /\ ProgressIsStored /\ Idle /\ Windows /\ Buffered
       /\ PendingStored /\ Remaining /\ Stages

USE DownloaderAssumption

LEMMA InitInv == Init => Inv
  <1> SUFFICES ASSUME Init PROVE Inv
    OBVIOUS
  <1> USE DEF Init, Ids, None, NoRow, NoRun, NoWorker
  <1>1. TypeOK
    BY DEF TypeOK, Rows, Workers, Batches
  <1>2. ProgressIsStored /\ Idle /\ Windows /\ Buffered
    BY DEF ProgressIsStored, Stored, Idle, Windows, Buffered
  <1>3. PendingStored /\ Remaining /\ Stages
    BY DEF PendingStored, Remaining, Stages, Active
  <1> QED BY <1>1, <1>2, <1>3 DEF Inv

(* What the operators do to a worker's record, field by field. *)
LEMMA UnsavedFields ==
    ASSUME NEW w \in Workers, NEW done \in 0..3
    PROVE  /\ Unsaved(w, done) \in Workers
           /\ Unsaved(w, done).at = w.at /\ Unsaved(w, done).end = w.end
           /\ Unsaved(w, done).last = w.last /\ Unsaved(w, done).sent = w.sent
           /\ Unsaved(w, done).acked = w.acked /\ Unsaved(w, done).since = w.since
           /\ Unsaved(w, done).buffer = IF done >= 1 THEN {} ELSE w.buffer
           /\ Unsaved(w, done).txBuffer = IF done >= 2 THEN {} ELSE w.txBuffer
  <1>1. Unsaved(w, done) = [w EXCEPT !.buffer = IF done >= 1 THEN {} ELSE w.buffer,
                                     !.txBuffer = IF done >= 2 THEN {} ELSE w.txBuffer]
    BY DEF Unsaved
  <1>2. /\ Unsaved(w, done).at = w.at /\ Unsaved(w, done).end = w.end
        /\ Unsaved(w, done).last = w.last /\ Unsaved(w, done).sent = w.sent
        /\ Unsaved(w, done).acked = w.acked /\ Unsaved(w, done).since = w.since
    BY <1>1 DEF Workers
  <1> QED BY <1>1, <1>2 DEF Workers

LEMMA ReceivedFields ==
    ASSUME NEW w \in Workers, NEW id \in Ids
    PROVE  /\ Received(w, id) \in Workers
           /\ Received(w, id).at = w.at /\ Received(w, id).end = w.end
           /\ Received(w, id).last = id /\ Received(w, id).sent = w.sent
           /\ Received(w, id).acked = w.acked /\ Received(w, id).since = w.since
           /\ Received(w, id).buffer = w.buffer \cup {id}
           /\ Received(w, id).txBuffer = w.txBuffer \cup ({id} \cap Hashed)
  BY DEF Received, Workers

LEMMA AckedFields ==
    ASSUME NEW w \in Workers
    PROVE  /\ Acked(w) \in Workers
           /\ Acked(w).at = w.at /\ Acked(w).end = w.end
           /\ Acked(w).last = w.last /\ Acked(w).sent = w.sent
           /\ Acked(w).acked \in {w.acked, w.last}
           /\ Acked(w).buffer = w.buffer /\ Acked(w).txBuffer = w.txBuffer
  <1>1. CASE ~AckDue(w)
    <2>1. w.since + 1 \in 0..(WindowSize - 1)
      BY <1>1 DEF AckDue, Workers
    <2>2. Acked(w) = [w EXCEPT !.since = w.since + 1]
      BY <1>1 DEF Acked, Workers
    <2> QED BY <2>1, <2>2 DEF Workers
  <1>2. CASE AckDue(w)
    <2> DEFINE told == IF w.at = "streaming" THEN w.last ELSE w.acked
    <2>1. Acked(w) = [[w EXCEPT !.since = 0] EXCEPT !.acked = told]
      BY <1>2 DEF Acked, Workers
    <2>2. told \in {None} \cup Ids /\ told \in {w.acked, w.last}
      BY DEF Workers
    <2>3. [w EXCEPT !.since = 0] \in Workers
      BY DEF Workers
    <2> HIDE DEF told
    <2> QED BY <2>1, <2>2, <2>3 DEF Workers
  <1> QED BY <1>1, <1>2

\* What is stored stays stored.
LEMMA StoredGrows ==
    ASSUME events \subseteq events', txEvents \subseteq txEvents', NEW S, Stored(S)
    PROVE  Stored(S)'
  BY DEF Stored

\* What a flush, complete or not, does with a worker's events.
LEMMA SaveKeeps ==
    ASSUME TypeOK, NEW b \in Ids, NEW w \in Workers, NEW done \in 0..3, NEW row \in Rows,
           Save(b, w, done, row)
    PROVE  /\ events \subseteq events' /\ events' \subseteq Ids
           /\ txEvents \subseteq txEvents' /\ txEvents' \subseteq Ids \cap Hashed
           /\ progress' \in [Ids -> Rows]
           /\ \A c \in Ids : progress'[c] = IF c = b /\ done = 3 THEN row ELSE progress[c]
           /\ \A i : Has(w, i) => Has(Unsaved(w, done), i)'
  <1>1. w.buffer \subseteq Ids /\ w.txBuffer \subseteq Ids \cap Hashed
    BY DEF Workers
  <1>2. /\ events' = IF done >= 1 THEN events \cup w.buffer ELSE events
        /\ txEvents' = IF done >= 2 THEN txEvents \cup w.txBuffer ELSE txEvents
        /\ progress' = IF done = 3 THEN [progress EXCEPT ![b] = row] ELSE progress
    BY DEF Save
  <1>3. /\ progress' \in [Ids -> Rows]
        /\ \A c \in Ids : progress'[c] = IF c = b /\ done = 3 THEN row ELSE progress[c]
    BY <1>2 DEF TypeOK
  <1>4. \A i : Has(w, i) => Has(Unsaved(w, done), i)'
    BY <1>2, UnsavedFields DEF Has
  <1> QED BY <1>1, <1>2, <1>3, <1>4 DEF TypeOK

\* A complete flush stores all that was received.
LEMMA FlushStores ==
    ASSUME NEW b \in Ids, NEW w \in Workers, NEW done \in 0..3, NEW row,
           Save(b, w, done, row), done = 3, NEW S, \A i \in S : Has(w, i)
    PROVE  Stored(S)'
  <1>1. events' = events \cup w.buffer /\ txEvents' = txEvents \cup w.txBuffer
    BY DEF Save
  <1> QED BY <1>1 DEF Has, Stored

(* A step of one worker: its record becomes v, and the tables only grow. *)
LEMMA WorkerStep ==
    ASSUME Inv, NEW b \in Ids, NEW v \in Workers, worker[b].at # "none",
           worker' = [worker EXCEPT ![b] = v], latest' = latest, faults' \in 0..MaxFaults,
           events \subseteq events', events' \subseteq Ids,
           txEvents \subseteq txEvents', txEvents' \subseteq Ids \cap Hashed,
           progress' \in [Ids -> Rows], \A c \in Ids \ {b} : progress'[c] = progress[c],
           Stored(b..progress[b].last)',
           progress'[b].completed => Stored(b..progress[b].end)',
           NEW failed \in BOOLEAN, run.failed => failed,
           run' = [at |-> run.at, latest |-> run.latest, pending |-> run.pending, failed |-> failed],
           v.end <= run.latest, v.sent - v.acked <= WindowSize,
           v.at \in {"streaming", "closing"} => v.acked <= v.last /\ v.last <= v.sent,
           v.at # "none" => \A i \in b..v.last : Has(v, i)',
           v.at \in {"connecting", "streaming"} => b \in Active,
           v.at = "closing" => failed,
           NEW batch, batch = b..worker[b].end,
           ~failed /\ b \in Active =>
               \/ v.at \in {"connecting", "streaming"} /\ v.end = worker[b].end
               \/ Stored(batch)'
    PROVE  Inv'
  <1>1. \A c \in Ids : worker'[c] = IF c = b THEN v ELSE worker[c]
    BY DEF Inv, TypeOK
  <1>2. run'.at = run.at /\ run'.latest = run.latest /\ run'.pending = run.pending /\ run'.failed = failed
    OBVIOUS
  <1>3. run.at # "stopped"
    BY DEF Inv, Idle, NoWorker
  <1>4. TypeOK'
    <2>1. run' \in [at : {"stopped", "running", "done", "failed"}, latest : {None} \cup Ids,
                    pending : SUBSET Batches, failed : BOOLEAN]
      BY DEF Inv, TypeOK
    <2>2. worker' \in [Ids -> Workers]
      BY DEF Inv, TypeOK
    <2>3. \A p \in run'.pending : p.end <= run'.latest
      BY <1>2 DEF Inv, TypeOK
    <2>4. \A c \in Ids : worker'[c].end <= run'.latest /\ worker'[c].sent - worker'[c].acked <= WindowSize
      BY <1>1, <1>2 DEF Inv, TypeOK
    <2>5. latest' \in Ids
      BY DEF Inv, TypeOK
    <2> QED BY <2>1, <2>2, <2>3, <2>4, <2>5 DEF TypeOK
  <1>5. ProgressIsStored'
    <2> SUFFICES ASSUME NEW c \in Ids
                 PROVE  /\ Stored(c..progress[c].last)'
                        /\ (progress[c].completed => Stored(c..progress[c].end))'
      BY DEF ProgressIsStored
    <2>1. CASE c = b BY <2>1
    <2>2. CASE c # b
      <3>1. progress'[c] = progress[c]
        BY <2>2
      <3>2. Stored(c..progress[c].last) /\ (progress[c].completed => Stored(c..progress[c].end))
        BY DEF Inv, ProgressIsStored
      <3> QED BY <3>1, <3>2 DEF Stored
    <2> QED BY <2>1, <2>2
  <1>6. Idle' /\ Windows'
    BY <1>1, <1>2, <1>3 DEF Inv, Idle, Windows
  <1>7. Buffered'
    <2> SUFFICES ASSUME NEW c \in Ids, worker'[c].at # "none", NEW i \in c..worker'[c].last
                 PROVE  Has(worker[c], i)'
      BY DEF Buffered
    <2>1. CASE c = b BY <2>1, <1>1 DEF Has
    <2>2. CASE c # b BY <2>2, <1>1 DEF Inv, Buffered, Has
    <2> QED BY <2>1, <2>2
  <1>8. PendingStored'
    <2> SUFFICES ASSUME NEW p \in run.pending
                 PROVE  /\ Stored(p.start..p.last)'
                        /\ worker'[p.start].at = "none"
                        /\ \A q \in run.pending : q.start = p.start => q = p
      BY <1>2 DEF PendingStored
    <2>1. Stored(p.start..p.last) /\ worker[p.start].at = "none" /\ p.start # b
      BY DEF Inv, PendingStored
    <2>2. p.start \in Ids
      BY DEF Inv, TypeOK, Batches
    <2> QED BY <1>1, <2>1, <2>2, StoredGrows DEF Inv, PendingStored
  <1>9. Active' = {c \in Ids : IF c = b THEN v.at \in {"connecting", "streaming"} ELSE c \in Active}
    BY <1>1 DEF Active
  <1>10. Remaining'
    <2> SUFFICES ASSUME run.at \in {"running", "done"}, ~failed, NEW i \in 0..run.latest
                 PROVE  \/ Stored({i})'
                        \/ \E p \in run.pending : i \in p.start..p.end
                        \/ \E c \in Active' : i \in c..worker'[c].end
      BY <1>2 DEF Remaining
    <2>1. \/ Stored({i})
          \/ \E p \in run.pending : i \in p.start..p.end
          \/ \E c \in Active : i \in c..worker[c].end
      BY DEF Inv, Remaining
    <2>2. CASE Stored({i}) BY <2>2, StoredGrows
    <2>3. CASE \E c \in Active : i \in c..worker[c].end
      <3>1. PICK c \in Active : i \in c..worker[c].end
        BY <2>3
      <3>2. c \in Ids
        BY DEF Active
      <3>3. CASE c # b
        <4>1. c \in Active' /\ worker'[c] = worker[c]
          BY <3>1, <3>2, <3>3, <1>1, <1>9
        <4> QED BY <3>1, <4>1
      <3>4. CASE c = b /\ v.at \in {"connecting", "streaming"} /\ v.end = worker[b].end
        <4>1. c \in Active' /\ worker'[c].end = worker[c].end
          BY <3>2, <3>4, <1>1, <1>9
        <4> QED BY <3>1, <4>1
      <3>5. CASE c = b /\ Stored(batch)'
        <4>1. Stored({i})'
          BY <3>1, <3>5 DEF Stored
        <4> QED BY <4>1
      <3>6. c = b => b \in Active
        BY <3>1
      <3> QED BY <3>3, <3>4, <3>5, <3>6
    <2>4. CASE \E p \in run.pending : i \in p.start..p.end BY <2>4
    <2> QED BY <2>1, <2>2, <2>3, <2>4
  <1>11. Stages'
    <2>1. run.at # "running" => run.pending = {} /\ Active' = {}
      BY <1>9 DEF Inv, Stages
    <2>2. run.at # "done"
      <3>1. worker[b].at \in {"connecting", "streaming", "closing"}
        BY DEF Inv, TypeOK, Workers
      <3>2. worker[b].at = "closing" => run.failed
        BY DEF Inv, Stages
      <3> QED BY <3>1, <3>2 DEF Inv, Stages, Active
    <2>3. \A c \in Ids : worker'[c].at = "closing" => failed
      BY <1>1 DEF Inv, Stages
    <2> QED BY <1>2, <2>1, <2>2, <2>3 DEF Stages
  <1> QED BY <1>4, <1>5, <1>6, <1>7, <1>8, <1>10, <1>11 DEF Inv

LEMMA FailedRun ==
    ASSUME TypeOK, NEW failed \in BOOLEAN, run' = [run EXCEPT !.failed = failed]
    PROVE  run' = [at |-> run.at, latest |-> run.latest, pending |-> run.pending, failed |-> failed]
  BY DEF TypeOK

LEMMA SameRun ==
    ASSUME TypeOK
    PROVE  /\ run.failed \in BOOLEAN
           /\ run = [at |-> run.at, latest |-> run.latest, pending |-> run.pending, failed |-> run.failed]
  BY DEF TypeOK

\* A step of a worker that writes nothing.
LEMMA QuietStep ==
    ASSUME Inv, NEW b \in Ids, NEW v \in Workers, worker[b].at # "none",
           worker' = [worker EXCEPT ![b] = v], UNCHANGED <<latest, tables>>, faults' \in 0..MaxFaults,
           NEW failed \in BOOLEAN, run.failed => failed,
           run' = [at |-> run.at, latest |-> run.latest, pending |-> run.pending, failed |-> failed],
           v.end <= run.latest, v.sent - v.acked <= WindowSize,
           v.at \in {"streaming", "closing"} => v.acked <= v.last /\ v.last <= v.sent,
           v.at # "none" => \A i \in b..v.last : Has(v, i),
           v.at \in {"connecting", "streaming"} => b \in Active,
           v.at = "closing" => failed,
           ~failed /\ b \in Active => v.at \in {"connecting", "streaming"} /\ v.end = worker[b].end
    PROVE  Inv'
  <1>1. UNCHANGED <<events, txEvents, progress>>
    BY DEF tables
  <1>2. /\ Stored(b..progress[b].last)'
        /\ progress'[b].completed => Stored(b..progress[b].end)'
    BY <1>1 DEF Inv, ProgressIsStored, Stored
  <1>3. events' \subseteq Ids /\ txEvents' \subseteq Ids \cap Hashed /\ progress' \in [Ids -> Rows]
    BY <1>1 DEF Inv, TypeOK
  <1>4. v.at # "none" => \A i \in b..v.last : Has(v, i)'
    BY <1>1 DEF Has
  <1> DEFINE batch == b..worker[b].end
  <1>5. batch = b..worker[b].end
    OBVIOUS
  <1> HIDE DEF batch
  <1> QED BY <1>1, <1>2, <1>3, <1>4, <1>5, WorkerStep

\* A worker's record as the invariant gives it.
LEMMA RecordFacts ==
    ASSUME Inv, NEW b \in Ids
    PROVE  /\ worker[b] \in Workers /\ worker[b].end <= run.latest
           /\ worker[b].sent - worker[b].acked <= WindowSize
           /\ worker[b].at \in {"streaming", "closing"} =>
                  worker[b].acked <= worker[b].last /\ worker[b].last <= worker[b].sent
           /\ worker[b].at # "none" => \A i \in b..worker[b].last : Has(worker[b], i)
           /\ worker[b].at \in {"connecting", "streaming"} <=> b \in Active
           /\ worker[b].at = "closing" => run.failed
           /\ run.latest \in {None} \cup Ids /\ latest \in Ids /\ faults \in 0..MaxFaults
  BY DEF Inv, TypeOK, Windows, Buffered, Active, Stages

LEMMA NoWorkerFacts == NoWorker \in Workers /\ NoWorker.end = None /\ NoWorker.sent - NoWorker.acked = 0
                       /\ NoWorker.at = "none"
  BY DEF NoWorker, Workers, None

LEMMA OpenedFields ==
    ASSUME NEW w \in Workers, NEW v, v = [w EXCEPT !.at = "streaming", !.sent = w.last, !.acked = w.last]
    PROVE  /\ v \in Workers /\ v.at = "streaming" /\ v.end = w.end
           /\ v.last = w.last /\ v.sent = w.last /\ v.acked = w.last
           /\ v.buffer = w.buffer /\ v.txBuffer = w.txBuffer
  BY DEF Workers

LEMMA OpensInv ==
    ASSUME Inv, NEW b \in Ids, Opens(b)
    PROVE  Inv'
  <1> DEFINE w == worker[b]
  <1>0. PICK v : v = [w EXCEPT !.at = "streaming", !.sent = w.last, !.acked = w.last]
    OBVIOUS
  <1>1. worker' = [worker EXCEPT ![b] = v]
    BY <1>0 DEF Opens
  <1>2. /\ v \in Workers /\ v.at = "streaming" /\ v.end = w.end
        /\ v.last = w.last /\ v.sent = w.last /\ v.acked = w.last
        /\ v.buffer = w.buffer /\ v.txBuffer = w.txBuffer
    <2>1. w \in Workers
      BY RecordFacts
    <2> HIDE DEF w
    <2> QED BY <1>0, <2>1, OpenedFields
  <1>3. \A i \in b..v.last : Has(v, i)
    BY <1>2, RecordFacts DEF Opens, Has
  <1>4. v.sent - v.acked <= WindowSize /\ v.acked <= v.last /\ v.last <= v.sent
    BY <1>2, RecordFacts DEF Workers, Ids, None
  <1>5. /\ w.at = "connecting" /\ UNCHANGED <<latest, tables, run, faults>>
        /\ w.end <= run.latest /\ b \in Active /\ faults' \in 0..MaxFaults
    BY RecordFacts DEF Opens
  <1> QED BY <1>1, <1>2, <1>3, <1>4, <1>5, SameRun, QuietStep DEF Inv

LEMMA FullnodeSendsInv ==
    ASSUME Inv, NEW b \in Ids, FullnodeSends(b)
    PROVE  Inv'
  <1> DEFINE w == worker[b]
  <1> DEFINE v == [w EXCEPT !.sent = w.sent + 1]
  <1>1. worker' = [worker EXCEPT ![b] = v]
    BY RecordFacts DEF FullnodeSends, Workers, Inv, TypeOK
  <1>2. w.sent + 1 \in Ids
    BY RecordFacts DEF FullnodeSends, Workers, Ids, None
  <1>3. /\ v \in Workers /\ v.at = w.at /\ v.end = w.end /\ v.last = w.last /\ v.sent = w.sent + 1
        /\ v.acked = w.acked /\ v.buffer = w.buffer /\ v.txBuffer = w.txBuffer
    BY <1>2, RecordFacts DEF Workers
  <1> HIDE DEF v
  <1>4. \A i \in b..v.last : Has(v, i)
    BY <1>3, RecordFacts DEF FullnodeSends, Has
  <1>5. v.sent - v.acked <= WindowSize /\ v.acked <= v.last /\ v.last <= v.sent
    BY <1>3, RecordFacts DEF FullnodeSends, Workers, Ids, None
  <1>6. /\ v.at = "streaming" /\ UNCHANGED <<latest, tables, run, faults>>
        /\ w.end <= run.latest /\ b \in Active /\ faults' \in 0..MaxFaults
    BY <1>3, RecordFacts DEF FullnodeSends
  <1> QED BY <1>1, <1>3, <1>4, <1>5, <1>6, SameRun, QuietStep DEF Inv

LEMMA ClosesInv ==
    ASSUME Inv, NEW b \in Ids, Closes(b)
    PROVE  Inv'
  <1>1. /\ worker[b].at = "closing" /\ worker' = [worker EXCEPT ![b] = NoWorker]
        /\ UNCHANGED <<latest, tables, run, faults>> /\ faults' \in 0..MaxFaults
    BY RecordFacts DEF Closes
  <1>2. b \notin Active /\ None <= run.latest /\ 0 <= WindowSize
    BY <1>1, RecordFacts DEF Ids, None
  <1> QED BY <1>1, <1>2, NoWorkerFacts, SameRun, QuietStep DEF Inv

LEMMA RefusedInv ==
    ASSUME Inv, NEW b \in Ids, Refused(b)
    PROVE  Inv'
  <1>1. /\ worker[b].at = "connecting" /\ worker' = [worker EXCEPT ![b] = NoWorker]
        /\ UNCHANGED <<latest, tables>> /\ faults' = faults + 1 /\ faults < MaxFaults
        /\ run' = [run EXCEPT !.failed = TRUE]
    BY DEF Refused
  <1>2. None <= run.latest /\ 0 <= WindowSize /\ faults' \in 0..MaxFaults
    BY <1>1, RecordFacts DEF Ids, None
  <1>3. PICK failed \in BOOLEAN : failed = TRUE
    OBVIOUS
  <1>4. run' = [at |-> run.at, latest |-> run.latest, pending |-> run.pending, failed |-> failed]
    BY <1>1, <1>3, FailedRun DEF Inv
  <1> QED BY <1>1, <1>2, <1>3, <1>4, NoWorkerFacts, QuietStep

(* Events that come. *)

\* The worker's record once the next event is in its buffers.
LEMMA ReceivedFacts ==
    ASSUME Inv, NEW b \in Ids, Delivers(b), NEW w, w = Received(worker[b], worker[b].last + 1)
    PROVE  /\ w \in Workers /\ w.at = worker[b].at /\ w.end = worker[b].end
           /\ w.sent = worker[b].sent /\ w.acked = worker[b].acked
           /\ w.last \in Ids /\ w.acked <= w.last /\ w.last <= w.sent
           /\ w.at \in {"streaming", "closing"} /\ w.at # "none"
           /\ \A i \in b..w.last : Has(w, i)
  <1>1. worker[b].last + 1 \in Ids
    BY RecordFacts DEF Delivers, Workers, Ids, None
  <1>2. worker[b] \in Workers
    BY RecordFacts
  <1>3. /\ w \in Workers /\ w.at = worker[b].at /\ w.end = worker[b].end
        /\ w.last = worker[b].last + 1 /\ w.sent = worker[b].sent /\ w.acked = worker[b].acked
        /\ w.buffer = worker[b].buffer \cup {worker[b].last + 1}
        /\ w.txBuffer = worker[b].txBuffer \cup ({worker[b].last + 1} \cap Hashed)
    BY <1>1, <1>2, ReceivedFields
  <1>4. w.acked <= w.last /\ w.last <= w.sent
    BY <1>3, RecordFacts DEF Delivers, Workers, Ids, None
  <1>5. ASSUME NEW i \in b..w.last PROVE Has(w, i)
    <2>1. i \in b..worker[b].last \/ i = worker[b].last + 1
      BY <1>3, <1>2, SMTT(30) DEF Workers, Ids, None
    <2>2. CASE i \in b..worker[b].last
      BY <2>2, <1>3, RecordFacts DEF Delivers, Has
    <2>3. CASE i = worker[b].last + 1
      BY <2>3, <1>3 DEF Has
    <2> QED BY <2>1, <2>2, <2>3
  <1> QED BY <1>1, <1>3, <1>4, <1>5 DEF Delivers

LEMMA CountedFaults ==
    ASSUME Inv, NEW done \in Outcomes, Counted(done)
    PROVE  done \in 0..3 /\ faults' \in 0..MaxFaults
  BY RecordFacts DEF Outcomes, Counted, Inv, TypeOK

\* A flush that only lets the tables grow keeps what the row of the batch says.
LEMMA RowKept ==
    ASSUME Inv, NEW b \in Ids, events \subseteq events', txEvents \subseteq txEvents',
           progress'[b] = progress[b]
    PROVE  /\ Stored(b..progress[b].last)'
           /\ progress'[b].completed => Stored(b..progress[b].end)'
  BY DEF Inv, ProgressIsStored, Stored

LEMMA RowFields ==
    ASSUME NEW w \in Workers, NEW last \in {None} \cup Ids, NEW completed \in BOOLEAN
    PROVE  /\ Row(w, last, completed) \in Rows /\ Row(w, last, completed).end = w.end
           /\ Row(w, last, completed).last = last /\ Row(w, last, completed).completed = completed
  BY DEF Row, Rows, Workers

LEMMA onEventInv ==
    ASSUME Inv, NEW b \in Ids, onEvent(b)
    PROVE  Inv'
  <1>1. PICK w : w = Received(worker[b], worker[b].last + 1)
    OBVIOUS
  <1>2. Delivers(b) /\ UNCHANGED <<latest, run>>
    BY DEF onEvent
  <1>3. /\ w \in Workers /\ w.at = worker[b].at /\ w.end = worker[b].end
        /\ w.sent = worker[b].sent /\ w.acked = worker[b].acked
        /\ w.last \in Ids /\ w.acked <= w.last /\ w.last <= w.sent
        /\ w.at \in {"streaming", "closing"} /\ w.at # "none"
        /\ \A i \in b..w.last : Has(w, i)
    BY <1>1, <1>2, ReceivedFacts
  <1>4. /\ w.end <= run.latest /\ w.sent - w.acked <= WindowSize
        /\ w.at = "closing" => run.failed
        /\ w.at \in {"connecting", "streaming"} <=> b \in Active
    BY <1>3, RecordFacts
  <1>5. ASSUME NEW x \in Workers, x.at = w.at, x.end = w.end, x.last = w.last, x.sent = w.sent,
               x.acked = w.acked, NEW v, v = Acked(x)
        PROVE  /\ v \in Workers /\ v.at = w.at /\ v.end = w.end /\ v.last = w.last
               /\ v.buffer = x.buffer /\ v.txBuffer = x.txBuffer
               /\ v.acked <= v.last /\ v.last <= v.sent /\ v.sent - v.acked <= WindowSize
    <2>1. /\ v \in Workers /\ v.at = w.at /\ v.end = w.end /\ v.last = w.last /\ v.sent = w.sent
          /\ v.acked \in {w.acked, w.last} /\ v.buffer = x.buffer /\ v.txBuffer = x.txBuffer
      BY <1>5, AckedFields
    <2>2. w.sent \in Int /\ w.acked \in Int /\ w.last \in Int
      BY <1>3 DEF Workers, Ids, None
    <2> QED BY <2>1, <2>2, <1>3, <1>4
  <1>6. CASE Cardinality(w.buffer) < FlushSize
    <2>1. worker' = [worker EXCEPT ![b] = Acked(w)] /\ UNCHANGED <<tables, faults>>
      BY <1>1, <1>6 DEF onEvent
    <2>2. PICK v : v = Acked(w)
      OBVIOUS
    <2>3. /\ v \in Workers /\ v.at = w.at /\ v.end = w.end /\ v.last = w.last
          /\ v.buffer = w.buffer /\ v.txBuffer = w.txBuffer
          /\ v.acked <= v.last /\ v.last <= v.sent /\ v.sent - v.acked <= WindowSize
      BY <2>2, <1>3, <1>5
    <2>4. \A i \in b..v.last : Has(v, i)
      BY <1>3, <2>3 DEF Has
    <2>5. faults' \in 0..MaxFaults
      BY <2>1, RecordFacts
    <2> QED BY <2>1, <2>2, <2>3, <2>4, <2>5, <1>2, <1>3, <1>4, SameRun, QuietStep DEF Inv
  <1>7. CASE ~(Cardinality(w.buffer) < FlushSize)
    <2>1. PICK done \in Outcomes : /\ Save(b, w, done, Row(w, w.last, FALSE))
                                   /\ worker' = [worker EXCEPT ![b] = Acked(Unsaved(w, done))]
                                   /\ Counted(done)
      BY <1>1, <1>7 DEF onEvent
    <2>2. done \in 0..3 /\ faults' \in 0..MaxFaults
      BY <2>1, CountedFaults
    <2>3. PICK completed \in BOOLEAN : completed = FALSE
      OBVIOUS
    <2>4. PICK row : row = Row(w, w.last, completed)
      OBVIOUS
    <2>5. row \in Rows /\ row.last = w.last /\ row.completed = completed
      BY <1>3, <2>4, RowFields
    <2>6. PICK x : x = Unsaved(w, done)
      OBVIOUS
    <2>7. x \in Workers /\ x.at = w.at /\ x.end = w.end /\ x.last = w.last /\ x.sent = w.sent /\ x.acked = w.acked
      BY <1>3, <2>2, <2>6, UnsavedFields
    <2>8. PICK v : v = Acked(x)
      OBVIOUS
    <2>9. /\ v \in Workers /\ v.at = w.at /\ v.end = w.end /\ v.last = w.last
          /\ v.buffer = x.buffer /\ v.txBuffer = x.txBuffer
          /\ v.acked <= v.last /\ v.last <= v.sent /\ v.sent - v.acked <= WindowSize
      BY <2>7, <2>8, <1>5
    <2>10. Save(b, w, done, row)
      BY <2>1, <2>3, <2>4
    <2>11. /\ events \subseteq events' /\ events' \subseteq Ids
           /\ txEvents \subseteq txEvents' /\ txEvents' \subseteq Ids \cap Hashed
           /\ progress' \in [Ids -> Rows]
           /\ \A c \in Ids : progress'[c] = IF c = b /\ done = 3 THEN row ELSE progress[c]
           /\ \A i : Has(w, i) => Has(x, i)'
           /\ done = 3 => Stored(b..w.last)'
      <3>1. PICK S : S = b..w.last
        OBVIOUS
      <3>2. done = 3 => Stored(S)'
        BY <1>3, <2>2, <2>10, <3>1, FlushStores
      <3>3. /\ events \subseteq events' /\ events' \subseteq Ids
            /\ txEvents \subseteq txEvents' /\ txEvents' \subseteq Ids \cap Hashed
            /\ progress' \in [Ids -> Rows]
            /\ \A c \in Ids : progress'[c] = IF c = b /\ done = 3 THEN row ELSE progress[c]
            /\ \A i : Has(w, i) => Has(Unsaved(w, done), i)'
        BY <1>3, <2>2, <2>5, <2>10, SaveKeeps DEF Inv
      <3> QED BY <2>6, <3>1, <3>2, <3>3
    <2>12. \A i \in b..v.last : Has(v, i)'
      BY <1>3, <2>9, <2>11 DEF Has
    <2>13. /\ Stored(b..progress[b].last)'
           /\ progress'[b].completed => Stored(b..progress[b].end)'
      <3>1. CASE done = 3
        <4>1. progress'[b].last = w.last /\ ~progress'[b].completed
          BY <2>3, <2>5, <2>11, <3>1
        <4> QED BY <2>11, <3>1, <4>1
      <3>2. CASE done # 3
        BY <2>11, <3>2, RowKept
      <3> QED BY <3>1, <3>2
    <2>14. PICK batch : batch = b..worker[b].end
      OBVIOUS
    <2>15. worker' = [worker EXCEPT ![b] = v]
      BY <2>1, <2>6, <2>8
    <2>16. PICK failed \in BOOLEAN : failed = run.failed
      BY SameRun DEF Inv
    <2>17. /\ run' = [at |-> run.at, latest |-> run.latest, pending |-> run.pending, failed |-> failed]
           /\ latest' = latest /\ (run.failed => failed)
      BY <1>2, <2>16, SameRun DEF Inv
    <2>18. /\ worker[b].at # "none" /\ v.end <= run.latest
           /\ v.at \in {"streaming", "closing"} => v.acked <= v.last /\ v.last <= v.sent
           /\ v.at # "none" => \A i \in b..v.last : Has(v, i)'
           /\ v.at \in {"connecting", "streaming"} => b \in Active
           /\ v.at = "closing" => failed
      BY <1>3, <1>4, <2>9, <2>12, <2>16
    <2>19. ~failed /\ b \in Active => v.at \in {"connecting", "streaming"} /\ v.end = worker[b].end
      BY <1>3, <1>4, <2>9, <2>16
    <2>20. \A c \in Ids \ {b} : progress'[c] = progress[c]
      BY <2>11
    <2> QED BY <2>2, <2>9, <2>11, <2>13, <2>14, <2>15, <2>17, <2>18, <2>19, <2>20, WorkerStep
  <1> QED BY <1>6, <1>7

LEMMA onCompleteInv ==
    ASSUME Inv, NEW b \in Ids, onComplete(b)
    PROVE  Inv'
  <1>1. PICK w : w = Received(worker[b], worker[b].last + 1)
    OBVIOUS
  <1>2. /\ Delivers(b) /\ w.last >= w.end
        /\ worker' = [worker EXCEPT ![b] = NoWorker] /\ UNCHANGED latest
    BY <1>1 DEF onComplete
  <1>3. /\ w \in Workers /\ w.at = worker[b].at /\ w.end = worker[b].end
        /\ w.last \in Ids /\ w.at \in {"streaming", "closing"}
        /\ \A i \in b..w.last : Has(w, i)
    BY <1>1, <1>2, ReceivedFacts
  <1>4. PICK batch : batch = b..worker[b].end
    OBVIOUS
  <1>5. /\ \A i \in batch : Has(w, i)
        /\ None <= run.latest /\ 0 <= WindowSize
    <2>1. batch \subseteq b..w.last
      BY <1>2, <1>3, <1>4 DEF Workers, Ids, None
    <2>2. None <= run.latest
      BY RecordFacts DEF Ids, None
    <2> QED BY <1>3, <2>1, <2>2
  <1>6. ASSUME NEW done \in 0..3, NEW last \in {None} \cup Ids, last \in {w.last, w.end}, NEW completed \in BOOLEAN,
               Save(b, w, done, Row(w, last, completed)),
               NEW failed \in BOOLEAN, run.failed => failed, ~failed => done = 3,
               run' = [run EXCEPT !.failed = failed], faults' \in 0..MaxFaults
        PROVE  Inv'
    <2>1. PICK row : row = Row(w, last, completed)
      OBVIOUS
    <2>2. row \in Rows /\ row.last = last /\ row.end = w.end
      BY <1>3, <2>1, RowFields
    <2>3. /\ events \subseteq events' /\ events' \subseteq Ids
          /\ txEvents \subseteq txEvents' /\ txEvents' \subseteq Ids \cap Hashed
          /\ progress' \in [Ids -> Rows]
          /\ \A c \in Ids : progress'[c] = IF c = b /\ done = 3 THEN row ELSE progress[c]
      BY <1>3, <1>6, <2>1, <2>2, SaveKeeps DEF Inv
    <2>4. done = 3 => Stored(batch)'
      BY <1>3, <1>5, <1>6, FlushStores
    <2>5. done = 3 => Stored(b..w.last)' /\ Stored(b..w.end)'
      <3>1. PICK S : S = b..w.last
        OBVIOUS
      <3>2. done = 3 => Stored(S)'
        BY <1>3, <1>6, <3>1, FlushStores
      <3> QED BY <1>3, <1>4, <2>4, <3>1, <3>2
    <2>6. /\ Stored(b..progress[b].last)'
          /\ progress'[b].completed => Stored(b..progress[b].end)'
      <3>1. CASE done = 3
        <4>1. progress'[b] = row
          BY <2>3, <3>1
        <4>2. CASE last = w.last BY <2>2, <2>5, <3>1, <4>1, <4>2
        <4>3. CASE last = w.end BY <2>2, <2>5, <3>1, <4>1, <4>3
        <4> QED BY <1>6, <4>2, <4>3
      <3>2. CASE done # 3
        BY <2>3, <3>2, RowKept
      <3> QED BY <3>1, <3>2
    <2>7. run' = [at |-> run.at, latest |-> run.latest, pending |-> run.pending, failed |-> failed]
      BY <1>6, FailedRun DEF Inv
    <2>8. PICK v \in Workers : v = NoWorker
      BY NoWorkerFacts
    <2>9. /\ worker' = [worker EXCEPT ![b] = v] /\ latest' = latest /\ worker[b].at # "none"
          /\ v.end <= run.latest /\ v.sent - v.acked <= WindowSize /\ v.at = "none"
      BY <1>2, <1>3, <1>5, <2>8, NoWorkerFacts
    <2>10. v.at \notin {"connecting", "streaming", "closing"}
      BY <2>9
    <2>11. ~failed => Stored(batch)'
      BY <1>6, <2>4
    <2>12. \A c \in Ids \ {b} : progress'[c] = progress[c]
      BY <2>3
    <2>13. /\ v.at \in {"streaming", "closing"} => v.acked <= v.last /\ v.last <= v.sent
           /\ v.at # "none" => \A i \in b..v.last : Has(v, i)'
           /\ v.at \in {"connecting", "streaming"} => b \in Active
           /\ v.at = "closing" => failed
           /\ ~failed /\ b \in Active =>
                  \/ v.at \in {"connecting", "streaming"} /\ v.end = worker[b].end
                  \/ Stored(batch)'
      BY <2>9, <2>10, <2>11
    <2>14. /\ events \subseteq events' /\ events' \subseteq Ids
           /\ txEvents \subseteq txEvents' /\ txEvents' \subseteq Ids \cap Hashed
           /\ progress' \in [Ids -> Rows]
           /\ (run.failed => failed) /\ faults' \in 0..MaxFaults
      BY <1>6, <2>3
    <2> QED BY <1>4, <2>6, <2>7, <2>9, <2>12, <2>13, <2>14, WorkerStep
  <1>7. w.end \in {None} \cup Ids
    BY <1>3 DEF Workers
  <1>8. CASE \E done \in Outcomes :
                 /\ Save(b, w, done, Row(w, w.end, TRUE))
                 /\ run' = [run EXCEPT !.failed = @ \/ done < 3]
                 /\ Counted(done)
    <2>1. PICK done \in Outcomes : /\ Save(b, w, done, Row(w, w.end, TRUE))
                                   /\ run' = [run EXCEPT !.failed = @ \/ done < 3]
                                   /\ Counted(done)
      BY <1>8
    <2>2. done \in 0..3 /\ faults' \in 0..MaxFaults
      BY <2>1, CountedFaults
    <2>3. PICK failed \in BOOLEAN : failed = (run.failed \/ done < 3)
      OBVIOUS
    <2>4. PICK completed \in BOOLEAN : completed = TRUE
      OBVIOUS
    <2>5. run' = [run EXCEPT !.failed = failed]
      BY <2>1, <2>3, Zenon
    <2>6. (run.failed => failed) /\ (~failed => done = 3)
      <3>1. done < 3 \/ done = 3
        BY <2>2
      <3>2. run.failed \in BOOLEAN
        BY SameRun DEF Inv
      <3> QED BY <2>3, <3>1, <3>2, Zenon
    <2>7. Save(b, w, done, Row(w, w.end, completed))
      BY <2>1, <2>4
    <2> QED BY <1>6, <1>7, <2>2, <2>5, <2>6, <2>7
  <1>9. CASE /\ run.at = "running" /\ faults < MaxFaults
             /\ Save(b, w, 3, Row(w, w.last, FALSE))
             /\ run' = [run EXCEPT !.failed = TRUE]
             /\ faults' = faults + 1
    <2>1. faults' \in 0..MaxFaults
      BY <1>9, RecordFacts
    <2>2. PICK failed \in BOOLEAN : failed = TRUE
      OBVIOUS
    <2>3. PICK completed \in BOOLEAN : completed = FALSE
      OBVIOUS
    <2>4. run' = [run EXCEPT !.failed = failed] /\ (run.failed => failed) /\ failed
      BY <1>9, <2>2
    <2>5. PICK done \in 0..3 : done = 3
      OBVIOUS
    <2>6. Save(b, w, done, Row(w, w.last, completed))
      BY <1>9, <2>3, <2>5
    <2>7. w.last \in {None} \cup Ids /\ w.last \in {w.last, w.end}
      BY <1>3
    <2> QED BY <1>6, <2>1, <2>4, <2>5, <2>6, <2>7
  <1> QED BY <1>1, <1>8, <1>9 DEF onComplete

LEMMA onErrorInv ==
    ASSUME Inv, NEW b \in Ids, onError(b)
    PROVE  Inv'
  <1>1. PICK w : w = worker[b]
    OBVIOUS
  <1>2. PICK done \in 0..3 :
            /\ IF w.last >= b THEN Save(b, w, done, Row(w, w.last, FALSE)) ELSE UNCHANGED tables
            /\ worker' = [worker EXCEPT ![b] = [Unsaved(w, done) EXCEPT !.at = "closing"]]
    BY <1>1 DEF onError
  <1>3. /\ w.at = "streaming" /\ faults < MaxFaults /\ faults' = faults + 1
        /\ run' = [run EXCEPT !.failed = TRUE] /\ UNCHANGED latest
    BY <1>1 DEF onError
  <1>4. /\ w \in Workers /\ w.end <= run.latest /\ w.sent - w.acked <= WindowSize
        /\ w.acked <= w.last /\ w.last <= w.sent
        /\ \A i \in b..w.last : Has(w, i)
        /\ b \in Active /\ faults' \in 0..MaxFaults
    BY <1>1, <1>3, RecordFacts
  <1>5. PICK x : x = Unsaved(w, done)
    OBVIOUS
  <1>6. x \in Workers /\ x.end = w.end /\ x.last = w.last /\ x.sent = w.sent /\ x.acked = w.acked
    BY <1>4, <1>5, UnsavedFields
  <1>7. PICK v : v = [x EXCEPT !.at = "closing"]
    OBVIOUS
  <1>8. /\ v \in Workers /\ v.at = "closing" /\ v.end = w.end /\ v.last = w.last /\ v.sent = w.sent
        /\ v.acked = w.acked /\ v.buffer = x.buffer /\ v.txBuffer = x.txBuffer
    BY <1>6, <1>7 DEF Workers
  <1>9. PICK failed \in BOOLEAN : failed = TRUE
    OBVIOUS
  <1>10. run' = [at |-> run.at, latest |-> run.latest, pending |-> run.pending, failed |-> failed]
    BY <1>3, <1>9, FailedRun DEF Inv
  <1>11. worker' = [worker EXCEPT ![b] = v] /\ worker[b].at # "none"
    BY <1>1, <1>2, <1>3, <1>5, <1>7
  <1>12. CASE w.last >= b
    <2>1. PICK completed \in BOOLEAN : completed = FALSE
      OBVIOUS
    <2>2. PICK row : row = Row(w, w.last, completed)
      OBVIOUS
    <2>3. w.last \in Ids
      BY <1>4, <1>12 DEF Workers, Ids, None
    <2>4. row \in Rows /\ row.last = w.last /\ row.completed = completed
      BY <1>4, <2>2, <2>3, RowFields
    <2>5. Save(b, w, done, row)
      BY <1>2, <1>12, <2>1, <2>2
    <2>6. PICK S : S = b..w.last
      OBVIOUS
    <2>7. /\ events \subseteq events' /\ events' \subseteq Ids
          /\ txEvents \subseteq txEvents' /\ txEvents' \subseteq Ids \cap Hashed
          /\ progress' \in [Ids -> Rows]
          /\ \A c \in Ids : progress'[c] = IF c = b /\ done = 3 THEN row ELSE progress[c]
          /\ \A i : Has(w, i) => Has(x, i)'
          /\ done = 3 => Stored(S)'
      <3>1. done = 3 => Stored(S)'
        BY <1>4, <2>5, <2>6, FlushStores
      <3>2. /\ events \subseteq events' /\ events' \subseteq Ids
            /\ txEvents \subseteq txEvents' /\ txEvents' \subseteq Ids \cap Hashed
            /\ progress' \in [Ids -> Rows]
            /\ \A c \in Ids : progress'[c] = IF c = b /\ done = 3 THEN row ELSE progress[c]
            /\ \A i : Has(w, i) => Has(Unsaved(w, done), i)'
        BY <1>4, <2>4, <2>5, SaveKeeps DEF Inv
      <3> QED BY <1>5, <3>1, <3>2
    <2>8. \A i \in b..v.last : Has(v, i)'
      BY <1>4, <1>8, <2>7 DEF Has
    <2>9. /\ Stored(b..progress[b].last)'
          /\ progress'[b].completed => Stored(b..progress[b].end)'
      <3>1. CASE done = 3
        <4>1. progress'[b].last = w.last /\ ~progress'[b].completed
          BY <2>1, <2>4, <2>7, <3>1
        <4> QED BY <2>6, <2>7, <3>1, <4>1
      <3>2. CASE done # 3
        BY <2>7, <3>2, RowKept
      <3> QED BY <3>1, <3>2
    <2>10. PICK batch : batch = b..worker[b].end
      OBVIOUS
    <2>11. /\ v.end <= run.latest /\ v.sent - v.acked <= WindowSize
           /\ v.acked <= v.last /\ v.last <= v.sent
           /\ v.at \notin {"none", "connecting", "streaming"} /\ failed
      BY <1>4, <1>8, <1>9
    <2>12. \A c \in Ids \ {b} : progress'[c] = progress[c]
      BY <2>7
    <2> QED BY <1>3, <1>4, <1>8, <1>10, <1>11, <2>7, <2>8, <2>9, <2>10, <2>11, <2>12, WorkerStep
  <1>13. CASE ~(w.last >= b)
    <2>1. UNCHANGED tables
      BY <1>2, <1>13
    <2>2. \A i \in b..v.last : Has(v, i)
      BY <1>4, <1>8, <1>13 DEF Workers, Ids, None
    <2> QED BY <1>3, <1>4, <1>8, <1>9, <1>10, <1>11, <2>1, <2>2, QuietStep
  <1> QED BY <1>12, <1>13

(* The orchestrator. *)

LEMMA FullnodeProducesInv ==
    ASSUME Inv, FullnodeProduces
    PROVE  Inv'
  <1>1. latest' \in Ids /\ UNCHANGED <<events, txEvents, progress, run, worker, faults>>
    BY DEF Inv, TypeOK, FullnodeProduces, Ids
  <1> QED BY <1>1 DEF Inv, TypeOK, ProgressIsStored, Stored, Idle, Windows, Buffered, Has,
                      PendingStored, Remaining, Stages, Active

\* Every event is in a batch.
LEMMA BatchOf ==
    ASSUME NEW size \in Nat \ {0}, NEW last \in Nat, NEW i \in 0..last
    PROVE  \E s \in 0..last : s % size = 0 /\ s <= i /\ i <= s + size - 1
  <1> DEFINE s == i - (i % size)
  <1>1. i % size \in 0..(size - 1) /\ i % size <= i
    OBVIOUS
  <1>2. s % size = 0
    OBVIOUS
  <1> QED BY <1>1, <1>2

LEMMA BatchFields ==
    ASSUME NEW size \in Nat \ {0}, latest \in Ids, NEW b \in calculateBatches(size, latest)
    PROVE  /\ b.start \in 0..latest /\ b.end \in 0..latest /\ b.start % size = 0
           /\ b.end = IF b.start + size - 1 < latest THEN b.start + size - 1 ELSE latest
           /\ b = [start |-> b.start, end |-> b.end]
  BY DEF calculateBatches, Ids

\* Where a batch resumes, everything before is stored.
LEMMA ResumesStored ==
    ASSUME Inv, NEW b, b.start \in Ids, b.end \in Ids
    PROVE  /\ resumeAt(b) \in {None} \cup Ids
           /\ resumeAt(b) < b.end => Stored(b.start..resumeAt(b))
           /\ ~(resumeAt(b) < b.end) => Stored(b.start..b.end)
  <1> DEFINE row == progress[b.start]
  <1>1. /\ row \in Rows /\ Stored(b.start..row.last)
        /\ row.completed => Stored(b.start..row.end)
    BY DEF Inv, TypeOK, ProgressIsStored
  <1>2. row.end \in Int /\ row.last \in Int /\ b.end \in Int /\ b.start \in Int
    BY <1>1 DEF Rows, Ids, None
  <1>3. ASSUME NEW m \in Int, Stored(b.start..m), b.end <= m
        PROVE  Stored(b.start..b.end)
    BY <1>2, <1>3 DEF Stored
  <1>4. CASE row.completed /\ row.end >= b.end
    <2>1. resumeAt(b) = b.end
      BY <1>4 DEF resumeAt
    <2> QED BY <1>1, <1>2, <1>3, <1>4, <2>1
  <1>5. CASE row.completed /\ ~(row.end >= b.end)
    <2>1. resumeAt(b) = row.end
      BY <1>5 DEF resumeAt
    <2> QED BY <1>1, <1>2, <1>5, <2>1 DEF Rows
  <1>6. CASE ~row.completed
    <2>1. resumeAt(b) = row.last
      BY <1>6 DEF resumeAt
    <2> QED BY <1>1, <1>2, <1>3, <2>1 DEF Rows
  <1> QED BY <1>4, <1>5, <1>6

LEMMA downloadAllEventsInv ==
    ASSUME Inv, NEW size \in BatchSizes, downloadAllEvents(size)
    PROVE  Inv'
  <1> DEFINE batches == calculateBatches(size, latest)
  <1>1. PICK pending : pending = mergeBatchesWithProgress(batches)
    OBVIOUS
  <1>2. /\ run.at = "stopped"
        /\ run' = [at |-> IF pending = {} THEN "done" ELSE "running",
                   latest |-> latest, pending |-> pending, failed |-> FALSE]
        /\ UNCHANGED <<latest, events, txEvents, progress, worker, faults>>
    BY <1>1 DEF downloadAllEvents, tables
  <1>3. size \in Nat \ {0} /\ latest \in Ids /\ latest \in Nat
    BY DEF Inv, TypeOK, Ids
  <1>4. \A b \in Ids : worker[b] = NoWorker /\ worker[b].at = "none"
    BY <1>2 DEF Inv, Idle, NoWorker
  <1>5. Active = {} /\ Active' = {}
    BY <1>2, <1>4 DEF Active
  <1>6. ASSUME NEW p \in pending
        PROVE  /\ p \in Batches /\ p.end <= latest /\ Stored(p.start..p.last)
               /\ \A q \in pending : q.start = p.start => q = p
    <2>1. PICK b \in batches : p = [start |-> b.start, end |-> b.end, last |-> resumeAt(b)] /\ resumeAt(b) < b.end
      BY <1>1 DEF mergeBatchesWithProgress
    <2>2. b.start \in Ids /\ b.end \in Ids /\ b.end <= latest
      BY <1>3, BatchFields DEF Ids
    <2>3. resumeAt(b) \in {None} \cup Ids /\ Stored(b.start..resumeAt(b))
      BY <2>1, <2>2, ResumesStored
    <2>4. ASSUME NEW q \in pending, q.start = p.start PROVE q = p
      <3>1. PICK c \in batches : q = [start |-> c.start, end |-> c.end, last |-> resumeAt(c)]
        BY <1>1 DEF mergeBatchesWithProgress
      <3>2. c.start = b.start
        BY <2>1, <2>4, <3>1
      <3>3. c = b
        BY <1>3, <3>2, BatchFields
      <3> QED BY <2>1, <3>1, <3>3
    <2> QED BY <2>1, <2>2, <2>3, <2>4 DEF Batches
  <1>7. ASSUME NEW i \in 0..latest
        PROVE  Stored({i}) \/ \E p \in pending : i \in p.start..p.end
    <2>1. PICK s \in 0..latest : s % size = 0 /\ s <= i /\ i <= s + size - 1
      BY <1>3, BatchOf
    <2>2. PICK b \in batches : b.start = s /\ b.end = IF s + size - 1 < latest THEN s + size - 1 ELSE latest
      <3>1. [start |-> s, end |-> IF s + size - 1 < latest THEN s + size - 1 ELSE latest] \in batches
        BY <2>1 DEF calculateBatches
      <3> QED BY <3>1
    <2>3. i \in b.start..b.end /\ b.start \in Ids /\ b.end \in Ids
      <3>1. s \in Int /\ size \in Int /\ latest \in Int /\ size > 0 /\ i \in Int
        BY <1>3
      <3>2. b.end \in 0..latest /\ i <= b.end
        BY <2>1, <2>2, <3>1
      <3> QED BY <1>3, <2>1, <2>2, <3>1, <3>2 DEF Ids
    <2>4. CASE resumeAt(b) < b.end
      <3>1. PICK p \in pending : p.start = b.start /\ p.end = b.end
        <4>1. [start |-> b.start, end |-> b.end, last |-> resumeAt(b)] \in pending
          BY <1>1, <2>4 DEF mergeBatchesWithProgress
        <4> QED BY <4>1
      <3> QED BY <2>3, <3>1
    <2>5. CASE ~(resumeAt(b) < b.end)
      BY <2>3, <2>5, ResumesStored DEF Stored
    <2> QED BY <2>4, <2>5
  <1>8. /\ run'.at \in {"running", "done"} /\ run'.latest = latest /\ run'.pending = pending
        /\ run'.failed = FALSE /\ (run'.at # "running" => pending = {})
    BY <1>2
  <1>9. TypeOK'
    <2>1. run' \in [at : {"stopped", "running", "done", "failed"}, latest : {None} \cup Ids,
                    pending : SUBSET Batches, failed : BOOLEAN]
      BY <1>2, <1>3, <1>6
    <2>2. \A b \in Ids : worker'[b].end <= run'.latest /\ worker'[b].sent - worker'[b].acked <= WindowSize
      BY <1>2, <1>3, <1>4, <1>8, NoWorkerFacts DEF None, Ids
    <2> QED BY <1>2, <1>6, <1>8, <2>1, <2>2 DEF Inv, TypeOK
  <1>10. ProgressIsStored' /\ Idle' /\ Windows' /\ Buffered'
    BY <1>2, <1>4, <1>8 DEF Inv, ProgressIsStored, Stored, Idle, Windows, Buffered, NoWorker
  <1>11. PendingStored'
    BY <1>2, <1>4, <1>6, <1>8 DEF PendingStored, Stored, Batches
  <1>12. Remaining'
    BY <1>2, <1>7, <1>8 DEF Remaining, Stored
  <1>13. Stages'
    BY <1>2, <1>4, <1>5, <1>8 DEF Stages
  <1> QED BY <1>9, <1>10, <1>11, <1>12, <1>13 DEF Inv

LEMMA EndRunInv ==
    ASSUME Inv, EndRun
    PROVE  Inv'
  <1>1. /\ run.at = "running" /\ run.pending = {} /\ Active = {}
        /\ run' = [run EXCEPT !.at = IF run.failed THEN "failed" ELSE "done"]
        /\ UNCHANGED <<latest, events, txEvents, progress, worker, faults>>
    BY DEF EndRun, tables
  <1>2. PICK at \in {"failed", "done"} : at = IF run.failed THEN "failed" ELSE "done"
    OBVIOUS
  <1>3. run' = [run EXCEPT !.at = at]
    BY <1>1, <1>2, Zenon
  <1>4. /\ run' \in [at : {"stopped", "running", "done", "failed"}, latest : {None} \cup Ids,
                     pending : SUBSET Batches, failed : BOOLEAN]
        /\ run'.at = at /\ run'.latest = run.latest /\ run'.pending = {} /\ run'.failed = run.failed
    BY <1>1, <1>3 DEF Inv, TypeOK
  <1>5. TypeOK'
    BY <1>1, <1>4 DEF Inv, TypeOK
  <1>6. ProgressIsStored' /\ Idle' /\ Windows' /\ Buffered' /\ PendingStored'
    BY <1>1, <1>4 DEF Inv, ProgressIsStored, Stored, Idle, Windows, Buffered, Has, PendingStored
  <1>7. Remaining'
    BY <1>1, <1>4 DEF Inv, Remaining, Stored, Active
  <1>8. Stages'
    BY <1>1, <1>2, <1>4 DEF Inv, Stages, Active
  <1> QED BY <1>5, <1>6, <1>7, <1>8 DEF Inv

\* The end of the process, expected or not: what is in memory is gone.
LEMMA StoppedInv ==
    ASSUME Inv, run' = NoRun, worker' = [b \in Ids |-> NoWorker],
           UNCHANGED <<latest, tables>>, faults' \in 0..MaxFaults
    PROVE  Inv'
  <1>1. UNCHANGED <<latest, events, txEvents, progress>>
    BY DEF tables
  <1>2. \A b \in Ids : worker'[b] = NoWorker
    OBVIOUS
  <1>3. /\ run'.at = "stopped" /\ run'.latest = None /\ run'.pending = {} /\ run'.failed = FALSE
        /\ run' \in [at : {"stopped", "running", "done", "failed"}, latest : {None} \cup Ids,
                     pending : SUBSET Batches, failed : BOOLEAN]
    BY DEF NoRun
  <1>4. \A b \in Ids : worker'[b].end <= run'.latest /\ worker'[b].sent - worker'[b].acked <= WindowSize
    BY <1>2, <1>3, NoWorkerFacts DEF None
  <1>5. TypeOK'
    BY <1>1, <1>3, <1>4, NoWorkerFacts DEF Inv, TypeOK
  <1>6. ProgressIsStored' /\ Idle' /\ Windows' /\ Buffered'
    BY <1>1, <1>2, NoWorkerFacts DEF Inv, ProgressIsStored, Stored, Idle, Windows, Buffered
  <1>7. PendingStored' /\ Remaining' /\ Stages'
    BY <1>2, <1>3, NoWorkerFacts DEF PendingStored, Remaining, Stages, Active
  <1> QED BY <1>5, <1>6, <1>7 DEF Inv

LEMMA ExitInv ==
    ASSUME Inv, Exit
    PROVE  Inv'
  BY StoppedInv DEF Exit, Inv, TypeOK

LEMMA CrashInv ==
    ASSUME Inv, Crash
    PROVE  Inv'
  <1>1. faults' \in 0..MaxFaults
    BY DEF Crash, Inv, TypeOK
  <1> QED BY <1>1, StoppedInv DEF Crash

\* A batch taken by a slot that could not write its row: the run has failed.
LEMMA BatchLostInv ==
    ASSUME Inv, NEW p \in run.pending, run.at = "running",
           run' = [run EXCEPT !.pending = @ \ {p}, !.failed = TRUE],
           UNCHANGED <<latest, tables, worker>>, faults' \in 0..MaxFaults
    PROVE  Inv'
  <1>1. UNCHANGED <<latest, events, txEvents, progress, worker>>
    BY DEF tables
  <1>2. /\ run' \in [at : {"stopped", "running", "done", "failed"}, latest : {None} \cup Ids,
                     pending : SUBSET Batches, failed : BOOLEAN]
        /\ run'.at = "running" /\ run'.latest = run.latest
        /\ run'.pending = run.pending \ {p} /\ run'.failed = TRUE
    BY DEF Inv, TypeOK
  <1>3. TypeOK'
    BY <1>1, <1>2 DEF Inv, TypeOK
  <1>4. ProgressIsStored' /\ Idle' /\ Windows' /\ Buffered' /\ PendingStored'
    BY <1>1, <1>2 DEF Inv, ProgressIsStored, Stored, Idle, Windows, Buffered, Has, PendingStored
  <1>5. Remaining' /\ Stages'
    BY <1>1, <1>2 DEF Inv, Remaining, Stages, Active
  <1> QED BY <1>3, <1>4, <1>5 DEF Inv

LEMMA BatchTakenInv ==
    ASSUME Inv, NEW p \in run.pending, run.at = "running",
           progress' = [progress EXCEPT ![p.start] = RowOfBatch(p)],
           worker' = [worker EXCEPT ![p.start] =
               [NoWorker EXCEPT !.at = "connecting", !.end = p.end, !.last = FirstEventId(p)]],
           run' = [run EXCEPT !.pending = @ \ {p}],
           UNCHANGED <<latest, events, txEvents, faults>>
    PROVE  Inv'
  <1>1. p \in Batches /\ p.end <= run.latest /\ Stored(p.start..p.last)
    BY DEF Inv, TypeOK, PendingStored
  <1>2. PICK b \in Ids : b = p.start
    BY <1>1 DEF Batches
  <1>3. PICK v : v = [NoWorker EXCEPT !.at = "connecting", !.end = p.end, !.last = FirstEventId(p)]
    OBVIOUS
  <1>4. PICK row : row = RowOfBatch(p)
    OBVIOUS
  <1>5. /\ row \in Rows /\ row.last = p.last /\ row.completed = FALSE
    BY <1>1, <1>4 DEF RowOfBatch, Rows, Batches
  <1>6. FirstEventId(p) \in {None} \cup Ids /\ \A i \in b..FirstEventId(p) : i \in p.start..p.last
    BY <1>1, <1>2 DEF FirstEventId, Batches, Ids, None
  <1>7. /\ v \in Workers /\ v.at = "connecting" /\ v.end = p.end /\ v.last = FirstEventId(p)
        /\ v.sent - v.acked = 0 /\ v.end <= run.latest
    <2>1. NoWorker \in Workers /\ NoWorker.sent - NoWorker.acked = 0 /\ p.end \in {None} \cup Ids
      BY <1>1, NoWorkerFacts DEF Batches
    <2>2. PICK w \in Workers : w = NoWorker
      BY <2>1
    <2>3. PICK end \in {None} \cup Ids : end = p.end
      BY <2>1
    <2>4. PICK last \in {None} \cup Ids : last = FirstEventId(p)
      BY <1>6
    <2>5. v = [w EXCEPT !.at = "connecting", !.end = end, !.last = last]
      BY <1>3, <2>2, <2>3, <2>4
    <2>6. /\ v \in Workers /\ v.at = "connecting" /\ v.end = end /\ v.last = last
          /\ v.sent = w.sent /\ v.acked = w.acked
      BY <2>5 DEF Workers
    <2> QED BY <1>1, <2>1, <2>2, <2>3, <2>4, <2>6
  <1>8. /\ run' \in [at : {"stopped", "running", "done", "failed"}, latest : {None} \cup Ids,
                     pending : SUBSET Batches, failed : BOOLEAN]
        /\ run'.at = "running" /\ run'.latest = run.latest
        /\ run'.pending = run.pending \ {p} /\ run'.failed = run.failed
    BY DEF Inv, TypeOK
  <1>9. /\ worker' \in [Ids -> Workers]
        /\ \A c \in Ids : worker'[c] = IF c = b THEN v ELSE worker[c]
    BY <1>2, <1>3, <1>7 DEF Inv, TypeOK
  <1>10. /\ progress' \in [Ids -> Rows]
         /\ \A c \in Ids : progress'[c] = IF c = b THEN row ELSE progress[c]
    BY <1>2, <1>4, <1>5 DEF Inv, TypeOK
  <1>11. TypeOK'
    <2>1. ASSUME NEW c \in Ids
          PROVE  worker'[c].end <= run'.latest /\ worker'[c].sent - worker'[c].acked <= WindowSize
      <3>1. /\ worker[c].end <= run.latest /\ worker[c].sent - worker[c].acked <= WindowSize
            /\ 0 <= WindowSize
        BY DEF Inv, TypeOK
      <3>2. CASE c = b BY <1>7, <1>8, <1>9, <3>1, <3>2
      <3>3. CASE c # b BY <1>8, <1>9, <3>1, <3>3
      <3> QED BY <3>2, <3>3
    <2> QED BY <1>8, <1>9, <1>10, <2>1 DEF Inv, TypeOK
  <1>12. ProgressIsStored'
    <2> SUFFICES ASSUME NEW c \in Ids
                 PROVE  /\ Stored(c..progress[c].last)'
                        /\ (progress[c].completed => Stored(c..progress[c].end))'
      BY DEF ProgressIsStored
    <2>1. CASE c = b BY <1>1, <1>2, <1>5, <1>10, <2>1 DEF Stored
    <2>2. CASE c # b BY <1>10, <2>2 DEF Inv, ProgressIsStored, Stored
    <2> QED BY <2>1, <2>2
  <1>13. Idle' /\ Windows'
    BY <1>7, <1>8, <1>9 DEF Inv, Idle, Windows
  <1>14. Buffered'
    <2> SUFFICES ASSUME NEW c \in Ids, worker'[c].at # "none", NEW i \in c..worker'[c].last
                 PROVE  Has(worker[c], i)'
      BY DEF Buffered
    <2>1. CASE c = b BY <1>1, <1>2, <1>6, <1>7, <1>9, <2>1 DEF Has, Stored
    <2>2. CASE c # b BY <1>9, <2>2 DEF Inv, Buffered, Has
    <2> QED BY <2>1, <2>2
  <1>15. PendingStored'
    <2> SUFFICES ASSUME NEW q \in run.pending \ {p}
                 PROVE  /\ Stored(q.start..q.last)'
                        /\ worker'[q.start].at = "none"
                        /\ \A r \in run.pending \ {p} : r.start = q.start => r = q
      BY <1>8 DEF PendingStored
    <2>1. Stored(q.start..q.last) /\ worker[q.start].at = "none" /\ q.start # b /\ q.start \in Ids
      BY <1>2 DEF Inv, PendingStored, TypeOK, Batches
    <2> QED BY <1>9, <2>1 DEF Inv, PendingStored, Stored
  <1>16. worker[b].at = "none" /\ Active' = Active \cup {b}
    BY <1>2, <1>7, <1>9 DEF Inv, PendingStored, Active
  <1>17. Remaining'
    <2> SUFFICES ASSUME ~run.failed, NEW i \in 0..run.latest
                 PROVE  \/ Stored({i})'
                        \/ \E q \in run.pending \ {p} : i \in q.start..q.end
                        \/ \E c \in Active' : i \in c..worker'[c].end
      BY <1>8 DEF Remaining
    <2>1. \/ Stored({i})
          \/ \E q \in run.pending : i \in q.start..q.end
          \/ \E c \in Active : i \in c..worker[c].end
      BY DEF Inv, Remaining
    <2>2. CASE Stored({i}) BY <2>2 DEF Stored
    <2>3. CASE \E q \in run.pending : i \in q.start..q.end
      <3>1. PICK q \in run.pending : i \in q.start..q.end
        BY <2>3
      <3>2. CASE q = p
        <4>1. b \in Active' /\ worker'[b].end = p.end
          BY <1>7, <1>9, <1>16
        <4> QED BY <1>2, <3>1, <3>2, <4>1
      <3> QED BY <3>1, <3>2
    <2>4. CASE \E c \in Active : i \in c..worker[c].end
      <3>1. PICK c \in Active : i \in c..worker[c].end
        BY <2>4
      <3>2. c \in Active' /\ worker'[c].end = worker[c].end
        <4>1. c # b /\ c \in Ids
          BY <1>16 DEF Active
        <4> QED BY <1>9, <1>16, <4>1
      <3> QED BY <3>1, <3>2
    <2> QED BY <2>1, <2>2, <2>3, <2>4
  <1>18. Stages'
    BY <1>7, <1>8, <1>9 DEF Inv, Stages
  <1> QED BY <1>11, <1>12, <1>13, <1>14, <1>15, <1>17, <1>18 DEF Inv

LEMMA runWorkerInv ==
    ASSUME Inv, NEW p \in run.pending, runWorker(p)
    PROVE  Inv'
  <1>1. CASE /\ progress' = [progress EXCEPT ![p.start] = RowOfBatch(p)]
             /\ worker' = [worker EXCEPT ![p.start] =
                    [NoWorker EXCEPT !.at = "connecting", !.end = p.end, !.last = FirstEventId(p)]]
             /\ run' = [run EXCEPT !.pending = @ \ {p}]
             /\ UNCHANGED faults
    BY <1>1, BatchTakenInv DEF runWorker
  <1>2. CASE /\ faults < MaxFaults /\ faults' = faults + 1
             /\ run' = [run EXCEPT !.pending = @ \ {p}, !.failed = TRUE]
             /\ UNCHANGED <<progress, worker>>
    <2>1. faults' \in 0..MaxFaults
      BY <1>2 DEF Inv, TypeOK
    <2> QED BY <1>2, <2>1, BatchLostInv DEF runWorker, tables
  <1> QED BY <1>1, <1>2 DEF runWorker

LEMMA NextInv == Inv /\ [Next]_vars => Inv'
  <1> SUFFICES ASSUME Inv, [Next]_vars PROVE Inv'
    OBVIOUS
  <1>1. CASE FullnodeProduces BY <1>1, FullnodeProducesInv
  <1>2. CASE EndRun BY <1>2, EndRunInv
  <1>3. CASE Exit BY <1>3, ExitInv
  <1>4. CASE Crash BY <1>4, CrashInv
  <1>5. CASE \E size \in BatchSizes : downloadAllEvents(size) BY <1>5, downloadAllEventsInv
  <1>6. CASE \E p \in run.pending : runWorker(p) BY <1>6, runWorkerInv
  <1>7. ASSUME NEW b \in Ids,
               \/ Opens(b) \/ FullnodeSends(b) \/ onEvent(b) \/ onComplete(b)
               \/ Refused(b) \/ onError(b) \/ Closes(b)
        PROVE  Inv'
    BY <1>7, OpensInv, FullnodeSendsInv, onEventInv, onCompleteInv, RefusedInv, onErrorInv, ClosesInv
  <1>8. CASE UNCHANGED vars
    BY <1>8 DEF vars, Inv, TypeOK, ProgressIsStored, Stored, Idle, Windows, Buffered, Has,
                PendingStored, Remaining, Stages, Active
  <1> QED BY <1>1, <1>2, <1>3, <1>4, <1>5, <1>6, <1>7, <1>8 DEF Next

(* Tables and workers keep their shape, and the window is never exceeded. *)
THEOREM TypeCorrect == Spec => []TypeOK
  <1>1. Inv => TypeOK
    BY DEF Inv
  <1> QED BY <1>1, InitInv, NextInv, PTL DEF Spec

(* Whatever fails and whenever the process dies, download_progress claims only *)
(* events, and hashes, that are in the tables.                                 *)
THEOREM RowsAreTrue == Spec => []ProgressIsStored
  <1>1. Inv => ProgressIsStored
    BY DEF Inv
  <1> QED BY <1>1, InitInv, NextInv, PTL DEF Spec

(* A run that says "Download complete!" leaves no gap, whatever BATCH_SIZE it *)
(* and the runs before it used, and however those ended.                      *)
THEOREM DoneHasAll == Spec => []CompleteIsAll
  <1>1. Inv => CompleteIsAll
    <2> SUFFICES ASSUME Inv, run.at = "done" PROVE Stored(0..run.latest)
      BY DEF CompleteIsAll
    <2>1. run.pending = {} /\ Active = {} /\ ~run.failed
      BY DEF Inv, Stages
    <2>2. \A i \in 0..run.latest : Stored({i})
      BY <2>1 DEF Inv, Remaining
    <2> QED BY <2>2 DEF Stored
  <1> QED BY <1>1, InitInv, NextInv, PTL DEF Spec

---------------------------------------------------------------------------
(* Rows only move forward: a worker starts where its row says, and writes the *)
(* row only from what it received since; a later run resumes at the row, or     *)
(* past it.                                                                     *)

\* What a worker, a waiting batch and a completed row know is never behind the row.
Ahead ==
    /\ \A b \in Ids : progress[b].completed => progress[b].last <= progress[b].end
    /\ \A p \in run.pending : /\ p.start <= p.end /\ p.last < p.end
                              /\ progress[p.start].last <= p.last
    /\ \A b \in Ids : worker[b].at # "none" =>
           progress[b].last <= worker[b].last /\ worker[b].last < worker[b].end

\* No row goes back in this step.
Upward == \A b \in Ids : progress'[b].last >= progress[b].last

\* A row of a batch says a number.
LEMMA LastIsInt == ASSUME TypeOK, NEW b \in Ids PROVE progress[b].last \in Int
  BY DEF TypeOK, Rows, Ids, None

\* A step of one worker, which may write the row of its batch.
LEMMA AheadStep ==
    ASSUME Inv, Ahead, NEW b \in Ids, worker[b].at # "none", NEW v \in Workers,
           worker' = [worker EXCEPT ![b] = v], run'.pending = run.pending,
           NEW row \in Rows, progress' = [progress EXCEPT ![b] = row],
           progress[b].last <= row.last, row.completed => row.last <= row.end,
           v.at # "none" => row.last <= v.last /\ v.last < v.end
    PROVE  Ahead' /\ Upward
  <1>1. /\ \A c \in Ids : worker'[c] = IF c = b THEN v ELSE worker[c]
        /\ \A c \in Ids : progress'[c] = IF c = b THEN row ELSE progress[c]
    BY DEF Inv, TypeOK
  <1>2. Upward
    BY <1>1, LastIsInt DEF Upward, Inv
  <1>3. ASSUME NEW p \in run.pending
        PROVE  p.start <= p.end /\ p.last < p.end /\ progress'[p.start].last <= p.last
    <2>1. p.start \in Ids /\ p.start # b
      BY DEF Inv, TypeOK, Batches, PendingStored
    <2> QED BY <1>1, <2>1 DEF Ahead
  <1> QED BY <1>1, <1>2, <1>3 DEF Ahead

\* A row a worker does not write is as it was.
LEMMA RowStays ==
    ASSUME TypeOK, NEW b \in Ids, progress' = progress
    PROVE  progress[b] \in Rows /\ progress' = [progress EXCEPT ![b] = progress[b]]
  BY DEF TypeOK

\* A flush writes the row or leaves it.
LEMMA SaveWrites ==
    ASSUME TypeOK, NEW b \in Ids, NEW w, NEW done, NEW r \in Rows, Save(b, w, done, r)
    PROVE  \E row \in {r, progress[b]} : progress' = [progress EXCEPT ![b] = row]
  <1>1. progress' = IF done = 3 THEN [progress EXCEPT ![b] = r] ELSE progress
    BY DEF Save
  <1>2. CASE done = 3
    BY <1>1, <1>2
  <1>3. CASE done # 3
    BY <1>1, <1>3, RowStays
  <1> QED BY <1>2, <1>3

\* Opening the socket starts after what the batch has.
LEMMA OpensAhead == ASSUME Inv, Ahead, NEW b \in Ids, Opens(b) PROVE Ahead' /\ Upward
  <1>1. PICK v : v = [worker[b] EXCEPT !.at = "streaming", !.sent = worker[b].last, !.acked = worker[b].last]
    OBVIOUS
  <1>2. v \in Workers /\ v.at = "streaming" /\ v.end = worker[b].end /\ v.last = worker[b].last
    BY <1>1, OpenedFields, RecordFacts
  <1>3. worker[b].at = "connecting" /\ worker' = [worker EXCEPT ![b] = v] /\ progress' = progress /\ run' = run
    BY <1>1 DEF Opens, tables
  <1>4. PICK row \in Rows : row = progress[b] /\ progress' = [progress EXCEPT ![b] = row]
    BY <1>3, RowStays DEF Inv
  <1>5. /\ progress[b].last <= row.last /\ (row.completed => row.last <= row.end)
        /\ row.last <= v.last /\ v.last < v.end
    BY <1>2, <1>3, <1>4, LastIsInt DEF Ahead, Inv
  <1> QED BY <1>2, <1>3, <1>4, <1>5, AheadStep

\* What is sent is not yet received.
LEMMA FullnodeSendsAhead == ASSUME Inv, Ahead, NEW b \in Ids, FullnodeSends(b) PROVE Ahead' /\ Upward
  <1>1. PICK v : v = [worker[b] EXCEPT !.sent = worker[b].sent + 1]
    OBVIOUS
  <1>2. worker[b].sent + 1 \in Ids /\ worker[b] \in Workers
    BY RecordFacts DEF FullnodeSends, Workers, Ids, None
  <1>3. v \in Workers /\ v.at = worker[b].at /\ v.end = worker[b].end /\ v.last = worker[b].last
    BY <1>1, <1>2 DEF Workers
  <1>4. worker[b].at = "streaming" /\ worker' = [worker EXCEPT ![b] = v] /\ progress' = progress /\ run' = run
    BY <1>1 DEF FullnodeSends, tables, Inv, TypeOK
  <1>5. PICK row \in Rows : row = progress[b] /\ progress' = [progress EXCEPT ![b] = row]
    BY <1>4, RowStays DEF Inv
  <1>6. /\ progress[b].last <= row.last /\ (row.completed => row.last <= row.end)
        /\ row.last <= v.last /\ v.last < v.end
    BY <1>3, <1>4, <1>5, LastIsInt DEF Ahead, Inv
  <1> QED BY <1>3, <1>4, <1>5, <1>6, AheadStep

\* A worker that stops and writes nothing.
LEMMA StopsAhead ==
    ASSUME Inv, Ahead, NEW b \in Ids, worker[b].at # "none", worker' = [worker EXCEPT ![b] = NoWorker],
           UNCHANGED tables, run'.pending = run.pending
    PROVE  Ahead' /\ Upward
  <1>1. PICK row \in Rows : row = progress[b] /\ progress' = [progress EXCEPT ![b] = row]
    BY RowStays DEF Inv, tables
  <1>2. progress[b].last <= row.last /\ (row.completed => row.last <= row.end)
    BY <1>1, LastIsInt DEF Ahead, Inv
  <1>3. PICK v \in Workers : v = NoWorker /\ v.at = "none"
    BY NoWorkerFacts
  <1> QED BY <1>1, <1>2, <1>3, AheadStep

\* An event received in the middle of the batch, written or not.
LEMMA onEventAhead == ASSUME Inv, Ahead, NEW b \in Ids, onEvent(b) PROVE Ahead' /\ Upward
  <1>1. PICK w : w = Received(worker[b], worker[b].last + 1)
    OBVIOUS
  <1>2. Delivers(b) /\ w.last < w.end /\ run' = run /\ worker[b].at # "none"
    BY <1>1 DEF onEvent, Delivers
  <1>3. w \in Workers /\ w.at = worker[b].at /\ w.end = worker[b].end /\ w.last \in Ids
    BY <1>1, <1>2, ReceivedFacts
  <1>4. progress[b].last <= w.last /\ (progress[b].completed => progress[b].last <= progress[b].end)
    <2>1. w.last = worker[b].last + 1
      <3>1. worker[b].last + 1 \in Ids
        BY RecordFacts, <1>2 DEF Delivers, Workers, Ids, None
      <3> QED BY <1>1, <3>1, RecordFacts, ReceivedFields
    <2>2. worker[b].last \in Int /\ progress[b].last \in Int
      BY RecordFacts, LastIsInt DEF Workers, Ids, None, Inv
    <2> QED BY <1>2, <2>1, <2>2 DEF Ahead
  <1>5. CASE Cardinality(w.buffer) < FlushSize
    <2>1. PICK v : v = Acked(w)
      OBVIOUS
    <2>2. v \in Workers /\ v.last = w.last /\ v.end = w.end
      BY <1>3, <2>1, AckedFields
    <2>3. worker' = [worker EXCEPT ![b] = v] /\ progress' = progress
      BY <1>1, <1>5, <2>1 DEF onEvent, tables
    <2>4. PICK row \in Rows : row = progress[b] /\ progress' = [progress EXCEPT ![b] = row]
      BY <2>3, RowStays DEF Inv
    <2>5. progress[b].last <= row.last /\ (row.completed => row.last <= row.end) /\ row.last <= v.last /\ v.last < v.end
      BY <1>2, <1>4, <2>2, <2>4, LastIsInt DEF Inv
    <2> QED BY <1>2, <2>2, <2>3, <2>4, <2>5, AheadStep
  <1>6. CASE ~(Cardinality(w.buffer) < FlushSize)
    <2>1. PICK done \in Outcomes : /\ Save(b, w, done, Row(w, w.last, FALSE))
                                   /\ worker' = [worker EXCEPT ![b] = Acked(Unsaved(w, done))]
                                   /\ Counted(done)
      BY <1>1, <1>6 DEF onEvent
    <2>2. PICK completed \in BOOLEAN : completed = FALSE
      OBVIOUS
    <2>3. PICK r : r = Row(w, w.last, completed)
      OBVIOUS
    <2>4. r \in Rows /\ r.last = w.last /\ ~r.completed
      BY <1>3, <2>2, <2>3, RowFields
    <2>5. PICK row \in {r, progress[b]} : progress' = [progress EXCEPT ![b] = row]
      <3>1. Save(b, w, done, r)
        BY <2>1, <2>2, <2>3
      <3> QED BY <2>4, <3>1, SaveWrites DEF Inv
    <2>6. PICK v : v = Acked(Unsaved(w, done))
      OBVIOUS
    <2>7. v \in Workers /\ v.last = w.last /\ v.end = w.end
      <3>1. done \in 0..3
        BY <2>1, CountedFaults
      <3> QED BY <1>3, <2>6, <3>1, UnsavedFields, AckedFields
    <2>8. row \in Rows /\ progress[b].last <= row.last /\ (row.completed => row.last <= row.end)
          /\ row.last <= v.last /\ v.last < v.end
      <3>1. progress[b] \in Rows
        BY DEF Inv, TypeOK
      <3> QED BY <1>2, <1>3, <1>4, <2>4, <2>7, <3>1, LastIsInt DEF Inv, Ids
    <2> QED BY <1>2, <2>1, <2>5, <2>6, <2>7, <2>8, AheadStep
  <1> QED BY <1>5, <1>6

\* The last event of the batch: the row says the end, or that event.
LEMMA onCompleteAhead == ASSUME Inv, Ahead, NEW b \in Ids, onComplete(b) PROVE Ahead' /\ Upward
  <1>1. PICK w : w = Received(worker[b], worker[b].last + 1)
    OBVIOUS
  <1>2. /\ Delivers(b) /\ w.last >= w.end /\ worker[b].at # "none"
        /\ worker' = [worker EXCEPT ![b] = NoWorker]
    BY <1>1 DEF onComplete, Delivers
  <1>3. w \in Workers /\ w.end = worker[b].end /\ w.last \in Ids
    BY <1>1, <1>2, ReceivedFacts
  <1>4. w.end \in {None} \cup Ids
    BY <1>3 DEF Workers
  <1>5. progress[b].last <= w.end /\ (progress[b].completed => progress[b].last <= progress[b].end)
    <2>1. worker[b].last \in Int /\ progress[b].last \in Int /\ w.end \in Int
      BY <1>4, RecordFacts, LastIsInt DEF Workers, Ids, None, Inv
    <2> QED BY <1>2, <1>3, <2>1 DEF Ahead
  <1>6. run'.pending = run.pending
    BY <1>2 DEF onComplete, Inv, TypeOK
  <1>7. ASSUME NEW done, NEW last \in {w.last, w.end}, NEW completed \in BOOLEAN,
               Save(b, w, done, Row(w, last, completed)), completed => last = w.end
        PROVE  Ahead' /\ Upward
    <2>1. PICK r : r = Row(w, last, completed)
      OBVIOUS
    <2>2. r \in Rows /\ r.last = last /\ r.end = w.end /\ r.completed = completed
      BY <1>3, <1>4, <2>1, RowFields
    <2>3. PICK row \in {r, progress[b]} : progress' = [progress EXCEPT ![b] = row]
      <3>1. Save(b, w, done, r)
        BY <1>7, <2>1
      <3> QED BY <2>2, <3>1, SaveWrites DEF Inv
    <2>4. row \in Rows /\ progress[b].last <= row.last /\ (row.completed => row.last <= row.end)
      <3>1. progress[b] \in Rows /\ w.end \in Int /\ w.last \in Int /\ progress[b].last \in Int
        BY <1>3, <1>4, LastIsInt DEF Inv, TypeOK, Ids, None
      <3>2. CASE row = r
        BY <1>2, <1>5, <1>7, <2>2, <3>1, <3>2
      <3>3. CASE row = progress[b]
        BY <1>5, <3>1, <3>3
      <3> QED BY <2>3, <3>2, <3>3
    <2>5. PICK v \in Workers : v = NoWorker /\ v.at = "none"
      BY NoWorkerFacts
    <2> QED BY <1>2, <1>6, <2>3, <2>4, <2>5, AheadStep
  <1>8. CASE \E done \in Outcomes : Save(b, w, done, Row(w, w.end, TRUE))
    <2>1. PICK completed \in BOOLEAN : completed = TRUE
      OBVIOUS
    <2>2. PICK done : Save(b, w, done, Row(w, w.end, completed))
      BY <1>8, <2>1
    <2>3. PICK last \in {w.last, w.end} : last = w.end
      OBVIOUS
    <2> QED BY <1>7, <2>2, <2>3
  <1>9. CASE Save(b, w, 3, Row(w, w.last, FALSE))
    <2>1. PICK completed \in BOOLEAN : completed = FALSE
      OBVIOUS
    <2>2. Save(b, w, 3, Row(w, w.last, completed))
      BY <1>9, <2>1
    <2> QED BY <1>7, <2>1, <2>2
  <1> QED BY <1>1, <1>8, <1>9 DEF onComplete

\* A broken socket: the row says what was received, if anything was.
LEMMA onErrorAhead == ASSUME Inv, Ahead, NEW b \in Ids, onError(b) PROVE Ahead' /\ Upward
  <1>1. PICK w : w = worker[b]
    OBVIOUS
  <1>2. PICK done \in 0..3 :
            /\ IF w.last >= b THEN Save(b, w, done, Row(w, w.last, FALSE)) ELSE UNCHANGED tables
            /\ worker' = [worker EXCEPT ![b] = [Unsaved(w, done) EXCEPT !.at = "closing"]]
    BY <1>1 DEF onError
  <1>3. w \in Workers /\ w.at = "streaming" /\ run'.pending = run.pending /\ w.last \in {None} \cup Ids
    BY <1>1, RecordFacts DEF onError, Inv, TypeOK, Workers
  <1>4. progress[b].last <= w.last /\ w.last < w.end /\ (progress[b].completed => progress[b].last <= progress[b].end)
    BY <1>1, <1>3 DEF Ahead
  <1>5. PICK v : v = [Unsaved(w, done) EXCEPT !.at = "closing"]
    OBVIOUS
  <1>6. v \in Workers /\ v.last = w.last /\ v.end = w.end
    <2>1. PICK x : x = Unsaved(w, done)
      OBVIOUS
    <2>2. x \in Workers /\ x.last = w.last /\ x.end = w.end
      BY <1>2, <1>3, <2>1, UnsavedFields
    <2>3. v = [x EXCEPT !.at = "closing"]
      BY <1>5, <2>1
    <2> QED BY <2>2, <2>3 DEF Workers
  <1>7. PICK completed \in BOOLEAN : completed = FALSE
    OBVIOUS
  <1>8. PICK r : r = Row(w, w.last, completed)
    OBVIOUS
  <1>9. r \in Rows /\ r.last = w.last /\ ~r.completed
    BY <1>3, <1>7, <1>8, RowFields
  <1>10. PICK row \in {r, progress[b]} : progress' = [progress EXCEPT ![b] = row]
    <2>1. CASE Save(b, w, done, r)
      BY <1>9, <2>1, SaveWrites DEF Inv
    <2>2. CASE UNCHANGED tables
      BY <2>2, RowStays DEF Inv, tables
    <2> QED BY <1>2, <1>7, <1>8, <2>1, <2>2
  <1>11. row \in Rows /\ progress[b].last <= row.last /\ (row.completed => row.last <= row.end)
         /\ row.last <= v.last /\ v.last < v.end
    <2>1. progress[b] \in Rows /\ progress[b].last \in Int /\ w.last \in Int
      BY <1>3, LastIsInt DEF Inv, TypeOK, Ids, None
    <2> QED BY <1>4, <1>6, <1>9, <1>10, <2>1
  <1> QED BY <1>1, <1>2, <1>3, <1>5, <1>6, <1>10, <1>11, AheadStep

\* A run starts where the rows say, or further.
LEMMA ResumesAhead ==
    ASSUME TypeOK, Ahead, NEW b, b.start \in Ids, b.end \in Ids
    PROVE  progress[b.start].last <= resumeAt(b) \/ ~(resumeAt(b) < b.end)
  <1> DEFINE row == progress[b.start]
  <1>1. row \in Rows /\ (row.completed => row.last <= row.end)
    BY DEF TypeOK, Ahead
  <1>2. row.last \in Int /\ row.end \in Int /\ b.end \in Int
    BY <1>1 DEF Rows, Ids, None
  <1>3. resumeAt(b) = IF row.completed /\ row.end >= b.end THEN b.end
                      ELSE IF row.completed THEN row.end ELSE row.last
    BY DEF resumeAt
  <1> HIDE DEF row
  <1> QED BY <1>1, <1>2, <1>3 DEF row

\* A new run, with whatever batch size, cuts batches that resume at their rows.
LEMMA downloadAllEventsAhead ==
    ASSUME Inv, Ahead, NEW size \in BatchSizes, downloadAllEvents(size)
    PROVE  Ahead' /\ Upward
  <1>1. /\ run'.pending = mergeBatchesWithProgress(calculateBatches(size, latest))
        /\ UNCHANGED <<progress, worker>>
    BY DEF downloadAllEvents, tables
  <1>2. size \in Nat \ {0} /\ latest \in Ids
    BY DEF Inv, TypeOK
  <1>3. ASSUME NEW p \in run'.pending
        PROVE  p.start <= p.end /\ p.last < p.end /\ progress[p.start].last <= p.last
    <2>1. PICK b \in calculateBatches(size, latest) :
              resumeAt(b) < b.end /\ p = [start |-> b.start, end |-> b.end, last |-> resumeAt(b)]
      BY <1>1, <1>3 DEF mergeBatchesWithProgress
    <2>2. b.start \in Ids /\ b.end \in Ids /\ b.start <= b.end
      <3>1. PICK s \in 0..latest : b = [start |-> s, end |-> IF s + size - 1 < latest THEN s + size - 1 ELSE latest]
        BY DEF calculateBatches
      <3>2. b.start = s /\ b.end = IF s + size - 1 < latest THEN s + size - 1 ELSE latest
        BY <3>1
      <3>3. size \in Int /\ latest \in Int /\ size >= 1 /\ s \in Int /\ latest <= MaxEvent /\ MaxEvent \in Int
        BY <1>2 DEF Ids
      <3>4. s \in 0..MaxEvent
        BY <3>3
      <3>5. b.end \in 0..MaxEvent /\ s <= b.end
        BY <3>2, <3>3
      <3> QED BY <3>2, <3>4, <3>5 DEF Ids
    <2>3. progress[b.start].last <= resumeAt(b)
      BY <2>1, <2>2, ResumesAhead DEF Inv
    <2> QED BY <2>1, <2>2, <2>3
  <1>4. Upward
    BY <1>1, LastIsInt DEF Upward, Inv
  <1> QED BY <1>1, <1>3, <1>4 DEF Ahead

\* A slot that takes a batch writes the row as it found it.
LEMMA runWorkerAhead ==
    ASSUME Inv, Ahead, NEW p \in run.pending, runWorker(p)
    PROVE  Ahead' /\ Upward
  <1>1. /\ run'.pending = run.pending \ {p}
        /\ p.start \in Ids /\ p \in Batches
    BY DEF runWorker, Inv, TypeOK, Batches
  <1>2. CASE UNCHANGED <<progress, worker>>
    BY <1>1, <1>2, LastIsInt DEF Ahead, Upward, Inv
  <1>3. CASE /\ progress' = [progress EXCEPT ![p.start] = RowOfBatch(p)]
             /\ worker' = [worker EXCEPT ![p.start] =
                    [NoWorker EXCEPT !.at = "connecting", !.end = p.end, !.last = FirstEventId(p)]]
    <2>1. PICK b \in Ids : b = p.start
      BY <1>1
    <2>2. PICK row : row = RowOfBatch(p)
      OBVIOUS
    <2>3. row.last = p.last /\ row.completed = FALSE
      BY <2>2 DEF RowOfBatch
    <2>4. PICK v : v = [NoWorker EXCEPT !.at = "connecting", !.end = p.end, !.last = FirstEventId(p)]
      OBVIOUS
    <2>5. v.last = FirstEventId(p) /\ v.end = p.end
      BY <2>4 DEF NoWorker
    <2>6. /\ \A c \in Ids : worker'[c] = IF c = b THEN v ELSE worker[c]
          /\ \A c \in Ids : progress'[c] = IF c = b THEN row ELSE progress[c]
      BY <1>3, <2>1, <2>2, <2>4 DEF Inv, TypeOK
    <2>7. p.last \in Int /\ p.end \in Int /\ p.start \in Int /\ p.start >= 0 /\ p.last >= -1
      BY <1>1 DEF Batches, Ids, None
    <2>8. p.start <= p.end /\ p.last < p.end /\ progress[b].last <= p.last
      BY <2>1 DEF Ahead
    <2>9. row.last <= v.last /\ v.last < v.end
      <3>1. CASE p.last = None
        BY <2>3, <2>5, <2>7, <2>8, <3>1 DEF FirstEventId, None
      <3>2. CASE p.last # None
        BY <2>3, <2>5, <2>7, <2>8, <3>2 DEF FirstEventId
      <3> QED BY <3>1, <3>2
    <2>10. Upward
      BY <2>3, <2>6, <2>8, LastIsInt DEF Upward, Inv
    <2>11. ASSUME NEW q \in run.pending \ {p}
           PROVE  q.start <= q.end /\ q.last < q.end /\ progress'[q.start].last <= q.last
      <3>1. q.start \in Ids /\ q.start # b
        BY <2>1 DEF Inv, PendingStored, TypeOK, Batches
      <3> QED BY <2>6, <3>1 DEF Ahead
    <2> QED BY <1>1, <2>3, <2>6, <2>9, <2>10, <2>11 DEF Ahead
  <1> QED BY <1>2, <1>3 DEF runWorker

\* Every step keeps the invariant and moves no row back.
LEMMA AheadNext == Inv /\ Ahead /\ [Next]_vars => Ahead' /\ Upward
  <1> SUFFICES ASSUME Inv, Ahead, [Next]_vars PROVE Ahead' /\ Upward
    OBVIOUS
  <1>1. CASE FullnodeProduces BY <1>1, LastIsInt DEF FullnodeProduces, Ahead, Upward, Inv
  <1>2. CASE EndRun BY <1>2, LastIsInt DEF EndRun, tables, Ahead, Upward, Inv, TypeOK
  <1>3. CASE Exit \/ Crash
    <2>1. run'.pending = {} /\ progress' = progress /\ \A b \in Ids : worker'[b].at = "none"
      BY <1>3 DEF Exit, Crash, NoRun, NoWorker, tables
    <2> QED BY <2>1, LastIsInt DEF Ahead, Upward, Inv
  <1>4. CASE \E size \in BatchSizes : downloadAllEvents(size) BY <1>4, downloadAllEventsAhead
  <1>5. CASE \E p \in run.pending : runWorker(p) BY <1>5, runWorkerAhead
  <1>6. ASSUME NEW b \in Ids, Refused(b) \/ Closes(b)
        PROVE  Ahead' /\ Upward
    BY <1>6, StopsAhead DEF Refused, Closes, Inv, TypeOK
  <1>7. ASSUME NEW b \in Ids,
               Opens(b) \/ FullnodeSends(b) \/ onEvent(b) \/ onComplete(b) \/ onError(b)
        PROVE  Ahead' /\ Upward
    BY <1>7, OpensAhead, FullnodeSendsAhead, onEventAhead, onCompleteAhead, onErrorAhead
  <1>8. CASE UNCHANGED vars
    BY <1>8, LastIsInt DEF vars, Ahead, Upward, Inv
  <1> QED BY <1>1, <1>2, <1>3, <1>4, <1>5, <1>6, <1>7, <1>8 DEF Next

(* What a run saved is not given up by a later one: whatever the batch sizes, crashes *)
(* and failed statements, a row of download_progress only moves forward.              *)
THEOREM RowsMoveForward == Spec => NeverGoesBack
  <1>1. Init => Ahead
    BY DEF Init, Ahead, NoRow, NoRun, NoWorker
  <1>2. Inv /\ Ahead /\ [Next]_vars => [\A b \in Ids : progress'[b].last >= progress[b].last]_vars
    BY AheadNext DEF Upward
  <1> QED BY <1>1, <1>2, InitInv, NextInv, AheadNext, PTL DEF Spec, NeverGoesBack
=============================================================================
