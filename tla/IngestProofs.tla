---------------------------- MODULE IngestProofs ----------------------------
(***************************************************************************)
(* Proofs about the ways documents enter the system: uploads with their    *)
(* progress rows, the command that migrates the folders of a case, and the *)
(* knowledge graph drawn from what they say.  The components share no      *)
(* state here; each part has its own invariant and theorems, for any       *)
(* values of its constants.                                                *)
(***************************************************************************)
EXTENDS UploadIngest, CaseMigration, GraphClaims, FiniteSetTheorems, TLAPS

-----------------------------------------------------------------------------
(***************************************************************************)
(* Upload and ingest jobs, for any sets of requests and workers.  While no *)
(* step was lost, a progress row that is neither completed nor failed has  *)
(* somebody who will still write it; the two rows differ in who that is,   *)
(* because a hand writes the event before the batch.                       *)
(***************************************************************************)

StageNames == {"none", "uploading", "stored", "queued", "retry_parse_queued",
               "retry_graph_queued", "ocr_running", "parse_completed",
               "graph_running", "evidence_chunks_missing", "completed"}
Places == Marks \cup {"idle", "storing", "linking", "queueing", "parsing", "loading",
                      "linked", "building"}
HandRow == [pc : Places, half : {"event", "batch"}, at : StageNames, ref : BOOLEAN, job : Jobs]
QueueRow == [job : Jobs, ref : BOOLEAN]

UploadShapes ==
    /\ event \in Progress /\ batch \in Progress
    /\ queue \in Seq(QueueRow) /\ hand \in [Hands -> HandRow]

\* Only a hand at a progress stage is between its two writes.
HalfMarked == \A h \in Hands : hand[h].half = "batch" => hand[h].pc \in Marks

RowSettled(row) == row.status \in {"none", "completed", "failed"}

\* A hand that is bound to write the event row again before it rests.
TendsEvent(h) ==
    /\ hand[h].pc \notin {"idle", "storing"}
    /\ ~(hand[h].pc \in {"completing", "failing"} /\ hand[h].half = "batch")

RowsTended ==
    ~lost => /\ RowSettled(event) \/ queue # <<>> \/ \E h \in Hands : TendsEvent(h)
             /\ RowSettled(batch) \/ Working

CompletingGraphed == \A h \in Hands : hand[h].pc = "completing" => graphed

UploadInv == UploadShapes /\ HalfMarked /\ RowsTended /\ CompletingGraphed /\ CompletedWhenGraphed

----------------------------------------------------------------------------
(* Lemmas about operators.                                                 *)

LEMMA RestingRow == Resting \in HandRow /\ Resting.pc = "idle" /\ Resting.half = "event"
BY DEF Resting, HandRow, Places, Marks, StageNames, Jobs

LEMMA HandFields ==
    ASSUME NEW k \in HandRow
    PROVE  /\ \A pc \in Places : [k EXCEPT !.pc = pc] \in HandRow
           /\ \A pc \in Places, at \in StageNames : [k EXCEPT !.pc = pc, !.at = at] \in HandRow
BY DEF HandRow

\* Moving a hand replaces its row.
LEMMA HandMoved ==
    ASSUME NEW h \in Hands, hand[h] \in HandRow, hand[h].half = "event",
           NEW pc \in Places, NEW at \in StageNames, Go(h, pc) \/ Report(h, pc, at)
    PROVE  \E k \in HandRow : hand' = [hand EXCEPT ![h] = k] /\ k.pc = pc /\ k.half = "event"
<1> DEFINE k1 == [hand[h] EXCEPT !.pc = pc]
           k2 == [hand[h] EXCEPT !.pc = pc, !.at = at]
<1>1. /\ k1 \in HandRow /\ k1.pc = pc /\ k1.half = "event"
      /\ k2 \in HandRow /\ k2.pc = pc /\ k2.half = "event"
  BY DEF HandRow
<1>2. hand' = [hand EXCEPT ![h] = k1] \/ hand' = [hand EXCEPT ![h] = k2]
  BY DEF Go, Report
<1> HIDE DEF k1, k2
<1> QED
  BY <1>1, <1>2

LEMMA MarkedProgress ==
    ASSUME NEW h \in Hands, hand[h] \in HandRow
    PROVE  /\ Mark(h) \in Progress
           /\ hand[h].pc \in {"completing", "failing"} => RowSettled(Mark(h))
           /\ Mark(h).status = "completed" => hand[h].pc = "completing"
BY DEF Mark, StatusOf, Progress, HandRow, StageNames, RowSettled

\* Where both writes of a progress stage lead.
LEMMA AfterMark ==
    ASSUME NEW k \in HandRow, k.pc \in Marks
    PROVE  /\ After[k.pc] \in {"stored", "linking", "queueing", "parsing", "loading", "idle"}
           /\ After[k.pc] = "idle" <=> k.pc \in {"completing", "failing"}
BY DEF After, Marks

----------------------------------------------------------------------------
(* The invariant holds initially, and every step keeps it.                 *)

LEMMA UploadInvInit == UploadInit => UploadInv
<1> SUFFICES ASSUME UploadInit PROVE UploadInv
  OBVIOUS
<1>1. Absent \in Progress /\ Absent.status = "none"
  BY DEF Absent, Progress
<1>2. UploadShapes
  BY <1>1, RestingRow DEF UploadInit, UploadShapes
<1>3. HalfMarked /\ CompletingGraphed
  BY RestingRow DEF UploadInit, HalfMarked, CompletingGraphed
<1>4. RowsTended /\ CompletedWhenGraphed
  BY <1>1 DEF UploadInit, RowsTended, CompletedWhenGraphed, RowSettled
<1> QED
  BY <1>2, <1>3, <1>4 DEF UploadInv

\* One hand moves and still tends the event; it has written nothing but, maybe,
\* rows that are not completed.
LEMMA TendingKept ==
    ASSUME UploadInv, NEW h \in Hands, NEW k \in HandRow, hand' = [hand EXCEPT ![h] = k],
           queue' \in Seq(QueueRow), event' \in Progress, batch' \in Progress,
           k.pc \notin {"idle", "storing"},
           k.half = "batch" => k.pc \in Marks \ {"completing", "failing"},
           k.pc = "completing" => graphed', graphed => graphed',
           event'.status = "completed" => event.status = "completed",
           batch'.status = "completed" => batch.status = "completed"
    PROVE  UploadInv'
<1>1. /\ hand' \in [Hands -> HandRow] /\ hand'[h] = k
      /\ \A j \in Hands \ {h} : hand'[j] = hand[j]
  BY DEF UploadInv, UploadShapes
<1>2. UploadShapes' /\ HalfMarked'
  BY <1>1 DEF UploadInv, UploadShapes, HalfMarked
<1>3. RowsTended'
  <2>1. TendsEvent(h)' /\ Working'
    BY <1>1 DEF TendsEvent, Working
  <2> QED
    BY <2>1 DEF RowsTended
<1>4. CompletingGraphed' /\ CompletedWhenGraphed'
  BY <1>1 DEF UploadInv, CompletingGraphed, CompletedWhenGraphed
<1> QED
  BY <1>2, <1>3, <1>4 DEF UploadInv

\* The first write: the event row.
LEMMA MarkEventKept ==
    ASSUME UploadInv, NEW h \in Hands, MarkEvent(h)
    PROVE  UploadInv'
<1> DEFINE k == [hand[h] EXCEPT !.half = "batch"]
<1>1. /\ hand \in [Hands -> HandRow] /\ hand[h] \in HandRow /\ hand[h].pc \in Marks
      /\ hand' = [hand EXCEPT ![h] = k] /\ UNCHANGED <<batch, graphed, queue>>
      /\ \/ event' = Mark(h) /\ lost' = lost
         \/ event' = event /\ lost' = TRUE
  BY DEF UploadInv, UploadShapes, MarkEvent
<1>2. k \in HandRow /\ k.pc = hand[h].pc /\ k.half = "batch"
  BY <1>1 DEF HandRow
<1> HIDE DEF k
<1>3. hand'[h] = k /\ hand' \in [Hands -> HandRow] /\ \A j \in Hands \ {h} : hand'[j] = hand[j]
  BY <1>1, <1>2
<1>4. UploadShapes'
  BY <1>1, <1>3, MarkedProgress DEF UploadInv, UploadShapes
<1>5. HalfMarked' /\ CompletingGraphed'
  BY <1>1, <1>2, <1>3 DEF UploadInv, HalfMarked, CompletingGraphed
<1>6. CompletedWhenGraphed'
  BY <1>1, MarkedProgress DEF UploadInv, CompletedWhenGraphed, CompletingGraphed
<1>7. RowsTended'
  <2> SUFFICES ASSUME ~lost'
               PROVE  /\ RowSettled(event') \/ queue' # <<>> \/ \E j \in Hands : TendsEvent(j)'
                      /\ RowSettled(batch') \/ Working'
    BY DEF RowsTended, RowSettled
  <2>1. event' = Mark(h)
    BY <1>1
  <2>2. Working'
    BY <1>1, <1>2, <1>3 DEF Working, Marks
  <2>3. CASE hand[h].pc \in {"completing", "failing"}
    BY <1>1, <2>1, <2>2, <2>3, MarkedProgress
  <2>4. CASE hand[h].pc \notin {"completing", "failing"}
    <3>1. TendsEvent(h)'
      BY <1>1, <1>2, <1>3, <2>4 DEF TendsEvent, Marks
    <3> QED
      BY <2>2, <3>1
  <2> QED
    BY <2>3, <2>4
<1> QED
  BY <1>4, <1>5, <1>6, <1>7 DEF UploadInv

\* The second write: the batch row; a hand that rests now has settled it.
LEMMA MarkBatchKept ==
    ASSUME UploadInv, NEW h \in Hands, MarkBatch(h)
    PROVE  UploadInv'
<1>1. /\ hand \in [Hands -> HandRow] /\ hand[h] \in HandRow /\ hand[h].pc \in Marks
      /\ hand[h].half = "batch" /\ UNCHANGED <<event, graphed, queue>>
      /\ \/ batch' = Mark(h) /\ lost' = lost
         \/ batch' = batch /\ lost' = TRUE
  BY DEF UploadInv, UploadShapes, MarkBatch
<1>2. PICK k \in HandRow : /\ hand' = [hand EXCEPT ![h] = k] /\ k.half = "event"
                           /\ k.pc = After[hand[h].pc]
  <2> DEFINE next == After[hand[h].pc]
             done == [hand[h] EXCEPT !.pc = next, !.half = "event"]
  <2>1. next \in {"stored", "linking", "queueing", "parsing", "loading", "idle"}
    BY <1>1, AfterMark
  <2>2. /\ done \in HandRow /\ done.half = "event" /\ done.pc = next
        /\ [done EXCEPT !.at = "stored"] \in HandRow
        /\ [done EXCEPT !.at = "stored"].pc = next /\ [done EXCEPT !.at = "stored"].half = "event"
    BY <1>1, <2>1 DEF HandRow, Places, Marks, StageNames
  <2>3. hand' = [hand EXCEPT ![h] = CASE next = "idle" -> Resting
                                       [] next = "stored" -> [done EXCEPT !.at = "stored"]
                                       [] OTHER -> done]
    BY DEF MarkBatch
  <2> HIDE DEF done, next
  <2> QED
    BY <2>1, <2>2, <2>3, RestingRow DEF next
<1>3. hand'[h] = k /\ hand' \in [Hands -> HandRow] /\ \A j \in Hands \ {h} : hand'[j] = hand[j]
  BY <1>1, <1>2
<1>4. UploadShapes'
  BY <1>1, <1>3, MarkedProgress DEF UploadInv, UploadShapes
<1>5. HalfMarked' /\ CompletingGraphed'
  BY <1>1, <1>2, <1>3, AfterMark DEF UploadInv, HalfMarked, CompletingGraphed
<1>6. CompletedWhenGraphed'
  BY <1>1, MarkedProgress DEF UploadInv, CompletedWhenGraphed, CompletingGraphed
<1>7. RowsTended'
  <2> SUFFICES ASSUME ~lost'
               PROVE  /\ RowSettled(event') \/ queue' # <<>> \/ \E j \in Hands : TendsEvent(j)'
                      /\ RowSettled(batch') \/ Working'
    BY DEF RowsTended, RowSettled
  <2>1. batch' = Mark(h) /\ ~lost
    BY <1>1
  <2>2. CASE hand[h].pc \in {"completing", "failing"}
    <3>1. RowSettled(batch')
      BY <1>1, <2>1, <2>2, MarkedProgress
    <3>2. ~TendsEvent(h)
      BY <1>1, <2>2 DEF TendsEvent
    <3>3. \A j \in Hands : TendsEvent(j) => TendsEvent(j)'
      BY <1>3, <3>2 DEF TendsEvent
    <3> QED
      BY <1>1, <2>1, <3>1, <3>3 DEF UploadInv, RowsTended
  <2>3. CASE hand[h].pc \notin {"completing", "failing"}
    <3>1. k.pc \notin {"idle", "storing", "completing", "failing"}
      BY <1>1, <1>2, <2>3, AfterMark
    <3>2. TendsEvent(h)' /\ Working'
      BY <1>3, <3>1 DEF TendsEvent, Working
    <3> QED
      BY <3>2
  <2> QED
    BY <2>2, <2>3
<1> QED
  BY <1>4, <1>5, <1>6, <1>7 DEF UploadInv

\* A submitted job is in the queue; one that was refused is reported.
LEMMA SubmitKept ==
    ASSUME UploadInv, NEW h \in Hands, Submit(h)
    PROVE  UploadInv'
<1>1. /\ hand \in [Hands -> HandRow] /\ hand[h] \in HandRow /\ hand[h].pc = "queueing"
      /\ hand[h].half = "event" /\ queue \in Seq(QueueRow)
      /\ UNCHANGED <<event, batch, graphed, lost>>
  BY DEF UploadInv, UploadShapes, Submit, HalfMarked, HandRow, Marks
<1>2. CASE /\ queue' = Append(queue, [job |-> hand[h].job, ref |-> hand[h].ref])
           /\ hand' = [hand EXCEPT ![h] = Resting]
  <2>1. queue' \in Seq(QueueRow) /\ queue' # <<>>
    BY <1>1, <1>2 DEF HandRow, QueueRow
  <2>2. hand' \in [Hands -> HandRow] /\ hand'[h] = Resting /\ \A j \in Hands \ {h} : hand'[j] = hand[j]
    BY <1>1, <1>2, RestingRow
  <2>3. UploadShapes' /\ HalfMarked' /\ CompletingGraphed'
    BY <1>1, <2>1, <2>2, RestingRow DEF UploadInv, UploadShapes, HalfMarked, CompletingGraphed
  <2>4. RowsTended' /\ CompletedWhenGraphed'
    BY <1>1, <2>1 DEF UploadInv, RowsTended, Working, CompletedWhenGraphed
  <2> QED
    BY <2>3, <2>4 DEF UploadInv
<1>3. CASE queue' = queue /\ SubmitRefused(h)
  <2> DEFINE k == [hand[h] EXCEPT !.pc = "failing",
                                  !.at = IF hand[h].at = "stored" THEN "queued" ELSE hand[h].at]
  <2>1. k \in HandRow /\ k.pc = "failing" /\ k.half = "event"
    BY <1>1 DEF HandRow, Places, Marks, StageNames
  <2>2. hand' = [hand EXCEPT ![h] = k]
    BY <1>3 DEF SubmitRefused, Report
  <2> HIDE DEF k
  <2> QED
    BY <1>1, <1>3, <2>1, <2>2, TendingKept DEF UploadInv, UploadShapes
<1> QED
  BY <1>2, <1>3 DEF Submit

\* An upload begins, and fails before or after its files are stored.
LEMMA RequestKept ==
    ASSUME UploadInv, NEW r \in Requests,
           \/ StartUpload(r) \/ StoreObjects(r) \/ LinkFiles(r)
           \/ \E stage \in Jobs \cup {"auto"} : Retry(r, stage)
    PROVE  UploadInv'
<1>0. /\ r \in Hands /\ hand \in [Hands -> HandRow] /\ hand[r] \in HandRow
      /\ queue \in Seq(QueueRow) /\ event \in Progress /\ batch \in Progress
      /\ hand[r].half = "batch" => hand[r].pc \in Marks
  BY DEF Hands, UploadInv, UploadShapes, HalfMarked
<1>1. CASE StartUpload(r)
  <2> DEFINE k == [hand[r] EXCEPT !.pc = "storing"]
  <2>1. /\ k \in HandRow /\ k.pc = "storing" /\ k.half = "event" /\ hand[r].pc = "idle"
        /\ hand' = [hand EXCEPT ![r] = k] /\ UNCHANGED <<event, batch, graphed, queue, lost>>
    BY <1>0, <1>1 DEF StartUpload, Go, HandRow, Places, Marks
  <2> HIDE DEF k
  <2>2. hand' \in [Hands -> HandRow] /\ hand'[r] = k /\ \A j \in Hands \ {r} : hand'[j] = hand[j]
    BY <1>0, <2>1
  <2>3. UploadShapes' /\ HalfMarked' /\ CompletingGraphed' /\ CompletedWhenGraphed'
    BY <1>0, <2>1, <2>2 DEF UploadInv, UploadShapes, HalfMarked, CompletingGraphed, CompletedWhenGraphed
  <2>4. RowsTended'
    <3>1. Working'
      BY <1>0, <2>1, <2>2 DEF Working
    <3>2. \A j \in Hands : TendsEvent(j) => TendsEvent(j)'
      BY <2>1, <2>2 DEF TendsEvent
    <3> QED
      BY <2>1, <3>1, <3>2 DEF UploadInv, RowsTended
  <2> QED
    BY <2>3, <2>4 DEF UploadInv
<1>2. CASE StoreObjects(r)
  <2>1. CASE Report(r, "received", "uploading") /\ UNCHANGED <<batch, lost>>
    <3> DEFINE k == [hand[r] EXCEPT !.pc = "received", !.at = "uploading"]
    <3>1. k \in HandRow /\ k.pc = "received" /\ k.half = "event"
          /\ hand' = [hand EXCEPT ![r] = k] /\ UNCHANGED <<event, batch, graphed, queue>>
      BY <1>0, <1>2, <2>1 DEF StoreObjects, Report, HandRow, Places, Marks, StageNames
    <3> HIDE DEF k
    <3> QED
      BY <1>0, <3>1, TendingKept
  <2>2. CASE hand' = [hand EXCEPT ![r] = Resting] /\ FailedUpload
    <3>1. /\ hand' \in [Hands -> HandRow] /\ hand'[r] = Resting
          /\ \A j \in Hands \ {r} : hand'[j] = hand[j]
          /\ hand[r].pc = "storing" /\ UNCHANGED <<event, graphed, queue>>
      BY <1>0, <1>2, <2>2, RestingRow DEF StoreObjects
    <3>2. /\ batch' \in Progress /\ (lost' = TRUE \/ (lost' = lost /\ RowSettled(batch')))
          /\ batch'.status = "completed" => batch.status = "completed"
      BY <1>0, <2>2 DEF FailedUpload, Absent, Progress, RowSettled
    <3>3. UploadShapes' /\ HalfMarked' /\ CompletingGraphed' /\ CompletedWhenGraphed'
      BY <1>0, <3>1, <3>2, RestingRow
         DEF UploadInv, UploadShapes, HalfMarked, CompletingGraphed, CompletedWhenGraphed
    <3>4. RowsTended'
      <4>1. \A j \in Hands : TendsEvent(j) => TendsEvent(j)'
        BY <3>1 DEF TendsEvent
      <4> QED
        BY <3>1, <3>2, <4>1 DEF UploadInv, RowsTended, RowSettled
    <3> QED
      BY <3>3, <3>4 DEF UploadInv
  <2> QED
    BY <1>2, <2>1, <2>2 DEF StoreObjects
<1>3. CASE LinkFiles(r)
  <2>1. PICK k \in HandRow : /\ hand' = [hand EXCEPT ![r] = k] /\ k.pc \in {"queueing", "failing"}
                             /\ k.half = "event"
    BY <1>0, <1>3 DEF LinkFiles, Report, HandRow, Places, Marks, StageNames, Jobs
  <2> QED
    BY <1>0, <1>3, <2>1, TendingKept DEF LinkFiles
<1>4. ASSUME NEW stage \in Jobs \cup {"auto"}, Retry(r, stage) PROVE UploadInv'
  <2> DEFINE again == IF stage = "auto" THEN AutoStage ELSE stage
  <2>1. again \in Jobs
    BY DEF AutoStage, Jobs
  <2>2. KnownRef \in BOOLEAN
    BY <1>0 DEF KnownRef, Progress
  <2>3. Retried(again) \in HandRow /\ Retried(again).pc = "retrying" /\ Retried(again).half = "event"
    BY <2>1, <2>2 DEF Retried, HandRow, Places, Marks, StageNames
  <2>4. hand' = [hand EXCEPT ![r] = Retried(again)] /\ UNCHANGED <<event, batch, graphed, queue>>
    BY <1>4 DEF Retry
  <2> HIDE DEF again
  <2> QED
    BY <1>0, <2>3, <2>4, TendingKept
<1> QED
  BY <1>1, <1>2, <1>3, <1>4

LEMMA WorkerKept ==
    ASSUME UploadInv, NEW w \in Workers,
           TakeJob(w) \/ Parse(w) \/ LoadChunks(w) \/ LinkBatch(w) \/ BuildGraph(w) \/ JobFails(w)
    PROVE  UploadInv'
<1>0. /\ w \in Hands /\ hand \in [Hands -> HandRow] /\ hand[w] \in HandRow
      /\ queue \in Seq(QueueRow) /\ event \in Progress /\ batch \in Progress
      /\ hand[w].half = "batch" => hand[w].pc \in Marks
  BY DEF Hands, UploadInv, UploadShapes, HalfMarked
<1>1. CASE TakeJob(w)
  <2> DEFINE ocr == [Resting EXCEPT !.pc = "ocr", !.at = "ocr_running"]
             drawing == [Resting EXCEPT !.pc = "drawing", !.at = "graph_running",
                                        !.ref = Head(queue).ref]
  <2>1. queue' \in Seq(QueueRow) /\ Head(queue) \in QueueRow
    BY <1>0, <1>1 DEF TakeJob
  <2>2. /\ ocr \in HandRow /\ ocr.pc = "ocr" /\ ocr.half = "event"
        /\ drawing \in HandRow /\ drawing.pc = "drawing" /\ drawing.half = "event"
    BY <2>1 DEF Resting, HandRow, QueueRow, Places, Marks, StageNames, Jobs
  <2>3. hand' = [hand EXCEPT ![w] = ocr] \/ hand' = [hand EXCEPT ![w] = drawing]
    BY <1>1 DEF TakeJob
  <2> HIDE DEF ocr, drawing
  <2> QED
    BY <1>0, <1>1, <2>1, <2>2, <2>3, TendingKept DEF TakeJob
<1>2. CASE Parse(w)
  <2> DEFINE k == [hand[w] EXCEPT !.pc = "parsed", !.at = "parse_completed", !.ref = TRUE, !.job = "graph"]
  <2>1. k \in HandRow /\ k.pc = "parsed" /\ k.half = "event"
    BY <1>0, <1>2 DEF Parse, HandRow, Places, Marks, StageNames, Jobs
  <2>2. hand' = [hand EXCEPT ![w] = k]
    BY <1>2 DEF Parse
  <2> HIDE DEF k
  <2> QED
    BY <1>0, <1>2, <2>1, <2>2, TendingKept DEF Parse
<1>3. ASSUME NEW pc \in {"linked", "building", "completing", "failing"}, NEW at \in StageNames,
             hand[w].pc \notin Marks, Go(w, pc) \/ Report(w, pc, at), UNCHANGED <<queue, event>>,
             batch' \in Progress, graphed => graphed', pc = "completing" => graphed',
             batch'.status = "completed" => batch.status = "completed"
      PROVE  UploadInv'
  <2>1. hand[w].half = "event" /\ pc \in Places
    BY <1>0, <1>3 DEF HandRow, Places, Marks
  <2>2. PICK k \in HandRow : hand' = [hand EXCEPT ![w] = k] /\ k.pc = pc /\ k.half = "event"
    BY <1>0, <1>3, <2>1, HandMoved
  <2> QED
    BY <1>0, <1>3, <2>2, TendingKept
<1>4. CASE LoadChunks(w)
  BY <1>0, <1>3, <1>4 DEF LoadChunks, StageNames, Marks
<1>5. CASE LinkBatch(w)
  <2>1. batch' \in Progress /\ batch'.status = "processing" /\ UNCHANGED <<event, graphed, queue>>
    BY <1>5 DEF LinkBatch, LoadedStatus, Progress
  <2> QED
    BY <1>3, <1>5, <2>1 DEF LinkBatch, StageNames, Marks
<1>6. CASE BuildGraph(w) \/ JobFails(w)
  BY <1>0, <1>3, <1>6 DEF BuildGraph, JobFails, StageNames, Marks
<1> QED
  BY <1>1, <1>2, <1>3, <1>4, <1>5, <1>6

LEMMA UploadInvStep == UploadInv /\ [UploadNext]_uvars => UploadInv'
<1> SUFFICES ASSUME UploadInv, [UploadNext]_uvars PROVE UploadInv'
  OBVIOUS
<1>1. CASE Restart
  <2>1. UploadShapes' /\ HalfMarked' /\ CompletingGraphed'
    BY <1>1, RestingRow DEF Restart, UploadInv, UploadShapes, HalfMarked, CompletingGraphed
  <2>2. RowsTended' /\ CompletedWhenGraphed'
    BY <1>1 DEF Restart, RowsTended, UploadInv, CompletedWhenGraphed
  <2> QED
    BY <2>1, <2>2 DEF UploadInv
<1>2. CASE UNCHANGED uvars
  BY <1>2 DEF uvars, UploadInv, UploadShapes, HalfMarked, RowsTended, RowSettled, TendsEvent, Working,
              CompletingGraphed, CompletedWhenGraphed
<1> QED
  BY <1>1, <1>2, MarkEventKept, MarkBatchKept, SubmitKept, RequestKept, WorkerKept DEF UploadNext

LEMMA UploadInvariance == UploadSpec => []UploadInv
BY UploadInvInit, UploadInvStep, PTL DEF UploadSpec

----------------------------------------------------------------------------
(* Theorems.                                                               *)

\* A batch nobody works on is completed or failed in both rows, unless a
\* restart or a lost write came in between.
THEOREM IdleMeansSettledHolds == UploadSpec => []IdleMeansSettled
<1>1. UploadInv => IdleMeansSettled
  BY DEF UploadInv, RowsTended, RowSettled, TendsEvent, Working, IdleMeansSettled
<1> QED
  BY <1>1, UploadInvariance, PTL

\* A batch is shown as completed only when its graph has been persisted.
THEOREM CompletedWhenGraphedHolds == UploadSpec => []CompletedWhenGraphed
<1>1. UploadInv => CompletedWhenGraphed
  BY DEF UploadInv
<1> QED
  BY <1>1, UploadInvariance, PTL

\* What the inductive invariant does not need.
UploadRest ==
    /\ linked \in BOOLEAN /\ extracted \in BOOLEAN /\ graphed \in BOOLEAN /\ lost \in BOOLEAN
    /\ requested \in 0..MaxRequested

\* Every step keeps it so.
LEMMA UploadRestStep == UploadRest /\ [UploadNext]_uvars => UploadRest'
  <1> SUFFICES ASSUME UploadRest, [UploadNext]_uvars PROVE UploadRest'
    OBVIOUS
  <1>1. CASE UNCHANGED uvars
    BY <1>1 DEF uvars, UploadRest
  <1>2. ASSUME NEW h \in Hands, MarkEvent(h) \/ MarkBatch(h) \/ Submit(h) PROVE UploadRest'
    BY <1>2 DEF MarkEvent, MarkBatch, Submit, UploadRest
  <1>3. ASSUME NEW r \in Requests, \/ StartUpload(r) \/ StoreObjects(r) \/ LinkFiles(r)
                                   \/ \E stage \in Jobs \cup {"auto"} : Retry(r, stage)
        PROVE  UploadRest'
    <2>1. requested' \in 0..MaxRequested
      BY <1>3, UploadAssumption DEF StartUpload, StoreObjects, LinkFiles, Retry, UploadRest
    <2>2. /\ linked' \in BOOLEAN /\ extracted' \in BOOLEAN /\ graphed' \in BOOLEAN
          /\ lost' \in BOOLEAN
      <3>1. CASE StartUpload(r)
        BY <3>1 DEF StartUpload, UploadRest
      <3>2. CASE StoreObjects(r)
        BY <3>2 DEF StoreObjects, FailedUpload, UploadRest
      <3>3. CASE LinkFiles(r)
        BY <3>3 DEF LinkFiles, UploadRest
      <3>4. ASSUME NEW stage \in Jobs \cup {"auto"}, Retry(r, stage)
            PROVE  UNCHANGED <<linked, extracted, graphed, lost>>
        BY <3>4 DEF Retry
      <3> QED BY <1>3, <3>1, <3>2, <3>3, <3>4 DEF UploadRest
    <2> QED BY <2>1, <2>2 DEF UploadRest
  <1>4. ASSUME NEW w \in Workers, \/ TakeJob(w) \/ Parse(w) \/ LoadChunks(w) \/ LinkBatch(w)
                                  \/ BuildGraph(w) \/ JobFails(w)
        PROVE  UploadRest'
    BY <1>4 DEF TakeJob, Parse, LoadChunks, LinkBatch, BuildGraph, JobFails, UploadRest
  <1>5. CASE Restart
    BY <1>5 DEF Restart, UploadRest
  <1> QED BY <1>1, <1>2, <1>3, <1>4, <1>5 DEF UploadNext

\* The stages of progress rows.
LEMMA UploadStages == StageNames \subseteq {p.stage : p \in Progress}
  <1> SUFFICES ASSUME NEW s \in StageNames PROVE \E p \in Progress : p.stage = s
    OBVIOUS
  <1>1. [status |-> "none", stage |-> s, ref |-> FALSE] \in Progress
    BY DEF Progress, StageNames
  <1> QED BY <1>1

\* Rows, queue and hands have the shapes of their tables and handlers.
THEOREM UploadTyped == UploadSpec => []UploadTypeOK
  <1>1. UploadInit => UploadRest
    <2>1. UploadInit => requested \in 0..MaxRequested
      BY UploadAssumption DEF UploadInit
    <2> QED BY <2>1, Zenon DEF UploadInit, UploadRest
  <1>2. UploadInv /\ UploadRest => UploadTypeOK
    BY UploadStages DEF UploadInv, UploadShapes, HandRow, Places, QueueRow, UploadRest, UploadTypeOK
  <1> QED BY <1>1, <1>2, UploadRestStep, UploadInvariance, PTL DEF UploadSpec

-----------------------------------------------------------------------------
(***************************************************************************)
(* The migration of a case, for any folders, files and number of batches,  *)
(* and any number of importers next to the command. The command may stop   *)
(* at any stage and be run again over what it left; the inductive          *)
(* invariant says what it has written for its batch at each stage, and     *)
(* that the batches it may write to hold nothing, or just the files that   *)
(* its folder has for them.                                                *)
(***************************************************************************)

BatchRecord == [status : BatchStatus, event : BatchStatus, links : SUBSET Contents]
CommandRecord == [pc : CommandStage, folder : Folders \cup {NoCommand.folder}, batch : 1..Batches,
                  todo : SUBSET Contents, erred : BOOLEAN]

ImportRecord == [content : Contents, dataset : Datasets, by : Importers]

\* A file of the batch is in the accounts as the dataset its plan expects.
FileImported(c) == Imported(FileRows(c))

MigrationShape ==
    /\ uploadBatch \in [1..Batches -> BatchRecord] /\ command \in CommandRecord
    /\ imports \in Seq(ImportRecord)
    /\ looked \subseteq ImportRecord

\* Two look-ups of a content as one dataset under way, or one of what was
\* imported since, have overlapped.
LookUpsInv ==
    /\ RowsImportedOnce
    /\ \A l \in looked : Imported(l) => Key(l) \in overlapped
    /\ \A l, m \in looked : l # m /\ Key(l) = Key(m) => Key(l) \in overlapped

\* The files of the folder are those of the batches it may write to.
FolderInv ==
    Running("idle") \/ /\ command.folder \in Folders
                       /\ \A k \in 1..Batches : k <= Reviewed \/ Reviewed < Batch =>
                              uploadBatch[k].links \in {{}, FilesIn[command.folder][k]}

\* What the command has written for its batch when it is at a stage.
StageInv ==
    /\ command.pc \in {"opened", "storing", "linking", "classifying", "importing"} =>
           uploadBatch[Batch].status = "processing"
    /\ command.pc \in {"linking", "classifying", "importing", "closing"} => Plan \subseteq sourceFiles
    /\ command.pc \in {"classifying", "importing", "closing"} => uploadBatch[Batch].links = Plan
    /\ command.pc \in {"classifying", "importing"} => Batch <= Reviewed
    /\ command.pc \in {"importing", "closing"} /\ Batch <= Reviewed => Plan \X {Batch} \subseteq classified
    /\ command.pc = "importing" => command.todo \subseteq Plan
    /\ command.pc = "importing" /\ ~command.erred =>
           \A c \in Plan \ command.todo : FileImported(c)
    /\ command.pc = "closing" /\ Batch <= Reviewed => \A c \in Plan : FileImported(c)
    /\ \A l \in looked : l.by = Operator =>
           command.pc = "importing" /\ l.content \in command.todo /\ l = FileRows(l.content)

MigrationInv == MigrationShape /\ LookUpsInv /\ FolderInv /\ StageInv /\ CompletedBatchWhole

\* The invariant holds of an empty company.
LEMMA MigrationInitInv == MigrationInit => MigrationInv
  <1> SUFFICES ASSUME MigrationInit PROVE MigrationInv
    OBVIOUS
  <1>1. /\ imports = <<>> /\ DOMAIN imports = {} /\ looked = {} /\ command = NoCommand
        /\ command.pc = "idle"
        /\ \A b \in 1..Batches : uploadBatch[b].status = "none"
    BY DEF MigrationInit, NoCommand
  <1>2. MigrationShape
    <2>1. 1 \in 1..Batches
      BY MigrationAssumption
    <2>2. NoCommand \in CommandRecord
      BY <2>1 DEF NoCommand, CommandRecord, CommandStage
    <2> QED BY <1>1, <2>2 DEF MigrationInit, MigrationShape, BatchRecord, BatchStatus
  <1>3. LookUpsInv /\ FolderInv
    BY <1>1 DEF LookUpsInv, RowsImportedOnce, FolderInv, Running
  <1>4. StageInv
    BY <1>1 DEF StageInv
  <1>5. CompletedBatchWhole
    BY <1>1 DEF CompletedBatchWhole
  <1> QED BY <1>2, <1>3, <1>4, <1>5 DEF MigrationInv

\* A row of the look-up that is inserted is the last one.
LEMMA MigrationInserted ==
    ASSUME MigrationShape, NEW l \in looked, InsertRows(l)
    PROVE  /\ imports' \in Seq(ImportRecord)
           /\ DOMAIN imports' = DOMAIN imports \cup {Len(imports) + 1}
           /\ Len(imports) + 1 \notin DOMAIN imports
           /\ imports'[Len(imports) + 1] = l
           /\ \A i \in DOMAIN imports : imports'[i] = imports[i]
  BY DEF MigrationShape, InsertRows

\* Look-ups are not lost sight of by whoever inserts or gives up.
LEMMA MigrationInsertStep ==
    ASSUME MigrationShape, LookUpsInv, NEW l \in looked, InsertRows(l),
           looked' \subseteq looked \ {l}, UNCHANGED overlapped
    PROVE  LookUpsInv' /\ \A row : Imported(row) => Imported(row)'
  <1>1. /\ DOMAIN imports' = DOMAIN imports \cup {Len(imports) + 1}
        /\ Len(imports) + 1 \notin DOMAIN imports
        /\ imports'[Len(imports) + 1] = l
        /\ \A i \in DOMAIN imports : imports'[i] = imports[i]
    BY MigrationInserted
  <1>2. \A row : Imported(row)' <=> Imported(row) \/ Key(row) = Key(l)
    BY <1>1 DEF Imported
  <1>3. \A i \in DOMAIN imports : Key(imports[i]) = Key(l) => Key(l) \in overlapped
    BY DEF LookUpsInv, Imported
  <1>4. RowsImportedOnce'
    <2> SUFFICES ASSUME NEW i \in DOMAIN imports', NEW j \in DOMAIN imports', i # j,
                        Key(imports'[i]) = Key(imports'[j])
                 PROVE  Key(imports'[i]) \in overlapped'
      BY DEF RowsImportedOnce
    <2>1. CASE i \in DOMAIN imports /\ j \in DOMAIN imports
      BY <1>1, <2>1 DEF LookUpsInv, RowsImportedOnce
    <2>2. CASE i \in DOMAIN imports /\ j = Len(imports) + 1
      BY <1>1, <1>3, <2>2
    <2>3. CASE i = Len(imports) + 1 /\ j \in DOMAIN imports
      BY <1>1, <1>3, <2>3
    <2> QED BY <1>1, <2>1, <2>2, <2>3
  <1>5. /\ \A m \in looked' : Imported(m)' => Key(m) \in overlapped'
        /\ \A k, m \in looked' : k # m /\ Key(k) = Key(m) => Key(k) \in overlapped'
    <2>1. \A m \in looked' : m \in looked /\ m # l
      OBVIOUS
    <2>2. \A m \in looked' : Key(m) = Key(l) => Key(m) \in overlapped
      BY <2>1 DEF LookUpsInv
    <2> QED BY <1>2, <2>1, <2>2 DEF LookUpsInv
  <1> QED BY <1>2, <1>4, <1>5 DEF LookUpsInv

\* A look-up keeps what the look-ups under way know.
LEMMA MigrationLookUpStep ==
    ASSUME MigrationShape, LookUpsInv, NEW n \in ImportRecord, LookUp(n), UNCHANGED imports
    PROVE  /\ LookUpsInv' /\ looked' \subseteq ImportRecord
           /\ looked' \subseteq looked \cup {n}
           /\ n \in looked' /\ n \notin looked => ~Imported(n)
  <1>1. \A row : Imported(row)' <=> Imported(row)
    BY DEF Imported
  <1>2. looked' = IF Imported(n) THEN looked ELSE looked \cup {n}
    BY DEF LookUp
  <1>3. /\ overlapped \subseteq overlapped'
        /\ \A l \in looked : Key(l) = Key(n) /\ ~Imported(n) => Key(n) \in overlapped'
    BY DEF LookUp
  <1>4. RowsImportedOnce'
    BY <1>3 DEF LookUpsInv, RowsImportedOnce
  <1>5. \A m \in looked' : Imported(m)' => Key(m) \in overlapped'
    BY <1>1, <1>2, <1>3 DEF LookUpsInv
  <1>6. \A k, m \in looked' : k # m /\ Key(k) = Key(m) => Key(k) \in overlapped'
    BY <1>2, <1>3 DEF LookUpsInv
  <1>7. /\ looked' \subseteq ImportRecord /\ looked' \subseteq looked \cup {n}
        /\ n \in looked' /\ n \notin looked => ~Imported(n)
    BY <1>2 DEF MigrationShape
  <1> QED BY <1>4, <1>5, <1>6, <1>7 DEF LookUpsInv

\* Nothing is imported or looked up.
LEMMA MigrationNoLookUp ==
    ASSUME LookUpsInv, looked' \subseteq looked, UNCHANGED <<imports, overlapped>>
    PROVE  LookUpsInv' /\ \A row : Imported(row) <=> Imported(row)'
  <1>1. \A row : Imported(row) <=> Imported(row)'
    BY DEF Imported
  <1> QED BY <1>1 DEF LookUpsInv, RowsImportedOnce

\* What is imported stays so for a command that stays with its batch.
LEMMA MigrationFilesKept ==
    ASSUME command'.folder = command.folder, command'.batch = command.batch,
           \A row : Imported(row) => Imported(row)'
    PROVE  /\ \A c : FileRows(c)' = FileRows(c)
           /\ \A c : FileImported(c) => FileImported(c)'
  <1>1. \A c : FileRows(c)' = FileRows(c)
    BY DEF FileRows, Batch
  <1>2. \A c : FileImported(c)' <=> Imported(FileRows(c))'
    BY DEF FileImported
  <1> QED BY <1>1, <1>2 DEF FileImported, Imported

\* A batch that stays completed keeps its files whole.
LEMMA MigrationWholeKept ==
    ASSUME CompletedBatchWhole, sourceFiles \subseteq sourceFiles', classified \subseteq classified',
           \A row : Imported(row) => Imported(row)',
           \A k \in 1..Batches :
               /\ uploadBatch'[k].links = uploadBatch[k].links
               /\ uploadBatch'[k].status = "completed" => uploadBatch[k].status = "completed"
    PROVE  CompletedBatchWhole'
  <1>1. \A key : (\E i \in DOMAIN imports : Key(imports[i]) = key) =>
                 \E i \in DOMAIN imports' : Key(imports'[i]) = key
    <2> SUFFICES ASSUME NEW i \in DOMAIN imports
                 PROVE  \E j \in DOMAIN imports' : Key(imports'[j]) = Key(imports[i])
      OBVIOUS
    <2>1. Imported(imports[i])
      BY DEF Imported
    <2>2. PICK row : row = imports[i]
      OBVIOUS
    <2>3. Imported(row)'
      BY <2>1, <2>2
    <2> QED BY <2>2, <2>3 DEF Imported
  <1> QED BY <1>1 DEF CompletedBatchWhole

\* Uploads and repairs only add to what the command has found or written.
LEMMA MigrationUploadStep ==
    ASSUME MigrationInv, UNCHANGED <<uploadBatch, command, classified>>,
           sourceFiles \subseteq sourceFiles', LookUpsInv',
           imports' \in Seq(ImportRecord),
           looked' \subseteq ImportRecord,
           \A l \in looked' : l.by = Operator => l \in looked,
           \A row : Imported(row) => Imported(row)'
    PROVE  MigrationInv'
  <1>1. MigrationShape'
    BY DEF MigrationInv, MigrationShape
  <1>2. FolderInv'
    BY DEF MigrationInv, FolderInv, Running, Batch
  <1>3. StageInv'
    <2>1. Plan' = Plan /\ Batch' = Batch
      BY DEF Plan, Batch
    <2> QED BY <2>1, MigrationFilesKept DEF MigrationInv, StageInv
  <1>4. CompletedBatchWhole'
    BY MigrationWholeKept DEF MigrationInv
  <1> QED BY <1>1, <1>2, <1>3, <1>4 DEF MigrationInv

\* The command moves on, and stays a command.
LEMMA MigrationMoves ==
    ASSUME MigrationShape, NEW pc \in CommandStage, Continue(pc)
    PROVE  /\ command' \in CommandRecord /\ command'.pc = pc /\ command'.folder = command.folder
           /\ command'.batch = command.batch /\ command'.todo = command.todo
           /\ command'.erred = command.erred
  BY DEF MigrationShape, Continue, CommandRecord

\* The rows of a batch are marked as rows of batches are.
LEMMA MigrationMarks ==
    ASSUME MigrationShape, NEW st \in BatchStatus, MarkRow(st) \/ MarkEventRow(st)
    PROVE  /\ uploadBatch' \in [1..Batches -> BatchRecord]
           /\ \A k \in 1..Batches : uploadBatch'[k].links = uploadBatch[k].links
           /\ \A k \in 1..Batches \ {Batch} : uploadBatch'[k].status = uploadBatch[k].status
           /\ MarkRow(st) => uploadBatch'[Batch].status = st
           /\ MarkEventRow(st) => uploadBatch'[Batch].status = uploadBatch[Batch].status
  <1>1. PICK b \in 1..Batches : b = Batch
    BY DEF MigrationShape, CommandRecord, Batch
  <1>2. uploadBatch[b] \in BatchRecord /\ \A k \in 1..Batches : uploadBatch[k] \in BatchRecord
    BY DEF MigrationShape
  <1>3. CASE MarkRow(st)
    <2> DEFINE r == [uploadBatch[b] EXCEPT !.status = st]
    <2>1. r \in BatchRecord /\ r.links = uploadBatch[b].links /\ r.status = st
      BY <1>2 DEF BatchRecord
    <2>2. uploadBatch' = [uploadBatch EXCEPT ![b] = r]
      BY <1>1, <1>3 DEF MarkRow
    <2>3. CASE MarkEventRow(st)
      <3> DEFINE q == [uploadBatch[b] EXCEPT !.event = st]
      <3>1. q.status = uploadBatch[b].status
        BY <1>2 DEF BatchRecord
      <3>2. uploadBatch' = [uploadBatch EXCEPT ![b] = q]
        BY <1>1, <2>3 DEF MarkEventRow
      <3>3. r = q
        BY <2>2, <3>2 DEF MigrationShape
      <3> HIDE DEF r, q
      <3> QED BY <1>1, <2>1, <2>2, <3>1, <3>3 DEF MigrationShape
    <2> HIDE DEF r
    <2> QED BY <1>1, <2>1, <2>2, <2>3 DEF MigrationShape
  <1>4. CASE ~MarkRow(st)
    <2> DEFINE r == [uploadBatch[b] EXCEPT !.event = st]
    <2>1. r \in BatchRecord /\ r.links = uploadBatch[b].links /\ r.status = uploadBatch[b].status
      BY <1>2 DEF BatchRecord
    <2>2. uploadBatch' = [uploadBatch EXCEPT ![b] = r]
      BY <1>1, <1>4 DEF MarkEventRow
    <2> HIDE DEF r
    <2> QED BY <1>1, <1>4, <2>1, <2>2 DEF MigrationShape
  <1> QED BY <1>3, <1>4

\* A step of the command that imports nothing, links nothing and completes nothing.
LEMMA MigrationTablesKept ==
    ASSUME MigrationInv, looked' \subseteq looked, UNCHANGED <<imports, overlapped>>,
           sourceFiles \subseteq sourceFiles', classified \subseteq classified',
           command' \in CommandRecord, uploadBatch' \in [1..Batches -> BatchRecord],
           \A k \in 1..Batches :
               /\ uploadBatch'[k].links = uploadBatch[k].links
               /\ uploadBatch'[k].status = "completed" => uploadBatch[k].status = "completed"
    PROVE  /\ MigrationShape' /\ LookUpsInv' /\ CompletedBatchWhole'
           /\ \A row : Imported(row) <=> Imported(row)'
  <1>1. LookUpsInv' /\ \A row : Imported(row) <=> Imported(row)'
    BY MigrationNoLookUp DEF MigrationInv
  <1>2. MigrationShape'
    BY DEF MigrationInv, MigrationShape
  <1>3. CompletedBatchWhole'
    BY <1>1, MigrationWholeKept DEF MigrationInv
  <1> QED BY <1>1, <1>2, <1>3

\* The start of the command keeps the invariant.
LEMMA MigrationStartStep ==
    ASSUME MigrationInv, NEW folder \in Folders, StartRun(folder)
    PROVE  MigrationInv'
  <1> DEFINE r == [NoCommand EXCEPT !.pc = "opening", !.folder = folder]
  <1>1. /\ command' = r /\ Running("idle") /\ SourcesMatch(folder, 1..Reviewed)
        /\ UNCHANGED <<uploadBatch, imports, looked, overlapped, sourceFiles, classified>>
    BY DEF StartRun, fileRows
  <1>2. r \in CommandRecord /\ r.pc = "opening" /\ r.folder = folder /\ r.batch = 1
    <2>1. 1 \in 1..Batches
      BY MigrationAssumption
    <2> QED BY <2>1 DEF NoCommand, CommandRecord, CommandStage
  <1> HIDE DEF r
  <1>3. /\ MigrationShape' /\ LookUpsInv' /\ CompletedBatchWhole'
        /\ \A row : Imported(row) <=> Imported(row)'
    <2>1. uploadBatch' \in [1..Batches -> BatchRecord]
      BY <1>1 DEF MigrationInv, MigrationShape
    <2> QED BY <1>1, <1>2, <2>1, MigrationTablesKept
  <1>4. FolderInv'
    <2>1. \A k \in 1..Batches : k <= Reviewed =>
              uploadBatch[k].links \in {{}, FilesIn[folder][k]}
      BY <1>1, MigrationAssumption DEF SourcesMatch
    <2>2. ~(Reviewed < 1)
      BY MigrationAssumption
    <2> QED BY <1>1, <1>2, <2>1, <2>2 DEF FolderInv, Batch
  <1>5. StageInv'
    BY <1>1, <1>2 DEF MigrationInv, StageInv, Running
  <1> QED BY <1>3, <1>4, <1>5 DEF MigrationInv

\* The batch is opened before a file is stored.
LEMMA MigrationOpenStep == ASSUME MigrationInv, OpenBatch PROVE MigrationInv'
  <1>s. MigrationShape
    BY DEF MigrationInv
  <1>1. PICK pc \in {"opened", "storing"} :
            /\ Continue(pc) /\ UNCHANGED <<imports, looked, overlapped, sourceFiles, classified>>
            /\ \/ command.pc = "opening" /\ pc = "opened" /\ MarkRow("processing")
               \/ command.pc = "opened" /\ pc = "storing" /\ MarkEventRow("processing")
    BY DEF OpenBatch, Running, fileRows
  <1>2. /\ command' \in CommandRecord /\ command'.pc = pc /\ command'.folder = command.folder
        /\ command'.batch = command.batch /\ command'.todo = command.todo
        /\ command'.erred = command.erred
    <2>1. pc \in CommandStage
      BY DEF CommandStage
    <2> QED BY <1>s, <1>1, <2>1, MigrationMoves
  <1>3. /\ uploadBatch' \in [1..Batches -> BatchRecord]
        /\ \A k \in 1..Batches : uploadBatch'[k].links = uploadBatch[k].links
        /\ \A k \in 1..Batches \ {Batch} : uploadBatch'[k].status = uploadBatch[k].status
        /\ uploadBatch'[Batch].status = "processing"
    <2>1. "processing" \in BatchStatus
      BY DEF BatchStatus
    <2>2. command.pc = "opened" => uploadBatch[Batch].status = "processing"
      BY DEF MigrationInv, StageInv
    <2> QED BY <1>s, <1>1, <2>1, <2>2, MigrationMarks
  <1>4. /\ MigrationShape' /\ LookUpsInv' /\ CompletedBatchWhole'
        /\ \A row : Imported(row) <=> Imported(row)'
    <2>1. \A k \in 1..Batches : uploadBatch'[k].status = "completed" => uploadBatch[k].status = "completed"
      BY <1>3
    <2> QED BY <1>1, <1>2, <1>3, <2>1, MigrationTablesKept
  <1>5. FolderInv'
    BY <1>1, <1>2, <1>3 DEF MigrationInv, FolderInv, Running, Batch
  <1>6. StageInv'
    <2>1. Plan' = Plan /\ Batch' = Batch
      BY <1>2 DEF Plan, Batch
    <2>2. \A l \in looked' : l.by # Operator
      BY <1>1 DEF MigrationInv, StageInv
    <2> QED BY <1>1, <1>2, <1>3, <2>1, <2>2 DEF MigrationInv, StageInv
  <1> QED BY <1>4, <1>5, <1>6 DEF MigrationInv

\* Storing and classifying the files keeps the invariant.
LEMMA MigrationStoreStep == ASSUME MigrationInv, StoreSources \/ ClassifySources PROVE MigrationInv'
  <1>s. MigrationShape
    BY DEF MigrationInv
  <1>1. UNCHANGED <<uploadBatch, imports, looked, overlapped>>
    BY DEF StoreSources, ClassifySources
  <1>t. PICK todo \in SUBSET Contents : todo = Plan
    <2>1. command.pc # "idle" /\ command.folder \in Folders /\ Batch \in 1..Batches
      BY DEF StoreSources, ClassifySources, Running, MigrationInv, FolderInv, MigrationShape,
             CommandRecord, Batch
    <2> QED BY <2>1, MigrationAssumption DEF Plan
  <1>2. \/ /\ command.pc = "storing" /\ command'.pc = "linking" /\ command'.todo = command.todo
           /\ sourceFiles' = sourceFiles \cup Plan /\ classified' = classified
        \/ /\ command.pc = "classifying" /\ command'.pc = "importing" /\ command'.todo = Plan
           /\ classified' = classified \cup (Plan \X {Batch}) /\ sourceFiles' = sourceFiles
    BY <1>s, <1>t DEF StoreSources, ClassifySources, Running, Continue, MigrationShape, CommandRecord
  <1>3. /\ command' \in CommandRecord /\ command'.folder = command.folder
        /\ command'.batch = command.batch /\ command'.erred = command.erred
    BY <1>s, <1>t DEF StoreSources, ClassifySources, Running, Continue, MigrationShape,
                      CommandRecord, CommandStage
  <1>4. /\ MigrationShape' /\ LookUpsInv' /\ CompletedBatchWhole'
        /\ \A row : Imported(row) <=> Imported(row)'
    <2>1. uploadBatch' \in [1..Batches -> BatchRecord]
      BY <1>1 DEF MigrationInv, MigrationShape
    <2> QED BY <1>1, <1>2, <1>3, <2>1, MigrationTablesKept
  <1>5. FolderInv'
    BY <1>1, <1>2, <1>3 DEF MigrationInv, FolderInv, Running, Batch
  <1>6. StageInv'
    <2>1. Plan' = Plan /\ Batch' = Batch
      BY <1>3 DEF Plan, Batch
    <2>2. \A l \in looked' : l.by # Operator
      BY <1>1, <1>2 DEF MigrationInv, StageInv
    <2> QED BY <1>1, <1>2, <1>3, <1>4, <2>1, <2>2 DEF MigrationInv, StageInv
  <1> QED BY <1>4, <1>5, <1>6 DEF MigrationInv

\* The links are the files of the folder.
LEMMA MigrationLinkStep == ASSUME MigrationInv, LinkSources PROVE MigrationInv'
  <1>s. MigrationShape
    BY DEF MigrationInv
  <1>0. PICK b \in 1..Batches : b = Batch
    BY <1>s DEF MigrationShape, CommandRecord, Batch
  <1>t. PICK plan \in SUBSET Contents : plan = Plan
    <2>1. command.pc # "idle" /\ command.folder \in Folders
      BY DEF LinkSources, Running, MigrationInv, FolderInv
    <2> QED BY <1>0, <2>1, MigrationAssumption DEF Plan
  <1>1. PICK pc \in {"classifying", "closing"} :
            /\ pc = IF b <= Reviewed THEN "classifying" ELSE "closing"
            /\ Continue(pc) /\ command.pc = "linking"
            /\ uploadBatch' = [uploadBatch EXCEPT ![b].links = @ \cup plan]
            /\ UNCHANGED <<imports, looked, overlapped, sourceFiles, classified>>
    BY <1>0, <1>t DEF LinkSources, Running, fileRows
  <1>2. /\ command' \in CommandRecord /\ command'.pc = pc /\ command'.folder = command.folder
        /\ command'.batch = command.batch /\ command'.todo = command.todo
        /\ command'.erred = command.erred
    <2>1. pc \in CommandStage
      BY DEF CommandStage
    <2> QED BY <1>s, <1>1, <2>1, MigrationMoves
  <1>p. Plan' = Plan /\ Batch' = Batch
    BY <1>2 DEF Plan, Batch
  <1>3. uploadBatch[b].links \in {{}, plan} /\ uploadBatch[b].status = "processing"
    <2>1. uploadBatch[b].links \in {{}, plan}
      <3>1. b <= Reviewed \/ Reviewed < b
        BY MigrationAssumption
      <3> QED BY <1>0, <1>t, <1>1, <3>1 DEF MigrationInv, FolderInv, Running, Plan
    <2> QED BY <2>1, <1>0, <1>1 DEF MigrationInv, StageInv
  <1>4. /\ uploadBatch' \in [1..Batches -> BatchRecord]
        /\ \A k \in 1..Batches \ {b} : uploadBatch'[k] = uploadBatch[k]
        /\ uploadBatch'[b].links = plan /\ uploadBatch'[b].status = "processing"
    <2> DEFINE r == [uploadBatch[b] EXCEPT !.links = @ \cup plan]
    <2>1. r \in BatchRecord /\ r.links = plan /\ r.status = "processing"
      BY <1>s, <1>3 DEF MigrationShape, BatchRecord
    <2>2. uploadBatch' = [uploadBatch EXCEPT ![b] = r]
      BY <1>1
    <2> HIDE DEF r
    <2> QED BY <1>s, <2>1, <2>2 DEF MigrationShape
  <1>5. LookUpsInv' /\ \A row : Imported(row) <=> Imported(row)'
    BY <1>1, MigrationNoLookUp DEF MigrationInv
  <1>6. MigrationShape'
    BY <1>1, <1>2, <1>4 DEF MigrationInv, MigrationShape
  <1>7. CompletedBatchWhole'
    <2>1. \A k \in 1..Batches : uploadBatch'[k].status = "completed" =>
              k # b /\ uploadBatch[k].status = "completed"
      BY <1>4
    <2> QED BY <1>1, <1>4, <2>1 DEF MigrationInv, CompletedBatchWhole
  <1>8. FolderInv'
    <2>1. FilesIn[command.folder][b] = plan
      BY <1>0, <1>t DEF Plan
    <2> QED BY <1>1, <1>2, <1>4, <2>1 DEF MigrationInv, FolderInv, Running, Batch
  <1>9. StageInv'
    <2>1. Plan \subseteq sourceFiles /\ \A l \in looked : l.by # Operator
      BY <1>1 DEF MigrationInv, StageInv
    <2>2. b <= Reviewed \/ ~(b <= Reviewed)
      OBVIOUS
    <2> QED BY <1>0, <1>t, <1>1, <1>2, <1>p, <1>4, <2>1, <2>2 DEF StageInv
  <1> QED BY <1>5, <1>6, <1>7, <1>8, <1>9 DEF MigrationInv

\* The look-up of the next file keeps the invariant.
LEMMA MigrationLookUpSourceStep ==
    ASSUME MigrationInv, NEW c \in Contents, LookUpSource(c)
    PROVE  MigrationInv'
  <1>s. MigrationShape
    BY DEF MigrationInv
  <1>0. FileRows(c) \in ImportRecord /\ FileRows(c).content = c
    <2>1. /\ command.folder \in Folders /\ Batch \in 1..Reviewed /\ c \in Plan
      BY MigrationAssumption DEF LookUpSource, Running, MigrationInv, MigrationShape, CommandRecord,
                                 FolderInv, StageInv, Batch
    <2>2. ExpectedDataset[command.folder][Batch][c] \in Datasets
      BY <2>1, MigrationAssumption DEF Plan
    <2> QED BY <2>2 DEF FileRows, Import, ImportRecord, Importers
  <1>1. /\ command.pc = "importing" /\ c \in command.todo /\ LookUp(FileRows(c))
        /\ \A l \in looked : l.by # Operator
        /\ UNCHANGED <<uploadBatch, imports, sourceFiles, classified>>
        /\ command' = IF FileImported(c) THEN [command EXCEPT !.todo = @ \ {c}] ELSE command
    BY DEF LookUpSource, Running, fileRows, FileImported
  <1>2. /\ LookUpsInv' /\ looked' \subseteq ImportRecord
        /\ looked' \subseteq looked \cup {FileRows(c)}
        /\ FileRows(c) \in looked' /\ FileRows(c) \notin looked => ~FileImported(c)
    BY <1>0, <1>1, MigrationLookUpStep DEF MigrationInv, FileImported
  <1>3. /\ command' \in CommandRecord /\ command'.pc = "importing" /\ command'.folder = command.folder
        /\ command'.batch = command.batch /\ command'.erred = command.erred
        /\ command'.todo = IF FileImported(c) THEN command.todo \ {c} ELSE command.todo
    BY <1>s, <1>1 DEF MigrationShape, CommandRecord
  <1>4. \A row : Imported(row)' <=> Imported(row)
    BY <1>1 DEF Imported
  <1>f. /\ \A d : FileRows(d)' = FileRows(d)
        /\ \A d : FileImported(d) => FileImported(d)'
    BY <1>3, <1>4, MigrationFilesKept
  <1>5. MigrationShape'
    BY <1>s, <1>1, <1>2, <1>3 DEF MigrationShape
  <1>6. FolderInv'
    BY <1>1, <1>3 DEF MigrationInv, FolderInv, Running, Batch
  <1>7. StageInv'
    <2>1. Plan' = Plan /\ Batch' = Batch
      BY <1>3 DEF Plan, Batch
    <2>2. \A l \in looked' : l.by = Operator => ~FileImported(c) /\ l = FileRows(c)
      BY <1>1, <1>2
    <2>3. ~command.erred => \A d \in Plan \ command'.todo : FileImported(d)'
      BY <1>1, <1>3, <1>f DEF MigrationInv, StageInv
    <2>4. \A l \in looked' : l.by = Operator =>
              l.content \in command'.todo /\ l = FileRows(l.content)'
      BY <1>0, <1>1, <1>3, <1>f, <2>2
    <2>5. command'.todo \subseteq Plan
      BY <1>1, <1>3 DEF MigrationInv, StageInv
    <2> QED BY <1>1, <1>3, <2>1, <2>3, <2>4, <2>5 DEF MigrationInv, StageInv
  <1>8. CompletedBatchWhole'
    BY <1>1, <1>4, MigrationWholeKept DEF MigrationInv
  <1> QED BY <1>2, <1>5, <1>6, <1>7, <1>8 DEF MigrationInv

\* The import of a file whose look-up found nothing keeps the invariant.
LEMMA MigrationInsertSourceStep == ASSUME MigrationInv, InsertSource PROVE MigrationInv'
  <1>s. MigrationShape
    BY DEF MigrationInv
  <1>1. PICK l \in looked :
            /\ l.by = Operator /\ looked' = looked \ {l} /\ l = FileRows(l.content)
            /\ UNCHANGED <<uploadBatch, sourceFiles, classified, overlapped>>
            /\ \/ InsertRows(l) /\ command' = [command EXCEPT !.todo = @ \ {l.content}]
               \/ /\ command' = [command EXCEPT !.todo = @ \ {l.content}, !.erred = TRUE]
                  /\ UNCHANGED imports
    BY DEF InsertSource, fileRows, MigrationInv, StageInv
  <1>2. /\ command' \in CommandRecord /\ command'.pc = command.pc
        /\ command'.folder = command.folder /\ command'.batch = command.batch
        /\ command'.todo = command.todo \ {l.content}
    BY <1>s, <1>1 DEF MigrationShape, CommandRecord
  <1>3. /\ LookUpsInv' /\ \A row : Imported(row) => Imported(row)'
        /\ imports' \in Seq(ImportRecord)
        /\ command'.erred \/ (command.erred = command'.erred /\ FileImported(l.content)')
    <2>1. CASE InsertRows(l) /\ command' = [command EXCEPT !.todo = @ \ {l.content}]
      <3>1. LookUpsInv' /\ \A row : Imported(row) => Imported(row)'
        BY <1>s, <1>1, <2>1, MigrationInsertStep DEF MigrationInv
      <3>2. /\ imports' \in Seq(ImportRecord)
            /\ \E i \in DOMAIN imports' : imports'[i] = l
        BY <1>s, <2>1, MigrationInserted
      <3>3. command'.erred = command.erred
        BY <1>s, <2>1 DEF MigrationShape, CommandRecord
      <3>4. FileRows(l.content)' = l
        BY <1>1, <1>2, <3>1, MigrationFilesKept
      <3>5. FileImported(l.content)'
        BY <3>2, <3>4 DEF FileImported, Imported
      <3> QED BY <3>1, <3>2, <3>3, <3>5
    <2>2. CASE /\ command' = [command EXCEPT !.todo = @ \ {l.content}, !.erred = TRUE]
               /\ UNCHANGED imports
      <3>1. LookUpsInv' /\ \A row : Imported(row) <=> Imported(row)'
        BY <1>1, <2>2, MigrationNoLookUp DEF MigrationInv
      <3>2. command'.erred
        BY <1>s, <2>2 DEF MigrationShape, CommandRecord
      <3> QED BY <1>s, <2>2, <3>1, <3>2 DEF MigrationShape
    <2> QED BY <1>1, <2>1, <2>2
  <1>f. /\ \A d : FileRows(d)' = FileRows(d)
        /\ \A d : FileImported(d) => FileImported(d)'
    BY <1>2, <1>3, MigrationFilesKept
  <1>5. MigrationShape'
    BY <1>s, <1>1, <1>2, <1>3 DEF MigrationShape
  <1>6. FolderInv'
    BY <1>1, <1>2 DEF MigrationInv, FolderInv, Running, Batch
  <1>7. StageInv'
    <2>1. Plan' = Plan /\ Batch' = Batch
      BY <1>2 DEF Plan, Batch
    <2>2. command.pc = "importing"
      BY <1>1 DEF MigrationInv, StageInv
    <2>3. \A m \in looked' : m.by = Operator =>
              m.content # l.content /\ m.content \in command.todo /\ m = FileRows(m.content)'
      <3>1. \A m \in looked : m.by = Operator => m.content \in command.todo /\ m = FileRows(m.content)
        BY DEF MigrationInv, StageInv
      <3> QED BY <1>1, <1>f, <3>1
    <2>4. ~command'.erred => \A d \in Plan \ command'.todo : FileImported(d)'
      <3> SUFFICES ASSUME ~command'.erred, NEW d \in Plan \ command'.todo
                   PROVE  FileImported(d)'
        OBVIOUS
      <3>1. CASE d = l.content
        BY <1>3, <3>1
      <3>2. CASE d # l.content
        BY <1>2, <1>3, <1>f, <2>1, <2>2, <3>2 DEF MigrationInv, StageInv
      <3> QED BY <3>1, <3>2
    <2> QED BY <1>1, <1>2, <2>1, <2>2, <2>3, <2>4 DEF MigrationInv, StageInv
  <1>8. CompletedBatchWhole'
    BY <1>1, <1>3, MigrationWholeKept DEF MigrationInv
  <1> QED BY <1>3, <1>5, <1>6, <1>7, <1>8 DEF MigrationInv

\* The import ends; a failure, a repair or its end changes no batch.
LEMMA MigrationFinishStep ==
    ASSUME MigrationInv, FinishImport \/ FailBatch \/ BindSources
    PROVE  MigrationInv'
  <1>s. MigrationShape
    BY DEF MigrationInv
  <1>1. PICK pc \in {"failing", "closing", "binding"} :
            /\ Continue(pc)
            /\ UNCHANGED <<uploadBatch, imports, looked, overlapped, sourceFiles, classified>>
            /\ \/ command.pc = "importing" /\ command.todo = {} /\ (pc = "closing" => ~command.erred)
               \/ command.pc # "importing" /\ pc # "closing"
            /\ ~Running("idle") /\ pc # "importing"
    BY DEF FinishImport, FailBatch, BindSources, Running, fileRows
  <1>2. /\ command' \in CommandRecord /\ command'.pc = pc /\ command'.folder = command.folder
        /\ command'.batch = command.batch /\ command'.todo = command.todo
        /\ command'.erred = command.erred
    <2>1. pc \in CommandStage
      BY DEF CommandStage
    <2> QED BY <1>s, <1>1, <2>1, MigrationMoves
  <1>3. /\ MigrationShape' /\ LookUpsInv' /\ CompletedBatchWhole'
        /\ \A row : Imported(row) <=> Imported(row)'
    <2>1. uploadBatch' \in [1..Batches -> BatchRecord]
      BY <1>s, <1>1 DEF MigrationShape
    <2> QED BY <1>1, <1>2, <2>1, MigrationTablesKept
  <1>4. FolderInv'
    BY <1>1, <1>2 DEF MigrationInv, FolderInv, Running, Batch
  <1>5. StageInv'
    <2>1. Plan' = Plan /\ Batch' = Batch
      BY <1>2 DEF Plan, Batch
    <2>2. \A l \in looked : l.by # Operator
      BY <1>1 DEF MigrationInv, StageInv
    <2>3. \A c : FileImported(c) => FileImported(c)'
      BY <1>2, <1>3, MigrationFilesKept
    <2> QED BY <1>1, <1>2, <1>3, <2>1, <2>2, <2>3 DEF MigrationInv, StageInv
  <1> QED BY <1>3, <1>4, <1>5 DEF MigrationInv

\* A batch is closed as completed only when every file went through.
LEMMA MigrationCloseStep == ASSUME MigrationInv, CloseBatch PROVE MigrationInv'
  <1>s. MigrationShape
    BY DEF MigrationInv
  <1>0. Batch \in 1..Batches
    BY <1>s DEF MigrationShape, CommandRecord, Batch
  <1>1. /\ command.pc = "closing" /\ Continue("closed") /\ MarkRow("completed")
        /\ UNCHANGED <<imports, looked, overlapped, sourceFiles, classified>>
    BY DEF CloseBatch, Running, fileRows
  <1>2. /\ command' \in CommandRecord /\ command'.pc = "closed" /\ command'.folder = command.folder
        /\ command'.batch = command.batch
    BY <1>s, <1>1, MigrationMoves DEF CommandStage
  <1>3. /\ uploadBatch' \in [1..Batches -> BatchRecord]
        /\ \A k \in 1..Batches : uploadBatch'[k].links = uploadBatch[k].links
        /\ \A k \in 1..Batches \ {Batch} : uploadBatch'[k].status = uploadBatch[k].status
    BY <1>s, <1>1, MigrationMarks DEF BatchStatus
  <1>4. LookUpsInv' /\ \A row : Imported(row) <=> Imported(row)'
    BY <1>1, MigrationNoLookUp DEF MigrationInv
  <1>5. MigrationShape'
    BY <1>s, <1>1, <1>2, <1>3 DEF MigrationShape
  <1>6. FolderInv'
    BY <1>1, <1>2, <1>3 DEF MigrationInv, FolderInv, Running, Batch
  <1>7. StageInv'
    BY <1>1, <1>2 DEF MigrationInv, StageInv
  <1>8. CompletedBatchWhole'
    <2> SUFFICES ASSUME NEW b \in 1..Batches, uploadBatch'[b].status = "completed"
                 PROVE  /\ uploadBatch'[b].links \subseteq sourceFiles'
                        /\ \E f \in Folders :
                              /\ uploadBatch'[b].links = FilesIn[f][b]
                              /\ b <= Reviewed => \A c \in uploadBatch'[b].links :
                                     /\ <<c, b>> \in classified'
                                     /\ \E i \in DOMAIN imports' :
                                           Key(imports'[i]) = <<c, ExpectedDataset[f][b][c]>>
      BY DEF CompletedBatchWhole
    <2>1. CASE b # Batch
      BY <1>1, <1>3, <2>1 DEF MigrationInv, CompletedBatchWhole
    <2>2. CASE b = Batch
      <3>1. /\ uploadBatch[Batch].links = Plan /\ Plan \subseteq sourceFiles
            /\ command.folder \in Folders
            /\ Batch <= Reviewed => Plan \X {Batch} \subseteq classified
            /\ Batch <= Reviewed => \A c \in Plan : FileImported(c)
        BY <1>1 DEF MigrationInv, StageInv, FolderInv, Running
      <3>2. uploadBatch'[b].links = Plan /\ Plan = FilesIn[command.folder][b]
        BY <1>3, <2>2, <3>1 DEF Plan
      <3>3. \A c : Key(FileRows(c)) = <<c, ExpectedDataset[command.folder][b][c]>>
        BY <2>2 DEF Key, FileRows, Import
      <3>4. b <= Reviewed => \A c \in Plan :
                /\ <<c, b>> \in classified'
                /\ \E i \in DOMAIN imports' :
                      Key(imports'[i]) = <<c, ExpectedDataset[command.folder][b][c]>>
        BY <1>1, <2>2, <3>1, <3>3 DEF FileImported, Imported
      <3> QED BY <1>1, <3>1, <3>2, <3>4
    <2> QED BY <2>1, <2>2
  <1> QED BY <1>4, <1>5, <1>6, <1>7, <1>8 DEF MigrationInv

\* The command turns to another batch or to the repair, or it is over.
LEMMA MigrationTurnStep ==
    ASSUME MigrationInv, unbound \subseteq Contents,
           FinishBatch \/ FinishRepair \/ RecordFailure \/ CommandEnds
    PROVE  MigrationInv'
  <1>s. MigrationShape
    BY DEF MigrationInv
  <1>0. Batch \in 1..Batches /\ Batch = command.batch
    BY <1>s DEF MigrationShape, CommandRecord, Batch
  <1>1. /\ looked' \subseteq looked /\ ~Running("idle")
        /\ UNCHANGED <<imports, overlapped, sourceFiles, classified>>
    BY DEF FinishBatch, FinishRepair, RecordFailure, CommandEnds, fileRows, Running
  <1>2. /\ uploadBatch' \in [1..Batches -> BatchRecord]
        /\ \A k \in 1..Batches :
              /\ uploadBatch'[k].links = uploadBatch[k].links
              /\ uploadBatch'[k].status = "completed" => uploadBatch[k].status = "completed"
    <2>1. \/ UNCHANGED uploadBatch
          \/ MarkEventRow("completed") \/ MarkEventRow("failed") \/ MarkRow("failed")
      BY DEF FinishBatch, FinishRepair, RecordFailure, CommandEnds
    <2>2. "completed" \in BatchStatus /\ "failed" \in BatchStatus
      BY DEF BatchStatus
    <2>3. CASE UNCHANGED uploadBatch
      BY <1>s, <2>3 DEF MigrationShape
    <2>4. CASE MarkEventRow("completed") \/ MarkEventRow("failed")
      BY <1>s, <2>2, <2>4, MigrationMarks
    <2>5. CASE MarkRow("failed")
      BY <1>s, <2>2, <2>5, MigrationMarks
    <2> QED BY <2>1, <2>3, <2>4, <2>5
  <1>n. NoCommand \in CommandRecord /\ NoCommand.pc = "idle"
    <2>1. 1 \in 1..Batches
      BY MigrationAssumption
    <2> QED BY <2>1 DEF NoCommand, CommandRecord, CommandStage
  <1>3. /\ command' \in CommandRecord
        /\ command'.pc \in {"idle", "opening", "repairing", "failed"}
        /\ \A l \in looked' : l.by # Operator
        /\ \/ command'.pc = "idle"
           \/ /\ command'.folder = command.folder
              /\ \/ command'.batch = command.batch
                 \/ command'.batch <= Reviewed
                 \/ Reviewed < command.batch
                 \/ SourcesMatch(command.folder, (Reviewed + 1)..Batches)
    <2>0. command.pc # "importing" => \A l \in looked : l.by # Operator
      BY DEF MigrationInv, StageInv
    <2>1. CASE FinishBatch
      <3>1. PICK todo \in SUBSET Contents : todo = Unanchored
        BY DEF Unanchored
      <3>2. command.pc = "closed" /\ looked' = looked
        BY <2>1 DEF FinishBatch, Running
      <3>3. CASE Batch = Reviewed
        <4>1. command' = [command EXCEPT !.pc = "repairing", !.todo = todo]
          BY <2>1, <3>1, <3>3 DEF FinishBatch
        <4> QED BY <1>s, <2>0, <3>2, <4>1 DEF MigrationShape, CommandRecord, CommandStage
      <3>4. CASE Batch # Reviewed /\ Batch = Batches
        <4>1. command' = NoCommand
          BY <2>1, <3>4 DEF FinishBatch
        <4> QED BY <1>n, <2>0, <3>2, <4>1
      <3>5. CASE Batch # Reviewed /\ Batch # Batches
        <4>1. command' = [command EXCEPT !.pc = "opening", !.batch = @ + 1]
          BY <2>1, <3>5 DEF FinishBatch
        <4>2. command.batch + 1 \in 1..Batches /\ (command.batch + 1 <= Reviewed \/ Reviewed < command.batch)
          BY <1>0, <3>5, MigrationAssumption
        <4> QED BY <1>s, <2>0, <3>2, <4>1, <4>2 DEF MigrationShape, CommandRecord, CommandStage
      <3> QED BY <3>3, <3>4, <3>5
    <2>2. CASE FinishRepair
      <3>1. command.pc = "binding" /\ looked' = looked
        BY <2>2 DEF FinishRepair, Running
      <3>2. CASE command' = NoCommand
        BY <1>n, <2>0, <3>1, <3>2
      <3>3. CASE command' # NoCommand
        <4>1. /\ command' = [command EXCEPT !.pc = "opening", !.batch = Reviewed + 1]
              /\ Reviewed < Batches /\ SourcesMatch(command.folder, (Reviewed + 1)..Batches)
          BY <2>2, <3>3 DEF FinishRepair
        <4>2. Reviewed + 1 \in 1..Batches
          BY <4>1, MigrationAssumption
        <4> QED BY <1>s, <2>0, <3>1, <4>1, <4>2 DEF MigrationShape, CommandRecord, CommandStage
      <3> QED BY <3>2, <3>3
    <2>3. CASE RecordFailure
      <3>1. command.pc \in {"failing", "failed"} /\ looked' = looked
            /\ (command' = [command EXCEPT !.pc = "failed"] \/ command' = NoCommand)
        BY <2>3 DEF RecordFailure, Running, Continue
      <3>2. CASE command' = [command EXCEPT !.pc = "failed"]
        BY <1>s, <2>0, <3>1, <3>2 DEF MigrationShape, CommandRecord, CommandStage
      <3>3. CASE command' = NoCommand
        BY <1>n, <2>0, <3>1, <3>3
      <3> QED BY <3>1, <3>2, <3>3
    <2>4. CASE CommandEnds
      BY <1>n, <2>4 DEF CommandEnds
    <2> QED BY <2>1, <2>2, <2>3, <2>4
  <1>4. /\ MigrationShape' /\ LookUpsInv' /\ CompletedBatchWhole'
        /\ \A row : Imported(row) <=> Imported(row)'
    BY <1>1, <1>2, <1>3, MigrationTablesKept
  <1>5. FolderInv'
    <2>1. command.folder \in Folders
      BY <1>1 DEF MigrationInv, FolderInv
    <2> SUFFICES ASSUME command'.pc # "idle",
                        NEW k \in 1..Batches, k <= Reviewed \/ Reviewed < command'.batch
                 PROVE  uploadBatch'[k].links \in {{}, FilesIn[command'.folder][k]}
      BY <1>3, <2>1 DEF FolderInv, Running, Batch
    <2>2. CASE k <= Reviewed \/ Reviewed < command.batch
      BY <1>0, <1>1, <1>2, <1>3, <2>2 DEF MigrationInv, FolderInv
    <2>3. CASE ~(k <= Reviewed) /\ ~(Reviewed < command.batch)
      <3>1. k \in (Reviewed + 1)..Batches
        BY <2>3, MigrationAssumption
      <3>2. SourcesMatch(command.folder, (Reviewed + 1)..Batches)
        <4>1. command.batch \in Nat /\ k \in Nat /\ Reviewed \in Nat /\ command'.batch \in Nat
          BY <1>0, <1>3, MigrationAssumption DEF CommandRecord
        <4>2. command'.batch # command.batch /\ ~(command'.batch <= Reviewed)
          BY <2>3, <4>1
        <4> QED BY <1>3, <2>3, <4>2
      <3> QED BY <1>2, <1>3, <2>1, <3>1, <3>2 DEF SourcesMatch
    <2> QED BY <1>3, <2>1, <2>2, <2>3
  <1>6. StageInv'
    BY <1>3 DEF StageInv
  <1> QED BY <1>4, <1>5, <1>6 DEF MigrationInv

\* Rows without an anchor are rows of contents.
LEMMA MigrationUnboundStep ==
    ASSUME MigrationShape, unbound \subseteq Contents, [MigrationNext]_mvars
    PROVE  unbound' \subseteq Contents
  <1>1. \A l \in looked : l.content \in Contents
    BY DEF MigrationShape, ImportRecord
  <1>2. \/ unbound' \subseteq unbound
        \/ \E l \in looked : unbound' = unbound \cup {l.content}
    BY DEF MigrationNext, mvars, StartRun, OpenBatch, StoreSources, LinkSources, ClassifySources,
           InsertSource, FinishImport, CloseBatch, FinishBatch, BindSources, FinishRepair,
           FailBatch, RecordFailure, CommandEnds, LookUpSource, RepairSource, StartImport,
           FinishInsert, LoadUpload, BindUpload, InsertRows, Bind
  <1> QED BY <1>1, <1>2

\* Every step keeps the invariant.
LEMMA MigrationStepInv ==
    ASSUME MigrationInv, unbound \subseteq Contents, [MigrationNext]_mvars
    PROVE  MigrationInv'
  <1>s. MigrationShape /\ LookUpsInv
    BY DEF MigrationInv
  <1>i. /\ imports \in Seq(ImportRecord)
        /\ looked \subseteq ImportRecord
    BY <1>s DEF MigrationShape
  \* A step that neither imports nor looks anything up, beside the command.
  <1>q. ASSUME UNCHANGED <<uploadBatch, command, classified, imports, overlapped>>,
               sourceFiles \subseteq sourceFiles', looked' \subseteq looked
        PROVE  MigrationInv'
    <2>1. LookUpsInv' /\ \A row : Imported(row) <=> Imported(row)'
      BY <1>s, <1>q, MigrationNoLookUp
    <2> QED BY <1>i, <1>q, <2>1, MigrationUploadStep
  <1>1. ASSUME NEW u \in Uploaders, NEW c \in Contents, NEW dataset \in DetectedAs[c],
               StartImport(u, c, dataset)
        PROVE  MigrationInv'
    <2>1. UNCHANGED <<uploadBatch, command, classified, imports, sourceFiles>>
      BY <1>1 DEF StartImport, fileRows
    <2>2. CASE dataset = NoDataset
      BY <1>1, <1>q, <2>1, <2>2 DEF StartImport
    <2>3. CASE dataset # NoDataset
      <3>1. PICK n : n = Import(c, dataset, u)
        OBVIOUS
      <3>2. n \in ImportRecord /\ n.by # Operator
        BY <2>3, <3>1, MigrationAssumption DEF Import, ImportRecord, Importers
      <3>3. LookUp(n)
        BY <1>1, <2>3, <3>1 DEF StartImport
      <3>4. LookUpsInv' /\ looked' \subseteq ImportRecord /\ looked' \subseteq looked \cup {n}
        BY <1>s, <2>1, <3>2, <3>3, MigrationLookUpStep
      <3>5. \A row : Imported(row) => Imported(row)'
        BY <2>1 DEF Imported
      <3>6. sourceFiles \subseteq sourceFiles' /\ imports' \in Seq(ImportRecord)
        BY <1>i, <2>1
      <3> QED BY <2>1, <3>2, <3>4, <3>5, <3>6, MigrationUploadStep
    <2> QED BY <2>2, <2>3
  <1>2. ASSUME NEW u \in Uploaders, FinishInsert(u)
        PROVE  MigrationInv'
    <2>1. /\ UNCHANGED <<uploadBatch, command, classified, sourceFiles, overlapped>>
          /\ looked' = {l \in looked : l.by # u}
      BY <1>2 DEF FinishInsert, fileRows
    <2>2. CASE UNCHANGED imports
      BY <1>q, <2>1, <2>2
    <2>3. CASE \E l \in looked : l.by = u /\ InsertRows(l)
      <3>1. PICK l \in looked : l.by = u /\ InsertRows(l)
        BY <2>3
      <3>2. looked' \subseteq looked \ {l}
        BY <2>1, <3>1
      <3>3. LookUpsInv' /\ \A row : Imported(row) => Imported(row)'
        BY <1>s, <2>1, <3>1, <3>2, MigrationInsertStep
      <3>4. imports' \in Seq(ImportRecord)
        BY <1>s, <3>1, MigrationInserted
      <3>5. /\ looked' \subseteq ImportRecord
            /\ \A m \in looked' : m.by = Operator => m \in looked
            /\ sourceFiles \subseteq sourceFiles'
        BY <1>i, <2>1
      <3> QED BY <2>1, <3>3, <3>4, <3>5, MigrationUploadStep
    <2> QED BY <1>2, <2>2, <2>3 DEF FinishInsert
  <1>3. ASSUME NEW u \in Uploaders, LoadUpload(u) \/ BindUpload(u)
        PROVE  MigrationInv'
    BY <1>3, <1>q DEF LoadUpload, BindUpload, fileRows
  <1>4. ASSUME NEW c \in Contents, RepairSource(c)
        PROVE  MigrationInv'
    BY <1>4, <1>q DEF RepairSource
  <1>5. CASE UNCHANGED mvars
    BY <1>5, <1>q DEF mvars
  <1> QED BY <1>1, <1>2, <1>3, <1>4, <1>5, MigrationStartStep, MigrationOpenStep,
             MigrationStoreStep, MigrationLinkStep, MigrationLookUpSourceStep,
             MigrationInsertSourceStep, MigrationFinishStep, MigrationCloseStep,
             MigrationTurnStep DEF MigrationNext

\* The invariant holds always.
LEMMA MigrationInvariant == MigrationSpec => [](MigrationInv /\ unbound \subseteq Contents)
  <1>1. MigrationInit => MigrationInv /\ unbound \subseteq Contents
    BY MigrationInitInv DEF MigrationInit
  <1>2. MigrationInv /\ unbound \subseteq Contents /\ [MigrationNext]_mvars =>
            (MigrationInv /\ unbound \subseteq Contents)'
    BY MigrationStepInv, MigrationUnboundStep DEF MigrationInv
  <1> QED BY <1>1, <1>2, PTL DEF MigrationSpec

\* A completed batch holds the files of one version of the folder, stored,
\* classified and imported as what that version expects, whatever failed or was
\* run again.
THEOREM MigrationCompletes == MigrationSpec => []CompletedBatchWhole
  <1>1. MigrationInv => CompletedBatchWhole
    BY DEF MigrationInv
  <1> QED BY <1>1, MigrationInvariant, PTL

\* A file's rows enter the accounts once as one dataset, unless two look-ups
\* for it overlapped.
THEOREM MigrationImportsOnce == MigrationSpec => []RowsImportedOnce
  <1>1. MigrationInv => RowsImportedOnce
    BY DEF MigrationInv, LookUpsInv
  <1> QED BY <1>1, MigrationInvariant, PTL

\* The tables the inductive invariant does not need.
MigrationRest ==
    /\ sourceFiles \subseteq Contents /\ classified \subseteq Contents \X (1..Batches)
    /\ pages \subseteq Contents /\ chunks \subseteq pages /\ unbound \subseteq Contents
    /\ upload \in [Uploaders -> [pc : {"idle", "importing", "loading", "binding"},
                                 content : Contents]]
    /\ overlapped \subseteq Contents \X Datasets
    /\ attempts \in 0..MaxRuns /\ uploads \in 0..MaxUploads

\* The files of a batch are contents, and there is a batch.
LEMMA MigrationPlan == MigrationShape => /\ NoCommand.folder \in Folders /\ NoUpload.content \in Contents
                                         /\ Batch \in 1..Batches /\ Plan \subseteq Contents
  BY MigrationAssumption DEF MigrationShape, CommandRecord, NoCommand, NoUpload, Plan, Batch

\* Every step keeps them so.
LEMMA MigrationRestStep ==
    MigrationInv /\ MigrationRest /\ [MigrationNext]_mvars => MigrationRest'
  <1> SUFFICES ASSUME MigrationInv, MigrationRest, [MigrationNext]_mvars PROVE MigrationRest'
    OBVIOUS
  <1>0. MigrationShape /\ Batch \in 1..Batches /\ Plan \subseteq Contents /\ NoUpload.content \in Contents
    BY MigrationPlan DEF MigrationInv
  <1>1. CASE UNCHANGED mvars
    BY <1>1 DEF mvars, MigrationRest
  <1>2. ASSUME NEW f \in Folders, StartRun(f) PROVE MigrationRest'
    BY <1>2, MigrationAssumption DEF StartRun, fileRows, MigrationRest
  <1>3. CASE OpenBatch \/ LinkSources \/ FinishImport \/ CloseBatch \/ FinishBatch \/ FinishRepair
             \/ FailBatch \/ RecordFailure \/ CommandEnds
    BY <1>3 DEF OpenBatch, LinkSources, FinishImport, CloseBatch, FinishBatch, FinishRepair,
                FailBatch, RecordFailure, CommandEnds, fileRows, MigrationRest
  <1>4. CASE StoreSources \/ ClassifySources
    BY <1>0, <1>4 DEF StoreSources, ClassifySources, MigrationRest
  <1>5. CASE BindSources
    BY <1>5 DEF BindSources, Bind, fileRows, MigrationRest
  <1>6. ASSUME NEW l \in looked, InsertRows(l) PROVE unbound' \subseteq Contents
    BY <1>0, <1>6 DEF InsertRows, MigrationShape, ImportRecord, MigrationRest
  <1>7. CASE InsertSource
    <2>1. unbound' \subseteq Contents
      BY <1>6, <1>7 DEF InsertSource, MigrationRest
    <2> QED BY <1>7, <2>1 DEF InsertSource, fileRows, MigrationRest
  <1>8. ASSUME NEW c \in Contents, LookUpSource(c) \/ RepairSource(c) PROVE MigrationRest'
    <2>1. CASE LookUpSource(c)
      <3>1. Key(FileRows(c)) \in Contents \X Datasets
        <4>1. /\ command.folder \in Folders /\ Batch \in 1..Reviewed /\ c \in Plan
          BY <2>1, MigrationAssumption DEF LookUpSource, Running, MigrationInv, MigrationShape,
                                           CommandRecord, FolderInv, StageInv, Batch
        <4>2. ExpectedDataset[command.folder][Batch][c] \in Datasets
          BY <4>1, MigrationAssumption DEF Plan
        <4> QED BY <4>2 DEF Key, FileRows, Import
      <3> QED BY <2>1, <3>1 DEF LookUpSource, LookUp, fileRows, MigrationRest
    <2>2. CASE RepairSource(c)
      BY <2>2 DEF RepairSource, MigrationRest
    <2> QED BY <1>8, <2>1, <2>2
  <1>9. ASSUME NEW u \in Uploaders, NEW c \in Contents, NEW dataset \in DetectedAs[c],
               StartImport(u, c, dataset)
        PROVE  MigrationRest'
    <2>1. dataset # NoDataset => Key(Import(c, dataset, u)) \in Contents \X Datasets
      BY MigrationAssumption DEF Key, Import
    <2>2. overlapped' \subseteq Contents \X Datasets
      BY <1>9, <2>1 DEF StartImport, LookUp, MigrationRest
    <2> QED BY <1>9, <2>2, MigrationAssumption DEF StartImport, fileRows, MigrationRest
  <1>10. ASSUME NEW u \in Uploaders, FinishInsert(u) PROVE MigrationRest'
    <2>1. unbound' \subseteq Contents
      BY <1>6, <1>10 DEF FinishInsert, MigrationRest
    <2> QED BY <1>10, <2>1 DEF FinishInsert, fileRows, MigrationRest
  <1>11. ASSUME NEW u \in Uploaders, LoadUpload(u) PROVE MigrationRest'
    BY <1>11 DEF LoadUpload, MigrationRest
  <1>12. ASSUME NEW u \in Uploaders, BindUpload(u) PROVE MigrationRest'
    BY <1>0, <1>12 DEF BindUpload, Bind, fileRows, NoUpload, MigrationRest
  <1> QED
    BY <1>1, <1>2, <1>3, <1>4, <1>5, <1>7, <1>8, <1>9, <1>10, <1>11, <1>12 DEF MigrationNext

\* Batches, files, rows, the command and the uploads have the shapes of their
\* tables and handlers.
THEOREM MigrationTyped == MigrationSpec => []MigrationTypeOK
  <1>1. MigrationInit => MigrationRest
    BY MigrationAssumption DEF MigrationInit, NoUpload, MigrationRest
  <1>2. MigrationInv /\ MigrationRest /\ [MigrationNext]_mvars => MigrationRest'
    BY MigrationRestStep
  <1>3. MigrationInv /\ MigrationRest => MigrationTypeOK
    <2> SUFFICES ASSUME MigrationInv, MigrationRest PROVE MigrationTypeOK
      OBVIOUS
    <2>1. MigrationShape /\ NoCommand.folder \in Folders
      BY MigrationPlan DEF MigrationInv
    <2> QED BY <2>1 DEF MigrationShape, ImportRecord, BatchRecord, CommandRecord, MigrationRest, MigrationTypeOK
  <1> QED BY <1>1, <1>2, <1>3, MigrationInvariant, PTL DEF MigrationSpec

-----------------------------------------------------------------------------
(***************************************************************************)
(* Knowledge graph, for any finite set of facts and any number of jobs.  A *)
(* job writes the tables in up to twelve transactions and may stop between *)
(* any two of them.  The inductive invariant says what each job at work    *)
(* has done by its step (JobTold): its claims exist, none has evidence     *)
(* due once it is past the linking, what it will supersede is no           *)
(* longer active once it is past that, and the run it has open holds no    *)
(* claims but its own (RunsApart keeps others out of it).  Each step is    *)
(* shown to keep it for the job that moves, and RowsKept carries it over   *)
(* for the others.                                                         *)
(***************************************************************************)

ClaimRow == [fact : Facts, active : BOOLEAN, evidence : {"due", "missing", "linked"}, run : Nat]
LedgerItemRow == [fact : Facts, claim : Nat]
GraphJob == [step : 0..12, says : SUBSET Facts, names : SUBSET Facts, placed : SUBSET Facts,
             mine : SUBSET Nat, resolving : SUBSET (Nat \X Nat), old : SUBSET Nat, run : Nat]

\* Rows have the columns of their tables, and refer to rows that exist.
GraphShape ==
    /\ claims \in Seq(ClaimRow) /\ items \in Seq(LedgerItemRow)
    /\ projections \in Seq({"running", "completed", "failed"})
    /\ \A c \in Ids : claims[c].run # 0 => claims[c].run \in DOMAIN projections
    /\ \A c \in Ids : claims[c].run # 0 => claims[c].evidence # "missing"
    /\ \A n \in DOMAIN items : items[n].claim # 0 => items[n].claim \in Ids
    /\ ledger \subseteq Ids \X Ids
    /\ job \in [GraphJobs -> GraphJob]

Projecting(rec) == rec.says \subseteq RuleFacts

\* What a job has done by the step it is at, and what it remembers.
JobTold(rec) ==
    /\ rec.step <= (IF Projecting(rec) THEN 6 ELSE 12)
    /\ rec.step # 0 => rec.says # {} /\ (Projecting(rec) \/ rec.says \cap RuleFacts = {})
    /\ rec.mine \subseteq Ids /\ rec.old \subseteq Ids
    /\ rec.step <= 4 => rec.mine = {}
    /\ rec.step > (IF Projecting(rec) THEN 5 ELSE 6) => \A c \in rec.mine : claims[c].evidence # "due"
    /\ rec.step > 10 => \A c \in rec.old : ~claims[c].active
    /\ \A p \in rec.resolving : /\ p[1] \in DOMAIN items /\ p[2] \in rec.mine
                                /\ claims[p[2]].fact = items[p[1]].fact
    /\ rec.run # 0 => /\ rec.run \in DOMAIN projections /\ projections[rec.run] = "running"
                      /\ \A c \in Ids : claims[c].run = rec.run => c \in rec.mine

\* No two jobs have a run in common.
RunsApart == \A i, j \in GraphJobs : i # j /\ job[i].run # 0 => job[i].run # job[j].run

GraphInv ==
    GraphShape /\ (\A j \in GraphJobs : JobTold(job[j])) /\ RunsApart /\ TrailTellsTrue

\* What no step ever takes back.
RowsKept ==
    /\ \A c \in Ids : /\ c \in Ids' /\ claims'[c].fact = claims[c].fact
                      /\ claims'[c].run = claims[c].run
                      /\ claims[c].evidence # "due" => claims'[c].evidence = claims[c].evidence
                      /\ claims[c].evidence # "missing" => claims'[c].evidence # "missing"
                      /\ claims'[c].active => claims[c].active
    /\ \A n \in DOMAIN items : n \in DOMAIN items' /\ items'[n].fact = items[n].fact

\* A claim a job adds is of its own run, and the claims of a run can be cited.
NewRow(row, run) == row.run \in {0, run} /\ (row.run # 0 => row.evidence # "missing")

\* The invariant holds of an empty graph.
LEMMA GraphInitInv == GraphInit => GraphInv
  <1> SUFFICES ASSUME GraphInit PROVE GraphInv
    OBVIOUS
  <1>1. /\ claims = <<>> /\ items = <<>> /\ projections = <<>> /\ ledger = {}
        /\ Ids = {} /\ DOMAIN items = {} /\ DOMAIN projections = {}
        /\ \A j \in GraphJobs : job[j] = NoJob
    BY DEF GraphInit, Ids
  <1>2. GraphShape
    <2>1. NoJob \in GraphJob
      BY DEF NoJob, GraphJob
    <2> QED BY <1>1, <2>1 DEF GraphInit, GraphShape
  <1>3. \A j \in GraphJobs : JobTold(job[j])
    BY <1>1 DEF JobTold, NoJob, Projecting
  <1>4. RunsApart
    BY <1>1 DEF RunsApart, NoJob
  <1>5. TrailTellsTrue
    BY <1>1 DEF TrailTellsTrue
  <1> QED BY <1>2, <1>3, <1>4, <1>5 DEF GraphInv

\* The calls of a job, by their numbers.
LEMMA GraphAt ==
    ASSUME NEW j \in GraphJobs, job[j] \in GraphJob, JobTold(job[j]), NEW step, At(j, step)
    PROVE  /\ job[j].step \in 1..12
           /\ step = "entities" => job[j].step = 1
           /\ step = "relations" => job[j].step = 2
           /\ step = "replay_relations" => job[j].step = 3 /\ ~Projecting(job[j])
           /\ step = "find" => job[j].step = 3 /\ Projecting(job[j])
           /\ step = "claims" => job[j].step = 4
           /\ step = "replay_claims" => job[j].step = 5 /\ ~Projecting(job[j])
           /\ step = "link" => job[j].step = (IF Projecting(job[j]) THEN 5 ELSE 6)
           /\ step = "complete" => job[j].step = 6 /\ Projecting(job[j])
           /\ step = "resolve" => job[j].step = 7 /\ ~Projecting(job[j])
           /\ step = "unresolved" => job[j].step = 8 /\ ~Projecting(job[j])
           /\ step = "reconcile" => job[j].step = 9 /\ ~Projecting(job[j])
           /\ step = "supersede_claims" => job[j].step = 10 /\ ~Projecting(job[j])
           /\ step = "supersede_relations" => job[j].step = 11 /\ ~Projecting(job[j])
           /\ step = "ledger" => job[j].step = 12 /\ ~Projecting(job[j])
  <1> DEFINE k == job[j].step
  <1>1. k \in 1..12 /\ step = Calls(job[j])[k]
    BY DEF At, GraphJob
  <1>2. CASE Projecting(job[j])
    <2>1. k \in {1, 2, 3, 4, 5, 6} /\ step = ProjectionOrder[k]
      BY <1>1, <1>2 DEF JobTold, Calls, Projecting
    <2> QED BY <1>2, <2>1 DEF ProjectionOrder
  <1>3. CASE ~Projecting(job[j])
    <2>1. k \in {1, 2, 3, 4, 5, 6, 7, 8, 9, 10, 11, 12} /\ step = Order[k]
      BY <1>1, <1>3 DEF Calls, Projecting
    <2> QED BY <1>3, <2>1 DEF Order
  <1> QED BY <1>2, <1>3

\* Going on to the next call, or ending after the last.
LEMMA GraphOnward ==
    ASSUME NEW rec \in GraphJob, rec.step <= (IF Projecting(rec) THEN 6 ELSE 12)
    PROVE  /\ Onward(rec) \in GraphJob
           /\ \/ Onward(rec) = NoJob /\ rec.step = (IF Projecting(rec) THEN 6 ELSE 12)
              \/ /\ Onward(rec).step = rec.step + 1
                 /\ rec.step < (IF Projecting(rec) THEN 6 ELSE 12)
                 /\ Onward(rec).says = rec.says /\ Onward(rec).placed = rec.placed
                 /\ Onward(rec).mine = rec.mine /\ Onward(rec).resolving = rec.resolving
                 /\ Onward(rec).old = rec.old /\ Onward(rec).run = rec.run
  <1>1. Len(Calls(rec)) = IF Projecting(rec) THEN 6 ELSE 12
    BY DEF Calls, Projecting, Order, ProjectionOrder
  <1>2. NoJob \in GraphJob
    BY DEF NoJob, GraphJob
  <1>3. CASE rec.step = Len(Calls(rec))
    BY <1>1, <1>2, <1>3 DEF Onward
  <1>4. CASE rec.step # Len(Calls(rec))
    <2> DEFINE r == [rec EXCEPT !.step = @ + 1]
    <2>1. rec.step + 1 \in 0..12 /\ rec.step < (IF Projecting(rec) THEN 6 ELSE 12)
      BY <1>1, <1>4 DEF GraphJob
    <2>2. /\ r \in GraphJob /\ r.step = rec.step + 1
          /\ r.says = rec.says /\ r.placed = rec.placed /\ r.mine = rec.mine
          /\ r.resolving = rec.resolving /\ r.old = rec.old /\ r.run = rec.run
      BY <2>1 DEF GraphJob
    <2>3. Onward(rec) = r
      BY <1>4 DEF Onward
    <2> HIDE DEF r
    <2> QED BY <2>1, <2>2, <2>3
  <1> QED BY <1>3, <1>4

\* A worker without a job has done nothing.
LEMMA GraphNoJobTold == NoJob \in GraphJob /\ JobTold(NoJob)
  BY DEF NoJob, GraphJob, JobTold, Projecting

\* A job is not disturbed by others.
LEMMA GraphToldKept ==
    ASSUME NEW rec \in GraphJob, JobTold(rec), RowsKept,
           rec.run # 0 => /\ rec.run \in DOMAIN projections' /\ projections'[rec.run] = "running"
                          /\ \A c \in Ids' \ Ids : claims'[c].run # rec.run
    PROVE  JobTold(rec)'
  BY DEF JobTold, RowsKept, Projecting

\* One job moves; the rows it adds or changes are of its own run.
LEMMA GraphJobStep ==
    ASSUME GraphInv, NEW j \in GraphJobs, NEW r \in GraphJob, job' = [job EXCEPT ![j] = r],
           RowsKept, JobTold(r)', TrailTellsTrue',
           claims' \in Seq(ClaimRow), items' \in Seq(LedgerItemRow),
           projections' \in Seq({"running", "completed", "failed"}),
           \A c \in Ids' : claims'[c].run # 0 => claims'[c].run \in DOMAIN projections',
           \A n \in DOMAIN items' : items'[n].claim # 0 => items'[n].claim \in Ids',
           ledger' \subseteq Ids' \X Ids',
           r.run \in {0, job[j].run} \/ r.run \notin DOMAIN projections,
           \A k \in DOMAIN projections :
               k \in DOMAIN projections' /\ (projections'[k] = projections[k] \/ k = job[j].run),
           \A c \in Ids' \ Ids : NewRow(claims'[c], job[j].run)
    PROVE  GraphInv'
  <1>1. /\ job' \in [GraphJobs -> GraphJob] /\ job'[j] = r
        /\ \A d \in GraphJobs \ {j} : job'[d] = job[d]
        /\ \A d \in GraphJobs : job[d] \in GraphJob /\ JobTold(job[d])
    BY DEF GraphInv, GraphShape
  <1>2. GraphShape'
    <2>1. \A c \in Ids' : claims'[c].run # 0 => claims'[c].evidence # "missing"
      BY DEF GraphInv, GraphShape, RowsKept, NewRow
    <2> QED BY <1>1, <2>1 DEF GraphShape
  <1>3. ASSUME NEW d \in GraphJobs PROVE JobTold(job[d])'
    <2>1. PICK rec \in GraphJob : rec = job'[d]
      BY <1>1
    <2>2. CASE d = j
      BY <1>1, <2>1, <2>2
    <2>3. CASE d # j
      <3>1. rec = job[d] /\ JobTold(rec)
        BY <1>1, <2>1, <2>3
      <3>n. \A c \in Ids' \ Ids : claims'[c].run \in {0, job[j].run}
        BY DEF NewRow
      <3>2. rec.run # 0 => rec.run # job[j].run
        BY <2>3, <3>1 DEF GraphInv, RunsApart
      <3>3. rec.run # 0 => rec.run \in DOMAIN projections /\ projections[rec.run] = "running"
        BY <3>1 DEF JobTold
      <3>4. JobTold(rec)'
        BY <3>1, <3>2, <3>3, <3>n, GraphToldKept
      <3> QED BY <2>1, <3>4
    <2> QED BY <2>2, <2>3
  <1>4. RunsApart'
    <2>1. \A d \in GraphJobs : job[d].run # 0 => job[d].run \in DOMAIN projections
      BY <1>1 DEF JobTold
    <2> QED BY <1>1, <2>1 DEF GraphInv, RunsApart
  <1> QED BY <1>2, <1>3, <1>4 DEF GraphInv

\* A step that writes no claim, item, ledger row or run.
LEMMA GraphQuietStep ==
    ASSUME GraphInv, NEW j \in GraphJobs, NEW r \in GraphJob, job' = [job EXCEPT ![j] = r],
           UNCHANGED <<claims, items, ledger, projections>>, JobTold(r), r.run \in {0, job[j].run}
    PROVE  GraphInv'
  <1>1. RowsKept /\ JobTold(r)' /\ TrailTellsTrue'
    BY DEF GraphInv, RowsKept, JobTold, TrailTellsTrue, Ids, FactOf
  <1>2. /\ claims' \in Seq(ClaimRow) /\ items' \in Seq(LedgerItemRow)
        /\ projections' \in Seq({"running", "completed", "failed"})
        /\ \A c \in Ids' : claims'[c].run # 0 => claims'[c].run \in DOMAIN projections'
        /\ \A n \in DOMAIN items' : items'[n].claim # 0 => items'[n].claim \in Ids'
        /\ ledger' \subseteq Ids' \X Ids'
    BY DEF GraphInv, GraphShape, Ids
  <1>3. /\ \A k \in DOMAIN projections :
              k \in DOMAIN projections' /\ (projections'[k] = projections[k] \/ k = job[j].run)
        /\ \A c \in Ids' \ Ids : NewRow(claims'[c], job[j].run)
    BY DEF Ids
  <1> QED BY <1>1, <1>2, <1>3, GraphJobStep

\* A job starts, with everything it says of one kind.
LEMMA GraphStartStep ==
    ASSUME GraphInv, NEW j \in GraphJobs, NEW says \in SUBSET Facts, NEW names \in SUBSET Facts,
           says # {}, says \subseteq RuleFacts \/ says \cap RuleFacts = {},
           job' = [job EXCEPT ![j] = [NoJob EXCEPT !.step = 1, !.says = says, !.names = names]],
           UNCHANGED <<claims, items, ledger, projections>>
    PROVE  GraphInv'
  <1> DEFINE r == [NoJob EXCEPT !.step = 1, !.says = says, !.names = names]
  <1>1. /\ r \in GraphJob /\ r.step = 1 /\ r.says = says /\ r.mine = {} /\ r.old = {}
        /\ r.resolving = {} /\ r.run = 0
    <2>1. r = [step |-> 1, says |-> says, names |-> names, placed |-> {}, mine |-> {},
               resolving |-> {}, old |-> {}, run |-> 0]
      <3> DEFINE first == [NoJob EXCEPT !.step = 1]
                 second == [first EXCEPT !.says = says]
      <3>1. first = [step |-> 1, says |-> {}, names |-> {}, placed |-> {}, mine |-> {},
                     resolving |-> {}, old |-> {}, run |-> 0]
        BY DEF NoJob
      <3>2. r = [second EXCEPT !.names = names]
        OBVIOUS
      <3> HIDE DEF first, r
      <3>3. second = [step |-> 1, says |-> says, names |-> {}, placed |-> {}, mine |-> {},
                      resolving |-> {}, old |-> {}, run |-> 0]
        BY <3>1
      <3> HIDE DEF second
      <3> QED BY <3>2, <3>3
    <2> HIDE DEF r
    <2> QED BY <2>1 DEF GraphJob
  <1> HIDE DEF r
  <1>2. JobTold(r)
    BY <1>1 DEF JobTold, Projecting
  <1> QED BY <1>1, <1>2, GraphQuietStep DEF r

\* What a job has told stays true as it goes on, unless the next call counts
\* on the one just made.
LEMMA GraphToldOn ==
    ASSUME NEW rec \in GraphJob, JobTold(rec), rec.step # 0,
           rec.step # 4, rec.step # (IF Projecting(rec) THEN 5 ELSE 6), rec.step # 10
    PROVE  /\ Onward(rec) \in GraphJob /\ JobTold(Onward(rec)) /\ Onward(rec).run \in {0, rec.run}
  <1>1. rec.step <= (IF Projecting(rec) THEN 6 ELSE 12)
    BY DEF JobTold
  <1>2. PICK r \in GraphJob : r = Onward(rec)
    BY <1>1, GraphOnward
  <1>3. CASE r = NoJob
    BY <1>2, <1>3, GraphNoJobTold DEF NoJob
  <1>4. CASE r # NoJob
    <2>1. /\ r.step = rec.step + 1 /\ rec.step < (IF Projecting(rec) THEN 6 ELSE 12)
          /\ r.says = rec.says /\ r.placed = rec.placed
          /\ r.mine = rec.mine /\ r.resolving = rec.resolving
          /\ r.old = rec.old /\ r.run = rec.run /\ rec.step \in 0..12
      BY <1>1, <1>2, <1>4, GraphOnward DEF GraphJob
    <2>2. Projecting(r) <=> Projecting(rec)
      BY <2>1 DEF Projecting
    <2>3. JobTold(r)
      BY <2>1, <2>2 DEF JobTold
    <2> QED BY <1>2, <2>1, <2>3
  <1> QED BY <1>3, <1>4

\* Calls that write only entities and relations, and change at most the names
\* the job remembers and what it has placed.
LEMMA GraphPlaceStep ==
    ASSUME GraphInv, NEW j \in GraphJobs, NEW placed \in SUBSET Facts, NEW names \in SUBSET Facts,
           At(j, "entities") \/ At(j, "relations") \/ At(j, "replay_relations")
               \/ At(j, "supersede_relations"),
           job' = [job EXCEPT ![j] = Onward([job[j] EXCEPT !.placed = placed, !.names = names])],
           UNCHANGED <<claims, items, ledger, projections>>
    PROVE  GraphInv'
  <1>1. PICK rec \in GraphJob : rec = [job[j] EXCEPT !.placed = placed, !.names = names]
    BY DEF GraphInv, GraphShape, GraphJob
  <1>2. job[j] \in GraphJob /\ JobTold(job[j])
    BY DEF GraphInv, GraphShape
  <1>3. /\ rec.step = job[j].step /\ rec.says = job[j].says /\ rec.mine = job[j].mine
        /\ rec.resolving = job[j].resolving /\ rec.old = job[j].old /\ rec.run = job[j].run
    BY <1>1, <1>2 DEF GraphJob
  <1>4. Projecting(rec) <=> Projecting(job[j])
    BY <1>3 DEF Projecting
  <1>5. JobTold(rec)
    BY <1>2, <1>3, <1>4 DEF JobTold
  <1>6. rec.step \in {1, 2, 3, 11}
    BY <1>2, <1>3, GraphAt
  <1>7. Onward(rec) \in GraphJob /\ JobTold(Onward(rec)) /\ Onward(rec).run \in {0, rec.run}
    BY <1>5, <1>6, GraphToldOn
  <1>8. PICK r \in GraphJob : r = Onward(rec)
    BY <1>7
  <1>9. JobTold(r) /\ r.run \in {0, job[j].run} /\ job' = [job EXCEPT ![j] = r]
    BY <1>1, <1>3, <1>7, <1>8
  <1> QED BY <1>9, GraphQuietStep

\* The steps on entities and relations, which write none of the proved tables.
LEMMA GraphPlacingSteps ==
    ASSUME GraphInv, NEW j \in GraphJobs,
           SaveEntities(j) \/ SaveRelations(j) \/ ReplayRelations(j) \/ SupersedeRelations(j)
    PROVE  GraphInv'
  <1>1. /\ job[j] \in GraphJob /\ job[j].placed \in SUBSET Facts /\ job[j].says \in SUBSET Facts
        /\ job[j].names \in SUBSET Facts
    BY DEF GraphInv, GraphShape, GraphJob
  <1>2. CASE SaveEntities(j) \/ SupersedeRelations(j)
    <2>1. job[j] = [job[j] EXCEPT !.placed = job[j].placed, !.names = job[j].names]
      BY <1>1 DEF GraphJob
    <2>2. /\ At(j, "entities") \/ At(j, "supersede_relations")
          /\ job' = [job EXCEPT ![j] = Onward(job[j])]
          /\ UNCHANGED <<claims, items, ledger, projections>>
      BY <1>2 DEF SaveEntities, SupersedeRelations, Advance
    <2> QED BY <1>1, <2>1, <2>2, GraphPlaceStep
  <1>3. CASE SaveRelations(j)
    <2>1. PICK placed \in SUBSET Facts :
          /\ At(j, "relations")
          /\ job' = [job EXCEPT ![j] = Onward([job[j] EXCEPT !.placed = placed, !.names = {}])]
          /\ UNCHANGED <<claims, items, ledger, projections>>
      <3>1. PICK known :
               job' = [job EXCEPT ![j] =
                          Onward([job[j] EXCEPT !.placed = job[j].says \cap known, !.names = {}])]
        BY <1>3 DEF SaveRelations
      <3>2. PICK placed \in SUBSET Facts : placed = job[j].says \cap known
        BY <1>1
      <3>3. At(j, "relations") /\ UNCHANGED <<claims, items, ledger, projections>>
        BY <1>3 DEF SaveRelations
      <3> QED BY <3>1, <3>2, <3>3
    <2>2. {} \in SUBSET Facts
      OBVIOUS
    <2> QED BY <2>1, <2>2, GraphPlaceStep
  <1>4. CASE ReplayRelations(j)
    <2>1. PICK placed \in SUBSET Facts :
          /\ At(j, "replay_relations")
          /\ job' = [job EXCEPT ![j] = Onward([job[j] EXCEPT !.placed = placed])]
          /\ UNCHANGED <<claims, items, ledger, projections>>
      <3>1. \A come : job[j].placed \cup (come \cap job[j].says) \in SUBSET Facts
        BY <1>1
      <3> QED BY <1>4, <3>1 DEF ReplayRelations
    <2>2. [job[j] EXCEPT !.placed = placed] = [job[j] EXCEPT !.placed = placed, !.names = job[j].names]
      BY <1>1 DEF GraphJob
    <2> QED BY <1>1, <2>1, <2>2, GraphPlaceStep
  <1> QED BY <1>2, <1>3, <1>4

\* Claims are added or change for good; the trail goes on telling the truth.
LEMMA GraphClaimStep ==
    ASSUME GraphInv, NEW j \in GraphJobs, NEW r \in GraphJob, job' = [job EXCEPT ![j] = r],
           RowsKept, claims' \in Seq(ClaimRow), UNCHANGED <<items, ledger, projections>>,
           \A c \in Ids' \ Ids : NewRow(claims'[c], job[j].run),
           JobTold(r)', r.run \in {0, job[j].run}
    PROVE  GraphInv'
  <1>1. job[j].run # 0 => job[j].run \in DOMAIN projections /\ projections[job[j].run] = "running"
    BY DEF GraphInv, JobTold
  <1>2. /\ items' \in Seq(LedgerItemRow) /\ projections' \in Seq({"running", "completed", "failed"})
        /\ \A c \in Ids' : claims'[c].run # 0 => claims'[c].run \in DOMAIN projections'
        /\ \A n \in DOMAIN items' : items'[n].claim # 0 => items'[n].claim \in Ids'
        /\ ledger' \subseteq Ids' \X Ids'
        /\ \A k \in DOMAIN projections :
              k \in DOMAIN projections' /\ (projections'[k] = projections[k] \/ k = job[j].run)
    <2>1. \A c \in Ids' \ Ids : claims'[c].run \in {0, job[j].run}
      BY DEF NewRow
    <2> QED BY <1>1, <2>1 DEF GraphInv, GraphShape, RowsKept
  <1>3. TrailTellsTrue'
    <2>1. /\ \A n \in DOMAIN items : items[n].claim # 0 => items[n].claim \in Ids
          /\ \A p \in ledger : p[1] \in Ids /\ p[2] \in Ids
      BY DEF GraphInv, GraphShape
    <2>2. \A n \in DOMAIN items' : items'[n].claim # 0 =>
              claims'[items'[n].claim].evidence # "due" /\ claims'[items'[n].claim].fact = items'[n].fact
      BY <2>1 DEF GraphInv, TrailTellsTrue, RowsKept, FactOf
    <2>3. \A p \in ledger' : /\ ~claims'[p[2]].active /\ claims'[p[1]].fact \notin RuleFacts
                             /\ Matches(claims'[p[1]].fact, claims'[p[2]].fact)
      BY <2>1 DEF GraphInv, TrailTellsTrue, RowsKept, FactOf
    <2>4. \A c \in Ids' :
              claims'[c].run # 0 /\ projections'[claims'[c].run] = "completed" =>
                  claims'[c].evidence = "linked"
      <3>1. \A c \in Ids' \ Ids : claims'[c].run \in {0, job[j].run}
        BY DEF NewRow
      <3> QED BY <1>1, <3>1 DEF GraphInv, TrailTellsTrue, RowsKept
    <2> QED BY <2>2, <2>3, <2>4 DEF TrailTellsTrue, FactOf, Matches
  <1> QED BY <1>2, <1>3, GraphJobStep

\* The elements of a finite set in some order, each once.
LEMMA GraphListed ==
    ASSUME NEW S, IsFiniteSet(S)
    PROVE  /\ Cardinality(S) \in Nat /\ SetToSeq(S) \in [1..Cardinality(S) -> S]
           /\ SetToSeq(S) \in Seq(S) /\ Len(SetToSeq(S)) = Cardinality(S)
  <1> DEFINE n == Cardinality(S)
  <1>1. n \in Nat /\ ExistsBijection(1..n, S)
    BY FS_CardinalityType
  <1>2. \E f \in [1..n -> S] : IsInjective(f)
    <2>1. PICK f : f \in Bijection(1..n, S)
      BY <1>1 DEF ExistsBijection
    <2> QED BY <2>1 DEF Bijection, Injection
  <1>3. SetToSeq(S) \in [1..n -> S]
    BY <1>2 DEF SetToSeq
  <1> QED BY <1>1, <1>3

\* Rows appended to a table come after those it has.
LEMMA GraphJoined ==
    ASSUME NEW R, NEW s \in Seq(R), NEW t \in Seq(R)
    PROVE  /\ s \o t \in Seq(R) /\ Len(s \o t) = Len(s) + Len(t) /\ Len(s) \in Nat /\ Len(t) \in Nat
           /\ \A c \in 1..Len(s) : (s \o t)[c] = s[c]
           /\ \A c \in (Len(s) + 1)..(Len(s) + Len(t)) : (s \o t)[c] = t[c - Len(s)]
  OBVIOUS

\* insert_claims gives every fact one row and one id.
LEMMA GraphInserted ==
    ASSUME claims \in Seq(ClaimRow), NEW facts \in SUBSET Facts, NEW run \in Nat,
           NEW read \in SUBSET facts, run # 0 => read = facts, claims' = Insert(facts, read, run)
    PROVE  /\ claims' \in Seq(ClaimRow)
           /\ \A c \in Ids : c \in Ids' /\ claims'[c] = claims[c]
           /\ \A c \in Ids' \ Ids : claims'[c].run = run /\ NewRow(claims'[c], run)
           /\ NewIds(facts) = Ids' \ Ids
  <1> DEFINE T == {Claim(f, run, f \in read) : f \in facts}
             g == [f \in facts |-> Claim(f, run, f \in read)]
             m == Cardinality(T)
             k == Cardinality(facts)
  <1>1. IsFiniteSet(facts)
    BY FS_Subset, GraphAssumption
  <1>2. IsFiniteSet(T) /\ m = k
    <2>1. \A f, h \in facts : Claim(f, run, f \in read) = Claim(h, run, h \in read) => f = h
      BY DEF Claim
    <2>2. g \in Bijection(facts, T)
      BY <2>1 DEF Bijection, Injection, Surjection, IsInjective
    <2> QED BY <1>1, <2>2, FS_Bijection DEF ExistsBijection
  <1>3. \A row \in T : row \in ClaimRow /\ row.run = run /\ NewRow(row, run)
    <2>1. ASSUME NEW f \in facts, NEW row, row = Claim(f, run, f \in read)
          PROVE  row \in ClaimRow /\ row.run = run /\ NewRow(row, run)
      BY <2>1 DEF Claim, ClaimRow, NewRow
    <2> QED BY <2>1
  <1>4. /\ m \in Nat /\ SetToSeq(T) \in Seq(T) /\ Len(SetToSeq(T)) = m
    BY <1>2, GraphListed
  <1>5. PICK new \in Seq(T) : new = SetToSeq(T)
    BY <1>4
  <1>6. claims' = claims \o new /\ Len(new) = m
    BY <1>4, <1>5 DEF Insert
  <1> HIDE DEF T, m
  <1>7. new \in Seq(ClaimRow) /\ \A i \in 1..m : new[i].run = run /\ NewRow(new[i], run)
    <2>1. \A i \in 1..m : new[i] \in T
      BY <1>6
    <2>2. \A i \in 1..m : new[i] \in ClaimRow
      BY <1>3, <2>1
    <2>3. new \in Seq(ClaimRow)
      BY <1>4, <1>6, <2>2
    <2> QED BY <1>3, <2>1, <2>3
  <1>8. /\ claims' \in Seq(ClaimRow) /\ Len(claims') = Len(claims) + m
        /\ \A c \in 1..Len(claims) : claims'[c] = claims[c]
        /\ \A c \in (Len(claims) + 1)..(Len(claims) + m) : claims'[c] = new[c - Len(claims)]
    <2>1. PICK t \in Seq(ClaimRow) : t = new
      BY <1>7
    <2>2. claims' = claims \o t /\ Len(t) = m
      BY <1>6, <2>1
    <2>3. /\ claims' \in Seq(ClaimRow) /\ Len(claims') = Len(claims) + m
          /\ \A c \in 1..Len(claims) : claims'[c] = claims[c]
          /\ \A c \in (Len(claims) + 1)..(Len(claims) + m) : claims'[c] = t[c - Len(claims)]
      BY <2>2, GraphJoined
    <2> QED BY <2>1, <2>3
  <1>9. Ids = 1..Len(claims) /\ Ids' = 1..(Len(claims) + m) /\ Len(claims) \in Nat
    BY <1>8 DEF Ids
  <1>10. NewIds(facts) = (Len(claims) + 1)..(Len(claims) + m)
    <2>1. NewIds(facts) = {Len(claims) + i : i \in 1..m}
      BY <1>2 DEF NewIds
    <2>2. \A c \in (Len(claims) + 1)..(Len(claims) + m) :
              c - Len(claims) \in 1..m /\ c = Len(claims) + (c - Len(claims))
      BY <1>4, <1>9
    <2>3. \A i \in 1..m : Len(claims) + i \in (Len(claims) + 1)..(Len(claims) + m)
      BY <1>4, <1>9
    <2>4. (Len(claims) + 1)..(Len(claims) + m) \subseteq {Len(claims) + i : i \in 1..m}
      BY <2>2
    <2>5. {Len(claims) + i : i \in 1..m} \subseteq (Len(claims) + 1)..(Len(claims) + m)
      BY <2>3
    <2> QED BY <2>1, <2>4, <2>5
  <1>11. \A c \in Ids' \ Ids : claims'[c].run = run /\ NewRow(claims'[c], run)
    <2> SUFFICES ASSUME NEW c \in Ids' \ Ids PROVE claims'[c].run = run /\ NewRow(claims'[c], run)
      OBVIOUS
    <2>1. c \in (Len(claims) + 1)..(Len(claims) + m) /\ c - Len(claims) \in 1..m
      BY <1>4, <1>9
    <2> QED BY <1>7, <1>8, <2>1
  <1> QED BY <1>4, <1>8, <1>9, <1>10, <1>11

\* insert_claims: the new claims are about what was placed.
LEMMA GraphInsertStep ==
    ASSUME GraphInv, NEW j \in GraphJobs, InsertClaims(j)
    PROVE  GraphInv'
  <1>1. /\ job[j] \in GraphJob /\ JobTold(job[j]) /\ job[j].placed \in SUBSET Facts
        /\ job[j].run \in Nat /\ claims \in Seq(ClaimRow)
    BY DEF GraphInv, GraphShape, GraphJob
  <1>2. PICK mine \in SUBSET Nat : mine = NewIds(job[j].placed)
    <2>1. IsFiniteSet(job[j].placed)
      BY <1>1, FS_Subset, GraphAssumption
    <2>2. Cardinality(job[j].placed) \in Nat /\ Len(claims) \in Nat
      BY <1>1, <2>1, FS_CardinalityType
    <2>3. \A i \in 1..Cardinality(job[j].placed) : Len(claims) + i \in Nat
      BY <2>2
    <2>4. {Len(claims) + i : i \in 1..Cardinality(job[j].placed)} \subseteq Nat
      BY <2>3
    <2> QED BY <2>4 DEF NewIds
  <1>r. PICK read \in SUBSET job[j].placed :
            /\ job[j].run # 0 => read = job[j].placed
            /\ claims' = Insert(job[j].placed, read, job[j].run)
    BY DEF InsertClaims, Read
  <1>3. /\ job[j].step = 4 /\ claims' = Insert(job[j].placed, read, job[j].run)
        /\ job' = [job EXCEPT ![j] = Onward([job[j] EXCEPT !.mine = mine])]
        /\ UNCHANGED <<items, ledger, projections>>
    BY <1>1, <1>2, <1>r, GraphAt DEF InsertClaims
  <1>4. /\ claims' \in Seq(ClaimRow)
        /\ \A c \in Ids : c \in Ids' /\ claims'[c] = claims[c]
        /\ \A c \in Ids' \ Ids : claims'[c].run = job[j].run /\ NewRow(claims'[c], job[j].run)
        /\ mine = Ids' \ Ids
    BY <1>1, <1>2, <1>r, <1>3, GraphInserted
  <1>5. PICK rec \in GraphJob : rec = [job[j] EXCEPT !.mine = mine]
    BY <1>1 DEF GraphJob
  <1>6. /\ rec.step = 4 /\ rec.says = job[j].says /\ rec.mine = mine
        /\ rec.resolving = job[j].resolving /\ rec.old = job[j].old /\ rec.run = job[j].run
    BY <1>1, <1>3, <1>5 DEF GraphJob
  <1>7. PICK r \in GraphJob : r = Onward(rec)
    BY <1>6, GraphOnward
  <1>8. /\ r.step = 5 /\ r.says = job[j].says /\ r.mine = mine
        /\ r.resolving = job[j].resolving /\ r.old = job[j].old /\ r.run = job[j].run
    BY <1>6, <1>7, GraphOnward
  <1>9. RowsKept
    BY <1>3, <1>4 DEF RowsKept
  <1>10. JobTold(r)'
    <2>1. job[j].mine = {} /\ job[j].resolving = {}
      BY <1>1, <1>3 DEF JobTold
    <2>2. Projecting(r) <=> Projecting(job[j])
      BY <1>8 DEF Projecting
    <2>3. r.run # 0 => /\ r.run \in DOMAIN projections' /\ projections'[r.run] = "running"
                       /\ \A c \in Ids' : claims'[c].run = r.run => c \in r.mine
      BY <1>1, <1>3, <1>4, <1>8, <2>1 DEF JobTold
    <2>4. r.mine \subseteq Ids' /\ r.old \subseteq Ids' /\ r.resolving = {}
      BY <1>1, <1>4, <1>8, <2>1 DEF JobTold
    <2>5. /\ r.step <= (IF Projecting(r) THEN 6 ELSE 12)
          /\ r.step # 0 => r.says # {} /\ (Projecting(r) \/ r.says \cap RuleFacts = {})
      BY <1>1, <1>3, <1>8, <2>2 DEF JobTold
    <2>6. ~(r.step <= 4) /\ ~(r.step > (IF Projecting(r) THEN 5 ELSE 6)) /\ ~(r.step > 10)
      BY <1>8
    <2> QED BY <2>3, <2>4, <2>5, <2>6 DEF JobTold, Projecting
  <1>11. job' = [job EXCEPT ![j] = r]
    BY <1>3, <1>5, <1>7
  <1>12. \A c \in Ids' \ Ids : NewRow(claims'[c], job[j].run)
    BY <1>4
  <1> QED BY <1>3, <1>4, <1>8, <1>9, <1>10, <1>11, <1>12, GraphClaimStep

\* Replaying pending items makes a claim about the fact of each item it will
\* resolve.
LEMMA GraphReplayStep ==
    ASSUME GraphInv, NEW j \in GraphJobs, ReplayClaims(j)
    PROVE  GraphInv'
  <1>0. PICK found \in SUBSET Ready : \E read \in SUBSET found :
            LET order == SetToSeq(found) IN
            /\ claims' = claims \o
                   [k \in DOMAIN order |-> Claim(items[order[k]].fact, 0, order[k] \in read)]
            /\ job' = [job EXCEPT ![j] = Onward(
                   [job[j] EXCEPT !.mine = job[j].mine \cup (Len(claims) + 1)..Len(claims'),
                                  !.resolving = {<<order[k], Len(claims) + k>> : k \in DOMAIN order}])]
    BY DEF ReplayClaims
  <1>r. PICK read \in SUBSET found :
            LET order == SetToSeq(found) IN
            /\ claims' = claims \o
                   [k \in DOMAIN order |-> Claim(items[order[k]].fact, 0, order[k] \in read)]
            /\ job' = [job EXCEPT ![j] = Onward(
                   [job[j] EXCEPT !.mine = job[j].mine \cup (Len(claims) + 1)..Len(claims'),
                                  !.resolving = {<<order[k], Len(claims) + k>> : k \in DOMAIN order}])]
    BY <1>0
  <1> DEFINE order == SetToSeq(found)
             new == [k \in DOMAIN order |-> Claim(items[order[k]].fact, 0, order[k] \in read)]
             pairs == {<<order[k], Len(claims) + k>> : k \in DOMAIN order}
  <1>1. /\ job[j] \in GraphJob /\ JobTold(job[j]) /\ job[j].mine \in SUBSET Nat
        /\ claims \in Seq(ClaimRow) /\ items \in Seq(LedgerItemRow)
    BY DEF GraphInv, GraphShape, GraphJob
  <1>2. PICK m \in Nat : order \in [1..m -> found] /\ DOMAIN order = 1..m
    <2>1. DOMAIN items = 1..Len(items) /\ Len(items) \in Nat
      BY <1>1
    <2>2. IsFiniteSet(1..Len(items))
      BY <2>1, FS_Interval
    <2>3. found \in SUBSET (1..Len(items))
      BY <2>1 DEF Ready, Pending
    <2>4. IsFiniteSet(found)
      BY <2>2, <2>3, FS_Subset
    <2> QED BY <2>4, GraphListed
  <1>3. /\ job[j].step = 5 /\ ~Projecting(job[j]) /\ claims' = claims \o new
        /\ job' = [job EXCEPT ![j] = Onward([job[j] EXCEPT
                       !.mine = job[j].mine \cup (Len(claims) + 1)..Len(claims'),
                       !.resolving = pairs])]
        /\ UNCHANGED <<items, ledger, projections>>
    BY <1>1, <1>r, GraphAt DEF ReplayClaims
  <1>4. \A k \in 1..m : /\ order[k] \in DOMAIN items /\ items[order[k]].fact \in Facts
                        /\ new[k] = Claim(items[order[k]].fact, 0, order[k] \in read)
    <2>1. \A n \in DOMAIN items : items[n].fact \in Facts
      <3>1. \A n \in DOMAIN items : items[n] \in LedgerItemRow
        BY <1>1
      <3> QED BY <3>1 DEF LedgerItemRow
    <2>2. \A k \in 1..m : order[k] \in DOMAIN items
      BY <1>2 DEF Ready, Pending
    <2> HIDE DEF order
    <2> QED BY <1>2, <2>1, <2>2
  <1> HIDE DEF order
  <1>5. new \in Seq(ClaimRow) /\ Len(new) = m
    <2>1. ASSUME NEW k \in 1..m PROVE Claim(items[order[k]].fact, 0, order[k] \in read) \in ClaimRow
      BY <1>4 DEF Claim, ClaimRow
    <2>2. new \in [1..m -> ClaimRow]
      BY <1>2, <2>1
    <2> QED BY <2>2
  <1>n. PICK added \in Seq(ClaimRow) : added = new
    BY <1>5
  <1>6. /\ claims' = claims \o added /\ Len(added) = m
        /\ \A k \in 1..m : added[k].run = 0 /\ added[k].fact = items[order[k]].fact
    <2>1. \A k \in 1..m : added[k] = Claim(items[order[k]].fact, 0, order[k] \in read)
      BY <1>4, <1>n
    <2> HIDE DEF new
    <2> QED BY <1>3, <1>5, <1>n, <2>1 DEF Claim
  <1> HIDE DEF new
  <1>7. /\ claims' \in Seq(ClaimRow) /\ Len(claims') = Len(claims) + m /\ Len(claims) \in Nat
        /\ \A c \in 1..Len(claims) : claims'[c] = claims[c]
        /\ \A c \in (Len(claims) + 1)..(Len(claims) + m) : claims'[c] = added[c - Len(claims)]
    <2>1. claims \in Seq(ClaimRow)
      BY <1>1
    <2>2. claims' = claims \o added /\ Len(added) = m
      BY <1>6
    <2> QED BY <2>1, <2>2, GraphJoined
  <1>8. Ids = 1..Len(claims) /\ Ids' = 1..(Len(claims) + m)
    BY <1>1, <1>7 DEF Ids
  <1>9. \A c \in Ids' \ Ids : /\ c - Len(claims) \in 1..m
                              /\ c \in (Len(claims) + 1)..(Len(claims) + m)
    BY <1>7, <1>8
  <1>10. \A c \in Ids' \ Ids : claims'[c].run = 0 /\ NewRow(claims'[c], job[j].run)
    BY <1>6, <1>7, <1>9 DEF NewRow
  <1>11. \A p \in pairs : /\ p[1] \in DOMAIN items /\ p[2] \in Ids' \ Ids
                          /\ claims'[p[2]].fact = items[p[1]].fact
    <2>1. ASSUME NEW k \in 1..m
          PROVE  /\ order[k] \in DOMAIN items /\ Len(claims) + k \in Ids' \ Ids
                 /\ claims'[Len(claims) + k].fact = items[order[k]].fact
      <3>1. Len(claims) + k \in (Len(claims) + 1)..(Len(claims) + m) /\ (Len(claims) + k) - Len(claims) = k
        BY <1>7
      <3>2. claims'[Len(claims) + k] = added[k]
        BY <1>7, <3>1
      <3>3. Len(claims) + k \in Ids' \ Ids
        BY <1>7, <1>8
      <3> QED BY <1>4, <1>6, <3>2, <3>3
    <2>2. ASSUME NEW p \in pairs
          PROVE  \E k \in 1..m : p = <<order[k], Len(claims) + k>>
      BY <1>2, <2>2
    <2> QED BY <2>1, <2>2
  <1>12. PICK mine \in SUBSET Nat :
             mine = job[j].mine \cup (Len(claims) + 1)..Len(claims')
    <2>1. (Len(claims) + 1)..Len(claims') \in SUBSET Nat
      BY <1>7
    <2> QED BY <1>1, <2>1
  <1>13. PICK resolving \in SUBSET (Nat \X Nat) : resolving = pairs
    <2>1. \A k \in 1..m : order[k] \in Nat /\ Len(claims) + k \in Nat
      BY <1>1, <1>4, <1>7
    <2>2. pairs \subseteq Nat \X Nat
      BY <1>2, <2>1
    <2> QED BY <2>2
  <1> HIDE DEF pairs
  <1>14. mine = job[j].mine \cup (Ids' \ Ids)
    BY <1>7, <1>8, <1>12
  <1>15. PICK rec \in GraphJob : rec = [job[j] EXCEPT !.mine = mine, !.resolving = resolving]
    BY <1>1 DEF GraphJob
  <1>16. /\ rec.step = 5 /\ rec.says = job[j].says /\ rec.mine = mine
         /\ rec.resolving = resolving /\ rec.old = job[j].old /\ rec.run = job[j].run
    BY <1>1, <1>3, <1>15 DEF GraphJob
  <1>17. ~Projecting(rec)
    BY <1>3, <1>16 DEF Projecting
  <1>18. PICK r \in GraphJob : r = Onward(rec)
    BY <1>16, <1>17, GraphOnward
  <1>19. /\ r.step = 6 /\ r.says = job[j].says /\ r.mine = mine
         /\ r.resolving = resolving /\ r.old = job[j].old /\ r.run = job[j].run
    BY <1>16, <1>17, <1>18, GraphOnward
  <1>20. RowsKept
    BY <1>3, <1>7, <1>8 DEF RowsKept
  <1>21. JobTold(r)'
    <2>1. ~Projecting(r)
      BY <1>3, <1>19 DEF Projecting
    <2>2. r.run # 0 => /\ r.run \in DOMAIN projections' /\ projections'[r.run] = "running"
                       /\ \A c \in Ids' : claims'[c].run = r.run => c \in r.mine
      BY <1>1, <1>3, <1>10, <1>14, <1>19, <1>20 DEF JobTold, RowsKept
    <2>3. /\ r.mine \subseteq Ids' /\ r.old \subseteq Ids'
          /\ \A p \in r.resolving : /\ p[1] \in DOMAIN items' /\ p[2] \in r.mine
                                    /\ claims'[p[2]].fact = items'[p[1]].fact
      BY <1>1, <1>3, <1>8, <1>7, <1>11, <1>13, <1>14, <1>19 DEF JobTold
    <2>4. r.step <= 12 /\ (r.step # 0 => r.says # {} /\ r.says \cap RuleFacts = {})
      BY <1>1, <1>3, <1>19 DEF JobTold
    <2>5. ~(r.step <= 4) /\ ~(r.step > 6) /\ ~(r.step > 10)
      BY <1>19
    <2> QED BY <2>1, <2>2, <2>3, <2>4, <2>5 DEF JobTold, Projecting
  <1>22. job' = [job EXCEPT ![j] = r]
    BY <1>3, <1>12, <1>13, <1>15, <1>18
  <1>23. (\A c \in Ids' \ Ids : NewRow(claims'[c], job[j].run)) /\ r.run \in {0, job[j].run}
    BY <1>10, <1>19
  <1> QED BY <1>3, <1>7, <1>20, <1>21, <1>22, <1>23, GraphClaimStep

\* A mark on the claims: their evidence is linked, or they are superseded.
LEMMA GraphMarkStep ==
    ASSUME GraphInv, NEW j \in GraphJobs, LinkEvidence(j) \/ SupersedeClaims(j)
    PROVE  GraphInv'
  <1>1. /\ job[j] \in GraphJob /\ JobTold(job[j]) /\ claims \in Seq(ClaimRow)
        /\ \A c \in Ids : claims[c] \in ClaimRow
    BY DEF GraphInv, GraphShape, Ids
  <1>2. PICK rec \in GraphJob : rec = job[j]
    BY <1>1
  <1>3. \/ /\ rec.step = (IF Projecting(rec) THEN 5 ELSE 6)
           /\ claims' = [c \in Ids |-> [claims[c] EXCEPT !.evidence = Linked(c, rec.mine)]]
        \/ /\ rec.step = 10 /\ ~Projecting(rec)
           /\ claims' = [c \in Ids |-> [claims[c] EXCEPT !.active = @ /\ c \notin rec.old]]
    BY <1>1, <1>2, GraphAt DEF LinkEvidence, SupersedeClaims
  <1>4. job' = [job EXCEPT ![j] = Onward(rec)] /\ UNCHANGED <<items, ledger, projections>>
    BY <1>2 DEF LinkEvidence, SupersedeClaims, Advance
  <1>5. /\ Ids' = Ids
        /\ \A c \in Ids : /\ claims'[c] \in ClaimRow
                          /\ claims'[c].fact = claims[c].fact /\ claims'[c].run = claims[c].run
                          /\ claims[c].evidence # "due" => claims'[c].evidence = claims[c].evidence
                          /\ claims[c].evidence # "missing" => claims'[c].evidence # "missing"
                          /\ claims'[c].active => claims[c].active
                          /\ rec.step = (IF Projecting(rec) THEN 5 ELSE 6) /\ c \in rec.mine =>
                                 claims'[c].evidence # "due"
                          /\ rec.step = 10 /\ c \in rec.old => ~claims'[c].active
    <2>1. CASE /\ rec.step = (IF Projecting(rec) THEN 5 ELSE 6)
               /\ claims' = [c \in Ids |-> [claims[c] EXCEPT !.evidence = Linked(c, rec.mine)]]
      <3>1. Ids' = Ids /\ rec.step # 10
        BY <2>1 DEF Ids
      <3>2. ASSUME NEW c \in Ids
            PROVE  /\ claims'[c] \in ClaimRow
                   /\ claims'[c].fact = claims[c].fact /\ claims'[c].run = claims[c].run
                   /\ claims'[c].active <=> claims[c].active
                   /\ claims'[c].evidence = Linked(c, rec.mine)
        <4>1. claims[c] \in ClaimRow /\ Linked(c, rec.mine) \in {"due", "missing", "linked"}
          BY <1>1 DEF Linked, ClaimRow
        <4>2. claims'[c] = [claims[c] EXCEPT !.evidence = Linked(c, rec.mine)]
          BY <2>1
        <4> QED BY <4>1, <4>2 DEF ClaimRow
      <3> QED BY <3>1, <3>2 DEF Linked
    <2>2. CASE /\ rec.step = 10 /\ ~Projecting(rec)
               /\ claims' = [c \in Ids |-> [claims[c] EXCEPT !.active = @ /\ c \notin rec.old]]
      <3>1. Ids' = Ids
        BY <2>2 DEF Ids
      <3>2. ASSUME NEW c \in Ids
            PROVE  /\ claims'[c] \in ClaimRow
                   /\ claims'[c].fact = claims[c].fact /\ claims'[c].run = claims[c].run
                   /\ claims'[c].evidence = claims[c].evidence
                   /\ claims'[c].active <=> (claims[c].active /\ c \notin rec.old)
        <4>1. PICK keep \in BOOLEAN : keep = (claims[c].active /\ c \notin rec.old)
          OBVIOUS
        <4>2. claims'[c] = [claims[c] EXCEPT !.active = keep]
          BY <2>2, <4>1
        <4> QED BY <1>1, <4>1, <4>2 DEF ClaimRow
      <3> QED BY <2>2, <3>1, <3>2
    <2> QED BY <1>3, <2>1, <2>2
  <1>6. claims' \in Seq(ClaimRow)
    <2>1. Ids = 1..Len(claims) /\ Len(claims) \in Nat
      BY <1>1 DEF Ids
    <2>2. claims' \in [1..Len(claims) -> ClaimRow]
      <3>1. \/ claims' = [c \in Ids |-> [claims[c] EXCEPT !.evidence = Linked(c, rec.mine)]]
            \/ claims' = [c \in Ids |-> [claims[c] EXCEPT !.active = @ /\ c \notin rec.old]]
        BY <1>3
      <3>2. claims' = [c \in 1..Len(claims) |-> claims'[c]]
        BY <2>1, <3>1
      <3> QED BY <1>5, <2>1, <3>2
    <2> QED BY <2>1, <2>2
  <1>7. RowsKept
    BY <1>4, <1>5 DEF RowsKept
  <1>8. rec.step <= (IF Projecting(rec) THEN 6 ELSE 12) /\ JobTold(rec)
    BY <1>1, <1>2 DEF JobTold
  <1>9. PICK r \in GraphJob : r = Onward(rec)
    BY <1>8, GraphOnward
  <1>10. /\ r.step = rec.step + 1 /\ r.says = rec.says /\ r.mine = rec.mine
         /\ r.resolving = rec.resolving /\ r.old = rec.old /\ r.run = rec.run
    <2>1. rec.step # (IF Projecting(rec) THEN 6 ELSE 12)
      BY <1>3
    <2> QED BY <1>8, <1>9, <2>1, GraphOnward
  <1>11. JobTold(r)'
    <2>1. JobTold(rec)'
      <3>1. rec.run # 0 => /\ rec.run \in DOMAIN projections' /\ projections'[rec.run] = "running"
                           /\ \A c \in Ids' \ Ids : claims'[c].run # rec.run
        BY <1>4, <1>5, <1>8 DEF JobTold
      <3> QED BY <1>7, <1>8, <3>1, GraphToldKept
    <2>2. Projecting(r) <=> Projecting(rec)
      BY <1>10 DEF Projecting
    <2>3. rec.mine \subseteq Ids /\ rec.old \subseteq Ids
      BY <1>8 DEF JobTold
    <2>4. r.step > (IF Projecting(r) THEN 5 ELSE 6) => \A c \in r.mine : claims'[c].evidence # "due"
      BY <1>3, <1>5, <1>7, <1>8, <1>10, <2>2, <2>3 DEF JobTold, RowsKept
    <2>5. r.step > 10 => \A c \in r.old : ~claims'[c].active
      BY <1>3, <1>5, <1>10, <2>3
    <2>6. r.step <= (IF Projecting(r) THEN 6 ELSE 12) /\ rec.step > 4
      BY <1>3, <1>10, <2>2
    <2>7. rec.says # {} /\ (Projecting(rec) \/ rec.says \cap RuleFacts = {})
      BY <1>8, <2>6 DEF JobTold
    <2>8. /\ r.mine \subseteq Ids' /\ r.old \subseteq Ids' /\ ~(r.step <= 4)
          /\ \A p \in r.resolving : /\ p[1] \in DOMAIN items' /\ p[2] \in r.mine
                                    /\ claims'[p[2]].fact = items'[p[1]].fact
      BY <1>10, <2>1, <2>6 DEF JobTold, GraphJob
    <2>9. r.run # 0 => /\ r.run \in DOMAIN projections' /\ projections'[r.run] = "running"
                       /\ \A c \in Ids' : claims'[c].run = r.run => c \in r.mine
      BY <1>10, <2>1 DEF JobTold
    <2>10. r.says # {} /\ (Projecting(r) \/ r.says \cap RuleFacts = {})
      BY <1>10, <2>2, <2>7
    <2> QED BY <2>4, <2>5, <2>6, <2>8, <2>9, <2>10 DEF JobTold, Projecting
  <1>12. job' = [job EXCEPT ![j] = r] /\ r.run \in {0, job[j].run}
    BY <1>2, <1>4, <1>9, <1>10
  <1>13. \A c \in Ids' \ Ids : NewRow(claims'[c], job[j].run)
    BY <1>5
  <1> QED BY <1>4, <1>6, <1>7, <1>11, <1>12, <1>13, GraphClaimStep

\* The unresolved items change, or more are kept.
LEMMA GraphItemStep ==
    ASSUME GraphInv, NEW j \in GraphJobs, Advance(j), At(j, "resolve") \/ At(j, "unresolved"),
           items' \in Seq(LedgerItemRow), UNCHANGED <<claims, ledger, projections>>,
           \A n \in DOMAIN items : n \in DOMAIN items' /\ items'[n].fact = items[n].fact,
           \A n \in DOMAIN items' : items'[n].claim # 0 =>
               /\ items'[n].claim \in Ids /\ claims[items'[n].claim].evidence # "due"
               /\ claims[items'[n].claim].fact = items'[n].fact
    PROVE  GraphInv'
  <1>1. job[j] \in GraphJob /\ JobTold(job[j])
    BY DEF GraphInv, GraphShape
  <1>2. job[j].step \in {7, 8} /\ ~Projecting(job[j])
    BY <1>1, GraphAt
  <1>3. PICK r \in GraphJob : r = Onward(job[j]) /\ JobTold(r) /\ r.run \in {0, job[j].run}
    BY <1>1, <1>2, GraphToldOn
  <1>4. job' = [job EXCEPT ![j] = r] /\ RowsKept /\ Ids' = Ids
    BY <1>3 DEF Advance, RowsKept, Ids
  <1>5. JobTold(r)'
    <2>1. r.run # 0 => /\ r.run \in DOMAIN projections' /\ projections'[r.run] = "running"
                       /\ \A c \in Ids' \ Ids : claims'[c].run # r.run
      BY <1>3, <1>4 DEF JobTold
    <2> QED BY <1>3, <1>4, <2>1, GraphToldKept
  <1>6. TrailTellsTrue'
    BY <1>4 DEF GraphInv, TrailTellsTrue, FactOf, Matches
  <1>7. /\ claims' \in Seq(ClaimRow) /\ projections' \in Seq({"running", "completed", "failed"})
        /\ \A c \in Ids' : claims'[c].run # 0 => claims'[c].run \in DOMAIN projections'
        /\ \A n \in DOMAIN items' : items'[n].claim # 0 => items'[n].claim \in Ids'
        /\ ledger' \subseteq Ids' \X Ids'
        /\ \A k \in DOMAIN projections :
              k \in DOMAIN projections' /\ (projections'[k] = projections[k] \/ k = job[j].run)
        /\ \A c \in Ids' \ Ids : NewRow(claims'[c], job[j].run)
    BY <1>4 DEF GraphInv, GraphShape
  <1> QED BY <1>3, <1>4, <1>5, <1>6, <1>7, GraphJobStep

\* An item is resolved by a claim of the same fact that has no evidence due.
LEMMA GraphResolveStep ==
    ASSUME GraphInv, NEW j \in GraphJobs, ResolveItems(j)
    PROVE  GraphInv'
  <1> DEFINE into(n) == {c \in Ids : <<n, c>> \in job[j].resolving}
  <1>1. /\ job[j] \in GraphJob /\ JobTold(job[j]) /\ items \in Seq(LedgerItemRow)
        /\ DOMAIN items = 1..Len(items) /\ Len(items) \in Nat
        /\ \A n \in DOMAIN items : items[n] \in LedgerItemRow
        /\ \A n \in DOMAIN items : items[n].claim # 0 => items[n].claim \in Ids
        /\ Ids \subseteq Nat
    BY DEF GraphInv, GraphShape, Ids
  <1>2. /\ At(j, "resolve") /\ Advance(j) /\ UNCHANGED <<claims, ledger, projections>>
        /\ items' = [n \in DOMAIN items |-> IF into(n) = {} THEN items[n]
                                            ELSE [items[n] EXCEPT !.claim = CHOOSE c \in into(n) : TRUE]]
    BY DEF ResolveItems
  <1>3. \A n \in DOMAIN items : \A c \in into(n) :
            c \in Ids /\ claims[c].evidence # "due" /\ claims[c].fact = items[n].fact
    <2>1. job[j].step = 7 /\ ~Projecting(job[j])
      BY <1>1, <1>2, GraphAt
    <2>2. \A c \in job[j].mine : claims[c].evidence # "due"
      BY <1>1, <2>1 DEF JobTold
    <2>3. ASSUME NEW n \in DOMAIN items, NEW c \in into(n)
          PROVE  c \in Ids /\ claims[c].evidence # "due" /\ claims[c].fact = items[n].fact
      <3>1. PICK p \in job[j].resolving : p = <<n, c>>
        OBVIOUS
      <3>2. c \in job[j].mine /\ claims[c].fact = items[n].fact
        BY <1>1, <3>1 DEF JobTold
      <3> QED BY <2>2, <3>2
    <2> QED BY <2>3
  <1> HIDE DEF into
  <1>4. ASSUME NEW n \in DOMAIN items
        PROVE  /\ items'[n] \in LedgerItemRow /\ items'[n].fact = items[n].fact
               /\ items'[n].claim = items[n].claim \/ items'[n].claim \in into(n)
    <2>1. CASE into(n) = {}
      BY <1>1, <1>2, <2>1
    <2>2. CASE into(n) # {}
      <3>1. PICK c \in into(n) : c = CHOOSE d \in into(n) : TRUE
        BY <2>2
      <3>2. items'[n] = [items[n] EXCEPT !.claim = c] /\ c \in Nat
        BY <1>1, <1>2, <1>3, <2>2, <3>1
      <3> QED BY <1>1, <3>2 DEF LedgerItemRow
    <2> QED BY <2>1, <2>2
  <1>5. items' \in Seq(LedgerItemRow) /\ DOMAIN items' = DOMAIN items
    <2>1. items' = [n \in 1..Len(items) |-> items'[n]]
      BY <1>1, <1>2
    <2>2. items' \in [1..Len(items) -> LedgerItemRow]
      BY <1>1, <1>4, <2>1
    <2> QED BY <1>1, <2>2
  <1>6. \A n \in DOMAIN items' : items'[n].claim # 0 =>
            /\ items'[n].claim \in Ids /\ claims[items'[n].claim].evidence # "due"
            /\ claims[items'[n].claim].fact = items'[n].fact
    <2>1. \A n \in DOMAIN items : items[n].claim # 0 =>
              /\ items[n].claim \in Ids /\ claims[items[n].claim].evidence # "due"
              /\ claims[items[n].claim].fact = items[n].fact
      BY <1>1 DEF GraphInv, TrailTellsTrue, FactOf
    <2> QED BY <1>3, <1>4, <1>5, <2>1
  <1>7. \A n \in DOMAIN items : n \in DOMAIN items' /\ items'[n].fact = items[n].fact
    BY <1>4, <1>5
  <1> QED BY <1>2, <1>5, <1>6, <1>7, GraphItemStep

\* New items are open.
LEMMA GraphUnresolvedStep ==
    ASSUME GraphInv, NEW j \in GraphJobs, SaveUnresolved(j)
    PROVE  GraphInv'
  <1> DEFINE T == {Item(f) : f \in job[j].says \ job[j].placed}
  <1>1. /\ job[j] \in GraphJob /\ items \in Seq(LedgerItemRow) /\ job[j].says \in SUBSET Facts
    BY DEF GraphInv, GraphShape, GraphJob
  <1>2. /\ At(j, "unresolved") /\ Advance(j) /\ UNCHANGED <<claims, ledger, projections>>
        /\ items' = items \o SetToSeq(T) \/ items' = items
    BY DEF SaveUnresolved
  <1>3. IsFiniteSet(T)
    <2> DEFINE facts == job[j].says \ job[j].placed
               g == [f \in facts |-> Item(f)]
    <2>1. IsFiniteSet(facts)
      BY <1>1, FS_Subset, GraphAssumption
    <2>2. g \in Surjection(facts, T)
      BY DEF Surjection
    <2> QED BY <2>1, <2>2, FS_Surjection
  <1>4. \A row \in T : row \in LedgerItemRow /\ row.claim = 0
    <2>1. ASSUME NEW f \in job[j].says PROVE Item(f) \in LedgerItemRow /\ Item(f).claim = 0
      BY <1>1 DEF Item, LedgerItemRow
    <2> QED BY <2>1
  <1> HIDE DEF T
  <1>5. PICK open \in Seq(T) : open = SetToSeq(T)
    BY <1>3, GraphListed
  <1>6. open \in Seq(LedgerItemRow) /\ \A k \in 1..Len(open) : open[k].claim = 0
    <2>1. Len(open) \in Nat /\ \A k \in 1..Len(open) : open[k] \in T
      BY <1>5
    <2>2. \A k \in 1..Len(open) : open[k] \in LedgerItemRow
      BY <1>4, <2>1
    <2> QED BY <1>4, <1>5, <2>1, <2>2
  <1>7. \A n \in DOMAIN items : items[n].claim # 0 =>
            /\ items[n].claim \in Ids /\ claims[items[n].claim].evidence # "due"
            /\ claims[items[n].claim].fact = items[n].fact
    BY DEF GraphInv, GraphShape, TrailTellsTrue, FactOf
  <1>8. CASE items' = items
    <2>1. /\ items' \in Seq(LedgerItemRow)
          /\ \A n \in DOMAIN items : n \in DOMAIN items' /\ items'[n].fact = items[n].fact
          /\ \A n \in DOMAIN items' : items'[n].claim # 0 =>
                /\ items'[n].claim \in Ids /\ claims[items'[n].claim].evidence # "due"
                /\ claims[items'[n].claim].fact = items'[n].fact
      BY <1>1, <1>7, <1>8
    <2> QED BY <1>2, <2>1, GraphItemStep
  <1>9. CASE items' = items \o open
    <2>1. /\ items \o open \in Seq(LedgerItemRow) /\ Len(items \o open) = Len(items) + Len(open)
          /\ Len(items) \in Nat /\ Len(open) \in Nat
          /\ \A n \in 1..Len(items) : (items \o open)[n] = items[n]
          /\ \A n \in (Len(items) + 1)..(Len(items) + Len(open)) :
                (items \o open)[n] = open[n - Len(items)]
      BY <1>1, <1>6, GraphJoined
    <2>2. /\ items' \in Seq(LedgerItemRow) /\ DOMAIN items' = 1..(Len(items) + Len(open))
          /\ DOMAIN items = 1..Len(items)
      BY <1>1, <1>9, <2>1
    <2>3. \A n \in DOMAIN items : n \in DOMAIN items' /\ items'[n] = items[n]
      BY <1>9, <2>1, <2>2
    <2>4. \A n \in DOMAIN items' \ DOMAIN items : items'[n].claim = 0
      <3> SUFFICES ASSUME NEW n \in DOMAIN items' \ DOMAIN items PROVE items'[n].claim = 0
        OBVIOUS
      <3>1. n \in (Len(items) + 1)..(Len(items) + Len(open)) /\ n - Len(items) \in 1..Len(open)
        BY <2>1, <2>2
      <3> QED BY <1>6, <1>9, <2>1, <3>1
    <2>5. \A n \in DOMAIN items' : items'[n].claim # 0 =>
              /\ items'[n].claim \in Ids /\ claims[items'[n].claim].evidence # "due"
              /\ claims[items'[n].claim].fact = items'[n].fact
      BY <1>7, <2>3, <2>4
    <2> QED BY <1>2, <2>2, <2>3, <2>5, GraphItemStep
  <1> QED BY <1>2, <1>5, <1>8, <1>9

\* Choosing the claims to supersede: they match what the batch says.
LEMMA GraphReconcileStep ==
    ASSUME GraphInv, NEW j \in GraphJobs, Reconcile(j)
    PROVE  GraphInv'
  <1>1. job[j] \in GraphJob /\ JobTold(job[j]) /\ Ids \subseteq Nat
    BY DEF GraphInv, GraphShape, Ids
  <1>2. /\ job[j].step = 9 /\ ~Projecting(job[j])
        /\ UNCHANGED <<claims, items, ledger, projections>>
    BY <1>1, GraphAt DEF Reconcile
  <1>3. CASE job' = [job EXCEPT ![j] = NoJob]
    BY <1>2, <1>3, GraphNoJobTold, GraphQuietStep DEF NoJob
  <1>4. ASSUME NEW old \in SUBSET Nat, old \subseteq Ids,
               job' = [job EXCEPT ![j] = Onward([job[j] EXCEPT !.old = old])]
        PROVE  GraphInv'
    <2>1. PICK rec \in GraphJob : rec = [job[j] EXCEPT !.old = old]
      BY <1>1 DEF GraphJob
    <2>2. /\ rec.step = 9 /\ rec.says = job[j].says /\ rec.mine = job[j].mine
          /\ rec.resolving = job[j].resolving /\ rec.old = old /\ rec.run = job[j].run
      BY <1>1, <1>2, <2>1 DEF GraphJob
    <2>3. ~Projecting(rec)
      BY <1>2, <2>2 DEF Projecting
    <2>4. JobTold(rec)
      BY <1>1, <1>2, <1>4, <2>2, <2>3 DEF JobTold
    <2>5. PICK r \in GraphJob : r = Onward(rec) /\ JobTold(r) /\ r.run \in {0, rec.run}
      BY <2>2, <2>3, <2>4, GraphToldOn
    <2>6. job' = [job EXCEPT ![j] = r] /\ r.run \in {0, job[j].run}
      BY <1>4, <2>1, <2>2, <2>5
    <2> QED BY <1>2, <2>5, <2>6, GraphQuietStep
  <1>5. \A old \in Decisions(j) : old \in SUBSET Nat /\ old \subseteq Ids
    BY <1>1 DEF Decisions, Candidates
  <1> QED BY <1>3, <1>4, <1>5 DEF Reconcile

\* The ledger names claims that are superseded and those that replace them.
LEMMA GraphLedgerStep ==
    ASSUME GraphInv, NEW j \in GraphJobs, WriteLedger(j)
    PROVE  GraphInv'
  <1>1. job[j] \in GraphJob /\ JobTold(job[j])
    BY DEF GraphInv, GraphShape
  <1>2. /\ job[j].step = 12 /\ ~Projecting(job[j]) /\ Advance(j)
        /\ UNCHANGED <<claims, items, projections>>
    BY <1>1, GraphAt DEF WriteLedger
  <1>3. PICK new \in [job[j].old -> job[j].mine] :
            /\ \A c \in job[j].old : new[c] \in Replacing(j, c)
            /\ ledger' = ledger \cup {<<new[c], c>> : c \in job[j].old}
    BY DEF WriteLedger
  <1>4. \A c \in job[j].old : /\ c \in Ids /\ ~claims[c].active /\ new[c] \in Ids
                              /\ FactOf(new[c]) \notin RuleFacts
                              /\ Matches(FactOf(new[c]), FactOf(c))
    <2>1. job[j].says \cap RuleFacts = {} /\ job[j].mine \subseteq Ids /\ job[j].old \subseteq Ids
      BY <1>1, <1>2 DEF JobTold
    <2>2. \A c \in job[j].old : ~claims[c].active
      BY <1>1, <1>2 DEF JobTold
    <2>3. \A c \in job[j].old : /\ new[c] \in job[j].mine /\ FactOf(new[c]) \in job[j].says
                                /\ Matches(FactOf(new[c]), FactOf(c))
      BY <1>3 DEF Replacing, Signatures
    <2> QED BY <2>1, <2>2, <2>3
  <1>5. \A p \in ledger' : p \in ledger \/ \E c \in job[j].old : p = <<new[c], c>>
    BY <1>3
  <1>6. job' = [job EXCEPT ![j] = NoJob]
    <2>1. Onward(job[j]) = NoJob
      BY <1>1, <1>2, GraphOnward
    <2> QED BY <1>2, <2>1 DEF Advance
  <1>7. RowsKept /\ Ids' = Ids
    BY <1>2 DEF RowsKept, Ids
  <1>8. JobTold(NoJob)' /\ NoJob.run = 0 /\ NoJob \in GraphJob
    BY DEF NoJob, JobTold, Projecting, GraphJob
  <1>9. TrailTellsTrue'
    <2>1. \A p \in ledger' : /\ ~claims[p[2]].active /\ FactOf(p[1]) \notin RuleFacts
                             /\ Matches(FactOf(p[1]), FactOf(p[2]))
      BY <1>4, <1>5 DEF GraphInv, TrailTellsTrue
    <2>2. /\ \A n \in DOMAIN items' : items'[n].claim # 0 =>
                 claims'[items'[n].claim].evidence # "due" /\ FactOf(items[n].claim)' = items'[n].fact
          /\ \A c \in Ids' :
                 claims'[c].run # 0 /\ projections'[claims'[c].run] = "completed" =>
                  claims'[c].evidence = "linked"
      BY <1>2, <1>7 DEF GraphInv, TrailTellsTrue, FactOf
    <2> QED BY <1>2, <2>1, <2>2 DEF TrailTellsTrue, FactOf, Matches
  <1>10. /\ claims' \in Seq(ClaimRow) /\ items' \in Seq(LedgerItemRow)
         /\ projections' \in Seq({"running", "completed", "failed"})
         /\ \A c \in Ids' : claims'[c].run # 0 => claims'[c].run \in DOMAIN projections'
         /\ \A n \in DOMAIN items' : items'[n].claim # 0 => items'[n].claim \in Ids'
    BY <1>2, <1>7 DEF GraphInv, GraphShape
  <1>11. ledger' \subseteq Ids' \X Ids'
    <2>1. \A c \in job[j].old : <<new[c], c>> \in Ids' \X Ids'
      BY <1>4, <1>7
    <2>2. ledger \subseteq Ids' \X Ids'
      BY <1>7 DEF GraphInv, GraphShape
    <2> QED BY <1>3, <2>1, <2>2
  <1>12. /\ \A k \in DOMAIN projections :
               k \in DOMAIN projections' /\ (projections'[k] = projections[k] \/ k = job[j].run)
         /\ \A c \in Ids' \ Ids : NewRow(claims'[c], job[j].run)
    BY <1>2, <1>7
  <1> QED BY <1>6, <1>7, <1>8, <1>9, <1>10, <1>11, <1>12, GraphJobStep

\* A projection creates its run, of a number no claim has yet.
LEMMA GraphFindStep ==
    ASSUME GraphInv, NEW j \in GraphJobs, FindProjected(j)
    PROVE  GraphInv'
  <1> DEFINE missing == job[j].says \ Projected
             n == Len(projections) + 1
  <1>1. /\ job[j] \in GraphJob /\ JobTold(job[j]) /\ job[j].says \in SUBSET Facts
        /\ projections \in Seq({"running", "completed", "failed"})
    BY DEF GraphInv, GraphShape, GraphJob
  <1>2. /\ job[j].step = 3 /\ Projecting(job[j]) /\ UNCHANGED <<claims, items, ledger>>
        /\ \/ projections' = projections /\ job' = [job EXCEPT ![j] = NoJob]
           \/ /\ projections' = Append(projections, "running")
              /\ job' = [job EXCEPT ![j] = Onward([job[j] EXCEPT !.placed = missing, !.run = n])]
    BY <1>1, GraphAt DEF FindProjected, NewRun
  <1>3. CASE projections' = projections /\ job' = [job EXCEPT ![j] = NoJob]
    BY <1>2, <1>3, GraphNoJobTold, GraphQuietStep DEF NoJob
  <1>4. CASE /\ projections' = Append(projections, "running")
             /\ job' = [job EXCEPT ![j] = Onward([job[j] EXCEPT !.placed = missing, !.run = n])]
    <2>1. /\ projections' \in Seq({"running", "completed", "failed"}) /\ n \in Nat
          /\ \A k \in DOMAIN projections : k \in DOMAIN projections' /\ projections'[k] = projections[k]
          /\ n \notin DOMAIN projections /\ n \in DOMAIN projections' /\ projections'[n] = "running"
          /\ n # 0
      BY <1>1, <1>4
    <2> HIDE DEF n
    <2>2. missing \in SUBSET Facts
      BY <1>1
    <2> HIDE DEF missing
    <2>3. PICK rec \in GraphJob : rec = [job[j] EXCEPT !.placed = missing, !.run = n]
      BY <1>1, <2>1, <2>2 DEF GraphJob
    <2>4. /\ rec.step = 3 /\ rec.says = job[j].says /\ rec.mine = job[j].mine
          /\ rec.resolving = job[j].resolving /\ rec.old = job[j].old /\ rec.run = n
      BY <1>1, <1>2, <2>3 DEF GraphJob
    <2>5. PICK r \in GraphJob : r = Onward(rec)
      BY <2>4, GraphOnward
    <2>6. /\ r.step = 4 /\ r.says = job[j].says /\ r.mine = job[j].mine
          /\ r.resolving = job[j].resolving /\ r.old = job[j].old /\ r.run = n
      BY <2>4, <2>5, GraphOnward
    <2>7. RowsKept /\ Ids' = Ids
      BY <1>2 DEF RowsKept, Ids
    <2>8. \A c \in Ids : claims[c].run # n
      BY <2>1 DEF GraphInv, GraphShape
    <2>9. JobTold(r)'
      <3>1. Projecting(r) /\ r.says # {} /\ r.mine = {} /\ r.old \subseteq Ids
        BY <1>1, <1>2, <2>6 DEF JobTold, Projecting
      <3>2. \A p \in r.resolving : FALSE
        BY <1>1, <1>2, <2>6 DEF JobTold
      <3>3. \A c \in Ids' : claims'[c].run # n
        BY <1>2, <2>7, <2>8
      <3>4. r.step <= 6 /\ ~(r.step > 5) /\ ~(r.step > 10)
        BY <2>6
      <3> QED BY <2>1, <2>6, <2>7, <3>1, <3>2, <3>3, <3>4 DEF JobTold, Projecting
    <2>10. TrailTellsTrue'
      <3>1. \A c \in Ids : claims[c].run # 0 => claims[c].run \in DOMAIN projections
        BY DEF GraphInv, GraphShape
      <3> QED BY <1>2, <2>1, <2>7, <3>1 DEF GraphInv, TrailTellsTrue, FactOf, Matches
    <2>11. /\ claims' \in Seq(ClaimRow) /\ items' \in Seq(LedgerItemRow)
           /\ \A c \in Ids' : claims'[c].run # 0 => claims'[c].run \in DOMAIN projections'
           /\ \A i \in DOMAIN items' : items'[i].claim # 0 => items'[i].claim \in Ids'
           /\ ledger' \subseteq Ids' \X Ids'
      BY <1>2, <2>1, <2>7 DEF GraphInv, GraphShape
    <2>12. /\ job' = [job EXCEPT ![j] = r] /\ r.run \notin DOMAIN projections
           /\ \A c \in Ids' \ Ids : NewRow(claims'[c], job[j].run)
      BY <1>4, <2>1, <2>3, <2>5, <2>6, <2>7
    <2> QED BY <2>1, <2>7, <2>9, <2>10, <2>11, <2>12, GraphJobStep
  <1> QED BY <1>2, <1>3, <1>4

\* A job ends, and may mark its run: completed only after its last call.
LEMMA GraphEndStep ==
    ASSUME GraphInv, NEW j \in GraphJobs, CompleteRun(j) \/ FailJob(j)
    PROVE  GraphInv'
  <1>1. /\ job[j] \in GraphJob /\ JobTold(job[j])
        /\ projections \in Seq({"running", "completed", "failed"})
    BY DEF GraphInv, GraphShape
  <1>2. UNCHANGED <<claims, items, ledger>> /\ job' = [job EXCEPT ![j] = NoJob]
    <2>1. CASE CompleteRun(j)
      <3>1. Onward(job[j]) = NoJob
        BY <1>1, <2>1, GraphAt, GraphOnward DEF CompleteRun
      <3> QED BY <2>1, <3>1 DEF CompleteRun, Advance
    <2>2. CASE FailJob(j)
      BY <2>2 DEF FailJob
    <2> QED BY <2>1, <2>2
  <1>3. \/ projections' = projections
        \/ projections' = [projections EXCEPT ![job[j].run] = "failed"]
        \/ /\ projections' = [projections EXCEPT ![job[j].run] = "completed"]
           /\ job[j].step = 6 /\ Projecting(job[j])
    BY <1>1, GraphAt DEF CompleteRun, FailJob
  <1>4. /\ projections' \in Seq({"running", "completed", "failed"})
        /\ DOMAIN projections' = DOMAIN projections
        /\ \A k \in DOMAIN projections : projections'[k] = projections[k] \/ k = job[j].run
        /\ projections'[job[j].run] = "completed" /\ job[j].run \in DOMAIN projections =>
               projections[job[j].run] = "completed" \/ (job[j].step = 6 /\ Projecting(job[j]))
    BY <1>1, <1>3
  <1>5. RowsKept /\ Ids' = Ids
    BY <1>2 DEF RowsKept, Ids
  <1>6. JobTold(NoJob)' /\ NoJob.run = 0 /\ NoJob \in GraphJob
    BY DEF NoJob, JobTold, Projecting, GraphJob
  <1>7. TrailTellsTrue'
    <2>1. ASSUME NEW c \in Ids, claims[c].run # 0, projections'[claims[c].run] = "completed"
          PROVE  claims[c].evidence = "linked"
      <3>1. claims[c].run \in DOMAIN projections
        BY <2>1 DEF GraphInv, GraphShape
      <3>2. CASE projections[claims[c].run] = "completed"
        BY <2>1, <3>2 DEF GraphInv, TrailTellsTrue
      <3>3. CASE projections[claims[c].run] # "completed"
        <4>1. claims[c].run = job[j].run /\ job[j].step = 6 /\ Projecting(job[j])
          BY <1>4, <2>1, <3>1, <3>3
        <4>2. c \in job[j].mine
          BY <1>1, <2>1, <4>1 DEF JobTold
        <4>3. claims[c].evidence # "due"
          BY <1>1, <4>1, <4>2 DEF JobTold
        <4>4. claims[c] \in ClaimRow /\ claims[c].evidence # "missing"
          BY <2>1 DEF GraphInv, GraphShape, Ids
        <4> QED BY <4>3, <4>4 DEF ClaimRow
      <3> QED BY <3>2, <3>3
    <2>2. \A c \in Ids' :
              claims'[c].run # 0 /\ projections'[claims'[c].run] = "completed" =>
                  claims'[c].evidence = "linked"
      BY <1>2, <1>5, <2>1
    <2>3. /\ \A n \in DOMAIN items' : items'[n].claim # 0 =>
                 claims'[items'[n].claim].evidence # "due" /\ FactOf(items[n].claim)' = items'[n].fact
          /\ \A r \in ledger' : /\ ~claims'[r[2]].active /\ FactOf(r[1])' \notin RuleFacts
                                /\ Matches(FactOf(r[1])', FactOf(r[2])')
      BY <1>2 DEF GraphInv, TrailTellsTrue, FactOf, Matches
    <2> QED BY <2>2, <2>3 DEF TrailTellsTrue, FactOf, Matches
  <1>8. /\ claims' \in Seq(ClaimRow) /\ items' \in Seq(LedgerItemRow)
        /\ \A c \in Ids' : claims'[c].run # 0 => claims'[c].run \in DOMAIN projections'
        /\ \A n \in DOMAIN items' : items'[n].claim # 0 => items'[n].claim \in Ids'
        /\ ledger' \subseteq Ids' \X Ids'
        /\ \A c \in Ids' \ Ids : NewRow(claims'[c], job[j].run)
    BY <1>2, <1>4, <1>5 DEF GraphInv, GraphShape
  <1> QED BY <1>2, <1>4, <1>5, <1>6, <1>7, <1>8, GraphJobStep

\* Every step of every job keeps the invariant.
LEMMA GraphStepInv == GraphInv /\ [GraphNext]_wvars => GraphInv'
  <1> SUFFICES ASSUME GraphInv, [GraphNext]_wvars PROVE GraphInv'
    OBVIOUS
  <1>1. CASE UNCHANGED wvars
    BY <1>1 DEF wvars, GraphInv, GraphShape, JobTold, RunsApart, TrailTellsTrue, Ids, FactOf
  <1>2. ASSUME NEW j \in GraphJobs,
               NEW says \in (SUBSET (Facts \ RuleFacts)) \ {{}}, NEW names \in SUBSET (Facts \ RuleFacts),
               StartJob(j, says, names)
        PROVE  GraphInv'
    <2>1. /\ says \in SUBSET Facts /\ names \in SUBSET Facts /\ says # {} /\ says \cap RuleFacts = {}
      OBVIOUS
    <2> QED BY <1>2, <2>1, GraphStartStep DEF StartJob
  <1>3. ASSUME NEW j \in GraphJobs, NEW says \in (SUBSET RuleFacts) \ {{}}, StartProjection(j, says)
        PROVE  GraphInv'
    <2>1. says \in SUBSET Facts /\ says # {} /\ says \subseteq RuleFacts
      BY GraphAssumption
    <2> QED BY <1>3, <2>1, GraphStartStep DEF StartProjection
  <1>4. CASE \E j \in GraphJobs :
               \/ FindProjected(j) \/ CompleteRun(j)
               \/ SaveEntities(j) \/ SaveRelations(j) \/ ReplayRelations(j) \/ InsertClaims(j)
               \/ ReplayClaims(j) \/ LinkEvidence(j) \/ ResolveItems(j) \/ SaveUnresolved(j)
               \/ Reconcile(j) \/ SupersedeClaims(j) \/ SupersedeRelations(j) \/ WriteLedger(j)
               \/ FailJob(j)
    BY <1>4, GraphFindStep, GraphEndStep, GraphPlacingSteps, GraphInsertStep, GraphReplayStep,
       GraphMarkStep, GraphResolveStep, GraphUnresolvedStep, GraphReconcileStep, GraphLedgerStep
  <1> QED BY <1>1, <1>2, <1>3, <1>4 DEF GraphNext

\* Resolved items, the ledger and completed runs tell the truth about the
\* claims, wherever the jobs that write them stop.
THEOREM GraphTrail == GraphSpec => []TrailTellsTrue
  <1>1. GraphInv => TrailTellsTrue
    BY DEF GraphInv
  <1> QED BY <1>1, GraphInitInv, GraphStepInv, PTL DEF GraphSpec

----------------------------------------------------------------------------
(* Types.                                                                  *)

\* What a sequence holds decides what it is a sequence of.
LEMMA GraphRowsNarrowed ==
    ASSUME NEW S, NEW T, NEW s \in Seq(S), \A i \in DOMAIN s : s[i] \in T
    PROVE  s \in Seq(T)
  OBVIOUS

\* Entities and relations are those of facts, and no run of the bound is exceeded.
GraphRest ==
    /\ entity \subseteq Facts /\ relation \in [Facts -> {"none", "active", "superseded"}]
    /\ started \in 0..MaxJobs

\* Every step keeps them so.
LEMMA GraphRestStep == GraphInv /\ GraphRest /\ [GraphNext]_wvars => GraphRest'
  <1> SUFFICES ASSUME GraphInv, GraphRest, [GraphNext]_wvars PROVE GraphRest'
    OBVIOUS
  <1>1. CASE UNCHANGED wvars
    BY <1>1 DEF wvars, GraphRest
  <1>2. ASSUME NEW j \in GraphJobs, NEW says, NEW names, StartJob(j, says, names) \/ StartProjection(j, says)
        PROVE  GraphRest'
    BY <1>2, GraphAssumption DEF StartJob, StartProjection, GraphRest
  <1>3. ASSUME NEW j \in GraphJobs,
               \/ FindProjected(j) \/ CompleteRun(j) \/ InsertClaims(j) \/ ReplayClaims(j)
               \/ LinkEvidence(j) \/ ResolveItems(j) \/ SaveUnresolved(j) \/ Reconcile(j)
               \/ SupersedeClaims(j) \/ WriteLedger(j) \/ FailJob(j)
        PROVE  GraphRest'
    BY <1>3 DEF FindProjected, CompleteRun, InsertClaims, ReplayClaims, LinkEvidence, ResolveItems,
                SaveUnresolved, Reconcile, SupersedeClaims, WriteLedger, FailJob, GraphRest
  <1>4. ASSUME NEW j \in GraphJobs, SaveEntities(j)
        PROVE  GraphRest'
    <2>1. job[j].names \subseteq Facts
      BY DEF GraphInv, GraphShape, GraphJob
    <2> QED BY <1>4, <2>1 DEF SaveEntities, GraphRest
  <1>5. ASSUME NEW j \in GraphJobs, SaveRelations(j) \/ ReplayRelations(j) \/ SupersedeRelations(j)
        PROVE  GraphRest'
    <2>1. \A S, st : st \in {"active", "superseded"} =>
              [f \in Facts |-> IF f \in S THEN st ELSE relation[f]]
                  \in [Facts -> {"none", "active", "superseded"}]
      BY DEF GraphRest
    <2>2. \E S, st : /\ st \in {"active", "superseded"}
                     /\ relation' = [f \in Facts |-> IF f \in S THEN st ELSE relation[f]]
      <3>1. CASE SaveRelations(j)
        BY <3>1 DEF SaveRelations
      <3>2. CASE ReplayRelations(j)
        BY <3>2 DEF ReplayRelations
      <3>3. CASE SupersedeRelations(j)
        BY <3>3 DEF SupersedeRelations
      <3> QED BY <1>5, <3>1, <3>2, <3>3
    <2>3. relation' \in [Facts -> {"none", "active", "superseded"}]
      BY <2>1, <2>2
    <2> QED BY <1>5, <2>3 DEF SaveRelations, ReplayRelations, SupersedeRelations, GraphRest
  <1> QED BY <1>1, <1>2, <1>3, <1>4, <1>5 DEF GraphNext

\* The invariant says more than the types.
LEMMA GraphInvTyped == GraphInv /\ GraphRest => GraphTypeOK
  <1> SUFFICES ASSUME GraphInv, GraphRest PROVE GraphTypeOK
    OBVIOUS
  <1>1. claims \in Seq([fact : Facts, active : BOOLEAN, evidence : {"due", "missing", "linked"},
                        run : DOMAIN projections \cup {0}])
    <2>1. claims \in Seq(ClaimRow)
      BY DEF GraphInv, GraphShape
    <2>2. \A c \in Ids : claims[c] \in ClaimRow /\ (claims[c].run # 0 => claims[c].run \in DOMAIN projections)
      BY <2>1 DEF GraphInv, GraphShape, Ids
    <2>3. \A c \in DOMAIN claims : claims[c] \in [fact : Facts, active : BOOLEAN, evidence : {"due", "missing", "linked"},
                                                  run : DOMAIN projections \cup {0}]
      BY <2>2 DEF ClaimRow, Ids
    <2> QED BY <2>1, <2>3, GraphRowsNarrowed
  <1>2. items \in Seq([fact : Facts, claim : Ids \cup {0}])
    <2>1. items \in Seq(LedgerItemRow)
      BY DEF GraphInv, GraphShape
    <2>2. \A n \in DOMAIN items : items[n] \in LedgerItemRow /\ (items[n].claim # 0 => items[n].claim \in Ids)
      BY <2>1 DEF GraphInv, GraphShape
    <2>3. \A n \in DOMAIN items : items[n] \in [fact : Facts, claim : Ids \cup {0}]
      BY <2>2 DEF LedgerItemRow
    <2> QED BY <2>1, <2>3, GraphRowsNarrowed
  <1>3. job \in [GraphJobs -> [step : 0..Len(Order), says : SUBSET Facts, names : SUBSET Facts,
                               placed : SUBSET Facts, mine : SUBSET Ids,
                               resolving : SUBSET ((DOMAIN items) \X Ids), old : SUBSET Ids,
                               run : DOMAIN projections \cup {0}]]
    <2>1. job \in [GraphJobs -> GraphJob] /\ \A j \in GraphJobs : job[j] \in GraphJob /\ JobTold(job[j])
      BY DEF GraphInv, GraphShape
    <2>2. ASSUME NEW rec \in GraphJob, JobTold(rec)
          PROVE  rec \in [step : 0..12, says : SUBSET Facts, names : SUBSET Facts,
                          placed : SUBSET Facts, mine : SUBSET Ids,
                          resolving : SUBSET ((DOMAIN items) \X Ids), old : SUBSET Ids,
                          run : DOMAIN projections \cup {0}]
      <3>1. rec.mine \subseteq Ids /\ rec.old \subseteq Ids /\ rec.run \in DOMAIN projections \cup {0}
        BY <2>2 DEF JobTold
      <3>2. rec.resolving \subseteq (DOMAIN items) \X Ids
        BY <2>2, <3>1 DEF JobTold, GraphJob
      <3> QED BY <3>1, <3>2 DEF GraphJob
    <2>3. Len(Order) = 12
      BY DEF Order
    <2> QED BY <2>1, <2>2, <2>3
  <1> QED BY <1>1, <1>2, <1>3 DEF GraphInv, GraphShape, GraphRest, GraphTypeOK

\* The tables of the graph and the jobs have the shapes of their columns.
THEOREM GraphTyped == GraphSpec => []GraphTypeOK
  <1>1. GraphInit => GraphInv /\ GraphRest
    BY GraphInitInv, GraphAssumption DEF GraphInit, GraphRest
  <1>2. (GraphInv /\ GraphRest) /\ [GraphNext]_wvars => (GraphInv /\ GraphRest)'
    BY GraphStepInv, GraphRestStep
  <1> QED BY <1>1, <1>2, GraphInvTyped, PTL DEF GraphSpec
=============================================================================
