---------------------------- MODULE UploadIngest ----------------------------
(***************************************************************************)
(* One upload batch: the requests that upload or retry it, and the jobs    *)
(* that parse its files and build its graph in the threads of an executor  *)
(* that lives in the server process.                                       *)
(*                                                                         *)
(* Progress is kept in two rows, one of material_event and one of          *)
(* source_upload_batch.  mark_upload_ingest_progress writes them in two    *)
(* transactions, overwrites what it finds, and swallows their failures.    *)
(*                                                                         *)
(* Grain of atomicity.  A request reads the rows in one action; every      *)
(* write of a progress row, every submission of a job and every stage of   *)
(* a job is an action.  Abstractions.  All uploads of the batch carry the  *)
(* same files: an upload with other files is refused once the batch has    *)
(* its files.  A row is its status, its stage and whether it refers to     *)
(* the payload that parsing left.  Chunks and structured rows are one      *)
(* extracted flag.                                                          *)
(***************************************************************************)
EXTENDS Naturals, Sequences

CONSTANTS
    Requests, Workers,
    MaxRequested    \* bound: requests made

ASSUME UploadAssumption == Requests \cap Workers = {} /\ MaxRequested \in Nat

VARIABLES
    event, batch,   \* the two progress rows
    linked,         \* the files are members of the batch
    extracted,      \* parsing left chunks or structured rows
    graphed,        \* a graph job has persisted entities and claims
    queue,          \* jobs submitted to the executor
    hand,           \* what every request and every worker is doing
    lost,           \* a restart or a swallowed failure has lost a step
    requested       \* bound variable: requests so far

uvars == <<event, batch, linked, extracted, graphed, queue, hand, lost, requested>>

Hands == Requests \cup Workers
Jobs == {"parse", "graph"}
Marks == {"received", "stored", "retrying", "ocr", "parsed", "drawing", "completing", "failing"}
Progress == [status : {"none", "received", "processing", "completed", "failed"},
             stage : {"none", "uploading", "stored", "queued", "retry_parse_queued",
                      "retry_graph_queued", "ocr_running", "parse_completed",
                      "graph_running", "evidence_chunks_missing", "completed"},
             ref : BOOLEAN]
Absent == [status |-> "none", stage |-> "none", ref |-> FALSE]

\* pc is the row of the table After or the stage a hand is in, half the row
\* it writes next, at the progress stage it reports, ref what it knows.
Resting == [pc |-> "idle", half |-> "event", at |-> "none", ref |-> FALSE, job |-> "parse"]

\* What follows once both rows are written.
After == [received |-> "stored", stored |-> "linking", retrying |-> "queueing",
          ocr |-> "parsing", parsed |-> "queueing", drawing |-> "loading",
          completing |-> "idle", failing |-> "idle"]

\* Rows, queue and hands have the shapes of their tables and handlers.
UploadTypeOK ==
    /\ event \in Progress /\ batch \in Progress
    /\ linked \in BOOLEAN /\ extracted \in BOOLEAN /\ graphed \in BOOLEAN /\ lost \in BOOLEAN
    /\ queue \in Seq([job : Jobs, ref : BOOLEAN])
    /\ hand \in [Hands -> [pc : Marks \cup {"idle", "storing", "linking", "queueing", "parsing",
                                            "loading", "linked", "building"},
                           half : {"event", "batch"}, at : {p.stage : p \in Progress},
                           ref : BOOLEAN, job : Jobs]]
    /\ requested \in 0..MaxRequested

UploadInit ==
    /\ event = Absent /\ batch = Absent
    /\ linked = FALSE /\ extracted = FALSE /\ graphed = FALSE /\ lost = FALSE
    /\ queue = <<>>
    /\ hand = [h \in Hands |-> Resting]
    /\ requested = 0

Go(h, pc) == hand' = [hand EXCEPT ![h].pc = pc]
Report(h, pc, at) == hand' = [hand EXCEPT ![h].pc = pc, ![h].at = at]

----------------------------------------------------------------------------
(* mark_upload_ingest_progress.                                            *)

\* Mutant: the end of the parse job is reported as the end of the batch.
StatusOfParsed(pc) == CASE pc = "received" -> "received"
                        [] pc \in {"parsed", "completing"} -> "completed"
                        [] pc = "failing" -> "failed"
                        [] OTHER -> "processing"

StatusOf(pc) == CASE pc = "received" -> "received"
                  [] pc = "completing" -> "completed"
                  [] pc = "failing" -> "failed"
                  [] OTHER -> "processing"

Mark(h) == [status |-> StatusOf(hand[h].pc), stage |-> hand[h].at, ref |-> hand[h].ref]

MarkEvent(h) ==
    /\ hand[h].pc \in Marks /\ hand[h].half = "event"
    /\ hand' = [hand EXCEPT ![h].half = "batch"]
    /\ \/ event' = Mark(h) /\ lost' = lost
       \/ event' = event /\ lost' = TRUE
    /\ UNCHANGED <<batch, linked, extracted, graphed, queue, requested>>

MarkBatch(h) ==
    /\ hand[h].pc \in Marks /\ hand[h].half = "batch"
    /\ LET next == After[hand[h].pc]
           done == [hand[h] EXCEPT !.pc = next, !.half = "event"]
       IN  hand' = [hand EXCEPT ![h] = CASE next = "idle" -> Resting
                                        [] next = "stored" -> [done EXCEPT !.at = "stored"]
                                        [] OTHER -> done]
    /\ \/ batch' = Mark(h) /\ lost' = lost
       \/ batch' = batch /\ lost' = TRUE
    /\ UNCHANGED <<event, linked, extracted, graphed, queue, requested>>

----------------------------------------------------------------------------
(* Requests.                                                               *)

\* An upload of a batch that exists changes nothing: it is answered with the
\* batch's state, or refused when its files or context differ.
Replay == batch # Absent

StartUpload(r) ==
    /\ hand[r].pc = "idle" /\ requested < MaxRequested
    /\ ~Replay
    /\ Go(r, "storing") /\ requested' = requested + 1
    /\ UNCHANGED <<event, batch, linked, extracted, graphed, queue, lost>>

\* The batch row alone tells of a failed upload, if it can be written.
FailedUpload ==
    \/ batch' = [Absent EXCEPT !.status = "failed"] /\ lost' = lost
    \/ batch' = batch /\ lost' = TRUE

\* The objects are stored, or the upload has failed.
StoreObjects(r) ==
    /\ hand[r].pc = "storing"
    /\ \/ Report(r, "received", "uploading") /\ UNCHANGED <<batch, lost>>
       \/ hand' = [hand EXCEPT ![r] = Resting] /\ FailedUpload
    /\ UNCHANGED <<event, linked, extracted, graphed, queue, requested>>

LinkFiles(r) ==
    /\ hand[r].pc = "linking"
    /\ \/ linked' = TRUE /\ hand' = [hand EXCEPT ![r].pc = "queueing", ![r].job = "parse"]
       \/ linked' = linked /\ Report(r, "failing", "stored")
    /\ UNCHANGED <<event, batch, extracted, graphed, queue, lost, requested>>

\* _is_completed_batch_missing_all_evidence
MissingEvidence == batch.status = "completed" /\ linked /\ ~extracted

\* _resolve_retry_stage: the event is asked first.
Failed == IF event # Absent THEN event.status = "failed" ELSE batch.status = "failed"
LastStage == IF event.stage # "none" THEN event.stage ELSE batch.stage
AutoStage == IF LastStage \in {"parse_completed", "graph_running"} THEN "graph" ELSE "parse"

\* The files come from the links; a graph job needs the reference of what was
\* parsed as well.
KnownRef == event.ref \/ batch.ref
HasInput(job) == linked /\ (job = "graph" => KnownRef)

\* What the retry records before its job is submitted.
Retried(job) ==
    [pc |-> "retrying", half |-> "event", ref |-> KnownRef, job |-> job,
     at |-> IF job = "parse" THEN "retry_parse_queued" ELSE "retry_graph_queued"]

Retry(r, stage) ==
    LET job == IF stage = "auto" THEN AutoStage ELSE stage IN
    /\ hand[r].pc = "idle" /\ requested < MaxRequested
    /\ batch # Absent
    /\ Failed \/ MissingEvidence
    /\ HasInput(job)
    /\ hand' = [hand EXCEPT ![r] = Retried(job)]
    /\ requested' = requested + 1
    /\ UNCHANGED <<event, batch, linked, extracted, graphed, queue, lost>>

\* Mutant: a job that could not be submitted is not reported.
SubmitRefusedSilently(h) == hand' = [hand EXCEPT ![h] = Resting]

\* The failure is reported under the stage that was to be queued.
SubmitRefused(h) == Report(h, "failing", IF hand[h].at = "stored" THEN "queued" ELSE hand[h].at)

Submit(h) ==
    /\ hand[h].pc = "queueing"
    /\ \/ /\ queue' = Append(queue, [job |-> hand[h].job, ref |-> hand[h].ref])
          /\ hand' = [hand EXCEPT ![h] = Resting]
       \/ queue' = queue /\ SubmitRefused(h)
    /\ UNCHANGED <<event, batch, linked, extracted, graphed, lost, requested>>

----------------------------------------------------------------------------
(* Jobs.                                                                   *)

TakeJob(w) ==
    /\ hand[w].pc = "idle" /\ queue # <<>>
    /\ queue' = Tail(queue)
    /\ hand' = [hand EXCEPT ![w] =
           IF Head(queue).job = "parse"
           THEN [Resting EXCEPT !.pc = "ocr", !.at = "ocr_running"]
           ELSE [Resting EXCEPT !.pc = "drawing", !.at = "graph_running", !.ref = Head(queue).ref]]
    /\ UNCHANGED <<event, batch, linked, extracted, graphed, lost, requested>>

Parse(w) ==
    /\ hand[w].pc = "parsing"
    /\ hand' = [hand EXCEPT ![w] =
           [@ EXCEPT !.pc = "parsed", !.at = "parse_completed", !.ref = TRUE, !.job = "graph"]]
    /\ UNCHANGED <<event, batch, linked, extracted, graphed, queue, lost, requested>>

\* load_chunks writes files, pages and chunks; files that no parser knows may
\* leave nothing, any other that leaves nothing fails the batch.
LoadChunks(w) ==
    /\ hand[w].pc = "loading"
    /\ \/ extracted' = TRUE /\ Go(w, "linked")
       \/ extracted' = extracted /\ Go(w, "linked")
       \/ extracted' = extracted /\ ~extracted /\ Report(w, "failing", "evidence_chunks_missing")
    /\ UNCHANGED <<event, batch, linked, graphed, queue, lost, requested>>

LoadedStatus == "processing"

\* _persist_upload_batch_context: the batch row and the links.
LinkBatch(w) ==
    /\ hand[w].pc = "linked"
    /\ batch' = [status |-> LoadedStatus, stage |-> "graph_running", ref |-> FALSE]
    /\ linked' = TRUE
    /\ Go(w, "building")
    /\ UNCHANGED <<event, extracted, graphed, queue, lost, requested>>

BuildGraph(w) ==
    /\ hand[w].pc = "building"
    /\ graphed' = TRUE
    /\ Report(w, "completing", "completed")
    /\ UNCHANGED <<event, batch, linked, extracted, queue, lost, requested>>

\* Any stage of a job may raise; the failure is reported under its stage.
JobFails(w) ==
    /\ hand[w].pc \in {"parsing", "loading", "linked", "building"}
    /\ Go(w, "failing")
    /\ UNCHANGED <<event, batch, linked, extracted, graphed, queue, lost, requested>>

\* The queue and everything under way live in the process that dies.
Restart ==
    /\ queue # <<>> \/ \E h \in Hands : hand[h] # Resting
    /\ queue' = <<>>
    /\ hand' = [h \in Hands |-> Resting]
    /\ lost' = TRUE
    /\ UNCHANGED <<event, batch, linked, extracted, graphed, requested>>

UploadNext ==
    \/ \E h \in Hands : MarkEvent(h) \/ MarkBatch(h) \/ Submit(h)
    \/ \E r \in Requests : \/ StartUpload(r) \/ StoreObjects(r) \/ LinkFiles(r)
                           \/ \E stage \in Jobs \cup {"auto"} : Retry(r, stage)
    \/ \E w \in Workers : \/ TakeJob(w) \/ Parse(w) \/ LoadChunks(w) \/ LinkBatch(w)
                          \/ BuildGraph(w) \/ JobFails(w)
    \/ Restart

UploadSpec == UploadInit /\ [][UploadNext]_uvars

----------------------------------------------------------------------------
(* Properties.                                                             *)

Working == queue # <<>> \/ \E h \in Hands : hand[h].pc # "idle"

\* A batch nobody works on any more has been completed or has failed, in both
\* of its rows, however uploads, retries and their jobs overlapped; only a
\* restart or a lost write leaves it "processing", where it cannot be retried
\* (_mark_retry_progress precedes the submission of the job it is about).
IdleMeansSettled ==
    ~Working /\ ~lost => /\ batch.status \in {"none", "completed", "failed"}
                         /\ event.status \in {"none", "completed", "failed"}

\* The batch is shown as completed only when a job has persisted its graph,
\* though load_chunks writes the batch row long before (_persist_upload_batch_context).
CompletedWhenGraphed == batch.status = "completed" \/ event.status = "completed" => graphed
=============================================================================
