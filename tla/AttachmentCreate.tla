-------------------------- MODULE AttachmentCreate -------------------------
(***************************************************************************)
(* Concurrent requests to create an attachment job (create_attachment_job) *)
(* and the idempotency of their answers: the two look-ups, the context     *)
(* object uploaded before the transaction, the insert that two UNIQUE      *)
(* constraints may turn away, and the compensation when it fails.          *)
(*                                                                         *)
(* A request uploads its context under a fresh job id, so the request      *)
(* itself stands for the job it may insert.  Its input is the fingerprint  *)
(* of the frozen input, computed before the first step modelled here; the  *)
(* validations that precede it read only.  Every SQL statement that can    *)
(* see a different snapshot, and every MinIO call, is an action.  What     *)
(* goes wrong outside the code takes one unit of a fault budget.           *)
(***************************************************************************)
EXTENDS Naturals

CONSTANTS
    Requests,   \* requests, each with the job id it would use
    Inputs,     \* fingerprints of frozen inputs
    Keys,       \* idempotency keys chosen by clients
    NoKey,      \* the client sent none
    NoJob,
    MaxFaults   \* bound on faults

ASSUME CreateAssumption ==
    /\ NoKey \notin Keys
    /\ NoJob \notin Requests
    /\ MaxFaults \in Nat

VARIABLES
    req,       \* input and key of each request
    status,    \* status of the job row with the request's job id, "none" when absent
    contexts,  \* job ids whose context object is in MinIO
    pc, found, \* control state; a job read by the request
    answer,    \* what the request was answered: outcome and job
    faults     \* faults so far

vars == <<req, status, contexts, pc, found, answer, faults>>

JobStatus == {"queued", "running", "succeeded", "failed", "cancelled"}
Outcome == {"none", "job", "IDEMPOTENCY_KEY_REUSED", "GENERATION_IN_PROGRESS",
            "OBJECT_STORAGE_UNAVAILABLE", "ATTACHMENT_JOB_PERSIST_FAILED"}
Stage == {"start", "no_key_job", "found", "no_job", "uploaded", "conflict",
          "lost_race", "raised", "not_persisted", "done"}

TypeOK ==
    /\ req \in [Requests -> [input : Inputs, key : Keys \cup {NoKey}]]
    /\ status \in [Requests -> JobStatus \cup {"none"}]
    /\ contexts \subseteq Requests
    /\ pc \in [Requests -> Stage]
    /\ found \in [Requests -> Requests \cup {NoJob}]
    /\ answer \in [Requests -> [outcome : Outcome, job : Requests \cup {NoJob}]]
    /\ faults \in 0..MaxFaults

Init ==
    /\ req \in [Requests -> [input : Inputs, key : Keys \cup {NoKey}]]
    /\ status = [r \in Requests |-> "none"]
    /\ contexts = {}
    /\ pc = [r \in Requests |-> "start"]
    /\ found = [r \in Requests |-> NoJob]
    /\ answer = [r \in Requests |-> [outcome |-> "none", job |-> NoJob]]
    /\ faults = 0

----------------------------------------------------------------------------
(* The job table.                                                          *)

Persisted == {j \in Requests : status[j] # "none"}
Live == {j \in Persisted : status[j] # "cancelled"}

\* Rows with the request's key, cancelled or not; live rows with its input.
WithKey(r) == {j \in Persisted : req[r].key # NoKey /\ req[j].key = req[r].key}
WithInput(r) == {j \in Live : req[j].input = req[r].input}

\* UNIQUE (engagement_id, request_idempotency_key_hash), UNIQUE (dedupe_fingerprint).
CollidesOnKey(r) == WithKey(r) # {}
Collides(r) == WithKey(r) # {} \/ WithInput(r) # {}

----------------------------------------------------------------------------
(* create_attachment_job                                                   *)

Goto(r, p) == pc' = [pc EXCEPT ![r] = p] /\ UNCHANGED <<found, answer>>

Answer(r, outcome, j) ==
    /\ answer' = [answer EXCEPT ![r] = [outcome |-> outcome, job |-> j]]
    /\ pc' = [pc EXCEPT ![r] = "done"]
    /\ UNCHANGED found

Fault == faults < MaxFaults /\ faults' = faults + 1

\* get_job_by_request_key; job rows keep their key and input for ever.
AnswerByAnyKey(r, j) == Answer(r, "job", j)
AnswerByKey(r, j) ==
    IF req[j].input = req[r].input THEN Answer(r, "job", j)
                                   ELSE Answer(r, "IDEMPOTENCY_KEY_REUSED", NoJob)

LookUpKey(r) ==
    /\ pc[r] = "start"
    /\ IF WithKey(r) = {} THEN Goto(r, "no_key_job")
                          ELSE \E j \in WithKey(r) : AnswerByKey(r, j)
    /\ UNCHANGED <<req, status, contexts, faults>>

\* get_job_by_fingerprint selects an id ...
LookUpInput(r) ==
    /\ pc[r] = "no_key_job"
    /\ IF WithInput(r) = {}
       THEN Goto(r, "no_job")
       ELSE /\ found' \in {[found EXCEPT ![r] = j] : j \in WithInput(r)}
            /\ pc' = [pc EXCEPT ![r] = "found"]
            /\ UNCHANGED answer
    /\ UNCHANGED <<req, status, contexts, faults>>

\* ... and reads that job in another transaction.
AnswerFound(r) ==
    LET j == found[r] IN
    /\ pc[r] = "found"
    /\ IF /\ status[j] \in {"queued", "running"}
          /\ req[r].key # NoKey
          /\ req[j].key \notin {NoKey, req[r].key}
       THEN Answer(r, "GENERATION_IN_PROGRESS", NoJob)
       ELSE Answer(r, "job", j)
    /\ UNCHANGED <<req, status, contexts, faults>>

UploadContext(r) ==
    /\ pc[r] = "no_job"
    /\ contexts' = contexts \cup {r}
    /\ Goto(r, "uploaded")
    /\ UNCHANGED <<req, status, faults>>

\* The upload raises, with or without the object stored.
UploadContextFails(r) ==
    /\ pc[r] = "no_job"
    /\ Fault
    /\ contexts' \in {contexts, contexts \cup {r}}
    /\ Answer(r, "OBJECT_STORAGE_UNAVAILABLE", NoJob)
    /\ UNCHANGED <<req, status>>

\* create_job_with_outbox: INSERT ... ON CONFLICT DO NOTHING, commit, read back.
InsertRow(r) ==
    /\ pc[r] = "uploaded"
    /\ ~Collides(r)
    /\ status' = [status EXCEPT ![r] = "queued"]
    /\ UNCHANGED <<req, contexts>>

Insert(r) == InsertRow(r) /\ Answer(r, "job", r) /\ UNCHANGED faults

\* It commits, but the commit or the read after it raises.
InsertUnanswered(r) == InsertRow(r) /\ Goto(r, "raised") /\ Fault

InsertFails(r) ==
    /\ pc[r] = "uploaded"
    /\ Fault
    /\ Goto(r, "raised")
    /\ UNCHANGED <<req, status, contexts>>

InsertConflicts(r) ==
    /\ pc[r] = "uploaded"
    /\ Collides(r)
    /\ Goto(r, "conflict")
    /\ UNCHANGED <<req, status, contexts, faults>>

\* The SELECTs after a conflict: the row with the key, else the row with the
\* input, which may be cancelled by now.  Raising rolls back.
ResolveConflict(r) ==
    LET byKey == WithKey(r)
        rows == IF byKey # {} THEN {j \in byKey : req[j].input = req[r].input} ELSE WithInput(r) IN
    /\ pc[r] = "conflict"
    /\ IF rows = {}
       THEN Goto(r, "raised")
       ELSE /\ found' \in {[found EXCEPT ![r] = j] : j \in rows}
            /\ pc' = [pc EXCEPT ![r] = "lost_race"]
            /\ UNCHANGED answer
    /\ UNCHANGED <<req, status, contexts, faults>>

\* created = False: the loser deletes its own context; failing to is ignored.
KeepContext(r) == UNCHANGED <<contexts, faults>>
DeleteContext(r) ==
    \/ contexts' = contexts \ {r} /\ UNCHANGED faults
    \/ UNCHANGED contexts /\ Fault

AnswerLostRace(r) ==
    /\ pc[r] = "lost_race"
    /\ DeleteContext(r)
    /\ Answer(r, "job", found[r])
    /\ UNCHANGED <<req, status>>

\* _create_job_with_outbox_or_cleanup: an exception.  The row is looked for,
\* and the context is deleted only if there is none.
LookUpNothing(r) ==
    /\ pc[r] = "raised"
    /\ Goto(r, "not_persisted")
    /\ UNCHANGED <<req, status, contexts, faults>>

LookUpOwnJob(r) ==
    /\ pc[r] = "raised"
    /\ IF status[r] = "none" THEN Goto(r, "not_persisted")
                             ELSE Answer(r, "ATTACHMENT_JOB_PERSIST_FAILED", NoJob)
    /\ UNCHANGED <<req, status, contexts, faults>>

LookUpOwnJobFails(r) ==
    /\ pc[r] = "raised"
    /\ Fault
    /\ Answer(r, "ATTACHMENT_JOB_PERSIST_FAILED", NoJob)
    /\ UNCHANGED <<req, status, contexts>>

\* postgres_connection turns whatever is raised inside it into its own error
\* class, an AttachmentIdempotencyConflictError too: one outcome for all.
AnswerNotPersisted(r) ==
    /\ pc[r] = "not_persisted"
    /\ DeleteContext(r)
    /\ Answer(r, "ATTACHMENT_JOB_PERSIST_FAILED", NoJob)
    /\ UNCHANGED <<req, status>>

RequestDies(r) ==
    /\ pc[r] \notin {"start", "done"}
    /\ Fault
    /\ Goto(r, "done")
    /\ UNCHANGED <<req, status, contexts>>

----------------------------------------------------------------------------
(* The life of a job after its creation, as AttachmentJob has it.          *)

JobMoveUnchecked == {<<"queued", "running">>, <<"running", "error">>}
JobMove == {<<"queued", "running">>, <<"running", "succeeded">>, <<"running", "failed">>,
            <<"failed", "queued">>, <<"queued", "cancelled">>}

JobMoves(j) ==
    /\ \E m \in JobMove : status[j] = m[1] /\ status' = [status EXCEPT ![j] = m[2]]
    /\ UNCHANGED <<req, contexts, pc, found, answer, faults>>

Next == \E r \in Requests :
    \/ LookUpKey(r) \/ LookUpInput(r) \/ AnswerFound(r)
    \/ UploadContext(r) \/ UploadContextFails(r)
    \/ Insert(r) \/ InsertUnanswered(r) \/ InsertFails(r)
    \/ InsertConflicts(r) \/ ResolveConflict(r) \/ AnswerLostRace(r)
    \/ LookUpOwnJob(r) \/ LookUpOwnJobFails(r) \/ AnswerNotPersisted(r)
    \/ RequestDies(r) \/ JobMoves(r)

Spec == Init /\ [][Next]_vars

----------------------------------------------------------------------------
(* Properties.                                                             *)

Answered(r) == answer[r].job # NoJob

\* Concurrent and repeated requests for one frozen input do not generate it
\* twice: those answered with jobs that are not cancelled have the same job.
LiveAnswersAgree ==
    \A r, s \in Requests :
        /\ Answered(r) /\ Answered(s)
        /\ req[r].input = req[s].input
        /\ {answer[r].job, answer[s].job} \subseteq Live
        => answer[r].job = answer[s].job

\* Whatever path a request takes, the job it is answered with exists and was
\* created for the very input the request asked for, not merely for its key.
AnswerMatchesInput ==
    \A r \in Requests : Answered(r) =>
        answer[r].job \in Persisted /\ req[answer[r].job].input = req[r].input

\* No compensation deletes the context of a job that was created after all.
ContextPresent == Persisted \subseteq contexts

\* The compensation is complete: a finished request leaves a context without a
\* job behind only if something outside the code failed.
OrphansOnlyAfterFaults ==
    \A r \in contexts \ Persisted : pc[r] = "done" => faults > 0

\* A request whose key belongs to another input is told so (409), not that the
\* service is unavailable (503), also when it finds out inside the transaction.
KeyReuseIsReported ==
    faults = 0 => \A r \in Requests :
        (\E j \in WithKey(r) : req[j].input # req[r].input)
            => answer[r].outcome # "ATTACHMENT_JOB_PERSIST_FAILED"

----------------------------------------------------------------------------
(* Refinement.                                                             *)

Register == INSTANCE JobRegister
    WITH asked <- req, entry <- status, closed <- {r \in Requests : pc[r] = "done"},
         given <- [r \in Requests |-> answer[r].job]

\* The look-ups, the upload, the insert and the compensation of all requests,
\* in whatever order and with whatever faults, come to single steps of the
\* register: one job per request at most, made only if none stands in its way,
\* and every answer is a job of the very input that was asked for, or none.
ImplementsRegister == Register!Spec
============================================================================
