--------------------------- MODULE AttachmentJob ---------------------------
(***************************************************************************)
(* One annual-audit attachment generation job and everything that runs     *)
(* against it: processing attempts (process_attachment_job, one fresh      *)
(* lease token each), the retry and cancel routes, the passing of time,    *)
(* and the storage ledger entries that belong to the job.                  *)
(*                                                                         *)
(* Grain of atomicity.  Every PostgreSQL transaction that locks the job    *)
(* row (FOR UPDATE, or an UPDATE of that row) is one action.  claim_item   *)
(* updates the item row only and reads the job row from its statement's    *)
(* snapshot, so it is two: SelectItem is the snapshot, ClaimItem the write *)
(* after whatever was committed in between.  Uploads and deletions in      *)
(* MinIO are actions of their own, outside every transaction.              *)
(*                                                                         *)
(* Abstractions.  stage, progress, error codes, timestamps and             *)
(* attempt_count are left out.  The four blobs of an item (payload,        *)
(* artifact, preview, provenance) are one bundle: they are uploaded by one *)
(* attempt and deleted together.  A lease is a token and whether           *)
(* lease_expires_at lies in the future.  The renewing transition_job calls *)
(* of run_claimed_job change nothing visible at this level: they act only  *)
(* under an unexpired lease, which they leave unexpired.                   *)
(***************************************************************************)
EXTENDS Naturals, FiniteSets

CONSTANTS
    Items,     \* items of the job: one per frozen template file
    NoItem,    \* "no current item"
    Leases,    \* lease tokens, i.e. processing attempts; bounds the attempts
    NoLease    \* lease_token IS NULL

ASSUME JobAssumption ==
    /\ NoLease \notin Leases
    /\ NoItem \notin Items
    /\ IsFiniteSet(Items)
    /\ Items # {}

VARIABLES
    job,        \* row of annual_attachment_generation_job
    item,       \* rows of annual_attachment_generation_item
    artifact,   \* rows of annual_generated_artifact, "none" when absent
    context,    \* retention_state of the job's context object
    referenced, \* bundles with live owners in annual_attachment_storage_reference
    objects,    \* bundles present in MinIO
    pc, cur, todo, \* control state, current item and remaining items of an attempt
    unacked     \* history: bundles whose complete_item committed with no answer

rows    == <<job, item, artifact>>
ledger  == <<context, referenced>>
attempt == <<pc, cur, todo>>
vars    == <<job, item, artifact, context, referenced, objects, pc, cur, todo, unacked>>

JobStatus  == {"queued", "running", "succeeded", "failed", "cancelled"}
ItemStatus == {"queued", "running", "succeeded", "failed", "cancelled"}
Stage == {"new", "claimed", "load_failed", "loop", "claiming", "rendering",
          "uploaded", "item_failed", "closing", "incomplete", "done"}
Token == Leases \cup {NoLease}

\* Object name of the bundle attempt w uploads for item i.  Names carry the
\* lease token, so two attempts never share a name.
BlobWithoutLease(i, w) == <<i, NoLease>>
Blob(i, w) == <<i, w>>

TypeOK ==
    /\ job \in [status : JobStatus, lease : Token, live : BOOLEAN, count : Nat]
    /\ item \in [Items -> [status : ItemStatus, lease : Token]]
    /\ artifact \in [Items -> [status : {"none", "validated", "published"}, lease : Token]]
    /\ context \in {"active", "retained", "reclaim_candidate"}
    /\ referenced \subseteq Items \X Token
    /\ objects \subseteq Items \X Token
    /\ pc \in [Leases -> Stage]
    /\ cur \in [Leases -> Items \cup {NoItem}]
    /\ todo \in [Leases -> SUBSET Items]
    /\ unacked \subseteq Items \X Token

\* create_job_with_outbox has committed; no attempt has started.
Init ==
    /\ job = [status |-> "queued", lease |-> NoLease, live |-> FALSE, count |-> 0]
    /\ item = [i \in Items |-> [status |-> "queued", lease |-> NoLease]]
    /\ artifact = [i \in Items |-> [status |-> "none", lease |-> NoLease]]
    /\ context = "active"
    /\ referenced = {}
    /\ objects = {}
    /\ pc = [w \in Leases |-> "new"]
    /\ cur = [w \in Leases |-> NoItem]
    /\ todo = [w \in Leases |-> {}]
    /\ unacked = {}

----------------------------------------------------------------------------
(* Guards the repository's SQL shares.                                     *)

\* lease_token = w AND lease_expires_at >= now(); only running jobs hold one.
LeaseTokenOnly(w) == job.status = "running" /\ job.lease = w
HoldsLease(w) == job.status = "running" /\ job.lease = w /\ job.live

\* complete_item and fail_item: the item, too, must be running under w.
OwnsItem(w, i) == item[i].status = "running" /\ item[i].lease = w /\ HoldsLease(w)

Succeeded == {i \in Items : item[i].status = "succeeded"}

\* Control moves of an attempt w.
Goto(w, p) == pc' = [pc EXCEPT ![w] = p] /\ UNCHANGED <<cur, todo>>

NextItem(w) ==
    /\ pc' = [pc EXCEPT ![w] = "loop"]
    /\ cur' = [cur EXCEPT ![w] = NoItem]
    /\ UNCHANGED todo

End(w) ==
    /\ pc' = [pc EXCEPT ![w] = "done"]
    /\ cur' = [cur EXCEPT ![w] = NoItem]
    /\ todo' = [todo EXCEPT ![w] = {}]

----------------------------------------------------------------------------
(* process_attachment_job and run_claimed_job, for the attempt with token w *)

\* claim_job_for_processing: take a queued job, or take over a running one
\* whose lease ran out; otherwise report the status and leave.
ClaimQueued(w) ==
    /\ job.status = "queued"
    /\ job' = [job EXCEPT !.status = "running", !.lease = w, !.live = TRUE]
    /\ UNCHANGED item

Requeue(statuses) ==
    item' = [i \in Items |-> IF item[i].status \in statuses
                               THEN [status |-> "queued", lease |-> NoLease]
                               ELSE item[i]]

TakeOver(w) ==
    /\ job.status = "running" /\ ~job.live
    /\ job' = [job EXCEPT !.lease = w, !.live = TRUE]
    /\ Requeue({"running"})

Claim(w) ==
    /\ pc[w] = "new"
    /\ ClaimQueued(w) \/ TakeOver(w)
    /\ Goto(w, "claimed")
    /\ UNCHANGED <<artifact, ledger, objects, unacked>>

ClaimNothing(w) ==
    /\ pc[w] = "new"
    /\ job.status # "queued"
    /\ ~(job.status = "running" /\ ~job.live)
    /\ End(w)
    /\ UNCHANGED <<rows, ledger, objects, unacked>>

\* _load_frozen_inputs: one snapshot of job and items decides what is left.
Load(w) ==
    /\ pc[w] = "claimed"
    /\ LeaseTokenOnly(w)
    /\ todo' = [todo EXCEPT ![w] = Items \ Succeeded]
    /\ pc' = [pc EXCEPT ![w] = "loop"]
    /\ UNCHANGED <<cur, rows, ledger, objects, unacked>>

\* The claim is gone already, or the frozen context or template snapshot
\* cannot be read or does not match its digest.
LoadFails(w) ==
    /\ pc[w] = "claimed"
    /\ Goto(w, "load_failed")
    /\ UNCHANGED <<rows, ledger, objects, unacked>>

\* transition_job(status="failed") under the lease filter.
FailJobRowAsError == job' = [job EXCEPT !.status = "error", !.lease = NoLease, !.live = FALSE]
FailJobRow == job' = [job EXCEPT !.status = "failed", !.lease = NoLease, !.live = FALSE]

FailJob(w) ==
    /\ pc[w] \in {"load_failed", "incomplete"}
    /\ IF HoldsLease(w) THEN FailJobRow ELSE UNCHANGED job
    /\ End(w)
    /\ UNCHANGED <<item, artifact, ledger, objects, unacked>>

\* The statement snapshot of claim_item for the next pending item; an item it
\* does not find claimable is skipped for good.
SelectItem(w, i) ==
    /\ pc[w] = "loop"
    /\ i \in todo[w]
    /\ todo' = [todo EXCEPT ![w] = @ \ {i}]
    /\ IF item[i].status \in {"queued", "failed"} /\ HoldsLease(w)
       THEN pc' = [pc EXCEPT ![w] = "claiming"] /\ cur' = [cur EXCEPT ![w] = i]
       ELSE UNCHANGED <<pc, cur>>
    /\ UNCHANGED <<rows, ledger, objects, unacked>>

\* The write of claim_item: the item row is looked at again, the job row is not.
ClaimItem(w) ==
    /\ pc[w] = "claiming"
    /\ IF item[cur[w]].status \in {"queued", "failed"}
       THEN /\ item' = [item EXCEPT ![cur[w]] = [status |-> "running", lease |-> w]]
            /\ Goto(w, "rendering")
       ELSE /\ UNCHANGED item
            /\ NextItem(w)
    /\ UNCHANGED <<job, artifact, ledger, objects, unacked>>

\* Rendering and the uploads succeed ...
Upload(w) ==
    /\ pc[w] = "rendering"
    /\ objects' = objects \cup {Blob(cur[w], w)}
    /\ Goto(w, "uploaded")
    /\ UNCHANGED <<rows, ledger, unacked>>

\* _cleanup_uploaded_refs: deletes what this attempt uploaded; an error of a
\* deletion is swallowed and leaves the bundle behind.
Cleanup(w) == objects' \in {objects \ {Blob(cur[w], w)}, objects}

\* ... or something on the way raises, before or after the first upload.
RenderFails(w) ==
    /\ pc[w] = "rendering"
    /\ objects' \in {objects \ {Blob(cur[w], w)}, objects, objects \cup {Blob(cur[w], w)}}
    /\ Goto(w, "item_failed")
    /\ UNCHANGED <<rows, ledger, unacked>>

\* The transaction of complete_item; item_id is UNIQUE among the artifacts.
CommitItem(w) ==
    LET i == cur[w] IN
    /\ artifact[i].status = "none"
    /\ artifact' = [artifact EXCEPT ![i] = [status |-> "validated", lease |-> w]]
    /\ item' = [item EXCEPT ![i] = [status |-> "succeeded", lease |-> NoLease]]
    /\ referenced' = referenced \cup {Blob(i, w)}
    /\ job' = [job EXCEPT !.count = Cardinality(Succeeded \cup {i})]
    /\ UNCHANGED context

CompleteUnfenced(w) ==
    /\ pc[w] = "uploaded"
    /\ job.status = "running" /\ item[cur[w]].status = "running"
    /\ CommitItem(w)
    /\ NextItem(w)
    /\ UNCHANGED <<objects, unacked>>

CompleteUncounted(w) ==
    /\ pc[w] = "uploaded"
    /\ OwnsItem(w, cur[w])
    /\ artifact' = [artifact EXCEPT ![cur[w]] = [status |-> "validated", lease |-> w]]
    /\ item' = [item EXCEPT ![cur[w]] = [status |-> "succeeded", lease |-> NoLease]]
    /\ referenced' = referenced \cup {Blob(cur[w], w)}
    /\ NextItem(w)
    /\ UNCHANGED <<job, context, objects, unacked>>

Complete(w) ==
    /\ pc[w] = "uploaded"
    /\ OwnsItem(w, cur[w])
    /\ CommitItem(w)
    /\ NextItem(w)
    /\ UNCHANGED <<objects, unacked>>

\* The lease is no longer owned, or the transaction raises and is rolled back.
CompleteFails(w) ==
    /\ pc[w] = "uploaded"
    /\ Cleanup(w)
    /\ Goto(w, "item_failed")
    /\ UNCHANGED <<rows, ledger, unacked>>

\* The transaction commits, but its answer is lost with the connection: the
\* attempt sees an exception and handles it like any other.
CompleteUnanswered(w) ==
    /\ pc[w] = "uploaded"
    /\ OwnsItem(w, cur[w])
    /\ CommitItem(w)
    /\ Cleanup(w)
    /\ unacked' = unacked \cup {Blob(cur[w], w)}
    /\ Goto(w, "item_failed")

\* fail_item: item and job fail together, if both are still held under w.
FailItem(w) ==
    /\ pc[w] = "item_failed"
    /\ IF OwnsItem(w, cur[w])
       THEN /\ item' = [item EXCEPT ![cur[w]] = [status |-> "failed", lease |-> NoLease]]
            /\ FailJobRow
       ELSE UNCHANGED <<item, job>>
    /\ End(w)
    /\ UNCHANGED <<artifact, ledger, objects, unacked>>

LoopEnds(w) ==
    /\ pc[w] = "loop"
    /\ todo[w] = {}
    /\ Goto(w, "closing")
    /\ UNCHANGED <<rows, ledger, objects, unacked>>

\* publish_job_if_complete: every item succeeded and every artifact validated.
SomeItemComplete == \E i \in Items : artifact[i].status = "validated"
PackageComplete ==
    /\ Succeeded = Items
    /\ \A i \in Items : artifact[i].status = "validated"

Publish(w) ==
    /\ pc[w] = "closing"
    /\ IF HoldsLease(w) /\ PackageComplete
       THEN /\ artifact' = [i \in Items |-> IF artifact[i].status = "validated"
                                             THEN [artifact[i] EXCEPT !.status = "published"]
                                             ELSE artifact[i]]
            /\ job' = [status |-> "succeeded", lease |-> NoLease, live |-> FALSE,
                       count |-> Cardinality(Items)]
            /\ End(w)
       ELSE /\ Goto(w, "incomplete")
            /\ UNCHANGED <<job, artifact>>
    /\ UNCHANGED <<item, ledger, objects, unacked>>

\* The process dies, or a repository call outside _process_item raises.
Crash(w) ==
    /\ pc[w] \notin {"new", "done"}
    /\ End(w)
    /\ UNCHANGED <<rows, ledger, objects, unacked>>

----------------------------------------------------------------------------
(* The environment: time, the routes, the retention planner.               *)

LeaseExpires ==
    /\ job.live
    /\ job' = [job EXCEPT !.live = FALSE]
    /\ UNCHANGED <<item, artifact, ledger, objects, attempt, unacked>>

\* retry_failed_job
RetryAny ==
    /\ job.status \in {"failed", "cancelled"}
    /\ job' = [job EXCEPT !.status = "queued", !.lease = NoLease, !.live = FALSE]
    /\ Requeue({"failed", "running", "cancelled"})
    /\ UNCHANGED <<artifact, ledger, objects, attempt, unacked>>

RetryFromScratch ==
    /\ job.status = "failed"
    /\ job' = [job EXCEPT !.status = "queued", !.lease = NoLease, !.live = FALSE]
    /\ Requeue(ItemStatus)
    /\ UNCHANGED <<artifact, ledger, objects, attempt, unacked>>

Retry ==
    /\ job.status = "failed"
    /\ job' = [job EXCEPT !.status = "queued", !.lease = NoLease, !.live = FALSE]
    /\ Requeue({"failed", "running"})
    /\ UNCHANGED <<artifact, ledger, objects, attempt, unacked>>

\* cancel_queued_job: only the job's own context object enters retention.
Cancel ==
    /\ job.status = "queued"
    /\ job' = [job EXCEPT !.status = "cancelled", !.lease = NoLease, !.live = FALSE]
    /\ item' = [i \in Items |-> IF item[i].status = "queued"
                                  THEN [status |-> "cancelled", lease |-> NoLease]
                                  ELSE item[i]]
    /\ context' = "retained"
    /\ UNCHANGED <<artifact, referenced, objects, attempt, unacked>>

\* plan_storage_reclamation once the retention period of the context is over.
PlanReclamation ==
    /\ context = "retained"
    /\ context' = "reclaim_candidate"
    /\ UNCHANGED <<rows, referenced, objects, attempt, unacked>>

Next ==
    \/ \E w \in Leases :
          \/ Claim(w) \/ ClaimNothing(w) \/ Load(w) \/ LoadFails(w) \/ FailJob(w)
          \/ \E i \in Items : SelectItem(w, i)
          \/ ClaimItem(w) \/ Upload(w) \/ RenderFails(w)
          \/ Complete(w) \/ CompleteFails(w) \/ CompleteUnanswered(w)
          \/ FailItem(w) \/ LoopEnds(w) \/ Publish(w) \/ Crash(w)
    \/ LeaseExpires \/ Retry \/ Cancel \/ PlanReclamation

Spec == Init /\ [][Next]_vars

----------------------------------------------------------------------------
(* Properties.                                                             *)

\* All or nothing (publish_job_if_complete; design document, section 8: the
\* package is published atomically once every required item has passed).  If
\* any artifact is published, the job has succeeded, every item has, and every
\* artifact of the job is published.
PublishedTogether ==
    (\E i \in Items : artifact[i].status = "published")
        => /\ job.status = "succeeded"
           /\ \A i \in Items : item[i].status = "succeeded" /\ artifact[i].status = "published"

\* Lease fencing (transition_job, complete_item, fail_item, publish).  A step
\* of an attempt that does not hold an unexpired lease, and does not acquire
\* it in that very step, changes neither the job nor any artifact, whatever
\* the attempt learnt before it was suspended.
StaleAttemptHarmless ==
    [][\A w \in Leases :
         pc'[w] # pc[w] /\ ~HoldsLease(w) /\ job'.lease # w => UNCHANGED <<job, artifact>>]_vars

\* succeeded_item_count is the number of succeeded items at every moment, also
\* after failed attempts, take-overs and retries.
CountIsExact == job.count = Cardinality(Succeeded)

\* Retrying or taking over a job never redoes finished work: an item that
\* succeeded stays succeeded and its artifact row keeps its objects.
FinishedWorkKept ==
    [][\A i \in Items : item[i].status = "succeeded" =>
          item'[i].status = "succeeded" /\ artifact'[i].lease = artifact[i].lease]_vars

\* The frozen context a queued, running or failed (hence retryable) job still
\* has to read is never in retention or a candidate for reclamation.
ContextKept == job.status # "cancelled" => context = "active"

\* No clean-up deletes what another attempt's rows point to: every bundle the
\* storage ledger counts as referenced is stored, unless the very transaction
\* that registered it lost its answer.
ReferencedAreStored == referenced \ unacked \subseteq objects

\* The same without the exception: what a published artifact points to exists.
PublishedObjectsExist ==
    \A i \in Items : artifact[i].status = "published" => Blob(i, artifact[i].lease) \in objects

\* What AttachmentPackage calls phase and accepted.
Phase ==
    CASE job.status = "succeeded" -> "delivered"
      [] job.status = "cancelled" -> "withdrawn"
      [] OTHER -> "open"

Accepted == [i \in Items |-> artifact[i].lease]

Package == INSTANCE AttachmentPackage WITH phase <- Phase, accepted <- Accepted

\* The job implements the package its readers are promised: one result for each
\* file, never replaced, handed over all at once or not at all.
ImplementsPackage == Package!Spec
============================================================================
