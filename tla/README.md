# Verification of the ATA_Ai back end

ATA_Ai is a back end (FastAPI, PostgreSQL, MinIO, Celery over Redis, LangGraph) and
a web client for annual audits. This directory models its concurrent core in TLA+:
the pipeline that turns a frozen audit report and a frozen document template into a
package of attachments, and the components around it that keep state of their own:
execution and release gate, policy knowledge, reports, conversations, uploads, the
knowledge graph, migration and import, facts, threads and cases, tickets. TLC checks the
models on small instances; TLAPS proves the main theorems for every value of the
constants.

Paths below are relative to `src/backend/ai_hunter/` unless they say otherwise;
`AA` is `annual_audit/attachments`.

## 1. Inventory

| Part | State | Operations | Hard behaviour | What makes it correct | Module |
|---|---|---|---|---|---|
| Generation job (`AA/repository.py`, `AA/worker_pipeline.py`) | rows of job, item and artifact; storage-reference ledger; blobs in MinIO | claim or take over, load, claim item, upload, complete, fail, publish, retry, cancel | leases that expire under a live worker, stale attempts, crashes, lost commit answers, clean-up of blobs beside transactions | a package appears whole or not at all; only the lease holder changes a job; finished work is kept; what a row points to exists | `AttachmentJob`, `AttachmentPackage` |
| Outbox and delivery (`app/workers/attachment_tasks.py`, `celery_app.py`, `AA/job_service.py`) | outbox row, Celery messages and their retry counter | claim row, send, mark, deliver, recheck, retry | several dispatchers, duplicate and late messages, slow steps, retries that run out | no job is forgotten; late messages do no harm; every job settles | `AttachmentDispatch` |
| Job creation (`AA/job_service.py`) | job rows under two UNIQUE constraints, context blob | look up key, look up input, upload, insert, resolve conflict, compensate | concurrent requests, failures after commit | one live job per input; an answer is for the input asked; no job without context; no orphans | `AttachmentCreate`, `JobRegister` |
| Template governance (`document_templates/`) | families, versions, files, validation records | create, edit, clone, validate, activate, delete | optimistic revisions, activation and deletion beside a job that freezes the version | one active version, and it is what was validated; nothing a job froze disappears | `TemplateVersions`, `TemplateRelease` |
| Storage ledger and retention (`AA/repository.py`, `scripts/plan_attachment_storage_reclamation.py`) | reference rows, retention state per object | register, release, plan reclamation | objects with several owners | an object somebody still needs is never a candidate | in `AttachmentJob`, `TemplateVersions` |
| Access tickets (`AA/ticket_service.py`, `app/api/routes_artifacts.py`) | ticket rows | issue, verify, redeem, open | two redemptions at once, expiry, storage failure after redemption | a download ticket opens its object once | `ArtifactTickets` |
| Engagement facts (`AA/fact_registry.py`, `context_service.py`, `agent_graph.py`, `upsert_fact_version`) | current rows per key and source; frozen rows of a job | upsert, freeze, resolve, render | writes by several sources between freezing and rendering | a document says what the sources agreed on | `EngagementFacts` |
| Execution, review, release gate, issuance (`annual_audit/execution_service.py`, `workpaper_case.py`) | profile, programme, reviews, bindings, findings, confirmations, gate, issuance, archive | update, review, bind, evaluate, issue, archive | a gate computed statement by statement while its tables change | no precondition was unmet all along | `ReleaseGate` |
| Progress view (`annual_audit/progress_service.py`) | none of its own | project packages, phases and next actions | rules of its own beside those of the gate | the view agrees with the gate | `AuditProgress` |
| Policy knowledge (`annual_audit/knowledge_service.py`) | versions, releases, rules, rule-sets | create, review, revise, publish | row locks in different orders, reads without locks | only vetted rules are in force | `PolicyKnowledge` |
| Reports and citations (`report_service.py`, `citation_manifest_service.py`, `evidence_service.py`, `analysis_service.py`) | analysis runs, drafts, manifests, files, delivery references | analyse, plan, draft, freeze, publish, deliver, resolve | several generations reuse one version and stop anywhere | a version is one snapshot; what was delivered still resolves | `ReportDrafts` |
| Conversations (`conversation_message_repo.py`, `graph/nodes/memory.py`, `routes_chat.py`) | messages, checkpoint, thread row, advisory lock | invoke, retry, regenerate, disconnect, delete, list | two stores without a transaction, retries while the graph runs | versions are distinct; what the model remembers is on record | `ConversationTurns` |
| Threads, cases, tasks (`app/auth/tenancy.py`, `engagement_repository.py`, `task_repository.py`, `write_capabilities.py`) | thread row, checkpoint, engagements, tasks | admit, bind, create, change, delete | look-up and insert without a lock, binding outside the lock | a turn stays in its thread's case; no twins | `ThreadCases` |
| Upload and ingest (`routes_files.py`, `upload_ingest_jobs.py`, `material_event_progress.py`, `load_chunks.py`) | two progress rows, executor queue | upload, retry, parse, build graph | two rows written one after the other, swallowed failures, restart | no batch is stuck; completed means there is a graph | `UploadIngest` |
| Import and migration (`legacy_case_migration.py`, `import_service.py`, `ingest_graph.py`) | batches, sources, imported rows, anchors | migrate, import, bind, repair | reruns after crashes over a changed folder, uploads beside it | a completed batch is whole; rows are imported once | `CaseMigration` |
| Knowledge graph (`kg_service.py`, `graph/nodes/persist_graph.py`, `reconcile_graph_delta.py`, `annual_audit/knowledge_graph_projection.py`) | entities, relations, claims, unresolved items, ledger, runs of projections | upsert, insert, replay, reconcile, supersede, project findings | a chain of transactions per job, concurrent jobs | the trail tells the truth | `GraphClaims` |
| Compiler, renderers, quality gate; OCR, retrieval, answer graphs; users and authentication; operational scripts; web client | none that processes share in a way worth a model | transformation, model calls, decisions on one read | - | - | not modelled |

How they interact. An **upload** parses files, imports their rows (`CaseMigration`
shares this path) and builds the **graph**. The **execution** workflow and the imported
rows feed the **report**, whose versions a chat message delivers; the **gate** lets a
report be issued. A request **creates** a job from a report version, a template
version and the current **facts**. The insert writes an **outbox** row in the same
transaction. A dispatcher - the API process right after the insert, and a beat task every
ten seconds - leases the row and sends a **Celery** message. A worker that receives it
**claims** the job, runs one attempt under a fresh lease token, and publishes or
fails it. Readers see published artifacts through **tickets**. Chat reaches all this
through **threads** bound to cases. The parts meet in rows that one of them writes
and the other reads frozen: the job has its context, template snapshot and facts, the
report its snapshot, the gate its binding. Each module therefore has the other side of
such a meeting as actions of its own (`JobMoves` in `AttachmentCreate`, `InsertJob` in
`TemplateVersions`, `CreateJob` in `EngagementFacts`, `ImportFacts` and
`ChangeEvidence` in `ReportDrafts`, the live upload in `CaseMigration`).

`PROJECT.json` lists every part under `components` and what is hard to test in it, line by
line, under `hazards`.

## 2. Modules

| Module | Models | Proofs |
|---|---|---|
| `AttachmentPackage` | abstract: what a job promises to everyone who is not a worker | |
| `AttachmentJob` | one job and all that runs against it | `AttachmentJobProofs` |
| `AttachmentDispatch` | the way of a job to its worker: outbox, messages, retries | `AttachmentDispatchProofs` |
| `JobRegister` | abstract: what creating jobs promises to clients | |
| `AttachmentCreate` | concurrent create requests | `AttachmentCreateProofs` |
| `TemplateRelease` | abstract: what template governance promises to jobs | |
| `TemplateVersions` | template versions and files, their objects, and the jobs that freeze them | `TemplateVersionsProofs` |
| `ReleaseGate` | execution workflow, release gate, issuance | `WorkflowProofs` |
| `PolicyKnowledge` | knowledge versions, releases, rules and rule-sets | `WorkflowProofs` |
| `ReportDrafts` | generation of report versions and their citations | `WorkflowProofs` |
| `ConversationTurns` | one conversation: lock, rows, checkpoint | `ChatProofs` |
| `UploadIngest` | one upload batch and its jobs | `IngestProofs` |
| `GraphClaims` | the knowledge graph of one case | `IngestProofs` |
| `CaseMigration` | migration, import and anchors | `IngestProofs` |
| `AuditProgress` | the progress view beside the gate | `WorkflowProofs` |
| `EngagementFacts` | facts and the job that freezes them | `WorkflowProofs` |
| `ThreadCases` | a thread and the case it belongs to | `ChatProofs` |
| `ArtifactTickets` | access to a published attachment | `ChatProofs` |
| `MCPlatform` | instance of `ReleaseGate`, `PolicyKnowledge`, `ConversationTurns`, `UploadIngest`, `GraphClaims`, `CaseMigration`, `AuditProgress` and `ThreadCases`, for TLC and for the theorem that it runs them all | `PlatformProofs` |
| `MCDeliverables` | instance of `AttachmentCreate`, `ReportDrafts`, `EngagementFacts` and `ArtifactTickets`, for TLC | |
| other `MC...` | TLC instances of the first modules | |

Some definitions stand next to the one they vary (`RetryAny` before `Retry`,
`BlobWithoutLease` before `Blob`, `BoundToAnyhow` before `BoundTo`, ...). They are not part of
`Next`. Each is the code with one plausible slip, and is kept to show that the
property it belongs to (`PROJECT.json`, `mutants`) really depends on that line.

### AttachmentJob

*State.* `job`, `item`, `artifact` are the rows; a lease is its token and whether
`lease_expires_at` lies in the future (`live`). `context` is the retention state of the
job's frozen context; `referenced` the bundles with a live owner in the ledger;
`objects` the bundles present in MinIO. `pc`, `cur`, `todo` are the control state of an attempt,
one attempt for each lease token. `unacked` is a history variable: the bundles whose commit
went through without an answer.

*Actions and code.*

| Actions | Code |
|---|---|
| `Claim` (`ClaimQueued`, `TakeOver`), `ClaimNothing` | `claim_job_for_processing` |
| `Load`, `LoadFails` | `_load_frozen_inputs` and `load_job_for_worker` |
| `SelectItem`, `ClaimItem` | `claim_item` |
| `Upload`, `RenderFails`, `Cleanup` | `_process_item`, `_cleanup_uploaded_refs` |
| `Complete`, `CompleteFails`, `CompleteUnanswered` | `complete_item` and the exception path after it |
| `FailItem`, `FailJob` | `fail_item`, `transition_job(status="failed")` |
| `LoopEnds`, `Publish` | `run_claimed_job`, `publish_job_if_complete` |
| `Crash`, `LeaseExpires` | a process that dies; the clock |
| `Retry`, `Cancel`, `PlanReclamation` | `retry_failed_job`, `cancel_queued_job`, `plan_storage_reclamation` |

*Grain.* A transaction that locks the job row is one action. `claim_item` locks the item row
only and reads the job row from its statement's snapshot, so it is two actions, and the
take-over may fall between them. MinIO calls are separate actions outside
every transaction. `fail_item` and a take-over lock item and job in opposite orders;
the victim of such a deadlock is rolled back, which is `Crash` for an attempt and a claim that
did not happen for a take-over.

*Left out.* Stage, progress, error texts, time stamps, attempt counts. The four blobs of an item
are one bundle. Renewals under an unexpired lease change nothing visible here.
Tokens are fresh UUIDs: two attempts never share one.

### AttachmentPackage and the refinement

A package is `open`, then `delivered` or `withdrawn`, both final; for each file one result is
accepted and never replaced; it is delivered only when every file has one. `AttachmentJob` implements
it with `phase <- Phase` (job status as a reader sees it: only `succeeded` and `cancelled`
differ from open) and `accepted <- Accepted` (the lease of each artifact row).

### AttachmentDispatch

*State.* The job (status, lease unexpired or not), its outbox row (status, `attempt_count`, whether
it is due or stale), the dispatchers, and a bag of messages with their retry counters. A message also
stands for the task that consumes it (`acks_late`), whose inside is `AttachmentJob`.
`seen` says that the lease a recheck waited for was not renewed since; it expresses that the
countdown of a recheck (the lease time) is not shorter than what was left of that lease.

*Actions and code.* `ClaimOutbox` is `claim_pending_outbox`; `Send`, `SendFails`, `MarkPublished`,
`MarkFailed` are `dispatch_pending_outbox` and `mark_outbox_result`; `Deliver`, `FinishRun`,
`ReadStatus`, `TaskRaises` are `generate_attachment_job`; `Renew` a heartbeat; `WorkerDies` the
redelivery of `task_reject_on_worker_lost`; `UserRetry`, `UserCancel` the routes. Jobs share no
rows, so one job and its one outbox row are enough.

*Faults.* An exception, a dead process, a broker that refuses, a claim or lease that runs
out while its holder is alive: each takes one unit of `MaxFaults`.

*Fairness.* Weak fairness of `ClaimOutbox(d)`, `Dispatch(d)`, `Task` of messages, `OutboxDue`
and `LeaseRunsOut`: beat fires every ten seconds and a loop once begun runs on unless it dies;
the broker delivers; clocks advance. None for faults, for users, or for
renewals.

### AttachmentCreate

*State.* The input and key of each request, the status of the job row with the request's own job id,
the context objects, control states and answers. *Actions* follow `create_attachment_job` statement by
statement: `LookUpKey`, `LookUpInput`, `AnswerFound` (the row is read again in another
transaction), `UploadContext`, `Insert` / `InsertConflicts` / `ResolveConflict`
(`create_job_with_outbox`), and the compensation of `_create_job_with_outbox_or_cleanup`:
`LookUpOwnJob`, `AnswerNotPersisted`. `JobMoves` lets existing jobs live on, as `AttachmentJob` does,
so that a job found may be cancelled before it is answered. `AnswerNotPersisted`
gives one answer for every exception because `postgres_connection` wraps them all.

### JobRegister and the refinement

To its clients the creation of jobs is a register that is read and written in single steps. A request is closed once; before that it may
make the one entry of its own, if no entry stands for its input and none was made under its key. It is closed with its own entry, with
one somebody else made for the very same input, or with none. `AttachmentCreate` implements it with `entry` the status of the rows, `closed` the
requests that are done and `given` the job of their answer: whatever was looked up, uploaded, refused by a constraint
or compensated, the clients cannot tell it from that. It says more than `AnswerMatchesInput`: that an answer, once given,
stays; that a request whose own row was inserted is answered with that or with none; that entries appear only where
both constraints allow.

### TemplateVersions

*State.* One template family: `active` is its `active_version_id`, `ver` and `file` the rows,
`owners` and `ledger` the template side of the storage ledger, `objects` what MinIO holds, `jobs` what
generation jobs have frozen, `sess` the requests under way. Identifiers are given out once, so an identifier
that is `unborn` or `deleted` is a row that is not there yet, or no longer. `unacked` is a history variable as in `AttachmentJob`.

*Revisions.* A revision is only compared with the one a caller has read, and each update of a row increments
it; so a session remembers whether its row was updated since (`fresh`, `Outdated`) instead of a
number. `add_file` and the job request compare none.

*Content.* `content_sha256` is the content it hashes: manifest, files, the binding of each and the binding it was
compiled from. "The validated content is the present content" is an equation between the two.

*Actions and code.*

| Actions | Code |
|---|---|
| `CreateVersion`, `UpdateVersion`, `CloneVersion`, `DeleteVersion` | the methods of these names in `document_templates/repository.py` |
| `UpdateFile`, `RenameFile`, `DeleteFile` | `update_file` with and without a change of code or binding, `delete_file` |
| `Activate`, `Deactivate` | `set_activation` |
| `UploadSource`, `AddFile` | `upload_file`, `add_file` |
| `BeginInspection`, `RecordInspection` | `inspect_file`, and `compile_file` of a source that fails inspection |
| `CompileSource`, `RecordCompilation` | `compile_file`, `record_compilation` |
| `WriteFails`, `Undo` | the exception paths and `_cleanup_storage_refs` |
| `ReadVersion`, `ReadFiles`, `RecordValidation` | `validate_version`: the two statements of `get_version`, the gates, `record_validation` |
| `FreezeVersion`, `FreezeFiles`, `InsertJob` | `create_attachment_job`: the two statements of `get_active_template_snapshot`, the insert |
| `PlanReclamation`, `Abandon` | `plan_storage_reclamation`; an exception or a process that dies |

*Grain.* A repository method locks the rows it changes and is one action. Releases of objects with
several owners are serialised by the object row, which `_register...` updates first. Requests that read, work and write
later are sessions with an action for each step.

### TemplateRelease and the refinement

What a job may rely on: a version is released with one content and keeps it, through withdrawals and further
releases, until it is discarded as a whole; a job request is handed the released version and content in one step and records
them, with the files of that content, in a later one, whatever has become of the version. `TemplateVersions`
implements it with `stage <- SeenStage` (only `active`, `retired` and `deleted` are told apart), `content <- SeenContent`
(the manifest and files of a version that is or was active) and `handed <- Held` (what a job request between its
first read and its insert holds). The first read has the hash of the version, the second its files; that the two
are one content, and that it was the released one, is what the refinement says beyond `JobFilesApproved`.
A version handed out and not yet recorded may be discarded: that is finding 4, and the abstract specification allows it.

### ReleaseGate

*State.* `status`, `profile`, `item`, `review`, `binding`, `finding`, `confirmation`,
`files`, `pack` are what `build_release_gate` reads; `update` the updates of programme items that
hold the lock of their row; `staff` holds the requests of the
staff, `gate` the evaluations of the issuers, `issuance` and `archived` what comes of them.
`seen` is a history variable: the preconditions that held at some moment since an
evaluation began. *Actions.* `UpdateProfile`, `BeginUpdateItem` and
`EndUpdateItem` (`update_program_item` reads the latest binding, then writes the row it has locked; a
binding may be frozen in between), `InsertReview` and
`CommitReview` (a review may wait for the engagement row between its insert and its
commit), `FreezeBinding`, `RaiseFinding`, `ResolveFinding`, `UpsertConfirmation`,
`ChangeFiles`, `ImportWorkpaper`, `ReadExecution` (which replays the case workpaper, and waits
until no update holds a row it writes);
`StartGate`, `ReadStep` for every statement of the gate, `RecordGate`, `FindNoIssuance`,
`Issue`, `Archive`.

The obvious property, "an issued report was clear when it was issued", is false and
nobody promises it: the gate reads eight tables one after another. `PassedGateSawAll` says
what does remain true: nothing the gate found clear was blocked all along. The
difficult case is the programme, read at the second statement and compared with the
policy binding read at the fourth.

### PolicyKnowledge

A clerk's transaction reads in one action and commits in another, and holds the row locks
it took (`LockedReleases`, `LockedRulesets`, `LockedRules`) in between. `publish_ruleset`
locks the rule-set and reads its rules without locking them. `vetted` is a history
variable: the rules whose present form was approved at some time; a later rejection does not take
a rule out of it, so that `PublishedRulesVetted` says that no revision slips into a published
rule-set unreviewed. It does not say that no rejected rule is in one, which a rejection beside a
publication violates (section 4).

### ReportDrafts

A generation walks through `StartDraft`, `Analyse`, `PersistRun`, `PlanCitations`,
`PersistDraft`, `PersistManifest`, `Upload`, `SaveArtifactRefs`, `Deliver`, one transaction each, and
`FailDraft` may end it before any of them. `GenerationKey` decides which version a
snapshot belongs to. `Resolutions` are the citations a delivered reference may
resolve to: the frozen manifest, or the stored answer while it lasts.

### ConversationTurns

One thread. `Admit`, `Enter` (the advisory lock), `AnswerFromRows` for a retry,
`StartGraph`, `TakeVersion`, `AppendMessages`, `SaveCheckpoint`, `Fail`, `Disconnect`,
and the two transactions of `delete_thread`. `AppendMessages` commits before the
checkpoint is saved; when the append is refused the node raises, and the turn fails without one.

### UploadIngest

`event` and `batch` are the two progress rows. A `hand` is a request or a worker
thread; `Mark` writes the rows one after the other and may lose a write, as
`mark_upload_ingest_progress` swallows failures. Requests: `StartUpload`, `Replay`,
`StoreObjects`, `LinkFiles`, `Retry`, `Submit`, `SubmitRefused`; jobs: `TakeJob`, `Parse`,
`LoadChunks`, `LinkBatch`, `BuildGraph`, `JobFails`; `Restart` empties queue and hands.

### GraphClaims

A job goes through the calls of `Order` (the nodes of the graph job), one
transaction and action each, and may stop before any of them (`FailJob`). Replays of unresolved items,
insertion of claims, evidence links, resolution of items, candidates of conflicts, supersession of
claims and of relations, the ledger. The evidence of a claim is `due` when one of the chunks it cites could be
read and `missing` when none could (`Read`, the choice of `read` in `ReplayClaims`): chunks that are not in the
batch's map, and a read of replayed chunks that fails, are passed over by the code, and `LinkEvidence` links what is due.
`Ready` are the unresolved claims a batch may replay; it finds some of them. A projection of audit findings
(`knowledge_graph_projection.py`) goes through `ProjectionOrder`: it shares the upserts, the
insertion and the links, looks up the claims that exist (`FindProjected`), and keeps a run of its own
(`NewRun`, `CompleteRun`). An extracted claim may override the claim of a finding (`Matches`), which the next
projection then inserts again.

### CaseMigration

The migration `command` opens batches, stores, links, classifies, imports and closes
them; `FailBatch` and `RecordFailure` are its exception paths, `CommandEnds` its end or
death, after which it may be started again over another version of the folder
(`StartRun`). `LookUpSource` and `InsertSource` are the two halves of
`_persist_dataset`; a live upload goes through the same two. The look-up compares content, sheet and
dataset (`Key`). What a sheet is detected as depends on its header and, where two datasets score alike, on the
category and the name it comes with: `DetectedAs` are the outcomes a content can have, of which an upload
meets any, and `ExpectedDataset` the one the preflight of a migration has checked. `overlapped`
records contents and datasets that two importers looked up at once.

### AuditProgress

A projection: `PackageStatus`, `Phases`, `CurrentPhase` and `NextActions` are the functions of
`progress_service.py`, `GateBlockers` and `GateReady` those of `build_release_gate`, over one
state that `EditRecord` changes in every way the handlers allow. `ReleaseGate` has the handlers.

### EngagementFacts

`PutFact` is `upsert_fact_version` with its rule for which row a statement replaces;
`CreateJob` freezes the current rows and runs the preflight; `RenderFile` resolves them
later. `Resolved`, `Result`, `Missing`, `Composed` are the functions of `FactRegistry`
and of the composition for scalar, narrative, table and semantic slots. `said` is a
history of all statements, from which the property computes independently, source by
source, what had been agreed when the job was accepted.

### ThreadCases

Requests arrive (`Arrive`, `FindThread`, `Register`, `Recheck`, `BindThread`), wait for
the lock, run (`EnterGraph`, `LookUpCase`, `InsertCase`, `FinishGraph`, `StartTask`,
`LookUpTask`, `InsertTask`, `Answer`) and bind what they created (`BindCreated`). The API
creates cases beside them (`RequestCase`) and deletes them. `pending` and `raced` are history
variables for the two exceptions the properties state.

### ArtifactTickets

Issue (`AskTicket`, `RecordTicket`) and consumption (`VerifyTicket`, `FindArtifact`,
`RedeemTicket` by compare-and-set, `OpenObject`), `Expire`, `PublishArtifact`, `Break`. `served`
counts the objects opened under each ticket.

### MCPlatform and MCDeliverables

The eleven modules from `ReleaseGate` on and `AttachmentCreate` share no variable. `MCPlatform` EXTENDS eight
of them and `MCDeliverables` the four that lead to what an engagement delivers: the facts, the
creation of a job, the draft, the access to an artifact. In each behaviour of an instance one part, chosen at the start,
moves while the others stay as they begin. An instance checks no interplay between its parts, which none of the modules
has; it is one run instead of one for each part, with the same outcome. So that initial
states are not multiplied, the rows of `EngagementFacts` are empty and the requests of `AttachmentCreate` all alike
where another part moves (`AtRest`). Each property speaks of the variables of its own part only.

## 3. What TLC checks

| Run | Bounds | Shows |
|---|---|---|
| `attachment_job` | 2 files, 3 attempts | packages whole; exact counts; context kept; referenced bundles stored; stale attempts harmless; finished work kept; implements `AttachmentPackage` |
| `attachment_job_lost_answer` | 1 file, 2 attempts | **finding** 1 |
| `attachment_dispatch` | 2 dispatchers, 1 fault, 1 user retry; limits 3 and 5 of the code | no job forgotten; late messages harmless; every job settles |
| `attachment_dispatch_exhausted` | 1 dispatcher, 4 faults | **finding** 2 |
| `deliverables` | see below | agreement of create requests, contexts present, no orphans without a fault, implements `JobRegister`; the properties of drafts, facts and tickets |
| `attachment_create_key_race` | 2 requests, 1 key, no fault | **finding** 3 |
| `template_versions` | 2 versions, 2 files, 3 objects, 1 session | no object of a file enters retention |
| `template_sessions` | 1 version, 1 file, 3 objects, 2 manifests, 2 bindings, 2 sessions | what is active is what was validated; late sessions change nothing approved; clean-ups delete nothing in use; implements `TemplateRelease` |
| `template_job_race` | 1 version, 1 file, 2 objects, 1 session | **finding** 4 |
| `platform` | see below | the properties of eight further modules |
| `conversation_shown` | 1 caller, 2 keys, 3 requests | **finding** 5 |
| `graph_replacement` | 1 worker, 1 fact, 2 jobs | **finding** 6 |

What `platform` checks, part by part (about 790,000 states in all):

| Part | Bounds | Properties |
|---|---|---|
| `ReleaseGate` | 1 item, finding, confirmation; 2 levels; 1 member of staff, 2 issuers; `MaxBinding` 2, `MaxClock` 2 reviews, `MaxEdits` 6 | `PassedGateSawAll` |
| `PolicyKnowledge` | 2 rules, 1 rule-set, 2 clerks, 1 version, 1 release | `PublishedRulesVetted` |
| `ConversationTurns` | 2 callers, `MaxRequests` 3, 1 key, `Window` 2 | `AnswerVersionsDistinct`, `RememberedIsRecorded` |
| `UploadIngest` | 2 requests, 2 workers, `MaxRequested` 2 | `IdleMeansSettled`, `CompletedWhenGraphed` |
| `GraphClaims` | 2 jobs at a time, `MaxJobs` 2, 2 facts and 1 finding | `TrailTellsTrue` |
| `CaseMigration` | `MaxRuns` 3, 2 batches (1 reviewed), 3 contents, 2 versions of the folder, `MaxUploads` 1; 2 datasets, one content that may be either, one that is neither | `CompletedBatchWhole`, `RowsImportedOnce` |
| `AuditProgress` | the packages of acceptance, fieldwork and completion with every status, three levels | `ViewAgreesWithGate` |
| `ThreadCases` | 2 requests at a time, `MaxVisits` 3, `MaxCases` 2, `MaxTasks` 2, 2 entities | `TurnsStayInCase`, `NoTwins` |

What `deliverables` checks (about 570,000 states in all):

| Part | Bounds | Properties |
|---|---|---|
| `AttachmentCreate` | 3 requests, 2 inputs, 2 keys, 1 fault | `LiveAnswersAgree`, `ContextPresent`, `OrphansOnlyAfterFaults`, `ImplementsRegister` |
| `ReportDrafts` | 2 generations at a time, `MaxGenerations` 3, `MaxFacts` 1, `MaxEvidence` 1 | `VersionCoherent`, `DeliveredCitationsKept` |
| `EngagementFacts` | 2 kinds of source, 2 actors, 2 values, `MaxPuts` 2, 1 job, five kinds of slot | `RendersWhatWasAgreed` |
| `ArtifactTickets` | 2 requests at a time, `MaxAccesses` 5, `MaxTickets` 2 | `DownloadedOnce` |

*Why the bounds suffice.* Two files are the least for "some but not all". Three attempts allow a first
one, one that takes over, and one after a retry, so a stale attempt can meet each of the
others. The proofs do away with both bounds. In the dispatch model one fault already
puts a stale dispatcher, a duplicated or a redelivered message at any point, and a user retry gives the outbox row
a second life for a slow dispatcher to confuse. With two faults and a user retry, or one fault
and two user retries, the counter of a message can run out as in finding 2. Three requests are the
least for an insert race while a third request looks on; two inputs and two keys give every combination
of same and different.

Two versions are the least for one to supersede another or to be
cloned; two files give each its own, or a clone that shares a source object; three objects are a
source and two compilations, or a shared source and one compilation each. The identifiers bound the
number of versions, files and uploads of a behaviour: what needs more of them (a third version of one family) is left to the proofs. Two
sessions are the least for two administrators, or an administrator and a job, to overtake each other
on one row; edits that are a single transaction interleave with the sessions in both runs.

In `platform` and `deliverables` each further part has two processes, the least for a race, and as a rule one request
more than processes, so that a third meets what the race left. A way to a passed gate
takes six edits when one item, one confirmation and a chain of two reviews have to be
cleared and the policy bound (`MaxEdits`), and an edit after an issuer has begun spoils what
it has read. The proofs do away with the bounds of every part. Three runs of a
migration are a first one, one over the changed folder, and one that finds what the second left
behind. A retry and a regeneration need a third request after the first answer. Two
statements of two actors give agreement, contradiction, replacement and withdrawal; a
third statement of a third source would only add to a conflict.

*Deadlock* is not checked: all systems come to rest when nobody asks for anything more.

*Symmetry* (files, attempts, requests, inputs, keys; in `platform` and `deliverables` the exchange of the two members of all
pairs at once) is used only for runs without liveness properties.

*Fairness* is stated for `AttachmentDispatch` only, where the code promises that something happens in the end
(section 2). A request of the other parts ends by its own steps or dies; what the code
promises about those that died is safety.

## 4. Findings

1. **A lost commit answer destroys a published artifact** (`AA/worker_pipeline.py:494`,
   `PublishedObjectsExist`). `complete_item` commits, the connection breaks, the attempt
   deletes what it uploaded. The item stays succeeded, is never redone, and the next attempt
   publishes an artifact without objects. The create path knows this case and looks the row up first.
2. **The retries of a message may run out under an unfinished job**
   (`app/workers/attachment_tasks.py:35`, `InFlightJobHasCarrier`). After four failing
   deliveries the message is acknowledged; the outbox row is `published`; nothing comes back to the job. A job
   that is `running` can then neither be retried nor cancelled by the user.
3. **A key reused in a race is answered 503, not 409** (`annual_audit/storage/postgres.py:56`,
   `KeyReuseIsReported`). `postgres_connection` wraps the exception the
   handler waits for.
4. **A deleted version may be frozen by a job** (`document_templates/repository.py:625`,
   `JobVersionExists`). A job request has read the active version; the version is deactivated and deleted, because
   no job refers to it yet; the job is inserted with the identifier of a version that is gone (the column has no
   foreign key). The job itself still runs: it carries its snapshot, and the objects stay for the
   retention period. What is lost is the audit trail for whose sake `delete_version` refuses.
5. **A regenerated answer is shown under another question** (`app/repositories/conversation_message_repo.py:294`,
   `AnswersUnderOwnTurn`). `get_turns` groups rows by their position in time and not by `turn_id`; the
   new version of an older answer comes after the rows of later turns.
6. **A claim that replaces another loses its relation** (`app/graph/nodes/reconcile_graph_delta.py:334`,
   `ReplacementVisible`). Relation keys are unique per case, so the relation of the new claim was upserted into the
   row of the old one; reconciliation then supersedes that row.

Three more divergences are modelled, and a property admits each of them; they have no run of their own:

- *An unresolved item is resolved without evidence* (`app/graph/nodes/persist_graph.py:633`). A failed read of
  the chunks of replayed claims is swallowed, their evidence is skipped, and the items are marked resolved, while extraction
  refuses every item without a chunk it can cite (`app/graph/nodes/extract_entities_relations.py:203`). `TrailTellsTrue`
  says what is left: a resolved item has a claim about its fact, with all the evidence that could be read.
- *A source imported twice at once has its rows twice* (`annual_audit/import_service.py:616`), though "a replayed
  source must not insert duplicate rows" (`src/backend/tests/test_import_source_identity.py:22`). Look-up and insert are one
  transaction, but nothing is locked and no index is unique. `RowsImportedOnce` excepts `overlapped`
  and says what is left: without overlapping look-ups the rows are there once.
- *A rule may be rejected and published* (`annual_audit/knowledge_service.py:671` and `:709`). A review
  locks the rule and reads the rule-set, a publication locks the rule-set and reads the rules; neither waits for
  the other. `PublishedRulesVetted` says what is left: every rule in force was approved once in the form it has.

Things seen on the way that no document speaks about, and which are therefore modelled without a
property: a restart leaves an upload `processing`, which no retry accepts (`IdleMeansSettled` excepts it
by `lost`); the same bytes under another category or name may be detected as another dataset, and are then imported
beside the first (`RowsImportedOnce` is about one dataset); two look-ups at once create an engagement twice (`NoTwins` excepts `raced`); a ticket redeemed
before MinIO fails is spent for nothing; two projections at the same moment insert the claim of a finding twice, and a
projection that stopped between a claim and its evidence leaves a claim that later ones take as done.

`FileObjectsStored` excepts the objects in `unacked`: `upload_file` and `compile_file` have the same flaw as
finding 1 (`document_templates/service.py:254` and `:483`). Here a validation that starts after the clean-up
notices the missing object, and the version is not activated.

## 5. What is proved

Eight modules hold theorems. All hold for any sets that instantiate the constants. Where a
module bounds its behaviours (`MaxGenerations`, `MaxTickets`, `MaxRuns`, ...), they hold for every
value of the bound. The assumptions are the named ones of the modules:

- null values differ from what they stand beside (`CreateAssumption`, `TemplateAssumption`,
  `CallersAssumption`, `FactAssumption`), bounds are natural numbers;
- there is a value to state, and extraction is among the kinds of sources (`FactAssumption`: the rows of
  before candidate keys are its rows);
- a job has at least one item and finitely many (`JobAssumption`); facts are finite in number
  (`GraphAssumption`: a document yields a list of them); there is an entity to ask for
  (`VisitAssumption`), and a folder and a file to migrate (`MigrationAssumption`);
- a task has at least one retry on exceptions, and more rechecks than those (`DispatchAssumption`; the code has 3 and 5);
- a `client_turn_id` is not one of the numbers that stand for the turns of requests without one
  (`CallersAssumption`: the code gives those a UUID of their own);
- what the assumptions of `ReleaseGate` and `PolicyKnowledge` say of levels and of the rule-set of a
  rule, and that of `CaseMigration` of the files of a folder: the preflight admits a file of a reviewed category
  only if it is detected as the one dataset expected of it (`_validate_safe_item_content`), while the detection of
  other files, and of the same file under other names, is any.

| Module | About | Theorems |
|---|---|---|
| `AttachmentJobProofs` | `AttachmentJob` | `TypeCorrect`, `PublishedTogetherHolds`, `CountIsExactHolds`, `ContextKeptHolds`, `ReferencedAreStoredHolds`; the action properties `StaleAttemptHarmlessHolds`, `FinishedWorkKeptHolds`; the refinement `Implementation` |
| `AttachmentCreateProofs` | `AttachmentCreate` | `CreateTypeCorrect`, `LiveAnswersAgreeHolds`, `AnswerMatchesInputHolds`, `ContextPresentHolds`, `OrphansOnlyAfterFaultsHolds`; the refinement `RegisterImplemented` |
| `TemplateVersionsProofs` | `TemplateVersions` | `TemplateTypeCorrect`, `ActiveIsApprovedHolds`, `FileObjectsKeptHolds`, `FileObjectsStoredHolds`, `JobFilesApprovedHolds`; the action property `OnceActiveFixedHolds`; the refinement `ReleaseImplemented` |
| `AttachmentDispatchProofs` | `AttachmentDispatch` | `DispatchTypeCorrect`, `DispatchCarrier`; the action property `DispatchLateMessages` |
| `WorkflowProofs` | `ReleaseGate` | `GateTypeCorrect`, `PassedGateSawAllHolds` |
| | `PolicyKnowledge` | `KnowledgeTypeCorrect`, `PublishedRulesVettedHolds` |
| | `AuditProgress` | `ProgressTyped`, `ProgressViewAgrees` |
| | `ReportDrafts` | `DraftsTyped`, `VersionCoherentHolds`, `DeliveredCitationsKeptHolds` |
| | `EngagementFacts` | `FactsTyped`, `FactsAgreed` |
| `ChatProofs` | `ThreadCases` | `ThreadTyped`, `ThreadStays`, `ThreadNoTwins` |
| | `ConversationTurns` | `ConversationTyped`, `ConversationVersions`, `ConversationRemembers` |
| | `ArtifactTickets` | `TicketsTyped`, `DownloadedOnceHolds` |
| `IngestProofs` | `UploadIngest` | `UploadTyped`, `IdleMeansSettledHolds`, `CompletedWhenGraphedHolds` |
| | `CaseMigration` | `MigrationTyped`, `MigrationCompletes`, `MigrationImportsOnce` |
| | `GraphClaims` | `GraphTyped`, `GraphTrail` |
| `PlatformProofs` | `MCPlatform` | the refinement `PlatformParts`; `PlatformTypeCorrect`, `PlatformSafe` |

Each part of a module has the same layout: the inductive invariant in named parts, lemmas about
operators and about the ways a step may change a table, the initial step, a lemma for each group of
actions that every part is kept, and the theorems.

**AttachmentJob.** `Inv` adds to the properties what they silently rely on:

- `CurrentItem`: an attempt has a current item exactly while it claims, renders, commits or fails
  one, and that item is no longer among those it has yet to visit.
- `LeaseState`: a job has a token exactly while it is running, and only then a live lease.
- `RowsAgree`: an item has succeeded exactly when it has an artifact row. Two tables say the same
  thing, and `publish_job_if_complete` tests both.
- `Settled`: a published artifact means a succeeded job, and a succeeded job means that every artifact is
  published. With `RowsAgree` this is `PublishedTogether`.
- `Unreferenced`: a bundle the ledger refers to belongs to an item its attempt is through with. This is
  what lets the clean-up of an attempt delete its own bundle, and it holds because object
  names carry the lease token and an attempt visits each item at most once.
- `Uploaded`: a bundle about to be committed is in MinIO.

Each part has a lemma that every step keeps it (`TypeStep`, `LeaseStep`, `RowsAgreeStep`, ...);
`StepCases` lists the steps, and `RowWriters`, `OwnControl`, `LedgerWriters` say once which steps can touch
which variables, so that each lemma has a case only for the actions that matter to it.

**AttachmentCreate.** `LiveInputsDiffer` is the UNIQUE constraint as an invariant; `FoundMatches` says that a
job a request has read between two statements is one of the request's input; `Progressed` how far a request
can have come, above all that a request past `not_persisted` has no row: this is what
makes it safe to delete its context. The refinement of `JobRegister` adds `Unanswered` (only a finished request has an
answer): `ReadingAnswers` and `InsertingAnswers` say of every group of steps what of it a client can see. A job that was found
may have been cancelled by the time it is answered; its input is still the right one, because rows keep it.

**ReleaseGate.** `Evaluated` says what an evaluation that has come to its n-th statement has seen. The
difficulty is the programme: it is read at the second statement, and compared at the fourth with a
binding frozen since. Rows may be written with a binding read before the latest was frozen, but with none yet to
come (`BoundsKnown`, of the rows and of the updates under way). `ProgramSeen` solves it: if its rows were not all bound to the binding of the
moment they were read at, one of them is behind for ever, because bindings only grow, and the fourth statement
will block.

**PolicyKnowledge.** `LocksHold`: a rule-set has one holder of its lock and is a draft meanwhile, so a
revision and a publication exclude each other; `ApprovedVetted` and `PublishingVetted` say why the rules a
publication reads without locking them stay vetted until it commits: reviews only ever add to `vetted`
(that a rule is still approved then is not true, see section 4).

**ReportDrafts.** Versions only grow (`VersionsGrow`): a snapshot never changes and a complete manifest
stays. `Agrees` ties every generation past the draft to the snapshot stored with the version it works on. That the latest
version is well defined (`LatestExists`) is by well-founded induction, used in its minimal-element form. The types need an invariant that counts, `DraftBounds`: a generation adds one analysis run at most,
so runs, and the generations that may still add one, are together no more than the generations begun.

**UploadIngest.** `RowsTended`: unless a step was lost, a row that is neither completed nor failed has
somebody who will still write it. The two rows differ in who that is, since a hand writes the event before the
batch (`TendsEvent`).

**ArtifactTickets.** `OpensRedeemed`: at most one request is between redeeming a download and opening its
object, and only while nothing has been opened. `TicketBounds` counts: what a ticket has been used for, and the requests that may still
use it, are together no more than the requests made.

**TemplateVersions.** Every step treats each version in one of five ways (`VersionStep`): it leaves it alone,
edits or deletes it, retires it, activates it, or records a validation. What is said of versions and of sessions
between their read and their write follows from these five alone. `ValidationTrue` says
what a session may still trust: a validation that is not outdated has read the present content. `FreezeTrue` says why the two
reads of a snapshot fit together: what has once been active changes no more until it is deleted, and then
has no files. `LedgerTrue` and `ObjectsTrue` keep references and objects: an object held by an upload is held by that
upload only and no file points to it, unless the answer to its registration was lost. `SourcesApart` (a file's source is not
its template) is needed because both are references of one owner: dropping the template would else drop the source.
The refinement of `TemplateRelease` rests on the same five ways: `VersionsUnseen` says that a step which deletes no version and
leaves the active one active changes nothing jobs see, so that every action but four is done once its effect on deletion
(`NoneDeletedBy`) and on the sessions (`SessionGivesBack`) is known; activation, deactivation, deletion and
the first read have lemmas of their own, and the insert uses `FreezeTrue`.

**AuditProgress.** The state changes in one step only, so the invariant is the type of the rows, and the
argument is about the functions. `ProgressPackageCompleted`: a package is shown as completed exactly when its procedures are
done and its letters closed, which is what the gate asks of the programme and of the confirmations; `ProgressBlockers` lists
what clears each blocker of the gate, and the view has a next action for all but the three
the property excepts.

**EngagementFacts.** The code keeps one row for each source and replaces it; the property speaks of the history of what was
said. `FactsInv` joins the two: the rows are a function of the history, one for each statement no later one of the
same source replaced (`rows = RowsOf(said, Len(said))`), and the frozen rows are that function of a
prefix of it (`FrozenOK`). Later statements do not change what stood in a prefix (`FactsStandingStable`), so what a job renders
depends on the moment it was accepted only. `LogOK` is needed because rows older than candidate
keys are replaced by another rule. `SaidTyped` ties the length of the history to the bound on the writes: every entry but the first is a write.

**AttachmentDispatch.** `LateMessageHarmless` needs no invariant: the compare-and-set of the claim finds a settled job not
claimable, the end of a run finds its lease gone, and no other step touches messages and the job.
`InFlightJobHasCarrier` holds up to the number of faults and user retries the counters of a message allow and no further
(finding 2), so `DispatchCarrier` says it for every state before the second fault and the second user retry.
`CarrierInv` has three phases. `FirstLife`: before any of them there is one dispatch, and at most one message, which is where the job
is. `Undisturbed`, before the first fault: whoever may claim the job has no retries behind it, and a running job has the run that
holds its lease. `OnItsWay`, after it: some message holds the lease, or waits for it to run out, or has a recheck left and
so cannot be dropped. The one fault finds the job undisturbed, and leaves it on its way, because the exception path gives
a message a retry and the recheck path one more (`DispatchAssumption`). Each action of a message has a lemma that says what
becomes of the bag (`ClaimMoves`, `AskMoves`, ...), which rest on those about bags (`OneMore`, `OneLess`, `BitCleared`).

**ThreadCases.** A request decides on what it read some steps ago. `TurnOK` says what of it still
holds: a turn that runs has the lock and works on the case of the checkpoint, a turn that waits was
admitted to the case its thread is bound to. `BindingInv` adds that checkpoint and binding differ only while a binding
is outstanding (`pending`). `CaseTwinsInv` and `TaskTwinsInv` extend `NoTwins` to requests that have looked up and
not inserted: were there a twin already, or another such request, the pair is in `raced`.

**ConversationTurns.** `FreshInv` is the heart: whoever holds the lock is about to write an answer with a version no
live answer of its turn has. It needs `LockInv` (between look-up and checkpoint a request holds the lock) and the maximum
of the stored versions, whose existence is a well-founded induction (`ConversationMax`). A stream that was cut off
lets go of the lock while its graph runs on, so both parts except the turns in `severed`, as the property does.
`RecordInv` says the same of the one step between the append and the checkpoint. `ConversationBounds` counts for the types: a
request takes one version at most, one above those there are, so a version and the requests that have yet to take theirs are together no more
than the requests sent.

**CaseMigration.** `StageInv` says what the command has written for its batch when it is at a stage; `FolderInv`, that the
batches it may write to hold nothing or just the files its folder has for them, which is what the comparison with the
stored links at the start of a run buys: without it a rerun over a changed folder would complete a mixture.
What a completed batch has imported is stated with the dataset its folder expects, so that a file detected as
another dataset elsewhere does not count for it.
`LookUpsInv` extends `RowsImportedOnce` to the look-ups whose insert is outstanding.

**GraphClaims.** A job is a chain of up to twelve transactions and may end before any of them. `JobTold`
says what each job at work has done by its step: its claims exist, none has evidence due once it is past the
linking, what it is to supersede is inactive once it is past that, what it will resolve matches in fact. `RunsApart` keeps the
open run of a projection to one job, or `CompleteRun` of one could mark the claims of
another; no claim of a projection is without readable evidence (`NewRow`), as findings come with their chunks. `RowsKept` - ids stay, facts and runs of claims stay, evidence is not taken away, a superseded claim is not revived -
carries `JobTold` over for all jobs that do not move.

**MCPlatform.** One part moves, the others stutter, so a behaviour of the platform is one of each of its eight parts (`PlatformParts`). The
theorems about the parts, types included, therefore hold of the instance TLC explores, for any values of its constants. The parts of
`MCDeliverables` have their theorems in `AttachmentCreateProofs`, `WorkflowProofs` and `ChatProofs`.

*What the proofs taught about the models.* Two definitions of `AuditProgress` and one of `CaseMigration` were `CASE`
expressions whose guards overlapped. TLC takes the first arm that holds, the semantics of TLA+ leaves the choice open, and
the code has an `if` chain: they are written as one now. The assumptions on `Entities`, `Keys`,
`Facts`, `Folders` and `Contents` above, and those on the values and kinds of `EngagementFacts`, were silently met by every instance and are now stated. `AttachmentDispatch`
cleared a bit of every message with `BagOfAll`, whose counts are sums over a bag; `Dispossessed` and `Unseen` count the copies
that differ in that bit, which says the same. `DispatchCarrier` needs the two retry limits to differ, as they do in the code.

TLC agreed with the invariants `Inv` of `AttachmentJob` and `TemplateInv` on the instances of
`attachment_job`, `template_versions` and `template_sessions` before they were proved.

*Only model-checked:*

- liveness (`InFlightJobSettles`), which is beyond the prover;
- `InFlightJobHasCarrier` where the guard of `DispatchCarrier` ends; no run goes further either, except that of finding 2;
- enabledness, which no property here speaks of beyond that liveness property;
- that the six findings are what their runs show.

## 6. Assumed or not modelled

- Attempts are shorter than the broker's visibility time-out of one hour. A longer one is
  delivered twice; the duplicate meets a live lease and rechecks.
- A COMMIT whose connection broke takes effect, or not, before the look-up that follows.
- After a lost insert race a request is answered with the other request's job, where the look-up would say 423;
  the documents do not say which is right. A cancelled job keeps its key. Cancelling after a failed
  attempt releases the context but not the objects of items that succeeded. All are modelled
  as they are, and no property judges them.
- Legal hold: the template methods honour it, `_release` of the attachment ledger does not look at it,
  and no code sets it.
- The gate is recorded before the issuance is inserted, in other transactions. `ReleaseGate` has the window, and no
  property speaks of the moment of the insert: the code promises nothing about it.
- The replay of a case workpaper reads the binding and writes the rows in one action. One that a freeze overtakes would leave
  rows behind the latest binding, which an update of an item does in the model, and the next replay makes up for.
- A deadlock that PostgreSQL resolves by aborting a transaction is that transaction's failure.
- Rendering, compiling, composing by models, parsing, extraction: choices over their outcomes.
- Compiler, renderers and quality gate are transformations without shared state. OCR, retrieval and the
  answer graphs call models and services around a checkpoint that `ConversationTurns` has. Users and authentication decide on one read of
  a row. Operational scripts apply SQL files or report. The web client sends requests that are environment actions of
  the modules.

## 7. What could follow

An abstract specification of the storage ledger that both `AttachmentJob` and `TemplateVersions` implement, with the refinement proved; abstract
specifications of the report version and of the upload batch, as their readers see them; the hand-over between `UploadIngest` and `GraphClaims`,
and between `ReleaseGate` and `ReportDrafts`, as compositions over shared rows.
