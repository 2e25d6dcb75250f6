------------------------- MODULE AttachmentDispatch ------------------------
(***************************************************************************)
(* How a persisted generation job reaches a worker: the outbox row, the    *)
(* dispatchers that lease it and send a Celery message, and the messages   *)
(* with their redeliveries and retries.  A processing attempt is reduced   *)
(* here to taking the lease, renewing it, and ending the job or not;       *)
(* AttachmentJob has its inside.                                           *)
(*                                                                         *)
(* Jobs do not share rows, so one job and its one outbox row are enough.   *)
(* Time is a set of events: a row becomes due or stale, a countdown ends,  *)
(* a lease runs out.  Everything that can go wrong (an exception, a dead   *)
(* process, a broker that refuses, a step slower than its time-out) takes  *)
(* one unit of a fault budget, MaxFaults.                                  *)
(***************************************************************************)
EXTENDS Naturals, Bags

CONSTANTS
    Dispatchers,     \* the API process and the beat task
    MaxFaults,       \* bound on faults
    MaxUserRetries,  \* bound on retry requests by users
    ErrorRetries,    \* max_retries of the exception path of the task
    RecheckRetries   \* max_retries of the "job is running" path of the task

ASSUME DispatchAssumption ==
    /\ MaxFaults \in Nat /\ MaxUserRetries \in Nat
    /\ ErrorRetries \in Nat \ {0} /\ RecheckRetries \in Nat
    /\ ErrorRetries < RecheckRetries

VARIABLES
    job,          \* status, and whether lease_expires_at >= now()
    outbox,       \* status, attempt_count, whether its time has come
    disp,         \* dispatch_pending_outbox runs: control and claimed attempt
    msgs,         \* bag of Celery messages, with the task runs that consume them
    faults,       \* faults so far
    userRetries   \* retry requests so far

vars == <<job, outbox, disp, msgs, faults, userRetries>>

\* holds: this run took the lease last; seen: the lease seen by the recheck that
\* scheduled this message was not renewed since.
Message == [state : {"ready", "delayed", "working", "status"},
            retries : 0..RecheckRetries, seen : BOOLEAN, holds : BOOLEAN]

TypeOK ==
    /\ job \in [status : {"queued", "running", "succeeded", "failed", "cancelled"},
                live : BOOLEAN]
    /\ outbox \in [status : {"pending", "publishing", "published", "failed"},
                   attempt : Nat, ready : BOOLEAN]
    /\ disp \in [Dispatchers -> [pc : {"idle", "sending", "sent", "failed"}, attempt : Nat]]
    /\ IsABag(msgs) /\ BagToSet(msgs) \subseteq Message
    /\ faults \in 0..MaxFaults
    /\ userRetries \in 0..MaxUserRetries

NewMessage == [state |-> "ready", retries |-> 0, seen |-> FALSE, holds |-> FALSE]

Idle == [pc |-> "idle", attempt |-> 0]

\* create_job_with_outbox has committed.
Init ==
    /\ job = [status |-> "queued", live |-> FALSE]
    /\ outbox = [status |-> "pending", attempt |-> 0, ready |-> TRUE]
    /\ disp = [d \in Dispatchers |-> Idle]
    /\ msgs = EmptyBag
    /\ faults = 0
    /\ userRetries = 0

Fault == faults < MaxFaults /\ faults' = faults + 1

----------------------------------------------------------------------------
(* dispatch_pending_outbox                                                 *)

\* claim_pending_outbox: due pending or failed rows, and stale claims.
ClaimableFresh == outbox.ready /\ outbox.status \in {"pending", "failed"}
Claimable == outbox.ready /\ outbox.status \in {"pending", "failed", "publishing"}

ClaimOutbox(d) ==
    /\ disp[d].pc = "idle"
    /\ Claimable
    /\ outbox' = [status |-> "publishing", attempt |-> outbox.attempt + 1, ready |-> FALSE]
    /\ disp' = [disp EXCEPT ![d] = [pc |-> "sending", attempt |-> outbox.attempt + 1]]
    /\ UNCHANGED <<job, msgs, faults, userRetries>>

\* apply_async reaches the broker ...
Send(d) ==
    /\ disp[d].pc = "sending"
    /\ msgs' = msgs (+) SetToBag({NewMessage})
    /\ disp' = [disp EXCEPT ![d].pc = "sent"]
    /\ UNCHANGED <<job, outbox, faults, userRetries>>

\* ... or raises, as may the call that records the success.
SendFails(d) ==
    /\ disp[d].pc \in {"sending", "sent"}
    /\ Fault
    /\ disp' = [disp EXCEPT ![d].pc = "failed"]
    /\ UNCHANGED <<job, outbox, msgs, userRetries>>

\* mark_outbox_result: compare-and-set on status and attempt_count.
ClaimStillHeld(d) == outbox.status = "publishing"
ClaimHeld(d) == outbox.status = "publishing" /\ outbox.attempt = disp[d].attempt

Mark(d, from, to) ==
    /\ disp[d].pc = from
    /\ outbox' = IF ClaimHeld(d) THEN [outbox EXCEPT !.status = to, !.ready = FALSE] ELSE outbox
    /\ disp' = [disp EXCEPT ![d] = Idle]
    /\ UNCHANGED <<job, msgs, faults, userRetries>>

MarkPublished(d) == Mark(d, "sent", "published")
MarkFailed(d) == Mark(d, "failed", "failed")

DispatcherDies(d) ==
    /\ disp[d].pc # "idle"
    /\ Fault
    /\ disp' = [disp EXCEPT ![d] = Idle]
    /\ UNCHANGED <<job, outbox, msgs, userRetries>>

\* The back-off of a failed row ends; a claim becomes stale.
ClaimantAlive == \E d \in Dispatchers : disp[d].pc # "idle" /\ disp[d].attempt = outbox.attempt

OutboxDue ==
    /\ ~outbox.ready
    /\ outbox.status = "failed" \/ (outbox.status = "publishing" /\ ~ClaimantAlive)
    /\ outbox' = [outbox EXCEPT !.ready = TRUE]
    /\ UNCHANGED <<job, disp, msgs, faults, userRetries>>

OutboxDueEarly ==
    /\ ~outbox.ready
    /\ outbox.status = "publishing" /\ ClaimantAlive
    /\ Fault
    /\ outbox' = [outbox EXCEPT !.ready = TRUE]
    /\ UNCHANGED <<job, disp, msgs, userRetries>>

----------------------------------------------------------------------------
(* generate_attachment_job                                                 *)

\* Message m becomes message n, or is acknowledged and gone.
Becomes(m, n) == (msgs (-) SetToBag({m})) (+) SetToBag({n})
Gone(m) == msgs (-) SetToBag({m})

\* Copies of message n in the bag b.
Copies(n, b) == IF BagIn(n, b) THEN b[n] ELSE 0

\* claim_job_for_processing on delivery of a message.  Whoever held the lease
\* before holds it no more.
MayClaimAny == job.status # "running" \/ ~job.live
MayClaim == job.status = "queued" \/ (job.status = "running" /\ ~job.live)

Dispossessed(b) ==
    [n \in {[m EXCEPT !.holds = FALSE] : m \in BagToSet(b)} |->
        Copies(n, b) + Copies([n EXCEPT !.holds = TRUE], b)]

Deliver(m) ==
    /\ m.state = "ready"
    /\ IF MayClaim
       THEN /\ job' = [status |-> "running", live |-> TRUE]
            /\ msgs' = Dispossessed(Gone(m))
                         (+) SetToBag({[m EXCEPT !.state = "working", !.holds = TRUE]})
       ELSE /\ msgs' = Becomes(m, [m EXCEPT !.state = "status"])
            /\ UNCHANGED job
    /\ UNCHANGED <<outbox, disp, faults, userRetries>>

HolderAlive == \E m \in BagToSet(msgs) : m.holds
Holds(m) == m.holds /\ job.status = "running" /\ job.live

\* A lease renewal of run_claimed_job, as far as others observe it.
Unseen(b) ==
    [n \in {[m EXCEPT !.seen = FALSE] : m \in BagToSet(b)} |->
        Copies(n, b) + Copies([n EXCEPT !.seen = TRUE], b)]

Renew(m) ==
    /\ Holds(m)
    /\ \E n \in BagToSet(msgs) : n.seen
    /\ msgs' = Unseen(msgs)
    /\ UNCHANGED <<job, outbox, disp, faults, userRetries>>

\* run_claimed_job returns: it published, it failed the job, or, having lost
\* the lease, it changed nothing.
FinishRun(m) ==
    /\ m.state = "working"
    /\ IF Holds(m)
       THEN \E outcome \in {"succeeded", "failed"} : job' = [status |-> outcome, live |-> FALSE]
       ELSE UNCHANGED job
    /\ msgs' = Becomes(m, [m EXCEPT !.state = "status", !.holds = FALSE])
    /\ UNCHANGED <<outbox, disp, faults, userRetries>>

\* The status process_attachment_job returns.  "running": look again after the
\* lease time, at most RecheckRetries times; beyond that self.retry raises, the
\* handler for exceptions finds its own limit exceeded, and the message ends.
RecheckOnceMore(m) == m.retries <= RecheckRetries
RecheckAllowed(m) == m.retries < RecheckRetries

ReadStatus(m) ==
    /\ m.state = "status"
    /\ msgs' = IF job.status = "running" /\ RecheckAllowed(m)
               THEN Becomes(m, [state |-> "delayed", retries |-> m.retries + 1,
                                seen |-> TRUE, holds |-> FALSE])
               ELSE Gone(m)
    /\ UNCHANGED <<job, outbox, disp, faults, userRetries>>

\* Any other exception, on delivery or later: the same retry counter, another limit.
TaskRaises(m) ==
    /\ m.state \in {"ready", "working", "status"}
    /\ Fault
    /\ msgs' = IF m.retries < ErrorRetries
               THEN Becomes(m, [state |-> "delayed", retries |-> m.retries + 1,
                                seen |-> FALSE, holds |-> FALSE])
               ELSE Gone(m)
    /\ UNCHANGED <<job, outbox, disp, userRetries>>

\* acks_late and reject_on_worker_lost: the message is delivered again.
WorkerDies(m) ==
    /\ m.state \in {"working", "status"}
    /\ Fault
    /\ msgs' = Becomes(m, [m EXCEPT !.state = "ready", !.holds = FALSE])
    /\ UNCHANGED <<job, outbox, disp, userRetries>>

\* A countdown ends.  That of a recheck outlasts the lease it saw: since then
\* the lease was renewed or given up, or has run out.
CountdownEnds(m) ==
    /\ m.state = "delayed"
    /\ ~(m.seen /\ job.status = "running" /\ job.live)
    /\ msgs' = Becomes(m, [m EXCEPT !.state = "ready", !.seen = FALSE])
    /\ UNCHANGED <<job, outbox, disp, faults, userRetries>>

LeaseRunsOut ==
    /\ job.status = "running" /\ job.live
    /\ ~HolderAlive
    /\ job' = [job EXCEPT !.live = FALSE]
    /\ UNCHANGED <<outbox, disp, msgs, faults, userRetries>>

LeaseRunsOutEarly ==
    /\ job.status = "running" /\ job.live
    /\ HolderAlive
    /\ Fault
    /\ job' = [job EXCEPT !.live = FALSE]
    /\ UNCHANGED <<outbox, disp, msgs, userRetries>>

----------------------------------------------------------------------------
(* The routes.                                                             *)

\* retry_failed_job: the outbox row is pending again, its attempt_count kept.
UserRetry ==
    /\ job.status = "failed"
    /\ userRetries < MaxUserRetries
    /\ userRetries' = userRetries + 1
    /\ job' = [job EXCEPT !.status = "queued"]
    /\ outbox' = [outbox EXCEPT !.status = "pending", !.ready = TRUE]
    /\ UNCHANGED <<disp, msgs, faults>>

\* cancel_queued_job: a pending row becomes failed, and so stays claimable.
UserCancel ==
    /\ job.status = "queued"
    /\ job' = [job EXCEPT !.status = "cancelled"]
    /\ outbox' = IF outbox.status = "pending" THEN [outbox EXCEPT !.status = "failed"] ELSE outbox
    /\ UNCHANGED <<disp, msgs, faults, userRetries>>

Dispatch(d) == Send(d) \/ MarkPublished(d) \/ MarkFailed(d)
Task(m) == Deliver(m) \/ FinishRun(m) \/ ReadStatus(m) \/ CountdownEnds(m)

Next ==
    \/ \E d \in Dispatchers :
         ClaimOutbox(d) \/ Dispatch(d) \/ SendFails(d) \/ DispatcherDies(d)
    \/ \E m \in BagToSet(msgs) :
         Task(m) \/ Renew(m) \/ TaskRaises(m) \/ WorkerDies(m)
    \/ OutboxDue \/ OutboxDueEarly \/ LeaseRunsOut \/ LeaseRunsOutEarly
    \/ UserRetry \/ UserCancel

\* Beat runs every ten seconds and a dispatch or a task, once begun, goes on
\* unless it dies; the broker delivers; clocks advance.  Faults and users owe
\* nothing.
Fairness ==
    /\ \A d \in Dispatchers : WF_vars(ClaimOutbox(d)) /\ WF_vars(Dispatch(d))
    /\ WF_vars(\E m \in BagToSet(msgs) : Task(m))
    /\ WF_vars(OutboxDue) /\ WF_vars(LeaseRunsOut)

Spec == Init /\ [][Next]_vars /\ Fairness

----------------------------------------------------------------------------
(* Properties.                                                             *)

InFlight == job.status \in {"queued", "running"}

\* A job that is neither settled nor cancelled is never forgotten: its outbox
\* row is still to be sent, or some message will come back to it.
InFlightJobHasCarrier ==
    InFlight => \/ outbox.status # "published"
                \/ msgs # EmptyBag

\* Duplicated, delayed and retried messages do no harm: the delivery or the end
\* of a task changes nothing about a job that is settled or cancelled.
LateMessageHarmless ==
    [][msgs' # msgs /\ ~InFlight => UNCHANGED job]_vars

\* Every job is eventually processed to an end, or cancelled: no dispatcher,
\* worker or broker failure within the budget leaves it queued or running.
InFlightJobSettles == InFlight ~> ~InFlight
============================================================================
