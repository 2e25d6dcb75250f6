---------------------------- MODULE AuditProgress ----------------------------
(***************************************************************************)
(* The progress of an engagement as the API and the chat show it: work     *)
(* packages, phases, the overall status and the next actions.  It is       *)
(* projected from the state the release gate is computed from, by rules of *)
(* its own, so that the two could disagree.                                *)
(*                                                                         *)
(* Abstractions.  The projection is a function of one state: the reads of  *)
(* get_audit_progress are three transactions, and what changes between     *)
(* them is shown half.  The packages of planning follow the rules of the   *)
(* packages of fieldwork, and one package stands for all of these.  A      *)
(* package has one procedure, and one category of material stands for the  *)
(* required and the starting ones.  ReleaseGate has the handlers in full;  *)
(* here an edit is its effect on what is shown.                            *)
(***************************************************************************)
EXTENDS Naturals

VARIABLES
    master,        \* acceptance, independence and master data of the profile;
                   \* "pending": acceptance or independence not confirmed
    procedure,     \* status of the procedure of every package
    material,      \* coverage of the required material
    letter,        \* the confirmation of the fieldwork package
    approvals,     \* levels of review approved
    openFinding,   \* a finding is open
    policy,        \* a binding is frozen and all procedures use it
    stand          \* audit_engagement.status, after issuance

pvars == <<master, procedure, material, letter, approvals, openFinding, policy, stand>>

PackageCodes == {"acceptance", "fieldwork", "completion"}
ProgramStatuses == {"not_started", "active", "evidence_ready", "terminal"}
ReviewTotal == 3

\* "renewal": all levels approved, one of them before the level beneath it
ApprovalStates == [none |-> 0, some |-> 1, renewal |-> ReviewTotal, all |-> ReviewTotal]

\* What is shown is projected from statuses the tables allow.
ProgressTypeOK ==
    /\ master \in {"pending", "incomplete", "complete"}
    /\ procedure \in [PackageCodes -> ProgramStatuses]
    /\ material \in {"missing", "failed", "ready"}
    /\ letter \in {"planned", "sent", "closed"}
    /\ approvals \in DOMAIN ApprovalStates
    /\ openFinding \in BOOLEAN /\ policy \in BOOLEAN
    /\ stand \in {"open", "issued", "archived"}

ProgressInit ==
    /\ master = "pending" /\ procedure = [p \in PackageCodes |-> "not_started"]
    /\ material = "missing" /\ letter = "closed" /\ approvals = "none"
    /\ openFinding = FALSE /\ policy = FALSE /\ stand = "open"

ProfileReady == master \in {"incomplete", "complete"}
ApprovedLevels == ApprovalStates[approvals]

----------------------------------------------------------------------------
(* The gate, as build_release_gate computes it.                            *)

GateBlockers ==
    {b \in {"profile", "program", "materials", "review", "renewal", "policy", "finding",
            "confirmation"} :
        \/ b = "profile" /\ master # "complete"
        \/ b = "program" /\ \E p \in PackageCodes : procedure[p] # "terminal"
        \/ b = "materials" /\ material # "ready"
        \/ b = "review" /\ ApprovedLevels < ReviewTotal
        \/ b = "renewal" /\ approvals = "renewal"
        \/ b = "policy" /\ ~policy
        \/ b = "finding" /\ openFinding
        \/ b = "confirmation" /\ letter # "closed"}
GateReady == GateBlockers = {}

----------------------------------------------------------------------------
(* The projection.                                                         *)

OpenLetter(p) == p = "fieldwork" /\ letter # "closed"

\* _package_status, in the order of its returns
PackageStatusGiven(p, fieldworkDone) ==
    IF \/ p # "acceptance" /\ ~ProfileReady
       \/ p = "completion" /\ ~fieldworkDone /\ procedure[p] = "not_started" THEN "blocked"
    ELSE IF procedure[p] = "terminal" /\ ~OpenLetter(p) THEN "completed"
    ELSE IF OpenLetter(p) /\ letter = "sent" THEN "waiting_external"
    ELSE IF procedure[p] = "evidence_ready" THEN "ready_for_review"
    ELSE IF procedure[p] \in {"active", "terminal"} THEN "in_progress"
    ELSE IF p = "acceptance" THEN IF ProfileReady THEN "in_progress" ELSE "ready"
    ELSE IF material # "ready" THEN "blocked" ELSE "ready"

FieldworkDone == PackageStatusGiven("fieldwork", FALSE) = "completed"
PackageStatus(p) == PackageStatusGiven(p, FieldworkDone)

\* Phases look at the procedures alone; each asks for the one before it.
ProgramPhase(p, prerequisite) ==
    IF p = "acceptance" /\ ~ProfileReady
    THEN IF procedure[p] = "not_started" THEN "blocked" ELSE "in_progress"
    ELSE IF procedure[p] = "terminal" THEN "completed"
    ELSE IF procedure[p] # "not_started" THEN "in_progress"
    ELSE IF prerequisite THEN "ready" ELSE "blocked"
AcceptancePhase == ProgramPhase("acceptance", TRUE)
FieldworkPhase == ProgramPhase("fieldwork", AcceptancePhase = "completed")
CompletionPhase == ProgramPhase("completion", FieldworkPhase = "completed")

EveryLevelPlus(levels) == levels > ReviewTotal
EveryLevel(levels) == levels >= ReviewTotal
ReviewPhase ==
    IF EveryLevel(ApprovedLevels) THEN "completed"
    ELSE IF ApprovedLevels > 0 THEN "in_progress"
    ELSE IF CompletionPhase = "completed" THEN "ready" ELSE "blocked"

IssuancePhase ==
    CASE stand = "archived" -> "completed"
      [] stand = "issued" -> "in_progress"
      [] OTHER -> IF GateReady THEN "ready" ELSE "blocked"

Phases == <<AcceptancePhase, FieldworkPhase, CompletionPhase, ReviewPhase, IssuancePhase>>
\* The first phase not completed, or one past the last.
CurrentPhase ==
    CHOOSE n \in 1..6 :
        /\ n = 6 \/ Phases[n] # "completed"
        /\ \A m \in 1..(n - 1) : Phases[m] = "completed"

\* What the view proposes for a package in each of its statuses.
PackageActions ==
    {p \in PackageCodes :
        \/ PackageStatus(p) \notin {"blocked", "completed"}
        \/ PackageStatus(p) = "blocked" /\ ProfileReady}

NextActions ==
    {a \in {"profile", "retry_failed", "package", "findings", "reviews", "issue", "archive"} :
        \/ a = "profile" /\ master # "complete"
        \/ a = "retry_failed" /\ material = "failed"
        \/ a = "package" /\ PackageActions # {}
        \/ a = "findings" /\ openFinding
        \/ a = "reviews" /\ ApprovedLevels < ReviewTotal /\ PackageStatus("completion") = "completed"
        \/ a = "issue" /\ GateReady /\ stand = "open"
        \/ a = "archive" /\ stand = "issued"}

----------------------------------------------------------------------------
(* What changes the state that is shown, before issuance and after it.     *)

EditRecord ==
    \/ /\ master' \in {"pending", "incomplete", "complete"} \ {master}
       /\ UNCHANGED <<procedure, material, letter, approvals, openFinding, policy>>
    \/ /\ \E p \in PackageCodes, st \in ProgramStatuses :
             st # procedure[p] /\ procedure' = [procedure EXCEPT ![p] = st]
       /\ UNCHANGED <<master, material, letter, approvals, openFinding, policy>>
    \/ /\ material' \in {"missing", "failed", "ready"} \ {material}
       /\ UNCHANGED <<master, procedure, letter, approvals, openFinding, policy>>
    \/ /\ letter' \in {"planned", "sent", "closed"} \ {letter}
       /\ UNCHANGED <<master, procedure, material, approvals, openFinding, policy>>
    \/ /\ approvals' \in DOMAIN ApprovalStates \ {approvals}
       /\ UNCHANGED <<master, procedure, material, letter, openFinding, policy>>
    \/ /\ openFinding' = ~openFinding
       /\ UNCHANGED <<master, procedure, material, letter, approvals, policy>>
    \/ /\ policy' = ~policy
       /\ UNCHANGED <<master, procedure, material, letter, approvals, openFinding>>

EditEngagement == EditRecord /\ UNCHANGED stand

IssueReport ==
    /\ GateReady /\ stand = "open" /\ stand' = "issued"
    /\ UNCHANGED <<master, procedure, material, letter, approvals, openFinding, policy>>

ArchiveEngagement ==
    /\ stand = "issued" /\ stand' = "archived"
    /\ UNCHANGED <<master, procedure, material, letter, approvals, openFinding, policy>>

ProgressNext == EditEngagement \/ IssueReport \/ ArchiveEngagement
ProgressSpec == ProgressInit /\ [][ProgressNext]_pvars

----------------------------------------------------------------------------
(* Properties.                                                             *)

\* The view agrees with the gate, which it does not consult for packages and
\* phases: an engagement the gate lets through shows every package and phase
\* before issuance as completed; and as long as the report is not issued the
\* view proposes something to do, unless all that is left are blockers it has
\* no action for: material of completed procedures, the order of the reviews
\* and the rules in force (_phase_statuses, _package_status, _next_actions).
ViewAgreesWithGate ==
    /\ GateReady =>
           /\ \A p \in PackageCodes : PackageStatus(p) = "completed"
           /\ CurrentPhase >= 5
    /\ NextActions = {} /\ stand = "open" =>
           GateBlockers # {} /\ GateBlockers \subseteq {"materials", "renewal", "policy"}
=============================================================================
