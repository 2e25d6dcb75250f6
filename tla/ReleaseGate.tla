---------------------------- MODULE ReleaseGate ----------------------------
(***************************************************************************)
(* The execution workflow of one audit engagement: its profile, programme, *)
(* reviews, policy bindings, findings and confirmations, the release gate  *)
(* computed from them, and the formal issuance and archive.                *)
(*                                                                         *)
(* Grain of atomicity.  An update locks the row it changes and is one      *)
(* action, except that of a programme item, which reads the latest binding *)
(* before it writes and is two.  A review decision inserts its row, and    *)
(* may then wait for the lock on the engagement row before it commits, so  *)
(* it is two actions.                                                      *)
(* The gate is computed by an issuer with one statement per table, each on *)
(* a snapshot of its own, so every statement is an action; the issuance    *)
(* looks for an earlier one and inserts in two more.  The replay of a case *)
(* workpaper that precedes every reading of the programme is one action,   *)
(* which waits until no update holds a row it writes.                      *)
(*                                                                         *)
(* Abstractions.  The baseline rows exist from the start.  The profile is  *)
(* clear or not.  A programme item is open, completed or not applicable;   *)
(* evidence and conclusion are checked when it is completed and the gate   *)
(* only looks at their shape, which no later write spoils.  All items need *)
(* the same material category.  A published release is never withdrawn, so *)
(* a binding is its number.  A reviewer, an issuer and an archivist have   *)
(* passed the checks of role, attestation, signer, hashes and retention.   *)
(***************************************************************************)
EXTENDS Naturals

CONSTANTS
    Items,          \* procedures of the programme
    PackItems,      \* those a complete case workpaper has evidence for
    Depth,          \* number of review levels; the last one is the partner's
    Findings, Confirmations,
    Staff,          \* requests that record reviews and profiles or read the programme
    Issuers,        \* requests that issue the report
    NoIssuer,
    MaxClock,       \* bound: review decisions
    MaxBinding,     \* bound: policy bindings
    MaxEdits        \* bound: requests that change the engagement

ASSUME GateAssumption ==
    /\ PackItems \subseteq Items
    /\ Depth \in Nat \ {0}
    /\ NoIssuer \notin Issuers
    /\ MaxClock \in Nat /\ MaxBinding \in Nat /\ MaxEdits \in Nat

VARIABLES
    status,         \* audit_engagement.status
    profile,        \* no profile blocker
    item,           \* rows of annual_audit_program_item
    update,         \* updates of those rows that hold their lock
    review,         \* latest committed decision of every level
    binding,        \* id of the latest frozen policy binding, 0: none
    finding, confirmation,
    files,          \* active parsed source files
    pack,           \* latest case workpaper import
    clock,          \* created_at (and id) of the latest review decision
    staff,          \* requests of the staff
    gate,           \* issue requests
    issuance,       \* signer of the annual_audit_issuance row
    archived,       \* an annual_audit_archive row exists
    edits,          \* bound variable: requests made so far
    seen            \* history: preconditions that held during each evaluation

work == <<profile, item, update, review, binding, finding, confirmation, files, pack>>
gvars == <<status, work, clock, staff, gate, issuance, archived, edits, seen>>

Levels == 1..Depth
Statuses == {"planning", "fieldwork", "review", "ready_for_signature", "issued", "archived"}
Done == {"completed", "not_applicable"}
Rows == {"absent", "open", "closed"}
Preconditions == {"profile", "done", "materials", "reviews", "policy", "bound",
                  "findings", "confirmations"}
Steps == <<"profile", "program", "reviews", "binding", "materials", "findings",
           "confirmations">>

Decision == [decision : {"pending", "approved", "returned"}, at : 0..MaxClock]
ItemRow == [status : Done \cup {"open"}, bound : 0..MaxBinding]
UpdateRow == [status : Done \cup {"open", "none"}, bound : 0..MaxBinding]
Request == [stage : {"idle", "inserted", "answering"}, level : Levels,
            decision : {"approved", "returned"}, at : 0..MaxClock]
Evaluation == [step : 0..8, item : [Items -> ItemRow],
               stage : {"idle", "reading", "passed", "unissued"}]

\* Every row and request has the shape its table or handler declares.
GateTypeOK ==
    /\ status \in Statuses /\ profile \in BOOLEAN
    /\ item \in [Items -> ItemRow] /\ update \in [Items -> UpdateRow]
    /\ review \in [Levels -> Decision]
    /\ binding \in 0..MaxBinding
    /\ finding \in [Findings -> Rows] /\ confirmation \in [Confirmations -> Rows]
    /\ files \subseteq {"ledger", "workbook"}
    /\ pack \in {"none", "partial", "complete"}
    /\ clock \in 0..MaxClock
    /\ staff \in [Staff -> Request]
    /\ gate \in [Issuers -> Evaluation]
    /\ issuance \in Issuers \cup {NoIssuer} /\ archived \in BOOLEAN
    /\ edits \in 0..MaxEdits
    /\ seen \in [Issuers -> SUBSET Preconditions]

Open == [status |-> "open", bound |-> 0]
NoUpdate == [status |-> "none", bound |-> 0]
IdleRequest == [stage |-> "idle", level |-> 1, decision |-> "returned", at |-> 0]
IdleGate == [stage |-> "idle", step |-> 0, item |-> [i \in Items |-> Open]]

GateInit ==
    /\ status = "planning" /\ profile = FALSE
    /\ item = [i \in Items |-> Open] /\ update = [i \in Items |-> NoUpdate]
    /\ review = [l \in Levels |-> [decision |-> "pending", at |-> 0]]
    /\ binding = 0
    /\ finding = [f \in Findings |-> "absent"]
    /\ confirmation = [c \in Confirmations |-> "absent"]
    /\ files = {} /\ pack = "none" /\ clock = 0
    /\ staff = [s \in Staff |-> IdleRequest]
    /\ gate = [i \in Issuers |-> IdleGate]
    /\ issuance = NoIssuer /\ archived = FALSE /\ edits = 0
    /\ seen = [i \in Issuers |-> {}]

----------------------------------------------------------------------------
(* The blockers of the gate, each a formula that says there is none.       *)

Uploaded == "ledger" \in files \/ pack # "none"

\* references to evidence are valid while they point at active files
EvidenceOwned == files # {}

ProfileClear == profile

ItemsDone(row) == \A i \in Items : row[i].status \in Done
NeedsMaterial(row) == \E i \in Items : row[i].status = "completed"
ItemsBound(row) == \A i \in Items : row[i].status \in Done => row[i].bound = binding

\* every level approved, none before the decision of the level beneath it
ChainApproved ==
    \A l \in Levels :
        /\ review[l].decision = "approved"
        /\ l > 1 => review[l - 1].at <= review[l].at

PolicyBound == binding # 0
FindingsClear == \A f \in Findings : finding[f] # "open"
ConfirmationsClear == \A c \in Confirmations : confirmation[c] # "open"

\* The preconditions of issuance that hold in this state.
Holding ==
    {p \in Preconditions :
        \/ p = "profile" /\ ProfileClear
        \/ p = "done" /\ ItemsDone(item)
        \/ p = "materials" /\ (NeedsMaterial(item) => Uploaded)
        \/ p = "reviews" /\ ChainApproved
        \/ p = "policy" /\ PolicyBound
        \/ p = "bound" /\ ItemsBound(item)
        \/ p = "findings" /\ FindingsClear
        \/ p = "confirmations" /\ ConfirmationsClear}

\* Follows every action: an evaluation under way has seen what holds now.
Watch == seen' = [i \in Issuers |-> IF gate'[i].stage = "idle" THEN {}
                                    ELSE seen[i] \cup Holding']

----------------------------------------------------------------------------
(* Work on the engagement.                                                 *)

\* No update under way holds the lock of one of these rows.
Unlocked(rows) == \A i \in rows : update[i].status = "none"

\* The rows a replay of the case workpaper writes.
Replaying == IF pack = "complete" /\ "workbook" \in files THEN PackItems ELSE {}

Replayed ==
    [i \in Items |->
        IF i \in Replaying
        THEN [status |-> "completed",
              bound |-> IF binding = 0 THEN item[i].bound ELSE binding]
        ELSE item[i]]

\* Reading the programme, or the trailing part of a request that does.
ReadExecution(s) ==
    /\ staff[s].stage \in {"idle", "answering"}
    /\ Unlocked(Replaying)
    /\ item' = Replayed
    /\ staff' = [staff EXCEPT ![s] = IdleRequest]
    /\ UNCHANGED <<status, profile, review, binding, finding, confirmation,
                   files, pack, update, clock, gate, issuance, archived>>

UpdateProfile(s, clear) ==
    /\ staff[s].stage = "idle"
    /\ profile' = clear
    /\ staff' = [staff EXCEPT ![s].stage = "answering"]
    /\ UNCHANGED <<status, item, review, binding, finding, confirmation, files,
                   pack, update, clock, gate, issuance, archived>>

\* An update of a programme item holds the lock of its row: it checks what a
\* completion needs and reads the binding, then writes the row.
BeginUpdateItem(i, st) ==
    /\ Unlocked({i})
    /\ st = "completed" => Uploaded /\ EvidenceOwned
    /\ update' = [update EXCEPT ![i] = [status |-> st, bound |-> binding]]
    /\ UNCHANGED <<status, profile, item, review, binding, finding, confirmation,
                   files, pack, clock, staff, gate, issuance, archived>>

EndUpdateItem(i) ==
    /\ ~Unlocked({i})
    /\ item' = [item EXCEPT ![i] = update[i]]
    /\ update' = [update EXCEPT ![i] = NoUpdate]
    /\ status' = IF status = "planning" THEN "fieldwork" ELSE status
    /\ UNCHANGED <<profile, review, binding, finding, confirmation, files, pack,
                   clock, staff, gate, issuance, archived>>

InsertReview(s, l, decision) ==
    /\ staff[s].stage = "idle"
    /\ clock < MaxClock
    /\ l > 1 => review[l - 1].decision = "approved"
    /\ clock' = clock + 1
    /\ staff' = [staff EXCEPT ![s] = [stage |-> "inserted", level |-> l,
                                      decision |-> decision, at |-> clock']]
    /\ UNCHANGED <<status, work, gate, issuance, archived>>

\* The commit shows the decision; a later one of its level stays the latest.
CommitReview(s) ==
    /\ staff[s].stage = "inserted"
    /\ LET r == staff[s] IN
        /\ review' = IF review[r.level].at < r.at
                     THEN [review EXCEPT ![r.level] = [decision |-> r.decision, at |-> r.at]]
                     ELSE review
        /\ status' = IF r.decision = "approved" /\ r.level = Depth
                     THEN "ready_for_signature" ELSE "review"
    /\ staff' = [staff EXCEPT ![s].stage = "answering"]
    /\ UNCHANGED <<profile, item, binding, finding, confirmation, files, pack,
                   update, clock, gate, issuance, archived>>

FreezeBinding ==
    /\ binding < MaxBinding
    /\ binding' = binding + 1
    /\ UNCHANGED <<status, profile, item, review, finding, confirmation, files,
                   pack, update, clock, staff, gate, issuance, archived>>

\* An analysis run inserts its findings as open ones.
RaiseFinding(f) ==
    /\ finding[f] = "absent"
    /\ finding' = [finding EXCEPT ![f] = "open"]
    /\ UNCHANGED <<status, profile, item, review, binding, confirmation, files,
                   pack, update, clock, staff, gate, issuance, archived>>

ResolveFinding(f, st) ==
    /\ finding[f] # "absent"
    /\ st = "closed" => EvidenceOwned
    /\ finding' = [finding EXCEPT ![f] = st]
    /\ UNCHANGED <<status, profile, item, review, binding, confirmation, files,
                   pack, update, clock, staff, gate, issuance, archived>>

UpsertConfirmation(c, st) ==
    /\ confirmation' = [confirmation EXCEPT ![c] = st]
    /\ UNCHANGED <<status, profile, item, review, binding, finding, files, pack,
                   update, clock, staff, gate, issuance, archived>>

ChangeFiles ==
    /\ files' \in SUBSET {"ledger", "workbook"}
    /\ "workbook" \in files' => pack # "none"
    /\ UNCHANGED <<status, profile, item, review, binding, finding, confirmation,
                   pack, update, clock, staff, gate, issuance, archived>>

ImportWorkpaper(kind) ==
    /\ pack' = kind
    /\ files' = files \cup {"workbook"}
    /\ UNCHANGED <<status, profile, item, review, binding, finding, confirmation,
                   update, clock, staff, gate, issuance, archived>>

----------------------------------------------------------------------------
(* Evaluation of the gate, issuance and archive.                           *)

StartGate(i) ==
    /\ gate[i].stage = "idle"
    /\ Unlocked(Replaying)
    /\ item' = Replayed
    /\ gate' = [gate EXCEPT ![i] = [IdleGate EXCEPT !.stage = "reading", !.step = 1]]
    /\ UNCHANGED <<status, profile, review, binding, finding, confirmation, files,
                   pack, update, clock, staff, issuance, archived>>

\* Mutant: the gate forgets that items must use the current binding.
StepClearUnbound(step, rows) ==
    \/ step = "profile" /\ ProfileClear
    \/ step = "program" /\ ItemsDone(item)
    \/ step = "reviews" /\ ChainApproved
    \/ step = "binding" /\ PolicyBound
    \/ step = "materials" /\ (NeedsMaterial(rows) => Uploaded)
    \/ step = "findings" /\ FindingsClear
    \/ step = "confirmations" /\ ConfirmationsClear

\* What the statement of this step finds clear, given the programme read before.
StepClear(step, rows) ==
    \/ step = "profile" /\ ProfileClear
    \/ step = "program" /\ ItemsDone(item)
    \/ step = "reviews" /\ ChainApproved
    \/ step = "binding" /\ PolicyBound /\ ItemsBound(rows)
    \/ step = "materials" /\ (NeedsMaterial(rows) => Uploaded)
    \/ step = "findings" /\ FindingsClear
    \/ step = "confirmations" /\ ConfirmationsClear

\* A blocker decides the evaluation: the statements that remain only collect
\* more of them.  The recorded evaluation then refuses the issuance.
ReadStep(i) ==
    LET g == gate[i]
        rows == IF Steps[g.step] = "program" THEN item ELSE g.item
    IN
    /\ g.stage = "reading" /\ g.step \in DOMAIN Steps
    /\ gate' = [gate EXCEPT ![i] =
           IF StepClear(Steps[g.step], g.item)
           THEN [g EXCEPT !.step = g.step + 1, !.item = rows]
           ELSE IdleGate]
    /\ UNCHANGED <<status, work, clock, staff, issuance, archived>>

RecordGate(i) ==
    /\ gate[i].stage = "reading" /\ gate[i].step \notin DOMAIN Steps
    /\ gate' = [gate EXCEPT ![i] = [IdleGate EXCEPT !.stage = "passed"]]
    /\ UNCHANGED <<status, work, clock, staff, issuance, archived>>

FindNoIssuance(i) ==
    /\ gate[i].stage = "passed"
    /\ gate' = [gate EXCEPT ![i] = IF issuance # NoIssuer THEN IdleGate
                                   ELSE [IdleGate EXCEPT !.stage = "unissued"]]
    /\ UNCHANGED <<status, work, clock, staff, issuance, archived>>

\* engagement_id is unique among issuances: a second insert fails
Unissued == issuance = NoIssuer

Issue(i) ==
    /\ gate[i].stage = "unissued"
    /\ IF Unissued THEN issuance' = i /\ status' = "issued"
                   ELSE UNCHANGED <<issuance, status>>
    /\ gate' = [gate EXCEPT ![i] = IdleGate]
    /\ UNCHANGED <<work, clock, staff, archived>>

Archive ==
    /\ issuance # NoIssuer /\ ~archived
    /\ archived' = TRUE /\ status' = "archived"
    /\ UNCHANGED <<work, clock, staff, gate, issuance>>

Issuing ==
    \/ \E i \in Issuers : ReadStep(i) \/ RecordGate(i)
                          \/ FindNoIssuance(i) \/ Issue(i)
    \/ Archive

Edit ==
    \/ \E s \in Staff :
        \/ \E clear \in BOOLEAN : UpdateProfile(s, clear)
        \/ \E l \in Levels, d \in {"approved", "returned"} : InsertReview(s, l, d)
    \/ \E i \in Items, st \in Done \cup {"open"} : BeginUpdateItem(i, st)
    \/ FreezeBinding
    \/ \E f \in Findings : RaiseFinding(f) \/ \E st \in {"open", "closed"} : ResolveFinding(f, st)
    \/ \E c \in Confirmations, st \in {"open", "closed"} : UpsertConfirmation(c, st)
    \/ ChangeFiles
    \/ \E kind \in {"partial", "complete"} : ImportWorkpaper(kind)
    \/ \E i \in Issuers : StartGate(i)

GateNext ==
    /\ \/ edits < MaxEdits /\ Edit /\ edits' = edits + 1
       \/ (Issuing \/ (\E s \in Staff : ReadExecution(s) \/ CommitReview(s))
                  \/ \E i \in Items : EndUpdateItem(i)) /\ edits' = edits
    /\ Watch

GateSpec == GateInit /\ [][GateNext]_gvars

----------------------------------------------------------------------------
(* Properties.                                                             *)

\* The gate reads its tables one after another while others write to them.
\* Still, of everything a passed gate found clear, nothing was blocked all
\* along: each precondition of issuance held at some moment since the
\* evaluation began (build_release_gate).
PassedGateSawAll ==
    \A i \in Issuers : gate[i].stage \in {"passed", "unissued"} => seen[i] = Preconditions
=============================================================================
