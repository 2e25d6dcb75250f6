--------------------------- MODULE WorkflowProofs ---------------------------
(***************************************************************************)
(* Proofs about the execution workflow and what surrounds it: the release  *)
(* gate, the policies and rules it checks, the progress view over it, the  *)
(* report versions it is about, and the engagement facts its attachments   *)
(* are rendered from.  The components share no state here; each part has   *)
(* its own invariant and theorems, for any values of its constants.        *)
(***************************************************************************)
EXTENDS ReleaseGate, PolicyKnowledge, AuditProgress, ReportDrafts, EngagementFacts,
        FiniteSetTheorems, WellFoundedInduction, TLAPS

-----------------------------------------------------------------------------
(***************************************************************************)
(* The release gate, for any programme, any number of review levels and    *)
(* any number of issuers and members of staff.                             *)
(*                                                                         *)
(* The gate reads its tables one after another.  The inductive invariant   *)
(* says what an evaluation that has come to its n-th statement must have   *)
(* seen; the one difficult statement is the second, which reads a          *)
(* programme that only the fourth compares with the policy binding.        *)
(***************************************************************************)

\* No row of the programme is bound to a binding that is yet to be frozen.
BoundsKnown(row) == \A x \in Items : row[x].bound <= binding

\* What the programme read at the second statement tells the later ones: if
\* its items are not all bound to the binding of that moment, one of them
\* stays behind for ever, as bindings only grow.
ProgramSeen(i) ==
    /\ "done" \in seen[i]
    /\ BoundsKnown(gate[i].item)
    /\ \/ "bound" \in seen[i]
       \/ \E x \in Items : gate[i].item[x].status \in Done /\ gate[i].item[x].bound < binding
    /\ NeedsMaterial(gate[i].item) \/ "materials" \in seen[i]

\* An evaluation has seen a precondition for each statement behind it.
Evaluated(i) ==
    /\ gate[i].stage = "reading" =>
        /\ gate[i].step \in 1..8
        /\ gate[i].step > 1 => "profile" \in seen[i]
        /\ gate[i].step > 2 => ProgramSeen(i)
        /\ gate[i].step > 3 => "reviews" \in seen[i]
        /\ gate[i].step > 4 => {"policy", "bound"} \subseteq seen[i]
        /\ gate[i].step > 5 => "materials" \in seen[i]
        /\ gate[i].step > 6 => "findings" \in seen[i]
        /\ gate[i].step > 7 => "confirmations" \in seen[i]
    /\ gate[i].stage \in {"passed", "unissued"} => seen[i] = Preconditions

GateInv ==
    /\ GateTypeOK
    /\ BoundsKnown(item) /\ BoundsKnown(update)
    /\ \A i \in Issuers : Evaluated(i)

----------------------------------------------------------------------------
(* Splitting a step.                                                       *)

StaffStep(s) ==
    \/ ReadExecution(s) \/ CommitReview(s)
    \/ \E clear \in BOOLEAN : UpdateProfile(s, clear)
    \/ \E l \in Levels, d \in {"approved", "returned"} : InsertReview(s, l, d)

IssuerStep(i) ==
    StartGate(i) \/ ReadStep(i) \/ RecordGate(i) \/ FindNoIssuance(i) \/ Issue(i)

EngagementStep ==
    \/ \E i \in Items, st \in Done \cup {"open"} : BeginUpdateItem(i, st)
    \/ \E i \in Items : EndUpdateItem(i)
    \/ FreezeBinding
    \/ \E f \in Findings : RaiseFinding(f) \/ \E st \in {"open", "closed"} : ResolveFinding(f, st)
    \/ \E c \in Confirmations, st \in {"open", "closed"} : UpsertConfirmation(c, st)
    \/ ChangeFiles
    \/ \E kind \in {"partial", "complete"} : ImportWorkpaper(kind)
    \/ Archive

LEMMA GateStepCases ==
    ASSUME GateNext
    PROVE  /\ Watch /\ ((edits < MaxEdits /\ edits' = edits + 1) \/ edits' = edits)
           /\ \/ \E s \in Staff : StaffStep(s)
              \/ \E i \in Issuers : IssuerStep(i)
              \/ EngagementStep
BY DEF GateNext, Edit, Issuing, StaffStep, IssuerStep, EngagementStep

\* Replaying a case workpaper gives rows of the programme, none of them bound
\* to a binding yet to come.
LEMMA ReplayedRows ==
    ASSUME GateTypeOK
    PROVE  /\ Replayed \in [Items -> ItemRow]
           /\ BoundsKnown(item) => BoundsKnown(Replayed)
<1>1. ASSUME NEW x \in Items
      PROVE  Replayed[x] \in ItemRow /\ (item[x].bound <= binding => Replayed[x].bound <= binding)
  <2>1. item[x] \in ItemRow /\ binding \in 0..MaxBinding
    BY DEF GateTypeOK
  <2> QED
    BY <2>1, GateAssumption DEF Replayed, Replaying, ItemRow, Done
<1>2. Replayed = [x \in Items |-> Replayed[x]]
  BY DEF Replayed
<1> QED
  BY <1>1, <1>2 DEF BoundsKnown

----------------------------------------------------------------------------
(* Types.                                                                  *)

LEMMA IdleTypes ==
    /\ IdleGate \in Evaluation /\ IdleRequest \in Request
    /\ Open \in ItemRow /\ NoUpdate \in UpdateRow
BY GateAssumption DEF IdleGate, IdleRequest, Open, NoUpdate, Evaluation, Request, ItemRow,
                      UpdateRow, Done, Levels

LEMMA EvaluationFields ==
    ASSUME NEW g \in Evaluation
    PROVE  /\ \A n \in 0..8, its \in [Items -> ItemRow] :
                [g EXCEPT !.step = n, !.item = its] \in Evaluation
           /\ \A n \in 0..8, st \in {"idle", "reading", "passed", "unissued"} :
                [g EXCEPT !.stage = st, !.step = n] \in Evaluation
           /\ \A st \in {"idle", "reading", "passed", "unissued"} :
                [g EXCEPT !.stage = st] \in Evaluation
BY DEF Evaluation

LEMMA WatchType ==
    ASSUME GateTypeOK, Watch
    PROVE  /\ seen' \in [Issuers -> SUBSET Preconditions]
           /\ \A i \in Issuers : gate'[i].stage # "idle" => seen'[i] = seen[i] \cup Holding'
<1>1. Holding' \subseteq Preconditions
  BY DEF Holding
<1>2. seen \in [Issuers -> SUBSET Preconditions]
  BY DEF GateTypeOK
<1> QED
  BY <1>1, <1>2 DEF Watch

LEMMA GateTypeInit == GateInit => GateTypeOK
<1> SUFFICES ASSUME GateInit PROVE GateTypeOK
  OBVIOUS
<1>1. /\ status \in Statuses /\ profile \in BOOLEAN /\ binding \in 0..MaxBinding
      /\ clock \in 0..MaxClock /\ edits \in 0..MaxEdits
      /\ files \subseteq {"ledger", "workbook"} /\ pack \in {"none", "partial", "complete"}
      /\ issuance \in Issuers \cup {NoIssuer} /\ archived \in BOOLEAN
  <2>1. /\ status = "planning" /\ profile = FALSE /\ binding = 0 /\ clock = 0 /\ edits = 0
        /\ files = {} /\ pack = "none" /\ issuance = NoIssuer /\ archived = FALSE
    BY DEF GateInit
  <2>2. /\ binding \in 0..MaxBinding /\ clock \in 0..MaxClock /\ edits \in 0..MaxEdits
    BY <2>1, GateAssumption
  <2> QED
    BY <2>1, <2>2, Zenon DEF Statuses
<1>2. /\ item \in [Items -> ItemRow] /\ update \in [Items -> UpdateRow]
      /\ staff \in [Staff -> Request] /\ gate \in [Issuers -> Evaluation]
  BY IdleTypes DEF GateInit
<1>3. review \in [Levels -> Decision]
  BY GateAssumption DEF GateInit, Decision
<1>4. /\ finding \in [Findings -> Rows] /\ confirmation \in [Confirmations -> Rows]
      /\ seen \in [Issuers -> SUBSET Preconditions]
  BY DEF GateInit, Rows
<1> QED
  BY <1>1, <1>2, <1>3, <1>4 DEF GateTypeOK

LEMMA StaffTypes ==
    ASSUME GateTypeOK, NEW s \in Staff, StaffStep(s)
    PROVE  /\ status' \in Statuses /\ profile' \in BOOLEAN
           /\ item' \in [Items -> ItemRow] /\ review' \in [Levels -> Decision]
           /\ clock' \in 0..MaxClock /\ staff' \in [Staff -> Request]
           /\ UNCHANGED <<binding, update, finding, confirmation, files, pack, gate, issuance,
                          archived>>
<1>1. CASE ReadExecution(s)
  BY <1>1, ReplayedRows, IdleTypes DEF GateTypeOK, ReadExecution
<1>2. CASE CommitReview(s)
  <2>1. staff[s] \in Request /\ review \in [Levels -> Decision]
    BY DEF GateTypeOK
  <2>2. [staff[s] EXCEPT !.stage = "answering"] \in Request
    BY <2>1 DEF Request
  <2>3. [decision |-> staff[s].decision, at |-> staff[s].at] \in Decision
    BY <2>1 DEF Request, Decision
  <2>4. review' \in [Levels -> Decision]
    BY <1>2, <2>1, <2>3 DEF CommitReview
  <2>5. status' \in Statuses
    BY <1>2 DEF CommitReview, Statuses
  <2> QED
    BY <1>2, <2>2, <2>4, <2>5 DEF CommitReview, GateTypeOK
<1>3. ASSUME NEW clear \in BOOLEAN, UpdateProfile(s, clear)
      PROVE  profile' \in BOOLEAN /\ staff' \in [Staff -> Request]
  <2>1. [staff[s] EXCEPT !.stage = "answering"] \in Request
    BY DEF GateTypeOK, Request
  <2> QED
    BY <1>3, <2>1 DEF GateTypeOK, UpdateProfile
<1>4. ASSUME NEW l \in Levels, NEW d \in {"approved", "returned"}, InsertReview(s, l, d)
      PROVE  staff' \in [Staff -> Request] /\ clock' \in 0..MaxClock
  <2>1. clock' \in 0..MaxClock
    BY <1>4, GateAssumption DEF GateTypeOK, InsertReview
  <2>2. [stage |-> "inserted", level |-> l, decision |-> d, at |-> clock'] \in Request
    BY <2>1 DEF Request
  <2> QED
    BY <1>4, <2>1, <2>2 DEF GateTypeOK, InsertReview
<1> QED
  BY <1>1, <1>2, <1>3, <1>4
     DEF StaffStep, UpdateProfile, InsertReview, ReadExecution, CommitReview, GateTypeOK, work

LEMMA IssuerTypes ==
    ASSUME GateTypeOK, NEW i \in Issuers, IssuerStep(i)
    PROVE  /\ status' \in Statuses /\ item' \in [Items -> ItemRow]
           /\ gate' \in [Issuers -> Evaluation] /\ issuance' \in Issuers \cup {NoIssuer}
           /\ UNCHANGED <<profile, update, review, binding, finding, confirmation, files, pack,
                          clock, staff, archived>>
<1>1. CASE StartGate(i)
  <2>1. [IdleGate EXCEPT !.stage = "reading", !.step = 1] \in Evaluation
    <3>1. 1 \in 0..8
      OBVIOUS
    <3> QED
      BY <3>1, IdleTypes, EvaluationFields, Zenon
  <2> QED
    BY <1>1, <2>1, ReplayedRows DEF GateTypeOK, StartGate
<1>2. CASE ReadStep(i)
  <2>1. gate[i] \in Evaluation /\ item \in [Items -> ItemRow]
    BY DEF GateTypeOK
  <2>2. gate[i].step \in 1..7
    BY <1>2 DEF ReadStep, Steps
  <2>3. [gate[i] EXCEPT !.step = gate[i].step + 1,
                        !.item = IF Steps[gate[i].step] = "program" THEN item ELSE gate[i].item]
           \in Evaluation
    <3>1. gate[i].step + 1 \in 0..8 /\ gate[i].item \in [Items -> ItemRow]
      BY <2>1, <2>2 DEF Evaluation
    <3> QED
      BY <2>1, <3>1, EvaluationFields
  <2> QED
    BY <1>2, <2>3, IdleTypes DEF GateTypeOK, ReadStep, work
<1>3. CASE RecordGate(i) \/ FindNoIssuance(i)
  <2>1. \A st \in {"passed", "unissued"} : [IdleGate EXCEPT !.stage = st] \in Evaluation
    BY IdleTypes, EvaluationFields
  <2> QED
    BY <1>3, <2>1, IdleTypes DEF GateTypeOK, RecordGate, FindNoIssuance, work
<1>4. CASE Issue(i)
  BY <1>4, IdleTypes DEF GateTypeOK, Issue, Statuses, work
<1> QED
  BY <1>1, <1>2, <1>3, <1>4 DEF IssuerStep

\* What a step that leaves rows alone preserves.
LEMMA Settled ==
    ASSUME GateTypeOK
    PROVE  /\ UNCHANGED <<item, binding>> =>
                /\ item' \in [Items -> ItemRow] /\ binding' \in 0..MaxBinding /\ binding <= binding'
                /\ BoundsKnown(item) => BoundsKnown(item)'
           /\ UNCHANGED <<update, binding>> =>
                /\ update' \in [Items -> UpdateRow]
                /\ BoundsKnown(update) => BoundsKnown(update)'
           /\ UNCHANGED status => status' \in Statuses
           /\ UNCHANGED finding => finding' \in [Findings -> Rows]
           /\ UNCHANGED confirmation => confirmation' \in [Confirmations -> Rows]
           /\ UNCHANGED files => files' \subseteq {"ledger", "workbook"}
           /\ UNCHANGED pack => pack' \in {"none", "partial", "complete"}
           /\ UNCHANGED archived => archived' \in BOOLEAN
<1>1. binding <= binding
  BY GateAssumption DEF GateTypeOK
<1> QED
  BY <1>1, Zenon DEF GateTypeOK, BoundsKnown

LEMMA EngagementTypes ==
    ASSUME GateTypeOK, EngagementStep
    PROVE  /\ status' \in Statuses
           /\ item' \in [Items -> ItemRow] /\ update' \in [Items -> UpdateRow]
           /\ binding' \in 0..MaxBinding /\ binding <= binding'
           /\ finding' \in [Findings -> Rows] /\ confirmation' \in [Confirmations -> Rows]
           /\ files' \subseteq {"ledger", "workbook"} /\ pack' \in {"none", "partial", "complete"}
           /\ archived' \in BOOLEAN
           /\ BoundsKnown(item) /\ BoundsKnown(update) => BoundsKnown(item)' /\ BoundsKnown(update)'
           /\ UNCHANGED <<profile, review, clock, staff, gate, issuance>>
<1>0. /\ binding \in 0..MaxBinding /\ item \in [Items -> ItemRow] /\ update \in [Items -> UpdateRow]
      /\ binding \in Nat /\ binding <= binding
  BY GateAssumption DEF GateTypeOK
<1>1. ASSUME NEW i \in Items, NEW st \in Done \cup {"open"}, BeginUpdateItem(i, st)
      PROVE  /\ UNCHANGED <<status, item, binding>> /\ update' \in [Items -> UpdateRow]
             /\ BoundsKnown(update) => BoundsKnown(update)'
  <2>1. [status |-> st, bound |-> binding] \in UpdateRow
    BY <1>0 DEF UpdateRow
  <2>2. update' = [update EXCEPT ![i] = [status |-> st, bound |-> binding]] /\ UNCHANGED <<status, item, binding>>
    BY <1>1 DEF BeginUpdateItem
  <2> QED
    BY <1>0, <2>1, <2>2 DEF BoundsKnown
<1>e. ASSUME NEW i \in Items, EndUpdateItem(i)
      PROVE  /\ status' \in Statuses /\ item' \in [Items -> ItemRow] /\ update' \in [Items -> UpdateRow]
             /\ BoundsKnown(item) /\ BoundsKnown(update) => BoundsKnown(item)' /\ BoundsKnown(update)'
  <2>1. update[i] \in ItemRow
    BY <1>0, <1>e DEF EndUpdateItem, Unlocked, UpdateRow, ItemRow
  <2>2. /\ item' = [item EXCEPT ![i] = update[i]] /\ update' = [update EXCEPT ![i] = NoUpdate]
        /\ UNCHANGED binding
    BY <1>e DEF EndUpdateItem
  <2>3. status' \in Statuses
    BY <1>e DEF EndUpdateItem, GateTypeOK, Statuses
  <2>4. NoUpdate \in UpdateRow /\ NoUpdate.bound <= binding
    BY <1>0, IdleTypes DEF NoUpdate
  <2>5. item' \in [Items -> ItemRow] /\ update' \in [Items -> UpdateRow]
    BY <1>0, <2>1, <2>2, <2>4
  <2>6. BoundsKnown(item) /\ BoundsKnown(update) => BoundsKnown(item)' /\ BoundsKnown(update)'
    BY <1>0, <2>2, <2>4 DEF BoundsKnown
  <2> QED
    BY <2>3, <2>5, <2>6
<1>2. CASE FreezeBinding
  <2>1. binding' = binding + 1 /\ binding < MaxBinding /\ UNCHANGED <<item, update>>
    BY <1>2 DEF FreezeBinding
  <2>2. \A x \in Items : item[x].bound \in 0..MaxBinding /\ update[x].bound \in 0..MaxBinding
    BY <1>0 DEF ItemRow, UpdateRow
  <2>3. BoundsKnown(item) /\ BoundsKnown(update) => BoundsKnown(item)' /\ BoundsKnown(update)'
    BY <1>0, <2>1, <2>2, GateAssumption DEF BoundsKnown
  <2> QED
    BY <1>0, <1>2, <2>1, <2>3, GateAssumption DEF GateTypeOK, FreezeBinding
<1>3. ASSUME NEW f \in Findings, NEW st \in {"open", "closed"},
             RaiseFinding(f) \/ ResolveFinding(f, st)
      PROVE  finding' \in [Findings -> Rows]
  BY <1>3 DEF GateTypeOK, RaiseFinding, ResolveFinding, Rows
<1>4. ASSUME NEW c \in Confirmations, NEW st \in {"open", "closed"}, UpsertConfirmation(c, st)
      PROVE  confirmation' \in [Confirmations -> Rows]
  BY <1>4 DEF GateTypeOK, UpsertConfirmation, Rows
<1>5. ASSUME NEW kind \in {"partial", "complete"}, ImportWorkpaper(kind)
      PROVE  files' \subseteq {"ledger", "workbook"} /\ pack' \in {"none", "partial", "complete"}
  BY <1>5 DEF GateTypeOK, ImportWorkpaper
<1>6. CASE \E f \in Findings : RaiseFinding(f) \/ \E st \in {"open", "closed"} : ResolveFinding(f, st)
  <2>1. UNCHANGED <<status, profile, item, update, review, binding, confirmation, files, pack,
                    clock, staff, gate, issuance, archived>>
    BY <1>6 DEF RaiseFinding, ResolveFinding
  <2> QED
    BY <1>3, <1>6, <2>1, Settled
<1>7. CASE \E c \in Confirmations, st \in {"open", "closed"} : UpsertConfirmation(c, st)
  <2>1. UNCHANGED <<status, profile, item, update, review, binding, finding, files, pack,
                    clock, staff, gate, issuance, archived>>
    BY <1>7 DEF UpsertConfirmation
  <2> QED
    BY <1>4, <1>7, <2>1, Settled
<1>8. CASE ChangeFiles
  <2>1. /\ files' \subseteq {"ledger", "workbook"}
        /\ UNCHANGED <<status, profile, item, update, review, binding, finding, confirmation,
                       pack, clock, staff, gate, issuance, archived>>
    BY <1>8 DEF ChangeFiles
  <2> QED
    BY <2>1, Settled
<1>9. CASE \E kind \in {"partial", "complete"} : ImportWorkpaper(kind)
  <2>1. UNCHANGED <<status, profile, item, update, review, binding, finding, confirmation,
                    clock, staff, gate, issuance, archived>>
    BY <1>9 DEF ImportWorkpaper
  <2> QED
    BY <1>5, <1>9, <2>1, Settled
<1>10. CASE Archive
  <2>1. /\ archived' = TRUE /\ status' = "archived"
        /\ UNCHANGED <<profile, item, update, review, binding, finding, confirmation, files,
                       pack, clock, staff, gate, issuance>>
    BY <1>10 DEF Archive, work
  <2> QED
    BY <2>1, Settled DEF Statuses
<1>11. CASE \/ \E i \in Items, st \in Done \cup {"open"} : BeginUpdateItem(i, st)
            \/ \E i \in Items : EndUpdateItem(i)
  <2>1. UNCHANGED <<profile, review, binding, finding, confirmation, files, pack, clock,
                    staff, gate, issuance, archived>>
    BY <1>11 DEF BeginUpdateItem, EndUpdateItem
  <2>2. binding' \in 0..MaxBinding /\ binding <= binding'
    BY <1>0, <2>1, GateAssumption
  <2> QED
    BY <1>1, <1>e, <1>11, <2>1, <2>2, Settled
<1> QED
  BY <1>2, <1>6, <1>7, <1>8, <1>9, <1>10, <1>11 DEF EngagementStep

LEMMA GateTypeStep == GateTypeOK /\ GateNext => GateTypeOK'
<1> SUFFICES ASSUME GateTypeOK, GateNext PROVE GateTypeOK'
  OBVIOUS
<1>1. seen' \in [Issuers -> SUBSET Preconditions]
  BY GateStepCases, WatchType
<1>2. edits' \in 0..MaxEdits
  BY GateStepCases, GateAssumption DEF GateTypeOK
<1>3. CASE \E s \in Staff : StaffStep(s)
  BY <1>1, <1>2, <1>3, StaffTypes DEF GateTypeOK
<1>4. CASE \E i \in Issuers : IssuerStep(i)
  BY <1>1, <1>2, <1>4, IssuerTypes DEF GateTypeOK
<1>5. CASE EngagementStep
  BY <1>1, <1>2, <1>5, EngagementTypes DEF GateTypeOK
<1> QED
  BY <1>3, <1>4, <1>5, GateStepCases

----------------------------------------------------------------------------
(* What an evaluation has seen.                                            *)

LEMMA SawHolding ==
    ASSUME Holding' = Holding
    PROVE  /\ ProfileClear => "profile" \in Holding'
           /\ ItemsDone(item) => "done" \in Holding'
           /\ (NeedsMaterial(item) => Uploaded) => "materials" \in Holding'
           /\ ChainApproved => "reviews" \in Holding'
           /\ PolicyBound => "policy" \in Holding'
           /\ ItemsBound(item) => "bound" \in Holding'
           /\ FindingsClear => "findings" \in Holding'
           /\ ConfirmationsClear => "confirmations" \in Holding'
BY DEF Holding, Preconditions

\* An evaluation that does not move keeps what it has seen: histories and
\* bindings only grow.
LEMMA RestingKept ==
    ASSUME GateTypeOK, GateTypeOK', Watch, binding <= binding',
           NEW i \in Issuers, gate'[i] = gate[i], Evaluated(i)
    PROVE  Evaluated(i)'
<1>1. gate[i].stage # "idle" => seen[i] \subseteq seen'[i] /\ seen'[i] \subseteq Preconditions
  BY WatchType DEF GateTypeOK
<1>2. /\ binding \in Nat /\ binding' \in Nat
      /\ \A x \in Items : gate[i].item[x].bound \in Nat
  BY GateAssumption DEF GateTypeOK, Evaluation, ItemRow
<1>3. gate[i].stage # "idle" /\ ProgramSeen(i) => ProgramSeen(i)'
  <2> SUFFICES ASSUME gate[i].stage # "idle", ProgramSeen(i) PROVE ProgramSeen(i)'
    OBVIOUS
  <2>1. BoundsKnown(gate[i].item)'
    BY <1>2 DEF ProgramSeen, BoundsKnown
  <2>2. \A x \in Items : gate[i].item[x].bound < binding => gate'[i].item[x].bound < binding'
    BY <1>2
  <2> QED
    BY <1>1, <2>1, <2>2 DEF ProgramSeen, NeedsMaterial
<1> QED
  BY <1>1, <1>3 DEF Evaluated

\* A statement that finds its table clear has seen the precondition it is
\* about; the programme's is settled by the two statements that look at it.
LEMMA ReadingKept ==
    ASSUME GateInv, GateTypeOK', Watch, NEW i \in Issuers, ReadStep(i)
    PROVE  Evaluated(i)'
<1> DEFINE g == gate[i]
           row == IF Steps[g.step] = "program" THEN item ELSE g.item
<1>1. /\ g.stage = "reading" /\ g.step \in 1..7 /\ g \in Evaluation
      /\ UNCHANGED <<work, clock, issuance>>
      /\ gate'[i] = IF StepClear(Steps[g.step], g.item)
                    THEN [g EXCEPT !.step = g.step + 1, !.item = row] ELSE IdleGate
  BY DEF ReadStep, Steps, GateInv, GateTypeOK
<1>2. CASE ~StepClear(Steps[g.step], g.item)
  BY <1>1, <1>2 DEF Evaluated, IdleGate
<1>3. CASE StepClear(Steps[g.step], g.item)
  <2>1. /\ gate'[i].stage = "reading" /\ gate'[i].step = g.step + 1 /\ gate'[i].item = row
    BY <1>1, <1>3 DEF Evaluation
  <2>2. Holding' = Holding /\ UNCHANGED <<item, binding>>
    BY <1>1 DEF work, Holding, ProfileClear, ItemsDone, NeedsMaterial, Uploaded, ChainApproved,
                PolicyBound, ItemsBound, FindingsClear, ConfirmationsClear
  <2>3. seen'[i] = seen[i] \cup Holding'
    BY <2>1, WatchType DEF GateInv
  <2>4. Evaluated(i)
    BY DEF GateInv
  <2>5. /\ Steps[1] = "profile" /\ Steps[2] = "program" /\ Steps[3] = "reviews"
        /\ Steps[4] = "binding" /\ Steps[5] = "materials" /\ Steps[6] = "findings"
        /\ Steps[7] = "confirmations"
    BY DEF Steps
  <2>6. g.step > 2 => ProgramSeen(i)'
    <3>1. g.step > 2 => row = g.item /\ ProgramSeen(i)
      BY <1>1, <2>4, <2>5 DEF Evaluated
    <3> QED
      BY <2>1, <2>2, <2>3, <3>1 DEF ProgramSeen, BoundsKnown, NeedsMaterial
  <2>7. g.step = 2 => ProgramSeen(i)'
    <3> SUFFICES ASSUME g.step = 2 PROVE ProgramSeen(i)'
      OBVIOUS
    <3>1. row = item /\ ItemsDone(item)
      BY <1>3, <2>5 DEF StepClear
    <3>2. BoundsKnown(item) /\ binding \in Nat /\ \A x \in Items : item[x].bound \in Nat
      BY GateAssumption DEF GateInv, GateTypeOK, ItemRow
    <3>3. ItemsBound(item) \/ \E x \in Items : item[x].status \in Done /\ item[x].bound < binding
      BY <3>2 DEF ItemsBound, BoundsKnown
    <3>4. "done" \in seen'[i] /\ (ItemsBound(item) => "bound" \in seen'[i])
          /\ (~NeedsMaterial(item) => "materials" \in seen'[i])
      BY <2>2, <2>3, <3>1, SawHolding
    <3> QED
      BY <2>1, <2>2, <3>1, <3>2, <3>3, <3>4 DEF ProgramSeen, BoundsKnown, NeedsMaterial
  <2>8. g.step = 4 => {"policy", "bound"} \subseteq seen'[i]
    <3> SUFFICES ASSUME g.step = 4 PROVE {"policy", "bound"} \subseteq seen'[i]
      OBVIOUS
    <3>1. ProgramSeen(i) /\ PolicyBound /\ ItemsBound(g.item)
      BY <1>1, <1>3, <2>4, <2>5 DEF Evaluated, StepClear
    <3>2. binding \in Nat
      BY GateAssumption DEF GateInv, GateTypeOK
    <3>3. "bound" \in seen[i]
      BY <3>1, <3>2 DEF ProgramSeen, ItemsBound
    <3> QED
      BY <2>2, <2>3, <3>1, <3>3, SawHolding
  <2>9. g.step = 5 => "materials" \in seen'[i]
    <3> SUFFICES ASSUME g.step = 5 PROVE "materials" \in seen'[i]
      OBVIOUS
    <3>1. ProgramSeen(i) /\ (NeedsMaterial(g.item) => Uploaded)
      BY <1>1, <1>3, <2>4, <2>5 DEF Evaluated, StepClear
    <3> QED
      BY <2>2, <2>3, <3>1, SawHolding DEF ProgramSeen
  <2>10. /\ g.step = 1 => "profile" \in seen'[i]
         /\ g.step = 3 => "reviews" \in seen'[i]
         /\ g.step = 6 => "findings" \in seen'[i]
         /\ g.step = 7 => "confirmations" \in seen'[i]
    BY <1>3, <2>2, <2>3, <2>5, SawHolding DEF StepClear
  <2> HIDE DEF g, row
  <2>11. /\ g.step > 1 => "profile" \in seen'[i]
         /\ g.step > 3 => "reviews" \in seen'[i]
         /\ g.step > 4 => {"policy", "bound"} \subseteq seen'[i]
         /\ g.step > 5 => "materials" \in seen'[i]
         /\ g.step > 6 => "findings" \in seen'[i]
    BY <1>1, <2>3, <2>4 DEF Evaluated, g
  <2> QED
    BY <1>1, <2>1, <2>6, <2>7, <2>8, <2>9, <2>10, <2>11 DEF Evaluated
<1> QED
  BY <1>2, <1>3

LEMMA MovingKept ==
    ASSUME GateInv, GateTypeOK', Watch, NEW i \in Issuers, IssuerStep(i)
    PROVE  Evaluated(i)'
<1>0. gate \in [Issuers -> Evaluation] /\ Evaluated(i)
  BY DEF GateInv, GateTypeOK
<1>1. CASE StartGate(i)
  <2>1. gate'[i].stage = "reading" /\ gate'[i].step = 1
    BY <1>0, <1>1 DEF StartGate, IdleGate
  <2> QED
    BY <2>1 DEF Evaluated
<1>2. CASE ReadStep(i)
  BY <1>2, ReadingKept
<1>3. CASE RecordGate(i)
  <2>1. gate[i].stage = "reading" /\ gate[i].step = 8 /\ gate'[i].stage = "passed"
    BY <1>0, <1>3 DEF RecordGate, Evaluation, Steps, IdleGate, Evaluated
  <2>2. seen[i] = Preconditions
    <3>1. Preconditions \subseteq seen[i]
      BY <1>0, <2>1 DEF Evaluated, ProgramSeen, Preconditions
    <3> QED
      BY <3>1 DEF GateInv, GateTypeOK
  <2>3. seen'[i] = Preconditions
    BY <2>1, <2>2, WatchType DEF GateInv
  <2> QED
    BY <2>1, <2>3 DEF Evaluated
<1>4. CASE FindNoIssuance(i)
  <2>1. gate[i].stage = "passed" /\ gate'[i].stage \in {"idle", "unissued"}
    BY <1>0, <1>4 DEF FindNoIssuance, IdleGate
  <2>2. gate'[i].stage = "unissued" => seen'[i] = Preconditions
    BY <1>0, <2>1, WatchType DEF Evaluated, GateInv
  <2> QED
    BY <2>1, <2>2 DEF Evaluated
<1>5. CASE Issue(i)
  <2>1. gate'[i].stage = "idle"
    BY <1>0, <1>5 DEF Issue, IdleGate
  <2> QED
    BY <2>1 DEF Evaluated
<1> QED
  BY <1>1, <1>2, <1>3, <1>4, <1>5 DEF IssuerStep

\* An evaluation moves by its own steps only.
LEMMA OthersRest ==
    ASSUME GateTypeOK, NEW i \in Issuers, IssuerStep(i), NEW j \in Issuers, j # i
    PROVE  gate'[j] = gate[j]
BY DEF GateTypeOK, IssuerStep, StartGate, ReadStep, RecordGate, FindNoIssuance, Issue

LEMMA GateInvInit == GateInit => GateInv
<1> SUFFICES ASSUME GateInit PROVE GateInv
  OBVIOUS
<1>1. BoundsKnown(item) /\ BoundsKnown(update)
  BY DEF GateInit, BoundsKnown, Open, NoUpdate
<1>2. \A i \in Issuers : Evaluated(i)
  BY DEF GateInit, Evaluated, IdleGate
<1> QED
  BY <1>1, <1>2, GateTypeInit DEF GateInv

LEMMA GateInvStep == GateInv /\ [GateNext]_gvars => GateInv'
<1> SUFFICES ASSUME GateInv, [GateNext]_gvars PROVE GateInv'
  OBVIOUS
<1>1. CASE UNCHANGED gvars
  BY <1>1 DEF GateInv, gvars, work, GateTypeOK, BoundsKnown, Evaluated, ProgramSeen
<1>2. CASE GateNext
  <2>1. GateTypeOK' /\ Watch /\ GateTypeOK /\ BoundsKnown(item) /\ BoundsKnown(update)
    BY <1>2, GateTypeStep, GateStepCases DEF GateInv
  <2>2. binding <= binding
    BY GateAssumption DEF GateInv, GateTypeOK
  <2>3. ASSUME NEW s \in Staff, StaffStep(s) PROVE GateInv'
    <3>1. UNCHANGED <<binding, gate>> /\ (item' = item \/ item' = Replayed)
      BY <2>1, <2>3, StaffTypes DEF StaffStep, ReadExecution, CommitReview, UpdateProfile,
                                    InsertReview, work
    <3>2. BoundsKnown(item)' /\ BoundsKnown(update)'
      BY <2>1, <3>1, <2>3, StaffTypes, ReplayedRows DEF BoundsKnown
    <3> QED
      BY <2>1, <2>2, <3>1, <3>2, RestingKept DEF GateInv
  <2>4. ASSUME NEW i \in Issuers, IssuerStep(i) PROVE GateInv'
    <3>1. UNCHANGED binding /\ (item' = item \/ item' = Replayed)
      BY <2>1, <2>4, IssuerTypes DEF IssuerStep, StartGate, ReadStep, RecordGate, FindNoIssuance,
                                     Issue, work
    <3>2. BoundsKnown(item)' /\ BoundsKnown(update)'
      BY <2>1, <3>1, <2>4, IssuerTypes, ReplayedRows DEF BoundsKnown
    <3>3. ASSUME NEW j \in Issuers PROVE Evaluated(j)'
      BY <2>1, <2>2, <2>4, <3>1, MovingKept, OthersRest, RestingKept DEF GateInv
    <3> QED
      BY <2>1, <3>2, <3>3 DEF GateInv
  <2>5. CASE EngagementStep
    BY <2>1, <2>5, EngagementTypes, RestingKept DEF GateInv
  <2> QED
    BY <1>2, <2>3, <2>4, <2>5, GateStepCases
<1> QED
  BY <1>1, <1>2

LEMMA GateInvariance == GateSpec => []GateInv
BY GateInvInit, GateInvStep, PTL DEF GateSpec

----------------------------------------------------------------------------
(* Theorems.                                                               *)

\* The rows, requests and evaluations of an engagement keep their shapes.
THEOREM GateTypeCorrect == GateSpec => []GateTypeOK
<1>1. GateInv => GateTypeOK
  BY DEF GateInv
<1> QED
  BY <1>1, GateInvariance, PTL

\* However the writes of others fall between the statements of the gate, each
\* precondition of issuance held at some moment of an evaluation that passed.
THEOREM PassedGateSawAllHolds == GateSpec => []PassedGateSawAll
<1>1. GateInv => PassedGateSawAll
  BY DEF GateInv, Evaluated, PassedGateSawAll
<1> QED
  BY <1>1, GateInvariance, PTL

-----------------------------------------------------------------------------
(***************************************************************************)
(* Policies and rules, for any sets of versions, releases, rules and rule- *)
(* sets, and any number of clerks.  A publication reads the statuses of    *)
(* the rules without locking them; what makes it safe is that a revision   *)
(* needs the lock of the rule-set, and that a review never makes a rule    *)
(* less vetted than it was.                                                *)
(***************************************************************************)

\* What a transaction under way carries.
Transaction ==
    {IdleClerk}
    \cup [op : {"release"}, release : Releases, items : SUBSET Versions]
    \cup [op : {"publish_release"}, release : Releases]
    \cup [op : {"upsert_rule"}, rule : Rules, set : Rulesets, version : Versions \cup {NoVersion}]
    \cup [op : {"review_rule"}, rule : Rules, decision : {"approved", "rejected"}]
    \cup [op : {"publish_ruleset"}, set : Rulesets]

HoldsRuleset(c) == clerk[c].op \in {"upsert_rule", "publish_ruleset"}

\* The lock of a rule-set has one holder; the rule-set is a draft meanwhile,
\* and only a revision's own rule-set is the one it locked.
LocksHold ==
    /\ \A c, d \in Clerks : HoldsRuleset(c) /\ HoldsRuleset(d) /\ clerk[c].set = clerk[d].set => c = d
    /\ \A c \in Clerks : HoldsRuleset(c) => ruleset[clerk[c].set] = "draft"
    /\ \A c \in Clerks : clerk[c].op = "upsert_rule" => clerk[c].set = RulesetOf[clerk[c].rule]

ApprovedVetted == \A r \in Rules : rule[r].status = "approved" => r \in vetted

\* The rules a publication has read stay vetted until it commits.
PublishingVetted ==
    \A c \in Clerks : clerk[c].op = "publish_ruleset" => RulesOf(clerk[c].set) \subseteq vetted

\* A rule under review exists.
ReviewsBorn ==
    \A c \in Clerks : clerk[c].op = "review_rule" => rule[clerk[c].rule].status # "unborn"

KnowledgeInv ==
    /\ KnowledgeTypeOK /\ clerk \in [Clerks -> Transaction]
    /\ LocksHold /\ ApprovedVetted /\ ReviewsBorn /\ PublishingVetted /\ PublishedRulesVetted

----------------------------------------------------------------------------
(* Splitting a step.                                                       *)

\* Steps about versions and releases, which no rule-set depends on.
DocumentStep ==
    \/ \E v \in Versions :
        CreateVersion(v) \/ \E a \in {"reviewed", "approved", "rejected"} : ReviewVersion(v, a)
    \/ \E c \in Clerks :
        \/ \E r \in Releases :
            (\E vs \in SUBSET Versions : BeginRelease(c, r, vs)) \/ BeginPublishRelease(c, r)
        \/ EndRelease(c) \/ EndPublishRelease(c)

LEMMA KnowledgeStepCases ==
    ASSUME KnowledgeNext
    PROVE  \/ DocumentStep
           \/ \E s \in Rulesets : CreateRuleset(s)
           \/ \E c \in Clerks :
                \/ \E r \in Rules, v \in Versions \cup {NoVersion} : BeginUpsertRule(c, r, v)
                \/ \E r \in Rules, d \in {"approved", "rejected"} : BeginReviewRule(c, r, d)
                \/ \E s \in Rulesets : BeginPublishRuleset(c, s)
                \/ EndUpsertRule(c) \/ EndReviewRule(c) \/ EndPublishRuleset(c)
BY DEF KnowledgeNext, DocumentStep

\* The shape of a transaction follows from its operation.
LEMMA TransactionShape ==
    ASSUME NEW t \in Transaction
    PROVE  /\ t.op \in Operations
           /\ t.op = "release" => t.release \in Releases /\ t.items \in SUBSET Versions
           /\ t.op = "publish_release" => t.release \in Releases
           /\ t.op = "upsert_rule" => /\ t.rule \in Rules /\ t.set \in Rulesets
                                      /\ t.version \in Versions \cup {NoVersion}
           /\ t.op = "review_rule" => t.rule \in Rules /\ t.decision \in {"approved", "rejected"}
           /\ t.op = "publish_ruleset" => t.set \in Rulesets
BY DEF Transaction, IdleClerk, Operations

\* A clerk begins a transaction, or ends the one under way; the others go on.
LEMMA ClerkMoves ==
    ASSUME clerk \in [Clerks -> Transaction], NEW c \in Clerks
    PROVE  /\ \A t \in Transaction : Begin(c, t) =>
                /\ clerk[c].op = "none" /\ clerk' \in [Clerks -> Transaction]
                /\ clerk'[c] = t /\ \A d \in Clerks \ {c} : clerk'[d] = clerk[d]
           /\ End(c) =>
                /\ clerk' \in [Clerks -> Transaction]
                /\ clerk'[c].op = "none" /\ \A d \in Clerks \ {c} : clerk'[d] = clerk[d]
<1>1. IdleClerk \in Transaction /\ IdleClerk.op = "none"
  BY DEF Transaction, IdleClerk
<1> QED
  BY <1>1 DEF Begin, End

----------------------------------------------------------------------------
(* The invariant holds initially, and every step keeps it.                 *)

LEMMA KnowledgeInvInit == KnowledgeInit => KnowledgeInv
<1> SUFFICES ASSUME KnowledgeInit PROVE KnowledgeInv
  OBVIOUS
<1>1. clerk \in [Clerks -> Transaction] /\ \A c \in Clerks : clerk[c].op = "none"
  BY DEF KnowledgeInit, Transaction, IdleClerk
<1>2. KnowledgeTypeOK
  BY <1>1 DEF KnowledgeInit, KnowledgeTypeOK, RuleRow, Operations
<1>3. LocksHold /\ PublishingVetted /\ ReviewsBorn
  BY <1>1 DEF LocksHold, PublishingVetted, HoldsRuleset, ReviewsBorn
<1>4. ApprovedVetted /\ PublishedRulesVetted
  BY DEF KnowledgeInit, ApprovedVetted, PublishedRulesVetted
<1> QED
  BY <1>1, <1>2, <1>3, <1>4 DEF KnowledgeInv

\* A clerk without a rule-set's lock may come and go.
LEMMA LocksKept ==
    ASSUME KnowledgeInv, UNCHANGED <<rule, ruleset, vetted>>, NEW c \in Clerks,
           \A d \in Clerks \ {c} : clerk'[d] = clerk[d], ~HoldsRuleset(c)'
    PROVE  /\ LocksHold' /\ ApprovedVetted' /\ PublishingVetted' /\ PublishedRulesVetted'
<1>1. \A d \in Clerks : HoldsRuleset(d)' => d # c /\ clerk'[d] = clerk[d] /\ HoldsRuleset(d)
  BY DEF HoldsRuleset
<1>2. LocksHold'
  BY <1>1 DEF KnowledgeInv, LocksHold, HoldsRuleset
<1> QED
  BY <1>1, <1>2 DEF KnowledgeInv, ApprovedVetted, PublishingVetted, PublishedRulesVetted, RulesOf,
                    HoldsRuleset

LEMMA DocumentKept ==
    ASSUME KnowledgeInv, DocumentStep
    PROVE  KnowledgeInv'
<1>0. UNCHANGED <<rule, ruleset, vetted>> /\ clerk \in [Clerks -> Transaction] /\ KnowledgeTypeOK
  BY DEF DocumentStep, CreateVersion, ReviewVersion, BeginRelease, BeginPublishRelease,
         EndRelease, EndPublishRelease, KnowledgeInv
<1>1. ASSUME NEW v \in Versions, NEW a \in {"reviewed", "approved", "rejected"},
             CreateVersion(v) \/ ReviewVersion(v, a)
      PROVE  KnowledgeInv'
  <2>1. /\ UNCHANGED <<release, clerk>>
        /\ version' \in [Versions -> {"unborn", "draft", "reviewed", "approved", "rejected"}]
    BY <1>0, <1>1 DEF CreateVersion, ReviewVersion, KnowledgeTypeOK
  <2> QED
    BY <1>0, <2>1 DEF KnowledgeInv, KnowledgeTypeOK, LocksHold, HoldsRuleset, ApprovedVetted,
                      ReviewsBorn, PublishingVetted, PublishedRulesVetted, RulesOf
<1>2. ASSUME NEW c \in Clerks, NEW r \in Releases, NEW vs \in SUBSET Versions,
             BeginRelease(c, r, vs) \/ BeginPublishRelease(c, r)
      PROVE  KnowledgeInv'
  <2>1. PICK t \in Transaction : Begin(c, t) /\ t.op \in {"release", "publish_release"}
    BY <1>2 DEF BeginRelease, BeginPublishRelease, Transaction
  <2>2. /\ clerk' \in [Clerks -> Transaction] /\ clerk'[c] = t
        /\ \A d \in Clerks \ {c} : clerk'[d] = clerk[d]
    BY <1>0, <2>1, ClerkMoves
  <2>3. LocksHold' /\ ApprovedVetted' /\ PublishingVetted' /\ PublishedRulesVetted'
    BY <1>0, <2>1, <2>2, LocksKept DEF HoldsRuleset
  <2>4. UNCHANGED <<version, release>>
    BY <1>2 DEF BeginRelease, BeginPublishRelease
  <2>5. ReviewsBorn'
    BY <1>0, <2>1, <2>2 DEF KnowledgeInv, ReviewsBorn
  <2> QED
    BY <1>0, <2>2, <2>3, <2>4, <2>5, TransactionShape DEF KnowledgeInv, KnowledgeTypeOK
<1>3. ASSUME NEW c \in Clerks, EndRelease(c) \/ EndPublishRelease(c)
      PROVE  KnowledgeInv'
  <2>1. /\ clerk' \in [Clerks -> Transaction] /\ clerk'[c].op = "none"
        /\ \A d \in Clerks \ {c} : clerk'[d] = clerk[d]
    BY <1>0, <1>3, ClerkMoves DEF EndRelease, EndPublishRelease
  <2>2. LocksHold' /\ ApprovedVetted' /\ PublishingVetted' /\ PublishedRulesVetted'
    BY <1>0, <2>1, LocksKept DEF HoldsRuleset
  <2>3. release' \in [Releases -> [status : {"unborn", "draft", "published"}, items : SUBSET Versions]]
    BY <1>0, <1>3, TransactionShape DEF EndRelease, EndPublishRelease, KnowledgeTypeOK
  <2>4. UNCHANGED version
    BY <1>3 DEF EndRelease, EndPublishRelease
  <2>5. ReviewsBorn'
    BY <1>0, <2>1 DEF KnowledgeInv, ReviewsBorn
  <2> QED
    BY <1>0, <2>1, <2>2, <2>3, <2>4, <2>5, TransactionShape DEF KnowledgeInv, KnowledgeTypeOK
<1> QED
  BY <1>1, <1>2, <1>3 DEF DocumentStep

\* A clerk takes the lock of a draft rule-set that nobody holds.
LEMMA LockTaken ==
    ASSUME KnowledgeInv, UNCHANGED <<version, release, rule, ruleset, vetted>>,
           NEW c \in Clerks, NEW t \in Transaction, Begin(c, t),
           t.op \in {"upsert_rule", "publish_ruleset"}, t.set \notin LockedRulesets,
           ruleset[t.set] = "draft",
           t.op = "upsert_rule" => t.set = RulesetOf[t.rule],
           t.op = "publish_ruleset" => RulesOf(t.set) \subseteq vetted
    PROVE  KnowledgeInv'
<1>1. /\ clerk' \in [Clerks -> Transaction] /\ clerk'[c] = t
      /\ \A d \in Clerks \ {c} : clerk'[d] = clerk[d]
  BY ClerkMoves DEF KnowledgeInv
<1>2. \A d \in Clerks : HoldsRuleset(d) => clerk[d].set # t.set
  BY DEF LockedRulesets, HoldsRuleset
<1>3. LocksHold'
  BY <1>1, <1>2 DEF KnowledgeInv, LocksHold, HoldsRuleset
<1>4. ApprovedVetted' /\ ReviewsBorn' /\ PublishingVetted' /\ PublishedRulesVetted'
  BY <1>1 DEF KnowledgeInv, ApprovedVetted, ReviewsBorn, PublishingVetted, PublishedRulesVetted,
              RulesOf
<1> QED
  BY <1>1, <1>3, <1>4, TransactionShape DEF KnowledgeInv, KnowledgeTypeOK

LEMMA RevisionKept ==
    ASSUME KnowledgeInv, NEW c \in Clerks, EndUpsertRule(c)
    PROVE  KnowledgeInv'
<1> DEFINE r == clerk[c].rule
<1>1. /\ clerk \in [Clerks -> Transaction] /\ clerk[c].op = "upsert_rule" /\ r \in Rules
      /\ clerk[c].version \in Versions \cup {NoVersion}
      /\ clerk[c].set = RulesetOf[r] /\ HoldsRuleset(c)
  BY TransactionShape DEF KnowledgeInv, EndUpsertRule, LocksHold, HoldsRuleset
<1>2. /\ UNCHANGED <<version, release, ruleset>> /\ vetted' = vetted \ {r}
      /\ rule' \in [Rules -> RuleRow] /\ rule'[r].status = "draft"
      /\ \A q \in Rules \ {r} : rule'[q] = rule[q]
  BY <1>1 DEF EndUpsertRule, RevisedStatus, KnowledgeInv, KnowledgeTypeOK, RuleRow
<1>3. /\ clerk' \in [Clerks -> Transaction] /\ clerk'[c].op = "none"
      /\ \A d \in Clerks \ {c} : clerk'[d] = clerk[d]
  BY <1>1, ClerkMoves DEF EndUpsertRule
<1> HIDE DEF r
<1>4. \A d \in Clerks : HoldsRuleset(d)' => d # c /\ clerk'[d] = clerk[d] /\ HoldsRuleset(d)
  BY <1>3 DEF HoldsRuleset
<1>5. LocksHold'
  BY <1>2, <1>4 DEF KnowledgeInv, LocksHold, HoldsRuleset
<1>6. ApprovedVetted' /\ ReviewsBorn'
  BY <1>1, <1>2, <1>3, TransactionShape DEF KnowledgeInv, ApprovedVetted, ReviewsBorn
<1>7. \A s \in Rulesets : s # RulesetOf[r] => RulesOf(s)' = RulesOf(s) /\ r \notin RulesOf(s)
  BY <1>2 DEF RulesOf
<1>8. PublishingVetted'
  <2> SUFFICES ASSUME NEW d \in Clerks, clerk'[d].op = "publish_ruleset"
               PROVE  RulesOf(clerk[d].set)' \subseteq vetted'
    BY DEF PublishingVetted
  <2>1. d # c /\ clerk'[d] = clerk[d] /\ HoldsRuleset(d)
    BY <1>4 DEF HoldsRuleset
  <2>2. clerk[d].set # RulesetOf[r] /\ clerk[d].set \in Rulesets
    BY <1>1, <2>1, TransactionShape DEF KnowledgeInv, LocksHold
  <2>3. RulesOf(clerk[d].set) \subseteq vetted
    BY <2>1 DEF KnowledgeInv, PublishingVetted
  <2>4. RulesOf(clerk[d].set)' = RulesOf(clerk[d].set) /\ r \notin RulesOf(clerk[d].set)
    BY <1>2, <1>7, <2>1, <2>2 DEF RulesOf
  <2> QED
    BY <1>2, <2>3, <2>4
<1>9. PublishedRulesVetted'
  <2> SUFFICES ASSUME NEW s \in Rulesets, ruleset[s] = "published"
               PROVE  RulesOf(s)' \subseteq vetted'
    BY <1>2 DEF PublishedRulesVetted
  <2>1. s # RulesetOf[r]
    BY <1>1 DEF KnowledgeInv, LocksHold
  <2> QED
    BY <1>2, <1>7, <2>1 DEF KnowledgeInv, PublishedRulesVetted
<1> QED
  BY <1>2, <1>3, <1>5, <1>6, <1>8, <1>9, TransactionShape DEF KnowledgeInv, KnowledgeTypeOK

LEMMA ReviewKept ==
    ASSUME KnowledgeInv, NEW c \in Clerks, EndReviewRule(c)
    PROVE  KnowledgeInv'
<1> DEFINE r == clerk[c].rule
<1>1. /\ clerk \in [Clerks -> Transaction] /\ clerk[c].op = "review_rule" /\ r \in Rules
      /\ clerk[c].decision \in {"approved", "rejected"}
  BY TransactionShape DEF KnowledgeInv, EndReviewRule
<1>2. /\ UNCHANGED <<version, release, ruleset>> /\ rule' \in [Rules -> RuleRow]
      /\ rule'[r].status = clerk[c].decision /\ \A q \in Rules \ {r} : rule'[q] = rule[q]
      /\ vetted' = IF clerk[c].decision = "approved" THEN vetted \cup {r} ELSE vetted
  BY <1>1 DEF EndReviewRule, KnowledgeInv, KnowledgeTypeOK, RuleRow
<1>3. /\ clerk' \in [Clerks -> Transaction] /\ clerk'[c].op = "none"
      /\ \A d \in Clerks \ {c} : clerk'[d] = clerk[d]
  BY <1>1, ClerkMoves DEF EndReviewRule
<1>4. rule[r].status # "unborn"
  BY <1>1 DEF KnowledgeInv, ReviewsBorn
<1> HIDE DEF r
<1>5. \A d \in Clerks : clerk'[d].op # "none" => d # c /\ clerk'[d] = clerk[d]
  BY <1>3
<1>6. LocksHold'
  BY <1>2, <1>5 DEF KnowledgeInv, LocksHold, HoldsRuleset
<1>7. ApprovedVetted'
  BY <1>1, <1>2 DEF KnowledgeInv, ApprovedVetted
<1>8. vetted \subseteq vetted' /\ \A s \in Rulesets : RulesOf(s)' = RulesOf(s)
  BY <1>1, <1>2, <1>4 DEF RulesOf, r
<1>9. PublishingVetted' /\ PublishedRulesVetted' /\ ReviewsBorn'
  BY <1>1, <1>2, <1>5, <1>8, TransactionShape
     DEF KnowledgeInv, PublishingVetted, PublishedRulesVetted, ReviewsBorn, r
<1> QED
  BY <1>1, <1>2, <1>3, <1>6, <1>7, <1>9, TransactionShape DEF KnowledgeInv, KnowledgeTypeOK

LEMMA KnowledgeInvStep == KnowledgeInv /\ [KnowledgeNext]_kvars => KnowledgeInv'
<1> SUFFICES ASSUME KnowledgeInv, [KnowledgeNext]_kvars PROVE KnowledgeInv'
  OBVIOUS
<1>1. CASE UNCHANGED kvars
  BY <1>1 DEF KnowledgeInv, kvars, KnowledgeTypeOK, LocksHold, HoldsRuleset, ApprovedVetted,
              ReviewsBorn, PublishingVetted, PublishedRulesVetted, RulesOf
<1>2. CASE DocumentStep
  BY <1>2, DocumentKept
<1>3. ASSUME NEW s \in Rulesets, CreateRuleset(s) PROVE KnowledgeInv'
  <2>1. /\ UNCHANGED <<version, release, rule, clerk, vetted>> /\ ruleset[s] = "unborn"
        /\ ruleset' = [ruleset EXCEPT ![s] = "draft"]
    BY <1>3 DEF CreateRuleset
  <2>2. ruleset' \in [Rulesets -> {"unborn", "draft", "published"}]
    BY <2>1 DEF KnowledgeInv, KnowledgeTypeOK
  <2>3. LocksHold' /\ ApprovedVetted' /\ ReviewsBorn' /\ PublishingVetted'
    BY <2>1, TransactionShape DEF KnowledgeInv, KnowledgeTypeOK, LocksHold, HoldsRuleset,
                                  ApprovedVetted, ReviewsBorn, PublishingVetted, RulesOf
  <2>4. PublishedRulesVetted'
    BY <2>1 DEF KnowledgeInv, KnowledgeTypeOK, PublishedRulesVetted, RulesOf
  <2> QED
    BY <2>1, <2>2, <2>3, <2>4 DEF KnowledgeInv, KnowledgeTypeOK
<1>4. ASSUME NEW c \in Clerks, NEW r \in Rules, NEW v \in Versions \cup {NoVersion},
             BeginUpsertRule(c, r, v)
      PROVE  KnowledgeInv'
  <2> DEFINE t == [op |-> "upsert_rule", rule |-> r, set |-> RulesetOf[r], version |-> v]
  <2>1. t \in Transaction
    BY KnowledgeAssumption DEF Transaction
  <2>2. /\ UNCHANGED <<version, release, rule, ruleset, vetted>> /\ Begin(c, t)
        /\ t.set \notin LockedRulesets /\ ruleset[t.set] = "draft"
    BY <1>4 DEF BeginUpsertRule, OpenForRules
  <2> QED
    BY <2>1, <2>2, LockTaken
<1>5. ASSUME NEW c \in Clerks, NEW r \in Rules, NEW d \in {"approved", "rejected"},
             BeginReviewRule(c, r, d)
      PROVE  KnowledgeInv'
  <2> DEFINE t == [op |-> "review_rule", rule |-> r, decision |-> d]
  <2>1. t \in Transaction
    BY DEF Transaction
  <2>2. /\ UNCHANGED <<version, release, rule, ruleset, vetted>> /\ Begin(c, t)
        /\ rule[r].status # "unborn"
    BY <1>5 DEF BeginReviewRule
  <2>3. /\ clerk' \in [Clerks -> Transaction] /\ clerk'[c] = t
        /\ \A e \in Clerks \ {c} : clerk'[e] = clerk[e]
    BY <2>1, <2>2, ClerkMoves DEF KnowledgeInv
  <2>4. LocksHold' /\ ApprovedVetted' /\ PublishingVetted' /\ PublishedRulesVetted'
    BY <2>2, <2>3, LocksKept DEF HoldsRuleset
  <2>5. ReviewsBorn'
    BY <2>2, <2>3 DEF KnowledgeInv, ReviewsBorn
  <2> QED
    BY <2>2, <2>3, <2>4, <2>5, TransactionShape DEF KnowledgeInv, KnowledgeTypeOK
<1>6. ASSUME NEW c \in Clerks, NEW s \in Rulesets, BeginPublishRuleset(c, s)
      PROVE  KnowledgeInv'
  <2> DEFINE t == [op |-> "publish_ruleset", set |-> s]
  <2>1. t \in Transaction
    BY DEF Transaction
  <2>2. /\ UNCHANGED <<version, release, rule, ruleset, vetted>> /\ Begin(c, t)
        /\ t.set \notin LockedRulesets /\ ruleset[t.set] = "draft"
    BY <1>6 DEF BeginPublishRuleset
  <2>3. RulesOf(t.set) \subseteq vetted
    BY <1>6 DEF BeginPublishRuleset, KnowledgeInv, ApprovedVetted, RulesOf
  <2> QED
    BY <2>1, <2>2, <2>3, LockTaken
<1>7. ASSUME NEW c \in Clerks, EndPublishRuleset(c) PROVE KnowledgeInv'
  <2>1. /\ clerk[c].op = "publish_ruleset" /\ clerk[c].set \in Rulesets /\ HoldsRuleset(c)
        /\ UNCHANGED <<version, release, rule, vetted>>
        /\ ruleset' = [ruleset EXCEPT ![clerk[c].set] = "published"]
    BY <1>7, TransactionShape DEF EndPublishRuleset, KnowledgeInv, HoldsRuleset
  <2>2. /\ clerk' \in [Clerks -> Transaction] /\ clerk'[c].op = "none"
        /\ \A d \in Clerks \ {c} : clerk'[d] = clerk[d]
    BY <1>7, ClerkMoves DEF EndPublishRuleset, KnowledgeInv
  <2>3. ruleset' \in [Rulesets -> {"unborn", "draft", "published"}]
    BY <2>1 DEF KnowledgeInv, KnowledgeTypeOK
  <2>4. \A d \in Clerks : clerk'[d].op # "none" => d # c /\ clerk'[d] = clerk[d]
    BY <2>2
  <2>5. \A d \in Clerks : HoldsRuleset(d)' =>
            HoldsRuleset(d) /\ clerk[d].set # clerk[c].set /\ clerk[d].set \in Rulesets
    BY <2>1, <2>4, TransactionShape DEF KnowledgeInv, LocksHold, HoldsRuleset
  <2>6. LocksHold'
    BY <2>1, <2>4, <2>5 DEF KnowledgeInv, KnowledgeTypeOK, LocksHold, HoldsRuleset
  <2>7. ApprovedVetted' /\ ReviewsBorn' /\ PublishingVetted'
    BY <2>1, <2>4 DEF KnowledgeInv, ApprovedVetted, ReviewsBorn, PublishingVetted, RulesOf
  <2>8. PublishedRulesVetted'
    BY <2>1 DEF KnowledgeInv, KnowledgeTypeOK, PublishedRulesVetted, PublishingVetted, RulesOf
  <2> QED
    BY <2>1, <2>2, <2>3, <2>6, <2>7, <2>8, TransactionShape DEF KnowledgeInv, KnowledgeTypeOK
<1> QED
  BY <1>1, <1>2, <1>3, <1>4, <1>5, <1>6, <1>7, RevisionKept, ReviewKept, KnowledgeStepCases

LEMMA KnowledgeInvariance == KnowledgeSpec => []KnowledgeInv
BY KnowledgeInvInit, KnowledgeInvStep, PTL DEF KnowledgeSpec

----------------------------------------------------------------------------
(* Theorems.                                                               *)

\* Versions, releases, rules, rule-sets and transactions keep their shapes.
THEOREM KnowledgeTypeCorrect == KnowledgeSpec => []KnowledgeTypeOK
<1>1. KnowledgeInv => KnowledgeTypeOK
  BY DEF KnowledgeInv
<1> QED
  BY <1>1, KnowledgeInvariance, PTL

\* A published rule-set holds rules approved in the form they have, for any
\* number of clerks that review, revise and publish at once.
THEOREM PublishedRulesVettedHolds == KnowledgeSpec => []PublishedRulesVetted
<1>1. KnowledgeInv => PublishedRulesVetted
  BY DEF KnowledgeInv
<1> QED
  BY <1>1, KnowledgeInvariance, PTL

-----------------------------------------------------------------------------
(***************************************************************************)
(* The progress view.  The view and the gate read the same tables with     *)
(* different rules; that they agree follows, blocker by blocker, from what *)
(* the statuses of the tables can be.                                      *)
(***************************************************************************)

\* Only a package all of whose procedures are done, and whose letters are
\* closed, is shown as completed.
LEMMA ProgressPackageCompleted ==
    ASSUME ProgressTypeOK, NEW p \in PackageCodes, NEW done \in BOOLEAN
    PROVE  /\ PackageStatusGiven(p, done) = "completed" => procedure[p] = "terminal" /\ ~OpenLetter(p)
           /\ procedure[p] = "terminal" /\ ~OpenLetter(p) /\ ProfileReady
                => PackageStatusGiven(p, done) = "completed"
  <1> USE DEF PackageStatusGiven, PackageCodes
  <1> HIDE DEF OpenLetter, ProfileReady
  <1>1. CASE p = "acceptance"
    BY <1>1
  <1>2. CASE p = "fieldwork"
    BY <1>2
  <1>3. CASE p = "completion"
    BY <1>3
  <1> QED BY <1>1, <1>2, <1>3

\* Every blocker the gate may have, each with what clears it.
LEMMA ProgressBlockers ==
    /\ "profile" \in GateBlockers <=> master # "complete"
    /\ "program" \in GateBlockers <=> \E p \in PackageCodes : procedure[p] # "terminal"
    /\ "materials" \in GateBlockers <=> material # "ready"
    /\ "review" \in GateBlockers <=> ApprovedLevels < ReviewTotal
    /\ "renewal" \in GateBlockers <=> approvals = "renewal"
    /\ "policy" \in GateBlockers <=> ~policy
    /\ "finding" \in GateBlockers <=> openFinding
    /\ "confirmation" \in GateBlockers <=> letter # "closed"
    /\ GateBlockers \subseteq {"profile", "program", "materials", "review", "renewal", "policy",
                               "finding", "confirmation"}
  BY DEF GateBlockers

\* The first phase not completed comes after all those that are.
LEMMA ProgressCurrentPhase ==
    ASSUME \A n \in 1..4 : Phases[n] = "completed"
    PROVE  CurrentPhase \in {5, 6}
  <1> DEFINE Current(n) == /\ n = 6 \/ Phases[n] # "completed"
                           /\ \A m \in 1..(n - 1) : Phases[m] = "completed"
  <1>1. \E n \in 1..6 : Current(n)
    <2>1. CASE Phases[5] = "completed"
      <3>1. \A m \in 1..(6 - 1) : m \in 1..4 \/ m = 5
        OBVIOUS
      <3>2. Current(6)
        BY <2>1, <3>1
      <3> QED BY <3>2
    <2>2. CASE Phases[5] # "completed"
      <3>1. 1..(5 - 1) = 1..4
        OBVIOUS
      <3>2. Current(5)
        BY <2>2, <3>1
      <3> QED BY <3>2
    <2> QED BY <2>1, <2>2
  <1>2. CurrentPhase = CHOOSE n \in 1..6 : Current(n)
    BY DEF CurrentPhase
  <1>3. CurrentPhase \in 1..6 /\ Current(CurrentPhase)
    <2> HIDE DEF Current
    <2> QED BY <1>1, <1>2
  <1>4. CurrentPhase \notin 1..4
    BY <1>3
  <1> QED BY <1>3, <1>4

\* What the gate lets through is shown as completed.
LEMMA ProgressReadyIsShown ==
    ASSUME ProgressTypeOK, GateReady
    PROVE  /\ \A p \in PackageCodes : PackageStatus(p) = "completed"
           /\ CurrentPhase >= 5
  <1>1. /\ master = "complete" /\ letter = "closed"
        /\ \A p \in PackageCodes : procedure[p] = "terminal"
        /\ ~(ApprovedLevels < ReviewTotal)
    BY ProgressBlockers DEF GateReady
  <1>2. ProfileReady /\ \A p \in PackageCodes : ~OpenLetter(p)
    BY <1>1 DEF ProfileReady, OpenLetter
  <1>3. FieldworkDone \in BOOLEAN
    BY DEF FieldworkDone
  <1>4. \A p \in PackageCodes : PackageStatus(p) = "completed"
    BY <1>1, <1>2, <1>3, ProgressPackageCompleted DEF PackageStatus
  <1>5. \A p \in PackageCodes, q \in BOOLEAN : ProgramPhase(p, q) = "completed"
    BY <1>1, <1>2 DEF ProgramPhase
  <1>6. /\ AcceptancePhase = "completed" /\ FieldworkPhase = "completed"
        /\ CompletionPhase = "completed"
    BY <1>5 DEF AcceptancePhase, FieldworkPhase, CompletionPhase, PackageCodes
  <1>7. ReviewPhase = "completed"
    <2>1. ApprovedLevels \in Nat
      BY DEF ProgressTypeOK, ApprovedLevels, ApprovalStates, ReviewTotal
    <2> QED BY <1>1, <2>1 DEF ReviewPhase, EveryLevel, ReviewTotal
  <1>8. \A n \in 1..4 : Phases[n] = "completed"
    <2>1. \A n \in 1..4 : n \in {1, 2, 3, 4}
      OBVIOUS
    <2> QED BY <2>1, <1>6, <1>7 DEF Phases
  <1>9. CurrentPhase >= 5
    BY <1>8, ProgressCurrentPhase
  <1> QED BY <1>4, <1>9

\* Where the view has nothing to propose, the gate waits for something else.
LEMMA ProgressSilenceIsExplained ==
    ASSUME ProgressTypeOK, NextActions = {}, stand = "open"
    PROVE  GateBlockers # {} /\ GateBlockers \subseteq {"materials", "renewal", "policy"}
  <1>1. /\ master = "complete" /\ PackageActions = {} /\ ~openFinding /\ ~GateReady
        /\ ~(ApprovedLevels < ReviewTotal /\ PackageStatus("completion") = "completed")
    BY DEF NextActions
  <1>2. \A p \in PackageCodes : PackageStatus(p) = "completed"
    BY <1>1 DEF PackageActions, ProfileReady
  <1>3. FieldworkDone \in BOOLEAN
    BY DEF FieldworkDone
  <1>4. \A p \in PackageCodes : procedure[p] = "terminal" /\ ~OpenLetter(p)
    BY <1>2, <1>3, ProgressPackageCompleted DEF PackageStatus
  <1>5. letter = "closed"
    BY <1>4 DEF OpenLetter, PackageCodes
  <1>6. ~(ApprovedLevels < ReviewTotal)
    BY <1>1, <1>2 DEF PackageCodes
  <1> QED BY <1>1, <1>4, <1>5, <1>6, ProgressBlockers DEF GateReady

\* What is shown is projected from statuses the tables allow.
THEOREM ProgressTyped == ProgressSpec => []ProgressTypeOK
  <1>1. ProgressInit => ProgressTypeOK
    BY DEF ProgressInit, ProgressTypeOK, ProgramStatuses, ApprovalStates
  <1>2. ProgressTypeOK /\ [ProgressNext]_pvars => ProgressTypeOK'
    <2> SUFFICES ASSUME ProgressTypeOK, [ProgressNext]_pvars PROVE ProgressTypeOK'
      OBVIOUS
    <2> USE DEF ProgressTypeOK
    <2>1. CASE EditEngagement
      BY <2>1 DEF EditEngagement, EditRecord
    <2>2. CASE IssueReport
      BY <2>2 DEF IssueReport
    <2>3. CASE ArchiveEngagement
      BY <2>3 DEF ArchiveEngagement
    <2>4. CASE UNCHANGED pvars
      BY <2>4 DEF pvars
    <2> QED BY <2>1, <2>2, <2>3, <2>4 DEF ProgressNext
  <1> QED BY <1>1, <1>2, PTL DEF ProgressSpec

\* A gate that opens goes with a view that shows every package as completed,
\* and the view proposes a next action as long as it has one for a blocker
\* (_phase_statuses, _package_status, _next_actions).
THEOREM ProgressViewAgrees == ProgressSpec => []ViewAgreesWithGate
  <1>1. ProgressTypeOK => ViewAgreesWithGate
    BY ProgressReadyIsShown, ProgressSilenceIsExplained DEF ViewAgreesWithGate
  <1> QED BY <1>1, ProgressTyped, PTL

-----------------------------------------------------------------------------
(***************************************************************************)
(* Report versions, for any number of generations under way and any        *)
(* numbers of imports and revisions of the evidence.  The argument is that *)
(* versions only grow: a snapshot never changes, a manifest that is        *)
(* complete stays as it is, and a generation past the draft works on the   *)
(* very snapshot stored with its version.                                  *)
(***************************************************************************)

\* The shapes of the rows and of a generation, without the bounds of a run.
SnapshotShape == [ready : Nat, run : Nat, cached : BOOLEAN, cites : SUBSET Citations]
DraftRow == [snapshot : SnapshotShape, manifest : SUBSET Citations, files : SUBSET SnapshotShape]
MakerShape == [stage : Stages, recompute : BOOLEAN, input : Nat, version : Nat, files : BOOLEAN,
               snapshot : SnapshotShape]

DraftShapes ==
    /\ facts \in Nat /\ runs \in Seq(Nat) /\ drafts \in Seq(DraftRow)
    /\ maker \in [Makers -> MakerShape]

\* A generation past the draft agrees with the version it works on, and one
\* past the manifest has frozen its citations.
Agrees(m) ==
    /\ maker[m].stage \in {"citing", "publishing", "uploaded", "delivering"} =>
        /\ maker[m].version \in 1..Len(drafts)
        /\ drafts[maker[m].version].snapshot = maker[m].snapshot
    /\ maker[m].stage \in {"publishing", "uploaded", "delivering"} =>
        drafts[maker[m].version].manifest = maker[m].snapshot.cites

\* A delivered message shows the citations frozen for its version.
DeliveredFrozen ==
    \A message \in delivered :
        /\ message.version \in 1..Len(drafts)
        /\ message.cites = drafts[message.version].snapshot.cites
        /\ message.cites = drafts[message.version].manifest

DraftsInv ==
    DraftShapes /\ (\A m \in Makers : Agrees(m)) /\ DeliveredFrozen /\ VersionCoherent

\* What any step may do to the versions.
VersionsGrow ==
    /\ drafts' \in Seq(DraftRow) /\ Len(drafts) <= Len(drafts')
    /\ \A d \in 1..Len(drafts) :
        /\ drafts'[d].snapshot = drafts[d].snapshot
        /\ drafts[d].manifest = drafts[d].snapshot.cites => drafts'[d].manifest = drafts[d].manifest

----------------------------------------------------------------------------
(* Lemmas about operators.                                                 *)

\* Latest is well defined: a non-empty set of row numbers has a greatest one.
LEMMA LatestExists ==
    ASSUME NEW n \in Nat, NEW S \in SUBSET (1..n), S # {}
    PROVE  Latest(S) \in S
<1> DEFINE T == {k \in Nat : n - k \in S}
<1>1. \A x \in S : n - x \in T
  OBVIOUS
<1>2. T \subseteq Nat /\ T # {}
  BY <1>1
<1>3. \E t \in T : \A u \in T : ~(<<u, t>> \in OpToRel(<, Nat))
  BY <1>2, NatLessThanWellFounded, WFMin, Zenon
<1>4. PICK t \in T : \A u \in T : ~(u < t)
  BY <1>2, <1>3 DEF OpToRel
<1>5. n - t \in S /\ \A y \in S : ~(n - y < t)
  BY <1>1, <1>4
<1>6. \E x \in S : \A y \in S : y <= x
  BY <1>2, <1>5
<1> QED
  BY <1>6 DEF Latest

\* Replacing one row keeps the others, and the table a table.
LEMMA RowReplaced ==
    ASSUME NEW S, NEW s \in Seq(S), NEW v \in 1..Len(s), NEW x \in S
    PROVE  LET t == [s EXCEPT ![v] = x] IN
           /\ t \in Seq(S) /\ Len(t) = Len(s) /\ t[v] = x
           /\ \A d \in 1..Len(s) : d # v => t[d] = s[d]
OBVIOUS

LEMMA MakerFields ==
    ASSUME NEW k \in MakerShape
    PROVE  /\ \A st \in Stages : [k EXCEPT !.stage = st] \in MakerShape
           /\ IdleMaker \in MakerShape /\ IdleMaker.stage = "idle"
BY DEF MakerShape, IdleMaker, EmptySnapshot, SnapshotShape, Stages

----------------------------------------------------------------------------
(* How the versions of a report develop.                                   *)

LEMMA DraftsInvInit == DraftsInit => DraftsInv
<1> SUFFICES ASSUME DraftsInit PROVE DraftsInv
  OBVIOUS
<1>1. IdleMaker \in MakerShape /\ IdleMaker.stage = "idle"
  BY DEF IdleMaker, MakerShape, EmptySnapshot, SnapshotShape, Stages
<1>2. DraftShapes
  BY <1>1 DEF DraftsInit, DraftShapes
<1>3. (\A m \in Makers : Agrees(m)) /\ DeliveredFrozen /\ VersionCoherent
  BY <1>1 DEF DraftsInit, Agrees, DeliveredFrozen, VersionCoherent
<1> QED
  BY <1>2, <1>3 DEF DraftsInv

\* Generations that do not move, and messages, keep up with versions that grow.
LEMMA GrowthKept ==
    ASSUME DraftsInv, VersionsGrow
    PROVE  /\ \A m \in Makers : maker'[m] = maker[m] => Agrees(m)'
           /\ UNCHANGED delivered => DeliveredFrozen'
<1>1. Len(drafts) \in Nat /\ Len(drafts') \in Nat /\ \A m \in Makers : maker[m].version \in Nat
  BY DEF DraftsInv, DraftShapes, MakerShape, VersionsGrow
<1>2. \A m \in Makers : maker'[m] = maker[m] => Agrees(m)'
  BY <1>1 DEF DraftsInv, Agrees, VersionsGrow
<1>3. ASSUME UNCHANGED delivered PROVE DeliveredFrozen'
  <2> SUFFICES ASSUME NEW message \in delivered
               PROVE  /\ message.version \in 1..Len(drafts')
                      /\ message.cites = drafts'[message.version].snapshot.cites
                      /\ message.cites = drafts'[message.version].manifest
    BY <1>3 DEF DeliveredFrozen
  <2>1. /\ message.version \in 1..Len(drafts)
        /\ message.cites = drafts[message.version].snapshot.cites
        /\ message.cites = drafts[message.version].manifest
    BY DEF DraftsInv, DeliveredFrozen
  <2>2. \A d \in 1..Len(drafts) :
            /\ drafts'[d].snapshot = drafts[d].snapshot
            /\ drafts[d].manifest = drafts[d].snapshot.cites => drafts'[d].manifest = drafts[d].manifest
    BY DEF VersionsGrow
  <2>3. message.version \in 1..Len(drafts')
    BY <1>1, <2>1 DEF VersionsGrow
  <2> QED
    BY <2>1, <2>2, <2>3, Zenon
<1> QED
  BY <1>2, <1>3

\* A step that leaves the versions alone has only to answer for the generation
\* it moves.
LEMMA VersionsRest ==
    ASSUME DraftsInv, UNCHANGED <<drafts, delivered>>, DraftShapes', NEW m \in Makers,
           \A n \in Makers \ {m} : maker'[n] = maker[n], Agrees(m)'
    PROVE  DraftsInv'
<1>1. VersionsGrow
  BY DEF VersionsGrow, DraftsInv, DraftShapes
<1>2. VersionCoherent'
  BY DEF DraftsInv, VersionCoherent
<1> QED
  BY <1>1, <1>2, GrowthKept DEF DraftsInv

\* The steps before the draft exists.
LEMMA EarlyKept ==
    ASSUME DraftsInv, NEW m \in Makers,
           \/ \E recompute \in BOOLEAN : StartDraft(m, recompute)
           \/ Analyse(m) \/ PersistRun(m) \/ PlanCitations(m) \/ FailDraft(m)
    PROVE  DraftsInv'
<1>0. /\ maker[m] \in MakerShape /\ maker \in [Makers -> MakerShape] /\ facts \in Nat
      /\ runs \in Seq(Nat) /\ drafts \in Seq(DraftRow)
  BY DEF DraftsInv, DraftShapes
<1>1. ASSUME NEW recompute \in BOOLEAN, StartDraft(m, recompute) PROVE DraftsInv'
  <2>1. /\ maker'[m] \in MakerShape /\ maker'[m].stage = "analysing"
        /\ maker' \in [Makers -> MakerShape] /\ \A n \in Makers \ {m} : maker'[n] = maker[n]
        /\ UNCHANGED <<facts, runs, drafts, delivered>>
    BY <1>0, <1>1 DEF StartDraft, IdleMaker, EmptySnapshot, MakerShape, SnapshotShape, Stages
  <2> QED
    BY <1>0, <2>1, VersionsRest DEF DraftShapes, Agrees
<1>2. CASE Analyse(m)
  <2>1. CachedRuns # {} => Latest(CachedRuns) \in Nat
    <3>1. CachedRuns \subseteq 1..Len(runs) /\ Len(runs) \in Nat
      BY <1>0 DEF CachedRuns
    <3>2. ASSUME CachedRuns # {} PROVE Latest(CachedRuns) \in CachedRuns
      BY <3>1, <3>2, LatestExists
    <3>3. CachedRuns \subseteq Nat
      BY <3>1
    <3> QED
      BY <3>2, <3>3
  <2>2. /\ maker'[m] \in MakerShape /\ maker'[m].stage \in {"planning", "computing"}
        /\ maker' \in [Makers -> MakerShape] /\ \A n \in Makers \ {m} : maker'[n] = maker[n]
        /\ UNCHANGED <<facts, runs, drafts, delivered>>
    BY <1>0, <1>2, <2>1 DEF Analyse, MakerShape, SnapshotShape, Stages
  <2> QED
    BY <1>0, <2>2, VersionsRest DEF DraftShapes, Agrees
<1>3. CASE PersistRun(m)
  <2>1. runs' \in Seq(Nat) /\ Len(runs') \in Nat
    BY <1>0, <1>3 DEF PersistRun, MakerShape
  <2>2. /\ maker'[m] \in MakerShape /\ maker'[m].stage = "planning"
        /\ maker' \in [Makers -> MakerShape] /\ \A n \in Makers \ {m} : maker'[n] = maker[n]
        /\ UNCHANGED <<facts, drafts, delivered>>
    BY <1>0, <1>3, <2>1 DEF PersistRun, MakerShape, SnapshotShape, Stages
  <2> QED
    BY <1>0, <2>1, <2>2, VersionsRest DEF DraftShapes, Agrees
<1>4. CASE PlanCitations(m)
  <2>1. /\ maker'[m] \in MakerShape /\ maker'[m].stage = "drafting"
        /\ maker' \in [Makers -> MakerShape] /\ \A n \in Makers \ {m} : maker'[n] = maker[n]
        /\ UNCHANGED <<facts, runs, drafts, delivered>>
    BY <1>0, <1>4 DEF PlanCitations, MakerShape, SnapshotShape, Stages
  <2> QED
    BY <1>0, <2>1, VersionsRest DEF DraftShapes, Agrees
<1>5. CASE FailDraft(m)
  <2>1. /\ maker'[m] \in MakerShape /\ maker'[m].stage = "idle"
        /\ maker' \in [Makers -> MakerShape] /\ \A n \in Makers \ {m} : maker'[n] = maker[n]
        /\ UNCHANGED <<facts, runs, drafts, delivered>>
    BY <1>0, <1>5, MakerFields DEF FailDraft, Ends
  <2> QED
    BY <1>0, <2>1, VersionsRest DEF DraftShapes, Agrees
<1> QED
  BY <1>1, <1>2, <1>3, <1>4, <1>5

\* A version is reused for an equal snapshot, or a fresh one is appended.
LEMMA PersistDraftKept ==
    ASSUME DraftsInv, NEW m \in Makers, PersistDraft(m)
    PROVE  DraftsInv'
<1> DEFINE last == Len(drafts)
           reused == last > 0 /\ GenerationKey(drafts[last].snapshot)
                                 = GenerationKey(maker[m].snapshot)
           fresh == [snapshot |-> maker[m].snapshot, manifest |-> {}, files |-> {}]
<1>0. /\ maker[m] \in MakerShape /\ maker \in [Makers -> MakerShape] /\ facts \in Nat
      /\ runs \in Seq(Nat) /\ drafts \in Seq(DraftRow) /\ last \in Nat
  BY DEF DraftsInv, DraftShapes
<1>1. /\ maker[m].stage = "drafting"
      /\ drafts' = IF reused THEN drafts ELSE Append(drafts, fresh)
      /\ maker' = [maker EXCEPT ![m].stage = "citing", ![m].version = Len(drafts')]
      /\ UNCHANGED <<facts, runs, delivered>>
  BY DEF PersistDraft
<1>2. fresh \in DraftRow
  BY <1>0 DEF MakerShape, DraftRow
<1>3. /\ VersionsGrow /\ VersionCoherent' /\ Len(drafts') \in Nat
      /\ Len(drafts') > 0 /\ drafts'[Len(drafts')].snapshot = maker[m].snapshot
  <2>1. CASE reused
    BY <1>0, <1>1, <2>1 DEF DraftsInv, VersionsGrow, VersionCoherent, GenerationKey
  <2>2. CASE ~reused
    <3>1. /\ drafts' \in Seq(DraftRow) /\ Len(drafts') = last + 1 /\ drafts'[last + 1] = fresh
          /\ \A d \in 1..last : drafts'[d] = drafts[d]
      BY <1>0, <1>1, <1>2, <2>2
    <3>2. VersionCoherent'
      BY <1>0, <3>1 DEF DraftsInv, VersionCoherent
    <3> QED
      BY <1>0, <3>1, <3>2 DEF VersionsGrow
  <2> QED
    BY <2>1, <2>2
<1>4. /\ maker' \in [Makers -> MakerShape] /\ \A n \in Makers \ {m} : maker'[n] = maker[n]
      /\ maker'[m].stage = "citing" /\ maker'[m].version = Len(drafts')
      /\ maker'[m].snapshot = maker[m].snapshot
  BY <1>0, <1>1, <1>3 DEF MakerShape, Stages
<1>5. Agrees(m)'
  BY <1>3, <1>4 DEF Agrees
<1>6. DraftShapes'
  BY <1>0, <1>1, <1>3, <1>4 DEF DraftShapes, VersionsGrow
<1> QED
  BY <1>1, <1>3, <1>4, <1>5, <1>6, GrowthKept DEF DraftsInv

\* A manifest is empty or complete, and completing it changes no other one.
LEMMA PersistManifestKept ==
    ASSUME DraftsInv, NEW m \in Makers, PersistManifest(m)
    PROVE  DraftsInv'
<1> DEFINE v == maker[m].version
           cites == maker[m].snapshot.cites
<1>0. /\ maker[m] \in MakerShape /\ maker \in [Makers -> MakerShape] /\ facts \in Nat
      /\ runs \in Seq(Nat) /\ drafts \in Seq(DraftRow)
      /\ v \in 1..Len(drafts) /\ drafts[v].snapshot = maker[m].snapshot
      /\ drafts[v].manifest \in {{}, cites} /\ cites \subseteq Citations
      /\ UNCHANGED <<facts, runs, delivered>>
  BY DEF DraftsInv, DraftShapes, PersistManifest, Agrees, VersionCoherent, MakerShape, SnapshotShape
<1>1. CASE maker' = [maker EXCEPT ![m] = IdleMaker] /\ UNCHANGED drafts
  <2>1. /\ maker'[m].stage = "idle"
        /\ maker' \in [Makers -> MakerShape] /\ \A n \in Makers \ {m} : maker'[n] = maker[n]
    BY <1>0, <1>1, MakerFields
  <2> QED
    BY <1>0, <1>1, <2>1, VersionsRest DEF DraftShapes, Agrees
<1>2. CASE /\ drafts' = [drafts EXCEPT ![v].manifest = @ \cup cites]
           /\ maker' = [maker EXCEPT ![m].stage = "publishing"]
  <2>1. /\ drafts[v] \in DraftRow /\ drafts' \in Seq(DraftRow) /\ Len(drafts') = Len(drafts)
        /\ drafts'[v] = [drafts[v] EXCEPT !.manifest = cites]
        /\ \A d \in 1..Len(drafts) : d # v => drafts'[d] = drafts[d]
    <3>1. drafts[v].manifest \cup cites = cites /\ drafts[v] \in DraftRow
      BY <1>0
    <3>2. [drafts[v] EXCEPT !.manifest = cites] \in DraftRow
      BY <1>0, <3>1 DEF DraftRow
    <3>3. drafts' = [drafts EXCEPT ![v] = [drafts[v] EXCEPT !.manifest = cites]]
      BY <1>0, <1>2, <3>1
    <3> HIDE DEF v, cites
    <3> QED
      BY <1>0, <3>1, <3>2, <3>3, RowReplaced
  <2>2. drafts'[v] \in DraftRow /\ drafts'[v].snapshot = drafts[v].snapshot /\ drafts'[v].manifest = cites
        /\ drafts'[v].files = drafts[v].files
    BY <1>0, <2>1 DEF DraftRow
  <2>3. drafts' \in Seq(DraftRow)
    BY <2>1
  <2>4. VersionsGrow
    <3>1. Len(drafts) \in Nat
      BY <1>0
    <3> HIDE DEF v, cites
    <3>2. ASSUME NEW d \in 1..Len(drafts)
          PROVE  /\ drafts'[d].snapshot = drafts[d].snapshot
                 /\ drafts[d].manifest = drafts[d].snapshot.cites => drafts'[d].manifest = drafts[d].manifest
      <4>1. CASE d = v
        BY <1>0, <2>2, <4>1 DEF cites
      <4>2. CASE d # v
        BY <2>1, <4>2
      <4> QED
        BY <4>1, <4>2
    <3> QED
      BY <2>1, <3>1, <3>2 DEF VersionsGrow
  <2>5. VersionCoherent'
    BY <1>0, <2>1, <2>2 DEF DraftsInv, VersionCoherent
  <2>6. /\ maker' \in [Makers -> MakerShape] /\ \A n \in Makers \ {m} : maker'[n] = maker[n]
        /\ maker'[m].stage = "publishing" /\ maker'[m].version = v
        /\ maker'[m].snapshot = maker[m].snapshot
    BY <1>0, <1>2 DEF MakerShape, Stages
  <2>7. Agrees(m)'
    BY <1>0, <2>1, <2>2, <2>6 DEF Agrees
  <2> QED
    BY <1>0, <2>3, <2>4, <2>5, <2>6, <2>7, GrowthKept DEF DraftsInv, DraftShapes
<1> QED
  BY <1>1, <1>2 DEF PersistManifest, Ends

LEMMA SaveKept ==
    ASSUME DraftsInv, NEW m \in Makers,
           (\E stored \in BOOLEAN : Upload(m, stored)) \/ SaveArtifactRefs(m)
    PROVE  DraftsInv'
<1> DEFINE v == maker[m].version
<1>0. /\ maker[m] \in MakerShape /\ maker \in [Makers -> MakerShape] /\ facts \in Nat
      /\ runs \in Seq(Nat) /\ drafts \in Seq(DraftRow) /\ Agrees(m)
  BY DEF DraftsInv, DraftShapes
<1>1. ASSUME NEW stored \in BOOLEAN, Upload(m, stored) PROVE DraftsInv'
  <2>1. /\ maker' \in [Makers -> MakerShape] /\ \A n \in Makers \ {m} : maker'[n] = maker[n]
        /\ maker[m].stage = "publishing" /\ maker'[m].stage = "uploaded"
        /\ maker'[m].version = v /\ maker'[m].snapshot = maker[m].snapshot
        /\ UNCHANGED <<facts, runs, drafts, delivered>>
    BY <1>0, <1>1 DEF Upload, MakerShape, Stages
  <2>2. Agrees(m)'
    BY <1>0, <2>1 DEF Agrees
  <2> QED
    BY <1>0, <2>1, <2>2, VersionsRest DEF DraftShapes
<1>2. CASE SaveArtifactRefs(m)
  <2>1. /\ maker' \in [Makers -> MakerShape] /\ \A n \in Makers \ {m} : maker'[n] = maker[n]
        /\ maker[m].stage = "uploaded" /\ maker'[m].stage = "delivering"
        /\ maker'[m].version = v /\ maker'[m].snapshot = maker[m].snapshot
        /\ UNCHANGED <<facts, runs, delivered>>
    BY <1>0, <1>2 DEF SaveArtifactRefs, MakerShape, Stages
  <2>2. v \in 1..Len(drafts) /\ drafts[v].snapshot = maker[m].snapshot /\ drafts[v] \in DraftRow
        /\ maker[m].snapshot \in SnapshotShape
    BY <1>0, <2>1 DEF Agrees, MakerShape
  <2>3. CASE UNCHANGED drafts
    <3>1. Agrees(m)'
      BY <1>0, <2>1, <2>3 DEF Agrees
    <3> QED
      BY <1>0, <2>1, <2>3, <3>1, VersionsRest DEF DraftShapes
  <2>4. CASE drafts' = [drafts EXCEPT ![v].files = {maker[m].snapshot}]
    <3>0. [drafts[v] EXCEPT !.files = {maker[m].snapshot}] \in DraftRow
      BY <2>2 DEF DraftRow
    <3>1. /\ Len(drafts') = Len(drafts) /\ drafts'[v] = [drafts[v] EXCEPT !.files = {maker[m].snapshot}]
          /\ \A d \in 1..Len(drafts) : d # v => drafts'[d] = drafts[d]
          /\ drafts' \in Seq(DraftRow)
      <4> DEFINE x == [drafts[v] EXCEPT !.files = {maker[m].snapshot}]
      <4>1. drafts' = [drafts EXCEPT ![v] = x]
        BY <2>4
      <4>2. drafts \in Seq(DraftRow) /\ v \in 1..Len(drafts) /\ x \in DraftRow
        BY <1>0, <2>2, <3>0
      <4> HIDE DEF v, x
      <4>3. /\ Len(drafts') = Len(drafts) /\ drafts'[v] = x /\ drafts' \in Seq(DraftRow)
            /\ \A d \in 1..Len(drafts) : d # v => drafts'[d] = drafts[d]
        BY <4>1, <4>2, RowReplaced
      <4> QED
        BY <4>3 DEF x
    <3>2. drafts'[v] \in DraftRow /\ drafts'[v].snapshot = drafts[v].snapshot
          /\ drafts'[v].manifest = drafts[v].manifest /\ drafts'[v].files = {maker[m].snapshot}
      BY <2>2, <3>1 DEF DraftRow
    <3>3. drafts' \in Seq(DraftRow)
      BY <3>1
    <3>4. VersionsGrow
      <4>1. Len(drafts) \in Nat
        BY <1>0
      <4> HIDE DEF v
      <4>2. ASSUME NEW d \in 1..Len(drafts)
            PROVE  /\ drafts'[d].snapshot = drafts[d].snapshot
                   /\ drafts'[d].manifest = drafts[d].manifest
        BY <3>1, <3>2
      <4> QED
        BY <3>1, <4>1, <4>2 DEF VersionsGrow
    <3>5. VersionCoherent'
      BY <1>0, <2>2, <3>1, <3>2 DEF DraftsInv, VersionCoherent
    <3>6. Agrees(m)'
      BY <1>0, <2>1, <3>1, <3>2 DEF Agrees
    <3> QED
      BY <1>0, <2>1, <3>3, <3>4, <3>5, <3>6, GrowthKept DEF DraftsInv, DraftShapes
  <2> QED
    BY <1>2, <2>3, <2>4 DEF SaveArtifactRefs, Rendered
<1> QED
  BY <1>1, <1>2

LEMMA DeliverKept ==
    ASSUME DraftsInv, NEW m \in Makers, NEW binds \in BOOLEAN, Deliver(m, binds)
    PROVE  DraftsInv'
<1>0. /\ maker[m] \in MakerShape /\ maker \in [Makers -> MakerShape] /\ facts \in Nat
      /\ runs \in Seq(Nat) /\ drafts \in Seq(DraftRow) /\ Agrees(m)
  BY DEF DraftsInv, DraftShapes
<1>1. /\ maker' \in [Makers -> MakerShape] /\ \A n \in Makers \ {m} : maker'[n] = maker[n]
      /\ maker'[m].stage = "idle" /\ UNCHANGED <<facts, runs, drafts>>
      /\ maker[m].stage = "delivering"
      /\ delivered' = delivered \/ delivered' = delivered \cup {DeliveryRef(m)}
  BY <1>0, MakerFields DEF Deliver, Ends
<1>2. VersionsGrow /\ VersionCoherent'
  BY <1>0, <1>1 DEF VersionsGrow, DraftsInv, VersionCoherent
<1>3. DeliveredFrozen'
  BY <1>0, <1>1 DEF DeliveredFrozen, DraftsInv, DeliveryRef, FrozenVersion, Agrees
<1>4. \A n \in Makers : Agrees(n)'
  BY <1>1, <1>2, GrowthKept DEF Agrees
<1> QED
  BY <1>0, <1>1, <1>2, <1>3, <1>4 DEF DraftsInv, DraftShapes

LEMMA DraftsInvStep == DraftsInv /\ [DraftsNext]_dvars => DraftsInv'
<1> SUFFICES ASSUME DraftsInv, [DraftsNext]_dvars PROVE DraftsInv'
  OBVIOUS
<1>1. CASE ImportFacts \/ ChangeEvidence \/ UNCHANGED dvars
  <2>1. UNCHANGED <<runs, drafts, maker, delivered>> /\ facts' \in Nat
    BY <1>1 DEF ImportFacts, ChangeEvidence, dvars, DraftsInv, DraftShapes
  <2> QED
    BY <2>1 DEF DraftsInv, DraftShapes, Agrees, DeliveredFrozen, VersionCoherent
<1> QED
  BY <1>1, EarlyKept, PersistDraftKept, PersistManifestKept, SaveKept, DeliverKept DEF DraftsNext

LEMMA DraftsInvariance == DraftsSpec => []DraftsInv
BY DraftsInvInit, DraftsInvStep, PTL DEF DraftsSpec

----------------------------------------------------------------------------
(* Theorems.                                                               *)

\* The manifest and the files of a version come from the snapshot stored with
\* it, for any number of generations that share it or fail on the way.
THEOREM VersionCoherentHolds == DraftsSpec => []VersionCoherent
<1>1. DraftsInv => VersionCoherent
  BY DEF DraftsInv
<1> QED
  BY <1>1, DraftsInvariance, PTL

\* The reference of a delivered message resolves to the citations it showed,
\* before and after its stored answer has expired.
THEOREM DeliveredCitationsKeptHolds == DraftsSpec => []DeliveredCitationsKept
<1>1. DraftsInv => DeliveredCitationsKept
  BY DEF DraftsInv, DeliveredFrozen, DeliveredCitationsKept, Resolutions, FrozenCitations
<1> QED
  BY <1>1, DraftsInvariance, PTL

----------------------------------------------------------------------------
\* The generations that may still add a run to the table.
Computing == {m \in Makers : maker[m].stage \in {"analysing", "computing"}}

\* What the bounds of a run mean for the tables: a snapshot is of the imports
\* and runs there were, and every generation adds one run at most.
DraftBounds ==
    /\ facts \in 0..MaxFacts /\ evidence \in 0..MaxEvidence /\ generations \in 0..MaxGenerations
    /\ runs \in Seq(0..MaxFacts)
    /\ IsFiniteSet(Computing) /\ Len(runs) + Cardinality(Computing) <= generations
    /\ \A m \in Makers : /\ maker[m].snapshot \in Snapshot /\ maker[m].input \in 0..MaxFacts
                         /\ maker[m].version \in 0..Len(drafts)
    /\ \A d \in 1..Len(drafts) : drafts[d].snapshot \in Snapshot /\ drafts[d].files \subseteq Snapshot

\* A generation that starts, and one that has its run or fails, among those
\* that may still add one.
LEMMA ComputingJoins ==
    ASSUME IsFiniteSet(Computing), NEW m \in Makers, m \notin Computing,
           Computing' = Computing \cup {m}
    PROVE  IsFiniteSet(Computing') /\ Cardinality(Computing') = Cardinality(Computing) + 1
BY FS_AddElement

LEMMA ComputingLeaves ==
    ASSUME IsFiniteSet(Computing), NEW m \in Makers, Computing' = Computing \ {m}
    PROVE  /\ IsFiniteSet(Computing') /\ Cardinality(Computing') \in Nat
           /\ Cardinality(Computing') <= Cardinality(Computing)
           /\ Cardinality(Computing') = IF m \in Computing THEN Cardinality(Computing) - 1
                                        ELSE Cardinality(Computing)
<1>1. IsFiniteSet(Computing \ {m})
      /\ Cardinality(Computing \ {m}) = IF m \in Computing THEN Cardinality(Computing) - 1
                                        ELSE Cardinality(Computing)
  BY FS_RemoveElement
<1>2. Cardinality(Computing) \in Nat /\ Cardinality(Computing \ {m}) \in Nat
  BY <1>1, FS_CardinalityType
<1> QED
  BY <1>1, <1>2

LEMMA DraftBoundsInit == DraftsInit => DraftBounds
<1> SUFFICES ASSUME DraftsInit PROVE DraftBounds
  OBVIOUS
<1>1. Computing = {}
  BY DEF DraftsInit, Computing, IdleMaker
<1>2. IsFiniteSet(Computing) /\ Cardinality(Computing) = 0
  BY <1>1, FS_EmptySet
<1>3. IdleMaker.snapshot \in Snapshot /\ IdleMaker.input = 0 /\ IdleMaker.version = 0
  BY DraftAssumption DEF IdleMaker, EmptySnapshot, Snapshot
<1> QED
  BY <1>2, <1>3, DraftAssumption DEF DraftsInit, DraftBounds

\* A step of one generation that adds no row, and leaves the counted set.
LEMMA DraftBoundsMoves ==
    ASSUME DraftsInv, DraftBounds, NEW m \in Makers,
           UNCHANGED <<facts, evidence, generations>>,
           \A n \in Makers \ {m} : maker'[n] = maker[n],
           maker'[m].snapshot \in Snapshot, maker'[m].input \in 0..MaxFacts,
           maker'[m].version \in 0..Len(drafts'),
           Len(drafts') \in Nat, Len(drafts) <= Len(drafts'),
           \A d \in 1..Len(drafts') : drafts'[d].snapshot \in Snapshot /\ drafts'[d].files \subseteq Snapshot,
           \/ UNCHANGED runs /\ Computing' \in {Computing, Computing \ {m}}
           \/ /\ runs' \in Seq(0..MaxFacts) /\ Len(runs') = Len(runs) + 1
              /\ m \in Computing /\ Computing' = Computing \ {m}
    PROVE  DraftBounds'
<1>1. /\ IsFiniteSet(Computing) /\ Cardinality(Computing) \in Nat /\ Len(runs) \in Nat
      /\ Len(runs) + Cardinality(Computing) <= generations /\ generations \in Nat
  BY FS_CardinalityType DEF DraftBounds
<1>2. /\ IsFiniteSet(Computing') /\ Len(runs') + Cardinality(Computing') <= generations'
      /\ runs' \in Seq(0..MaxFacts)
  <2>1. CASE UNCHANGED runs /\ Computing' = Computing
    BY <1>1, <2>1 DEF DraftBounds
  <2>2. CASE UNCHANGED runs /\ Computing' = Computing \ {m}
    <3>1. IsFiniteSet(Computing') /\ Cardinality(Computing') \in Nat
          /\ Cardinality(Computing') <= Cardinality(Computing)
      BY <1>1, <2>2, ComputingLeaves
    <3> QED
      BY <1>1, <2>2, <3>1 DEF DraftBounds
  <2>3. CASE /\ runs' \in Seq(0..MaxFacts) /\ Len(runs') = Len(runs) + 1
             /\ m \in Computing /\ Computing' = Computing \ {m}
    <3>1. IsFiniteSet(Computing') /\ Cardinality(Computing') = Cardinality(Computing) - 1
      BY <1>1, <2>3, ComputingLeaves
    <3> QED
      BY <1>1, <2>3, <3>1 DEF DraftBounds
  <2> QED
    BY <2>1, <2>2, <2>3
<1>3. Len(drafts) \in Nat
  BY DEF DraftsInv, DraftShapes
<1>4. ASSUME NEW n \in Makers
      PROVE  /\ maker'[n].snapshot \in Snapshot /\ maker'[n].input \in 0..MaxFacts
             /\ maker'[n].version \in 0..Len(drafts')
  <2>1. CASE n = m
    BY <2>1
  <2>2. CASE n # m
    <3>1. maker'[n] = maker[n] /\ maker[n].version \in 0..Len(drafts)
          /\ maker[n].snapshot \in Snapshot /\ maker[n].input \in 0..MaxFacts
      BY <2>2 DEF DraftBounds
    <3> QED
      BY <1>3, <3>1
  <2> QED
    BY <2>1, <2>2
<1> QED
  BY <1>2, <1>4 DEF DraftBounds

\* Which of the counted set a generation that moved alone has left or joined.
LEMMA ComputingOf ==
    ASSUME NEW m \in Makers, \A n \in Makers \ {m} : maker'[n] = maker[n]
    PROVE  /\ maker'[m].stage \notin {"analysing", "computing"} => Computing' = Computing \ {m}
           /\ maker'[m].stage \in {"analysing", "computing"} => Computing' = Computing \cup {m}
BY DEF Computing

LEMMA DraftBoundsStep == DraftsInv /\ DraftBounds /\ [DraftsNext]_dvars => DraftBounds'
<1> SUFFICES ASSUME DraftsInv, DraftBounds, [DraftsNext]_dvars PROVE DraftBounds'
  OBVIOUS
<1>1. /\ facts \in 0..MaxFacts /\ evidence \in 0..MaxEvidence /\ generations \in 0..MaxGenerations
      /\ runs \in Seq(0..MaxFacts) /\ Len(runs) \in Nat /\ Len(drafts) \in Nat
      /\ IsFiniteSet(Computing) /\ Cardinality(Computing) \in Nat
      /\ Len(runs) + Cardinality(Computing) <= generations
      /\ drafts \in Seq(DraftRow) /\ maker \in [Makers -> MakerShape]
      /\ MaxFacts \in Nat /\ MaxEvidence \in Nat /\ MaxGenerations \in Nat
  BY DraftAssumption, FS_CardinalityType DEF DraftBounds, DraftsInv, DraftShapes
<1>2. \A d \in 1..Len(drafts) : drafts[d].snapshot \in Snapshot /\ drafts[d].files \subseteq Snapshot
  BY DEF DraftBounds
<1>3. ASSUME NEW m \in Makers
      PROVE  /\ maker[m].snapshot \in Snapshot /\ maker[m].input \in 0..MaxFacts
             /\ maker[m].version \in 0..Len(drafts)
  BY DEF DraftBounds
<1>4. CASE ImportFacts \/ ChangeEvidence \/ UNCHANGED dvars
  <2>1. /\ facts' \in 0..MaxFacts /\ evidence' \in 0..MaxEvidence
        /\ UNCHANGED <<generations, runs, drafts, maker>>
    BY <1>1, <1>4 DEF ImportFacts, ChangeEvidence, dvars
  <2> QED
    BY <2>1 DEF DraftBounds, Computing
<1>5. ASSUME NEW m \in Makers, NEW recompute \in BOOLEAN, StartDraft(m, recompute)
      PROVE  DraftBounds'
  <2>1. /\ \A n \in Makers \ {m} : maker'[n] = maker[n]
        /\ maker'[m].stage = "analysing" /\ maker[m].stage = "idle"
        /\ maker'[m].snapshot = [EmptySnapshot EXCEPT !.ready = facts]
        /\ maker'[m].input = 0 /\ maker'[m].version = 0
        /\ generations' = generations + 1 /\ generations < MaxGenerations
        /\ UNCHANGED <<facts, evidence, runs, drafts>>
    BY <1>1, <1>5 DEF StartDraft, IdleMaker
  <2>2. [EmptySnapshot EXCEPT !.ready = facts] \in Snapshot
    <3>1. EmptySnapshot \in Snapshot
      BY <1>1 DEF EmptySnapshot, Snapshot
    <3> QED
      BY <1>1, <3>1 DEF Snapshot
  <2>3. m \notin Computing /\ Computing' = Computing \cup {m}
    BY <2>1, ComputingOf DEF Computing
  <2>4. IsFiniteSet(Computing') /\ Cardinality(Computing') = Cardinality(Computing) + 1
    BY <1>1, <2>3, ComputingJoins
  <2>5. Len(runs') + Cardinality(Computing') <= generations' /\ generations' \in 0..MaxGenerations
    BY <1>1, <2>1, <2>4
  <2>6. \A n \in Makers : /\ maker'[n].snapshot \in Snapshot /\ maker'[n].input \in 0..MaxFacts
                          /\ maker'[n].version \in 0..Len(drafts')
    <3> SUFFICES ASSUME NEW n \in Makers
                 PROVE  /\ maker'[n].snapshot \in Snapshot /\ maker'[n].input \in 0..MaxFacts
                        /\ maker'[n].version \in 0..Len(drafts')
      OBVIOUS
    <3>1. CASE n = m
      BY <1>1, <2>1, <2>2, <3>1
    <3>2. CASE n # m
      BY <1>3, <2>1, <3>2
    <3> QED
      BY <3>1, <3>2
  <2> QED
    BY <1>1, <1>2, <2>1, <2>4, <2>5, <2>6 DEF DraftBounds
<1>6. ASSUME NEW m \in Makers,
             Analyse(m) \/ PlanCitations(m) \/ FailDraft(m)
             \/ (\E stored \in BOOLEAN : Upload(m, stored))
             \/ (\E binds \in BOOLEAN : Deliver(m, binds))
      PROVE  DraftBounds'
  <2>0. maker[m] \in MakerShape /\ maker[m].snapshot \in Snapshot
        /\ maker[m].version \in 0..Len(drafts) /\ maker[m].input \in 0..MaxFacts
    BY <1>1, <1>3
  <2>1. UNCHANGED <<facts, evidence, generations, runs, drafts>>
    BY <1>6 DEF Analyse, PlanCitations, FailDraft, Upload, Deliver
  <2>2. /\ \A n \in Makers \ {m} : maker'[n] = maker[n]
        /\ maker'[m].stage \in {"analysing", "computing"} => m \in Computing
        /\ maker'[m].snapshot \in Snapshot /\ maker'[m].input \in 0..MaxFacts
        /\ maker'[m].version \in 0..Len(drafts)
    <3>1. CASE Analyse(m)
      <4>1. CachedRuns # {} => Latest(CachedRuns) \in 0..MaxGenerations
        <5>1. CachedRuns \subseteq 1..Len(runs) /\ 1..Len(runs) \subseteq 0..MaxGenerations
          BY <1>1 DEF CachedRuns
        <5> QED
          BY <1>1, <5>1, LatestExists
      <4>2. m \in Computing
        BY <3>1 DEF Analyse, Computing
      <4>3. CASE maker' = [maker EXCEPT ![m].stage = "planning", ![m].recompute = FALSE]
        BY <1>1, <2>0, <4>2, <4>3 DEF MakerShape
      <4>4. CASE /\ CachedRuns # {}
                 /\ maker' = [maker EXCEPT ![m].stage = "planning",
                                           ![m].snapshot.run = Latest(CachedRuns),
                                           ![m].snapshot.cached = TRUE]
        BY <1>1, <2>0, <4>1, <4>2, <4>4 DEF MakerShape, Snapshot
      <4>5. CASE maker' = [maker EXCEPT ![m].stage = "computing", ![m].recompute = FALSE,
                                        ![m].input = facts]
        BY <1>1, <2>0, <4>2, <4>5 DEF MakerShape
      <4> QED
        BY <3>1, <4>3, <4>4, <4>5 DEF Analyse
    <3>2. CASE PlanCitations(m)
      BY <1>1, <2>0, <3>2 DEF PlanCitations, MakerShape, Snapshot
    <3>3. CASE FailDraft(m) \/ \E binds \in BOOLEAN : Deliver(m, binds)
      <4>1. maker' = [maker EXCEPT ![m] = IdleMaker]
        BY <3>3 DEF FailDraft, Deliver, Ends
      <4>2. IdleMaker.snapshot \in Snapshot /\ IdleMaker.input = 0 /\ IdleMaker.version = 0
            /\ IdleMaker.stage = "idle"
        BY <1>1 DEF IdleMaker, EmptySnapshot, Snapshot
      <4> QED
        BY <1>1, <4>1, <4>2
    <3>4. CASE \E stored \in BOOLEAN : Upload(m, stored)
      BY <1>1, <2>0, <3>4 DEF Upload, MakerShape
    <3> QED
      BY <1>6, <3>1, <3>2, <3>3, <3>4
  <2>3. Computing' \in {Computing, Computing \ {m}}
    <3>1. CASE maker'[m].stage \in {"analysing", "computing"}
      <4>1. m \in Computing /\ Computing' = Computing \cup {m}
        BY <2>2, <3>1, ComputingOf
      <4> QED
        BY <4>1
    <3>2. CASE maker'[m].stage \notin {"analysing", "computing"}
      BY <2>2, <3>2, ComputingOf
    <3> QED
      BY <3>1, <3>2
  <2> QED
    BY <1>1, <1>2, <2>1, <2>2, <2>3, DraftBoundsMoves
<1>7. ASSUME NEW m \in Makers, PersistRun(m) PROVE DraftBounds'
  <2>1. /\ runs' \in Seq(0..MaxFacts) /\ Len(runs') = Len(runs) + 1
        /\ UNCHANGED <<facts, evidence, drafts, generations>> /\ m \in Computing
    BY <1>1, <1>3, <1>7 DEF PersistRun, Computing
  <2>2. Len(runs) + 1 <= MaxGenerations
    <3>1. Cardinality(Computing) # 0
      BY <1>1, <2>1, FS_EmptySet
    <3> QED
      BY <1>1, <3>1
  <2>3. /\ \A n \in Makers \ {m} : maker'[n] = maker[n]
        /\ maker'[m].stage = "planning" /\ maker'[m].input = 0
        /\ maker'[m].version = maker[m].version
        /\ maker'[m].snapshot = [maker[m].snapshot EXCEPT !.run = Len(runs')]
    BY <1>1, <1>7 DEF PersistRun, MakerShape
  <2>4. maker'[m].snapshot \in Snapshot
    <3>1. Len(runs') \in 0..MaxGenerations
      BY <1>1, <2>1, <2>2
    <3>2. maker[m].snapshot \in Snapshot
      BY <1>3
    <3> QED
      BY <2>3, <3>1, <3>2 DEF Snapshot
  <2>5. Computing' = Computing \ {m}
    BY <2>3, ComputingOf
  <2> QED
    <3>1. maker'[m].input \in 0..MaxFacts /\ maker'[m].version \in 0..Len(drafts')
      BY <1>1, <1>3, <2>1, <2>3
    <3>2. /\ Len(drafts') \in Nat /\ Len(drafts) <= Len(drafts')
          /\ \A d \in 1..Len(drafts') : drafts'[d].snapshot \in Snapshot /\ drafts'[d].files \subseteq Snapshot
      BY <1>1, <1>2, <2>1
    <3>3. UNCHANGED <<facts, evidence, generations>>
      BY <2>1
    <3> QED
      BY <2>1, <2>3, <2>4, <2>5, <3>1, <3>2, <3>3, DraftBoundsMoves
<1>8. ASSUME NEW m \in Makers, PersistDraft(m) PROVE DraftBounds'
  <2>1. /\ drafts' = drafts \/ drafts' = Append(drafts, [snapshot |-> maker[m].snapshot,
                                                         manifest |-> {}, files |-> {}])
        /\ maker' = [maker EXCEPT ![m].stage = "citing", ![m].version = Len(drafts')]
        /\ UNCHANGED <<facts, evidence, runs, generations>>
    BY <1>8 DEF PersistDraft
  <2>2. /\ Len(drafts') \in Nat /\ Len(drafts) <= Len(drafts')
        /\ \A d \in 1..Len(drafts') : drafts'[d].snapshot \in Snapshot /\ drafts'[d].files \subseteq Snapshot
    <3> DEFINE fresh == [snapshot |-> maker[m].snapshot, manifest |-> {}, files |-> {}]
    <3>1. CASE drafts' = drafts
      BY <1>1, <1>2, <3>1
    <3>2. CASE drafts' = Append(drafts, fresh)
      <4>1. fresh.snapshot \in Snapshot /\ fresh.files \subseteq Snapshot
        BY <1>3
      <4> HIDE DEF fresh
      <4>2. /\ Len(drafts') = Len(drafts) + 1 /\ drafts'[Len(drafts) + 1] = fresh
            /\ \A d \in 1..Len(drafts) : drafts'[d] = drafts[d]
        BY <1>1, <3>2
      <4> QED
        BY <1>1, <1>2, <4>1, <4>2
    <3> QED
      BY <2>1, <3>1, <3>2
  <2>3. /\ \A n \in Makers \ {m} : maker'[n] = maker[n]
        /\ maker'[m].stage = "citing" /\ maker'[m].version = Len(drafts')
        /\ maker'[m].input = maker[m].input /\ maker'[m].snapshot = maker[m].snapshot
    BY <1>1, <2>1 DEF MakerShape
  <2>4. Computing' = Computing \ {m}
    BY <2>3, ComputingOf
  <2> QED
    BY <1>1, <1>3, <2>1, <2>2, <2>3, <2>4, DraftBoundsMoves
<1>9. ASSUME NEW m \in Makers, PersistManifest(m) \/ SaveArtifactRefs(m) PROVE DraftBounds'
  <2>1. UNCHANGED <<facts, evidence, runs, generations>>
    BY <1>9 DEF PersistManifest, SaveArtifactRefs
  <2>2. /\ \A n \in Makers \ {m} : maker'[n] = maker[n]
        /\ maker'[m].stage \in {"idle", "publishing", "delivering"}
        /\ maker'[m].input \in 0..MaxFacts /\ maker'[m].version \in 0..Len(drafts)
        /\ maker'[m].snapshot \in Snapshot
    <3>1. IdleMaker.snapshot \in Snapshot /\ IdleMaker.input = 0 /\ IdleMaker.version = 0
          /\ IdleMaker.stage = "idle"
      BY <1>1 DEF IdleMaker, EmptySnapshot, Snapshot
    <3>2. CASE maker' = [maker EXCEPT ![m] = IdleMaker]
      BY <1>1, <3>1, <3>2
    <3>3. CASE maker' = [maker EXCEPT ![m].stage = "publishing"]
      BY <1>1, <1>3, <3>3 DEF MakerShape
    <3>4. CASE maker' = [maker EXCEPT ![m].stage = "delivering", ![m].files = FALSE]
      BY <1>1, <1>3, <3>4 DEF MakerShape
    <3> QED
      BY <1>9, <3>2, <3>3, <3>4 DEF PersistManifest, SaveArtifactRefs, Ends
  <2>3. /\ Len(drafts') = Len(drafts)
        /\ \A d \in 1..Len(drafts) : drafts'[d].snapshot \in Snapshot /\ drafts'[d].files \subseteq Snapshot
    <3> DEFINE v == maker[m].version
               cites == maker[m].snapshot.cites
               f == {maker[m].snapshot}
    <3>0. f \subseteq Snapshot
      BY <1>3
    <3>1. CASE UNCHANGED drafts
      BY <1>2, <3>1
    <3>2. CASE drafts' = [drafts EXCEPT ![v].manifest = @ \cup cites]
      <4> HIDE DEF v, cites
      <4> QED
        BY <1>1, <1>2, <3>2 DEF DraftRow
    <3>3. CASE drafts' = [drafts EXCEPT ![v].files = f]
      <4> HIDE DEF v, f
      <4> QED
        BY <1>1, <1>2, <3>0, <3>3 DEF DraftRow
    <3> QED
      BY <1>9, <3>1, <3>2, <3>3 DEF PersistManifest, SaveArtifactRefs, Rendered
  <2>4. Computing' = Computing \ {m}
    BY <2>2, ComputingOf
  <2> QED
    BY <1>1, <2>1, <2>2, <2>3, <2>4, DraftBoundsMoves
<1> QED
  BY <1>4, <1>5, <1>6, <1>7, <1>8, <1>9 DEF DraftsNext

\* Rows, snapshots and what the generations hold keep their types: a snapshot
\* names a run of the table, which has one for each generation at most.
THEOREM DraftsTyped == DraftsSpec => []DraftsTypeOK
<1>1. DraftsInv /\ DraftBounds => DraftsTypeOK
  <2> SUFFICES ASSUME DraftsInv, DraftBounds PROVE DraftsTypeOK
    OBVIOUS
  <2>1. /\ drafts \in Seq(DraftRow) /\ maker \in [Makers -> MakerShape]
        /\ \A message \in delivered : message.version \in 1..Len(drafts)
    BY DEF DraftsInv, DraftShapes, DeliveredFrozen
  <2>2. \A d \in 1..Len(drafts) : drafts[d].manifest \subseteq Citations
    <3> SUFFICES ASSUME NEW d \in 1..Len(drafts) PROVE drafts[d].manifest \subseteq Citations
      OBVIOUS
    <3>1. drafts[d] \in DraftRow
      BY <2>1
    <3> QED
      BY <3>1 DEF DraftRow
  <2>3. \A m \in Makers : maker[m].stage \in Stages
    BY <2>1 DEF MakerShape
  <2> QED
    BY <2>1, <2>2, <2>3 DEF DraftBounds, DraftsTypeOK
<1> QED
  BY <1>1, DraftBoundsInit, DraftBoundsStep, DraftsInvariance, PTL DEF DraftsSpec

-----------------------------------------------------------------------------
(***************************************************************************)
(* Engagement facts, for any sets of people, references and values.  The   *)
(* rows are a function of what has been said: the table holds one row for  *)
(* each source, the last thing it said.  A snapshot is the rows of a       *)
(* moment, so what a job renders is determined by what had been said when  *)
(* it was accepted.                                                        *)
(***************************************************************************)

\* The kinds of sources upsert_fact_version knows besides master data.
FactKinds == {"manual_review", "correction", "calculation", "material_extraction"}

\* Whatever may be written, before or after candidate keys.
Spoken == [kind : FactKinds, ref : Refs \cup {NoRef}, actor : Actors, legacy : BOOLEAN,
           value : Values, status : FactStatus]

\* The row a statement leaves.
RowOf(s) == [candidate |-> Candidate(s.kind, s.ref, s.actor), legacy |-> s.legacy,
             value |-> s.value, status |-> s.status]

\* The statements nobody has taken back, among the first n of the log d.
Standing(d, n) == {d[i] : i \in {k \in 1..n : \A m \in (k + 1)..n : ~SameSource(d[k], d[m])}}
RowsOf(d, n) == {RowOf(s) : s \in Standing(d, n)}

\* Only rows from before candidate keys lack one, and they are extractions.
LogOK ==
    /\ said \in Seq(Spoken)
    /\ \A i \in 1..Len(said) :
          said[i].legacy => said[i].kind = "material_extraction" /\ said[i].ref = NoRef

RenderingShape ==
    rendering \in [stage : {"none", "accepted", "rendered"}, heard : Nat,
                   slot : Slots \cup {NoRendering.slot}, frozen : SUBSET {RowOf(s) : s \in Spoken},
                   outcome : Outcomes, value : Values \cup {NoRendering.value}]

\* The current rows are those of the standing statements, and the frozen ones
\* those of the statements standing when the job was accepted.
FrozenOK ==
    rendering.stage # "none" =>
        /\ rendering.slot \in Slots
        /\ rendering.heard <= Len(said)
        /\ rendering.frozen = RowsOf(said, rendering.heard)
        /\ Prepared(rendering.slot, rendering.frozen).outcome # "refused"

RenderedOK ==
    rendering.stage = "rendered" =>
        [outcome |-> rendering.outcome, value |-> rendering.value]
            \in Composed(rendering.slot, rendering.frozen)

FactsInv ==
    /\ LogOK /\ RenderingShape
    /\ rows = RowsOf(said, Len(said))
    /\ FrozenOK /\ RenderedOK

\* The statements that stand are the last words of their sources.
LEMMA FactsStandingIsLastWords == \A n : LastWords(n) = Standing(said, n)
  BY DEF LastWords, Standing

\* What stands among the first n does not depend on what is said later.
LEMMA FactsStandingStable ==
    ASSUME NEW d \in Seq(Spoken), NEW x \in Spoken, NEW n \in 0..Len(d)
    PROVE  Standing(Append(d, x), n) = Standing(d, n)
  <1>1. \A i \in 1..n : Append(d, x)[i] = d[i]
    OBVIOUS
  <1>2. \A k \in 1..n : \A m \in (k + 1)..n : m \in 1..n
    OBVIOUS
  <1>3. {k \in 1..n : \A m \in (k + 1)..n : ~SameSource(Append(d, x)[k], Append(d, x)[m])}
          = {k \in 1..n : \A m \in (k + 1)..n : ~SameSource(d[k], d[m])}
    BY <1>1, <1>2
  <1> QED BY <1>1, <1>3 DEF Standing

\* A statement stands at once, and takes the place of those of its source.
LEMMA FactsStandingAppend ==
    ASSUME NEW d \in Seq(Spoken), NEW x \in Spoken
    PROVE  Standing(Append(d, x), Len(d) + 1)
             = {s \in Standing(d, Len(d)) : ~SameSource(s, x)} \cup {x}
  <1> DEFINE N == Len(d)
             e == Append(d, x)
             Up == {k \in 1..(N + 1) : \A m \in (k + 1)..(N + 1) : ~SameSource(e[k], e[m])}
             Lo == {k \in 1..N : \A m \in (k + 1)..N : ~SameSource(d[k], d[m])}
  <1>0. N \in Nat
    OBVIOUS
  <1>1. /\ \A i \in 1..N : e[i] = d[i]
        /\ e[N + 1] = x
    OBVIOUS
  <1>2. Up = {k \in Lo : ~SameSource(d[k], x)} \cup {N + 1}
    <2>1. ASSUME NEW k \in 1..N
          PROVE  k \in Up <=> k \in Lo /\ ~SameSource(d[k], x)
      <3>1. (k + 1)..(N + 1) = ((k + 1)..N) \cup {N + 1}
        BY <1>0
      <3>2. \A m \in (k + 1)..N : e[m] = d[m]
        BY <1>0, <1>1
      <3> QED BY <1>0, <1>1, <3>1, <3>2
    <2>2. N + 1 \in Up
      BY <1>0
    <2>3. Up \subseteq 1..N \cup {N + 1}
      BY <1>0
    <2>4. Lo \subseteq 1..N
      OBVIOUS
    <2> QED BY <2>1, <2>2, <2>3, <2>4
  <1>3. {e[i] : i \in Up} = {s \in {d[i] : i \in Lo} : ~SameSource(s, x)} \cup {x}
    <2>1. Lo \subseteq 1..N
      OBVIOUS
    <2> HIDE DEF Up, Lo, e, N
    <2>2. \A i \in Lo : e[i] = d[i]
      BY <1>1, <2>1
    <2> QED BY <1>1, <1>2, <2>2
  <1>4. /\ Standing(e, N + 1) = {e[i] : i \in Up}
        /\ Standing(d, N) = {d[i] : i \in Lo}
    BY DEF Standing
  <1> QED BY <1>3, <1>4

\* What stands was said.
LEMMA FactsStandingSpoken ==
    ASSUME NEW d \in Seq(Spoken), NEW n \in 0..Len(d)
    PROVE  Standing(d, n) \subseteq {d[i] : i \in 1..n} /\ Standing(d, n) \subseteq Spoken
  BY DEF Standing

\* A write takes the rows of its own source away, and no other.
LEMMA FactsReplacedSource ==
    ASSUME NEW s \in Spoken, NEW x \in Spoken, x.legacy = FALSE, NEW R,
           RowOf(s) \in R,
           s.legacy => s.kind = "material_extraction" /\ s.ref = NoRef
    PROVE  RowOf(s) \in Replaced(R, Candidate(x.kind, x.ref, x.actor), x.kind, x.actor)
             <=> SameSource(s, x)
  <1>1. CASE s.legacy
    BY <1>1 DEF Replaced, RowOf, SameSource, Candidate, Spoken
  <1>2. CASE ~s.legacy
    <2>1. RowOf(s) \in Replaced(R, Candidate(x.kind, x.ref, x.actor), x.kind, x.actor)
            <=> Candidate(s.kind, s.ref, s.actor) = Candidate(x.kind, x.ref, x.actor)
      BY <1>2 DEF Replaced, RowOf, Spoken
    <2>2. Candidate(s.kind, s.ref, s.actor) = Candidate(x.kind, x.ref, x.actor)
            <=> SameSource(s, x)
      BY <1>2 DEF Candidate, SameSource, Spoken
    <2> QED BY <2>1, <2>2
  <1> QED BY <1>1, <1>2

\* The rows that count are those of the statements that count.
LEMMA FactsAuthoritativeIsHeard ==
    ASSUME LogOK, NEW n \in 0..Len(said)
    PROVE  Authoritative(RowsOf(said, n)) = {RowOf(s) : s \in Heard(n)}
  <1> DEFINE W == Standing(said, n)
             words == {s \in W : s.status # "candidate"}
  <1>1. W \subseteq Spoken
    BY FactsStandingSpoken DEF LogOK
  <1>2. Heard(n) = {s \in words : \A t \in words : Authority(s.kind) <= Authority(t.kind)}
    BY FactsStandingIsLastWords DEF Heard
  <1>3. \A s \in Spoken : /\ RowOf(s).status = s.status
                          /\ RowOf(s).candidate.kind = s.kind
                          /\ s.status \in {"confirmed", "conflicted"} <=> s.status # "candidate"
    BY DEF RowOf, Candidate, Spoken, FactStatus
  <1>4. Eligible(RowsOf(said, n)) = {RowOf(s) : s \in words}
    BY <1>1, <1>3 DEF Eligible, RowsOf
  <1>5. words \subseteq Spoken
    BY <1>1
  <1> HIDE DEF words
  <1>6. Authoritative(RowsOf(said, n))
          = {r \in {RowOf(s) : s \in words} : \A q \in {RowOf(s) : s \in words} :
                Authority(r.candidate.kind) <= Authority(q.candidate.kind)}
    BY <1>4 DEF Authoritative
  <1> QED BY <1>2, <1>3, <1>5, <1>6

\* The invariant holds before anything is said.
LEMMA FactsInitInv == FactsInit => FactsInv
  <1> SUFFICES ASSUME FactsInit PROVE FactsInv
    OBVIOUS
  <1>1. CASE rows = {} /\ said = <<>>
    <2>1. Standing(said, Len(said)) = {}
      BY <1>1 DEF Standing
    <2> QED BY <1>1, <2>1 DEF FactsInit, FactsInv, LogOK, RowsOf, RenderingShape,
                              FrozenOK, RenderedOK, NoRendering, Outcomes
  <1>2. CASE ~(rows = {} /\ said = <<>>)
    <2>1. PICK a \in Actors, v \in Values :
            /\ rows = {LegacyRow(a, v)}
            /\ said = <<[kind |-> "material_extraction", ref |-> NoRef, actor |-> a,
                         legacy |-> TRUE, value |-> v, status |-> "confirmed"]>>
      BY <1>2 DEF FactsInit
    <2> DEFINE x == [kind |-> "material_extraction", ref |-> NoRef, actor |-> a,
                     legacy |-> TRUE, value |-> v, status |-> "confirmed"]
    <2>2. x \in Spoken
      BY DEF Spoken, FactKinds, FactStatus
    <2>3. said \in Seq(Spoken) /\ Len(said) = 1 /\ said[1] = x
      BY <2>1, <2>2
    <2>4. Standing(said, Len(said)) = {x}
      <3>1. 1..Len(said) = {1} /\ (1 + 1)..Len(said) = {}
        BY <2>3
      <3>2. {k \in 1..Len(said) : \A m \in (k + 1)..Len(said) :
                ~SameSource(said[k], said[m])} = {1}
        BY <3>1
      <3>3. Standing(said, Len(said)) = {said[i] : i \in {1}}
        BY <3>2 DEF Standing
      <3> HIDE DEF x
      <3> QED BY <2>3, <3>3
    <2>5. rows = RowsOf(said, Len(said))
      <3>1. RowOf(x) = LegacyRow(a, v)
        BY DEF RowOf, LegacyRow
      <3>2. RowsOf(said, Len(said)) = {RowOf(s) : s \in {x}}
        BY <2>4 DEF RowsOf
      <3> HIDE DEF x
      <3> QED BY <2>1, <3>1, <3>2
    <2>6. LogOK
      BY <2>3 DEF LogOK
    <2> QED BY <2>5, <2>6 DEF FactsInit, FactsInv, RenderingShape, FrozenOK, RenderedOK,
                              NoRendering, Outcomes
  <1> QED BY <1>1, <1>2

\* A statement, a snapshot and a rendering keep the invariant.
LEMMA FactsStepInv == FactsInv /\ [FactsNext]_fvars => FactsInv'
  <1> SUFFICES ASSUME FactsInv, [FactsNext]_fvars PROVE FactsInv'
    OBVIOUS
  <1> USE DEF FactsInv
  <1>0. RowsOf(said, Len(said)) \subseteq {RowOf(s) : s \in Spoken}
    BY FactsStandingSpoken DEF LogOK, RowsOf
  <1>1. ASSUME NEW kind \in Kinds, NEW ref \in Refs \cup {NoRef}, NEW actor \in Actors,
               NEW value \in Values, NEW word \in FactStatus,
               PutFact(kind, ref, actor, value, word)
        PROVE  FactsInv'
    <2> DEFINE x == [kind |-> kind, ref |-> ref, actor |-> actor, legacy |-> FALSE,
                     value |-> value, status |-> word]
    <2>1. x \in Spoken
      BY FactAssumption DEF Spoken, FactKinds
    <2>2. said' = Append(said, x) /\ Len(said') = Len(said) + 1
      BY <1>1 DEF PutFact, LogOK
    <2>3. /\ said' \in Seq(Spoken)
          /\ \A i \in 1..Len(said) : said'[i] = said[i]
          /\ said'[Len(said) + 1] = x
      BY <2>1, <2>2 DEF LogOK
    <2>4. LogOK'
      <3>1. \A i \in 1..Len(said') : i \in 1..Len(said) \/ i = Len(said) + 1
        BY <2>2 DEF LogOK
      <3> QED BY <2>3, <3>1 DEF LogOK
    <2>5. rows' = RowsOf(said', Len(said'))
      <3>1. Standing(said', Len(said'))
              = {s \in Standing(said, Len(said)) : ~SameSource(s, x)} \cup {x}
        BY <2>1, <2>2, FactsStandingAppend DEF LogOK
      <3>2. rows' = (rows \ Replaced(rows, Candidate(x.kind, x.ref, x.actor), x.kind, x.actor))
                      \cup {RowOf(x)}
        BY <1>1 DEF PutFact, RowOf
      <3>3. \A s \in Standing(said, Len(said)) :
               /\ s \in Spoken
               /\ s.legacy => s.kind = "material_extraction" /\ s.ref = NoRef
        BY FactsStandingSpoken DEF LogOK
      <3>4. \A s \in Standing(said, Len(said)) :
               RowOf(s) \in Replaced(rows, Candidate(x.kind, x.ref, x.actor), x.kind, x.actor)
                 <=> SameSource(s, x)
        <4>1. x.legacy = FALSE
          OBVIOUS
        <4> HIDE DEF x
        <4> QED BY <2>1, <3>3, <4>1, FactsReplacedSource DEF RowsOf
      <3> HIDE DEF x
      <3> QED BY <3>1, <3>2, <3>4 DEF RowsOf
    <2>6. \A n \in 0..Len(said) : RowsOf(said', n) = RowsOf(said, n)
      BY <2>1, <2>2, FactsStandingStable DEF RowsOf, LogOK
    <2>7. UNCHANGED rendering
      BY <1>1 DEF PutFact
    <2>8. RenderingShape' /\ RenderedOK'
      BY <2>7 DEF RenderingShape, RenderedOK
    <2>9. FrozenOK'
      <3>1. rendering.stage # "none" => rendering.heard \in 0..Len(said)
        BY DEF FrozenOK, RenderingShape, LogOK
      <3>2. Len(said') = Len(said) + 1 /\ Len(said) \in Nat
        BY <2>2 DEF LogOK
      <3> QED BY <3>1, <3>2, <2>6, <2>7 DEF FrozenOK
    <2> QED BY <2>4, <2>5, <2>8, <2>9
  <1>2. ASSUME NEW slot \in Slots, CreateJob(slot)
        PROVE  FactsInv'
    <2>1. rendering' = [stage |-> "accepted", heard |-> Len(said), slot |-> slot, frozen |-> rows,
                        outcome |-> "none", value |-> NoRendering.value]
      BY <1>2 DEF CreateJob, NoRendering
    <2>2. UNCHANGED <<rows, said>>
      BY <1>2 DEF CreateJob
    <2>3. Prepared(slot, rows).outcome # "refused"
      BY <1>2 DEF CreateJob
    <2>4. LogOK' /\ (rows = RowsOf(said, Len(said)))'
      BY <2>2 DEF LogOK
    <2>5. RenderingShape'
      BY <1>0, <2>1, <2>2 DEF RenderingShape, Outcomes, LogOK
    <2>6. FrozenOK' /\ RenderedOK'
      BY <2>1, <2>2, <2>3 DEF FrozenOK, RenderedOK, LogOK
    <2> QED BY <2>4, <2>5, <2>6
  <1>3. CASE RenderFile
    <2>1. PICK result \in Composed(rendering.slot, rendering.frozen) :
            rendering' = [rendering EXCEPT !.stage = "rendered", !.outcome = result.outcome,
                                           !.value = result.value]
      BY <1>3 DEF RenderFile, FromContext
    <2>2. UNCHANGED <<rows, said>> /\ rendering.stage = "accepted"
      BY <1>3 DEF RenderFile
    <2>3. /\ rendering'.stage = "rendered" /\ rendering'.heard = rendering.heard
          /\ rendering'.slot = rendering.slot /\ rendering'.frozen = rendering.frozen
          /\ rendering'.outcome = result.outcome /\ rendering'.value = result.value
      BY <2>1 DEF RenderingShape
    <2>4. [outcome |-> result.outcome, value |-> result.value] = result
      BY DEF Composed, Prepared, Missing, Result
    <2>5. result.outcome \in Outcomes /\ result.value \in Values \cup {NoRendering.value}
      <3>1. Missing(rendering.slot).outcome \in Outcomes /\ Missing(rendering.slot).value = NoRendering.value
        BY <2>2, SlotAssumption DEF FrozenOK, SlotRecord, Missing, Result, Outcomes
      <3>2. rendering.frozen \subseteq {RowOf(s) : s \in Spoken}
        BY DEF RenderingShape
      <3>3. Resolves(rendering.frozen) => Resolved(rendering.frozen) \in Values
        <4>1. Resolves(rendering.frozen) =>
                \E r \in rendering.frozen : Resolved(rendering.frozen) = r.value
          BY DEF Resolves, Resolved, Authoritative, Eligible
        <4> QED BY <3>2, <4>1 DEF RowOf, Spoken
      <3> QED BY <3>1, <3>3 DEF Composed, Prepared, Result, Outcomes
    <2>6. LogOK' /\ (rows = RowsOf(said, Len(said)))'
      BY <2>2 DEF LogOK
    <2>7. FrozenOK' /\ RenderedOK'
      BY <2>2, <2>3, <2>4 DEF FrozenOK, RenderedOK
    <2>8. RenderingShape'
      BY <2>1, <2>5 DEF RenderingShape
    <2> QED BY <2>6, <2>7, <2>8
  <1>4. CASE UNCHANGED fvars
    BY <1>4 DEF fvars, LogOK, RenderingShape, FrozenOK, RenderedOK
  <1> QED BY <1>1, <1>2, <1>3, <1>4 DEF FactsNext

\* The invariant gives the property.
LEMMA FactsInvImpliesAgreed == FactsInv => RendersWhatWasAgreed
  <1> SUFFICES ASSUME FactsInv, rendering.stage = "rendered", ~rendering.slot.master,
                      ~(rendering.slot.kind = "semantic" /\ rendering.outcome = "omitted")
               PROVE  LET words == Heard(rendering.heard) IN
                      IF words = {} THEN rendering.outcome = Missing(rendering.slot).outcome
                      ELSE /\ rendering.outcome = "agreed"
                           /\ \A s \in words : s.status = "confirmed" /\ s.value = rendering.value
    BY DEF RendersWhatWasAgreed
  <1> DEFINE R == rendering.frozen
             slot == rendering.slot
             words == Heard(rendering.heard)
  <1>1. Prepared(slot, R).outcome # "refused"
    BY DEF FactsInv, FrozenOK
  <1>2. [outcome |-> rendering.outcome, value |-> rendering.value] = Prepared(slot, R)
    BY DEF FactsInv, RenderedOK, Composed, Result
  <1>3. rendering.outcome = Prepared(slot, R).outcome /\ rendering.value = Prepared(slot, R).value
    BY <1>2
  <1>4. Authoritative(R) = {RowOf(s) : s \in words}
    <2>1. rendering.heard \in 0..Len(said) /\ R = RowsOf(said, rendering.heard)
      BY DEF FactsInv, FrozenOK, RenderingShape, LogOK
    <2> QED BY <2>1, FactsAuthoritativeIsHeard DEF FactsInv
  <1>5. words \subseteq Spoken
    <2>1. rendering.heard \in 0..Len(said)
      BY DEF FactsInv, FrozenOK, RenderingShape, LogOK
    <2>2. LastWords(rendering.heard) \subseteq Spoken
      BY <2>1, FactsStandingIsLastWords, FactsStandingSpoken DEF FactsInv, LogOK
    <2> QED BY <2>2 DEF Heard
  <1>6. CASE words = {}
    <2>1. ~Resolves(R)
      BY <1>4, <1>6 DEF Resolves
    <2> QED BY <1>1, <1>3, <1>6, <2>1 DEF Prepared, Result
  <1>7. CASE words # {}
    <2>1. Resolves(R)
      BY <1>4, <1>7 DEF Resolves
    <2>2. ~Conflicted(R)
      BY <1>1, <2>1 DEF Prepared, Result
    <2>3. rendering.outcome = "agreed" /\ rendering.value = Resolved(R)
      BY <1>3, <2>1, <2>2 DEF Prepared, Result
    <2>4. PICK r \in Authoritative(R) : Resolved(R) = r.value
      BY <2>1 DEF Resolves, Resolved
    <2>5. ASSUME NEW s \in words
          PROVE  s.status = "confirmed" /\ s.value = rendering.value
      <3>1. RowOf(s) \in Authoritative(R)
        BY <1>4
      <3>2. RowOf(s).status # "conflicted" /\ RowOf(s).value = r.value
        BY <2>2, <3>1 DEF Conflicted
      <3>3. RowOf(s).status = s.status /\ RowOf(s).value = s.value
        BY DEF RowOf
      <3>4. s.status \in FactStatus /\ s.status # "candidate"
        BY <1>5 DEF Spoken, Heard
      <3> QED BY <2>3, <2>4, <3>2, <3>3, <3>4 DEF FactStatus
    <2> QED BY <1>7, <2>3, <2>5
  <1> QED BY <1>6, <1>7

\* An accepted job renders what the sources of the highest authority had all
\* last said when it was accepted, or what its slot provides for a fact nobody
\* had confirmed (upsert_fact_version, FactRegistry.resolve, frozen_snapshot).
THEOREM FactsAgreed == FactsSpec => []RendersWhatWasAgreed
  <1>1. FactsSpec => []FactsInv
    BY FactsInitInv, FactsStepInv, PTL DEF FactsSpec
  <1> QED BY <1>1, FactsInvImpliesAgreed, PTL

----------------------------------------------------------------------------
\* What the log holds, and what the bound on the writes means for its length:
\* only its first entry may be from before candidate keys.
SaidTyped ==
    /\ said \in Seq(Statement) /\ Len(said) <= MaxPuts + 1
    /\ \A i \in 2..Len(said) : ~said[i].legacy
    /\ rendering.stage = "none" => rendering.frozen = {} /\ rendering.heard = 0

\* Every entry but the first is a write.
LEMMA FactsPutsCounted ==
    ASSUME SaidTyped, Cardinality(Puts) < MaxPuts
    PROVE  Len(said) <= MaxPuts
  <1>1. Len(said) \in Nat /\ DOMAIN said = 1..Len(said) /\ MaxPuts \in Nat
    BY FactAssumption DEF SaidTyped
  <1>2. Puts \subseteq 1..Len(said) /\ 2..Len(said) \subseteq Puts
    BY <1>1 DEF Puts, SaidTyped
  <1>3. IsFiniteSet(1..Len(said)) /\ Cardinality(2..Len(said)) >= Len(said) - 1
    <2>1. 1 \in Int /\ 2 \in Int /\ Len(said) \in Int
      BY <1>1
    <2>2. /\ IsFiniteSet(1..Len(said))
          /\ Cardinality(2..Len(said)) = IF 2 > Len(said) THEN 0 ELSE Len(said) - 2 + 1
      BY <2>1, FS_Interval, Zenon
    <2> QED BY <1>1, <2>2
  <1>4. IsFiniteSet(Puts)
    BY <1>2, <1>3, FS_Subset
  <1>6. Cardinality(Puts) \in Nat
    BY <1>4, FS_CardinalityType
  <1>5. Cardinality(2..Len(said)) <= Cardinality(Puts)
    BY <1>2, <1>4, FS_Subset
  <1>7. IsFiniteSet(2..Len(said)) /\ Cardinality(2..Len(said)) \in Nat
    BY <1>2, <1>4, FS_Subset, FS_CardinalityType
  <1> DEFINE m == Cardinality(2..Len(said))
             n == Cardinality(Puts)
  <1>8. /\ m \in Nat /\ n \in Nat /\ m <= n /\ n < MaxPuts /\ m >= Len(said) - 1
    BY <1>3, <1>5, <1>6, <1>7
  <1> HIDE DEF m, n
  <1> QED BY <1>1, <1>8

LEMMA FactsSaidInit == FactsInit => SaidTyped
  <1> SUFFICES ASSUME FactsInit PROVE SaidTyped
    OBVIOUS
  <1>1. rendering.stage = "none" => rendering.frozen = {} /\ rendering.heard = 0
    BY DEF FactsInit, NoRendering
  <1>2. said \in Seq(Statement) /\ Len(said) \in {0, 1}
    <2>1. CASE said = <<>>
      BY <2>1
    <2>2. CASE said # <<>>
      <3>1. PICK a \in Actors, v \in Values :
              said = <<[kind |-> "material_extraction", ref |-> NoRef, actor |-> a,
                        legacy |-> TRUE, value |-> v, status |-> "confirmed"]>>
        BY <2>2 DEF FactsInit
      <3> DEFINE x == [kind |-> "material_extraction", ref |-> NoRef, actor |-> a,
                       legacy |-> TRUE, value |-> v, status |-> "confirmed"]
      <3>2. x \in Statement
        BY FactAssumption DEF Statement, FactStatus
      <3>3. said \in Seq(Statement) /\ Len(said) = 1
        BY <3>1, <3>2
      <3> HIDE DEF x
      <3> QED BY <3>3
    <2> QED BY <2>1, <2>2
  <1>3. Len(said) <= MaxPuts + 1 /\ (\A i \in 2..Len(said) : ~said[i].legacy)
    <2>1. CASE Len(said) = 0
      BY <2>1, FactAssumption
    <2>2. CASE Len(said) = 1
      BY <2>2, FactAssumption
    <2> QED BY <1>2, <2>1, <2>2
  <1> QED BY <1>1, <1>2, <1>3 DEF SaidTyped

LEMMA FactsSaidStep == FactsInv /\ SaidTyped /\ [FactsNext]_fvars => SaidTyped'
  <1> SUFFICES ASSUME FactsInv, SaidTyped, [FactsNext]_fvars PROVE SaidTyped'
    OBVIOUS
  <1>1. ASSUME NEW kind \in Kinds, NEW ref \in Refs \cup {NoRef}, NEW actor \in Actors,
               NEW value \in Values, NEW word \in FactStatus,
               PutFact(kind, ref, actor, value, word)
        PROVE  SaidTyped'
    <2> DEFINE x == [kind |-> kind, ref |-> ref, actor |-> actor, legacy |-> FALSE,
                     value |-> value, status |-> word]
    <2>1. x \in Statement /\ ~x.legacy
      BY DEF Statement
    <2>2. said' = Append(said, x) /\ UNCHANGED rendering /\ Len(said) <= MaxPuts
      BY <1>1, FactsPutsCounted DEF PutFact
    <2> HIDE DEF x
    <2>3. /\ said' \in Seq(Statement) /\ Len(said') = Len(said) + 1 /\ Len(said) \in Nat
          /\ said'[Len(said) + 1] = x /\ \A i \in 1..Len(said) : said'[i] = said[i]
      BY <2>1, <2>2 DEF SaidTyped
    <2>4. \A i \in 2..Len(said') : ~said'[i].legacy
      BY <2>1, <2>3 DEF SaidTyped
    <2>5. Len(said') <= MaxPuts + 1
      BY <2>2, <2>3, FactAssumption
    <2> QED BY <2>2, <2>3, <2>4, <2>5 DEF SaidTyped
  <1>2. ASSUME NEW slot \in Slots, CreateJob(slot) PROVE SaidTyped'
    <2>1. rendering'.stage = "accepted" /\ UNCHANGED said
      BY <1>2 DEF CreateJob, NoRendering
    <2> QED BY <2>1 DEF SaidTyped
  <1>3. CASE RenderFile
    <2>1. rendering.stage = "accepted" /\ UNCHANGED said
      BY <1>3 DEF RenderFile
    <2>3. rendering'.stage = "rendered"
      BY <1>3 DEF RenderFile, FactsInv, RenderingShape
    <2> QED BY <2>1, <2>3 DEF SaidTyped
  <1>4. CASE UNCHANGED fvars
    BY <1>4 DEF fvars, SaidTyped
  <1> QED BY <1>1, <1>2, <1>3, <1>4 DEF FactsNext

\* Rows, statements and jobs keep their types, and the rows a job has frozen
\* are rows of the table.
THEOREM FactsTyped == FactsSpec => []FactsTypeOK
  <1>1. FactsInv /\ SaidTyped => FactsTypeOK
    <2> SUFFICES ASSUME FactsInv, SaidTyped PROVE FactsTypeOK
      OBVIOUS
    <2>1. said \in Seq(Statement) /\ Len(said) \in Nat /\ RenderingShape
      BY DEF SaidTyped, FactsInv
    <2>2. ASSUME NEW s \in Statement PROVE RowOf(s) \in FactRow
      BY DEF Statement, RowOf, FactRow, Candidate, CandidateKeys
    <2>3. ASSUME NEW n \in 0..Len(said) PROVE RowsOf(said, n) \subseteq FactRow
      <3>1. \A i \in 1..n : said[i] \in Statement
        BY <2>1, <2>3
      <3>2. Standing(said, n) \subseteq Statement
        BY <3>1 DEF Standing
      <3> QED BY <2>2, <3>2 DEF RowsOf
    <2>4. rows \subseteq FactRow
      BY <2>1, <2>3 DEF FactsInv
    <2>5. rendering.heard \in 0..Len(said) /\ rendering.frozen \subseteq FactRow
      <3>1. CASE rendering.stage = "none"
        BY <2>1, <3>1 DEF SaidTyped
      <3>2. CASE rendering.stage # "none"
        <4>1. rendering.heard \in 0..Len(said) /\ rendering.frozen = RowsOf(said, rendering.heard)
          BY <2>1, <3>2 DEF FactsInv, FrozenOK, RenderingShape
        <4> QED BY <2>3, <4>1
      <3> QED BY <3>1, <3>2
    <2>6. NoRendering.slot \in SlotRecord /\ NoRendering.value \in Values
      <3>1. [kind |-> "scalar", master |-> FALSE, missing |-> "block"] \in SlotRecord
        BY DEF SlotRecord
      <3>2. NoRendering.slot = CHOOSE s \in SlotRecord : TRUE
        BY DEF NoRendering
      <3>3. NoRendering.value = CHOOSE v \in Values : TRUE
        BY DEF NoRendering
      <3>4. NoRendering.slot \in SlotRecord
        BY <3>1, <3>2
      <3> QED BY <3>3, <3>4, FactAssumption
    <2>7. /\ rendering.stage \in {"none", "accepted", "rendered"} /\ rendering.outcome \in Outcomes
          /\ rendering.slot \in SlotRecord /\ rendering.value \in Values
      BY <2>1, <2>6, SlotAssumption DEF RenderingShape
    <2> QED BY <2>1, <2>4, <2>5, <2>7 DEF FactsTypeOK, SaidTyped
  <1>2. FactsSpec => []FactsInv
    BY FactsInitInv, FactsStepInv, PTL DEF FactsSpec
  <1> QED BY <1>1, <1>2, FactsSaidInit, FactsSaidStep, PTL DEF FactsSpec
=============================================================================
