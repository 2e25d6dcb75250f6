--------------------------- MODULE EngagementFacts ---------------------------
(***************************************************************************)
(* The facts of an engagement: what each source says of a key, in rows of  *)
(* annual_engagement_fact, and what a generation job makes of them.  A job *)
(* freezes the rows when it is accepted and renders from the frozen ones,  *)
(* possibly much later, while reviewers and extractions go on writing.     *)
(*                                                                         *)
(* Grain of atomicity.  upsert_fact_version locks the engagement and is    *)
(* one action.  Freezing is one statement and the preflight works on what  *)
(* it read; the insert of the job is the subject of AttachmentCreate.      *)
(*                                                                         *)
(* Abstractions.  One key that can be written and one of master data,      *)
(* which does not change.  Rows that are not current are not kept, nor are *)
(* revision numbers.  A rejected row counts as a candidate does.  A source *)
(* reference and a list of evidence identify a source alike.  A template   *)
(* has one slot.  The attempt of a job that fails on the text of the model *)
(* is repeated.                                                            *)
(***************************************************************************)
EXTENDS Naturals, Sequences, FiniteSets

CONSTANTS
    Kinds,        \* kinds of sources
    Actors,       \* users and services that write facts
    Refs,         \* source references
    NoRef,
    Values,
    Slots,        \* the slot of a template, see SlotRecord
    MaxPuts       \* bound: writes

\* Extraction is among the kinds: the rows of before candidate keys are its rows.
ASSUME FactAssumption ==
    /\ Kinds \subseteq {"manual_review", "correction", "calculation", "material_extraction"}
    /\ "material_extraction" \in Kinds /\ Values # {}
    /\ NoRef \notin Refs /\ MaxPuts \in Nat

VARIABLES
    rows,         \* the current rows of the key
    rendering,    \* a generation job: slot, frozen rows and outcome
    said          \* history: everything that was written, in order; the job
                  \* was accepted after rendering.heard of it

fvars == <<rows, rendering, said>>

Nobody == "nobody"
FactStatus == {"candidate", "confirmed", "conflicted"}

SlotRecord == [kind : {"scalar", "narrative", "table", "semantic"}, master : BOOLEAN,
               missing : {"block", "empty", "omit"}]
ASSUME SlotAssumption == Slots \subseteq SlotRecord

\* Mutant: one row for all the actors of a kind.
CandidateWithoutActor(kind, ref, actor) ==
    [kind |-> kind, by |-> Nobody, ref |-> IF kind = "manual_review" THEN NoRef ELSE ref]

\* A manual review is its reviewer's word, whatever it refers to; other
\* sources are known by their reference, and by their actor without one.
Candidate(kind, ref, actor) ==
    IF kind = "manual_review" \/ ref = NoRef
    THEN [kind |-> kind, by |-> actor, ref |-> NoRef]
    ELSE [kind |-> kind, by |-> Nobody, ref |-> ref]

CandidateKeys == [kind : Kinds, by : Actors \cup {Nobody}, ref : Refs \cup {NoRef}]
FactRow == [candidate : CandidateKeys, legacy : BOOLEAN, value : Values, status : FactStatus]

\* A row of the time before candidate keys, or none.
LegacyRow(actor, value) ==
    [candidate |-> Candidate("material_extraction", NoRef, actor),
     legacy |-> TRUE, value |-> value, status |-> "confirmed"]

Outcomes == {"none", "refused", "empty", "omitted", "agreed"}
NoRendering == [stage |-> "none", heard |-> 0, slot |-> CHOOSE s \in SlotRecord : TRUE, frozen |-> {},
          outcome |-> "none", value |-> CHOOSE v \in Values : TRUE]

\* What is written: a kind of source, its reference, who writes it, and what.
Statement == [kind : Kinds, ref : Refs \cup {NoRef}, actor : Actors, legacy : BOOLEAN,
              value : Values, status : FactStatus]

\* Rows, and the frozen copy of them, are rows.
FactsTypeOK ==
    /\ rows \subseteq FactRow
    /\ said \in Seq(Statement) /\ Len(said) <= MaxPuts + 1
    /\ rendering.stage \in {"none", "accepted", "rendered"}
    /\ rendering.slot \in SlotRecord /\ rendering.frozen \subseteq FactRow
    /\ rendering.outcome \in Outcomes /\ rendering.value \in Values
    /\ rendering.heard \in 0..Len(said)

FactsInit ==
    /\ \/ rows = {} /\ said = <<>>
       \/ \E a \in Actors, v \in Values :
            /\ rows = {LegacyRow(a, v)}
            /\ said = <<[kind |-> "material_extraction", ref |-> NoRef, actor |-> a,
                         legacy |-> TRUE, value |-> v, status |-> "confirmed"]>>
    /\ rendering = NoRendering

----------------------------------------------------------------------------
(* Writing.                                                                *)

\* The rows a write takes the place of: its candidate's, and those of before
\* candidate keys that the same actor wrote for the same kind of source.
Replaced(R, candidate, kind, actor) ==
    {r \in R : IF r.legacy THEN r.candidate.kind = kind /\ r.candidate.by = actor
                           ELSE r.candidate = candidate}

\* The writes so far; the row of before candidate keys was not one of them.
Puts == {i \in DOMAIN said : ~said[i].legacy}

\* Keys of master data are refused.
PutFact(kind, ref, actor, value, status) ==
    LET candidate == Candidate(kind, ref, actor) IN
    /\ Cardinality(Puts) < MaxPuts
    /\ rows' = (rows \ Replaced(rows, candidate, kind, actor))
                 \cup {[candidate |-> candidate, legacy |-> FALSE, value |-> value,
                        status |-> status]}
    /\ said' = Append(said, [kind |-> kind, ref |-> ref, actor |-> actor, legacy |-> FALSE,
                             value |-> value, status |-> status])
    /\ UNCHANGED rendering

----------------------------------------------------------------------------
(* Resolution.                                                             *)

Authority(kind) == CASE kind = "project_master" -> 10
                     [] kind = "correction" -> 20
                     [] kind = "manual_review" -> 25
                     [] kind = "calculation" -> 30
                     [] kind = "material_extraction" -> 50

Eligible(R) == {r \in R : r.status \in {"confirmed", "conflicted"}}
Authoritative(R) ==
    {r \in Eligible(R) : \A s \in Eligible(R) :
        Authority(r.candidate.kind) <= Authority(s.candidate.kind)}

Resolves(R) == Authoritative(R) # {}
Conflicted(R) == \E r, s \in Authoritative(R) : r.status = "conflicted" \/ r.value # s.value
Resolved(R) == (CHOOSE r \in Authoritative(R) : TRUE).value

Result(outcome, value) == [outcome |-> outcome, value |-> value]

\* What a slot gets without its fact; a required slot blocks.
Missing(slot) ==
    Result(CASE slot.missing = "block" -> "refused"
             [] slot.missing = "empty" -> "empty"
             [] slot.missing = "omit" -> "omitted", NoRendering.value)

\* A table is taken from its key alone: it is refused, whatever its policy,
\* when the key has rows but none that counts.  The facts a semantic slot may
\* mention have to resolve before the job is accepted.
Prepared(slot, R) ==
    IF slot.master THEN Result("agreed", NoRendering.value)
    ELSE IF ~Resolves(R)
    THEN IF slot.kind = "semantic" \/ (slot.kind = "table" /\ R # {})
         THEN Result("refused", NoRendering.value) ELSE Missing(slot)
    ELSE IF Conflicted(R) THEN Result("refused", NoRendering.value)
    ELSE Result("agreed", Resolved(R))

----------------------------------------------------------------------------
(* A job.                                                                  *)

\* The context freezes every current row, so that missing and conflicting
\* facts stay apart; a job any of whose slots is refused is not accepted.
CreateJob(slot) ==
    /\ rendering.stage = "none" /\ Prepared(slot, rows).outcome # "refused"
    /\ rendering' = [NoRendering EXCEPT !.stage = "accepted", !.slot = slot, !.frozen = rows,
                                        !.heard = Len(said)]
    /\ UNCHANGED <<rows, said>>

\* The rows of the frozen context, read back.
FromContext == rendering.frozen

\* The text of the model mentions a fact, or leaves a slot out if it may.
Drafted(slot) == IF slot.missing = "block" THEN {"mention"} ELSE {"mention", "omit"}

\* A slot the model leaves out is empty whatever its fact says.
Composed(slot, R) ==
    {Prepared(slot, R)} \cup IF slot.kind = "semantic" /\ "omit" \in Drafted(slot)
                             THEN {Result("omitted", NoRendering.value)} ELSE {}

RenderFile ==
    /\ rendering.stage = "accepted"
    /\ \E result \in Composed(rendering.slot, FromContext) :
        rendering' = [rendering EXCEPT !.stage = "rendered", !.outcome = result.outcome,
                           !.value = result.value]
    /\ UNCHANGED <<rows, said>>

FactsNext ==
    \/ \E kind \in Kinds, ref \in Refs \cup {NoRef}, actor \in Actors,
          value \in Values, status \in FactStatus :
        PutFact(kind, ref, actor, value, status)
    \/ \E slot \in Slots : CreateJob(slot)
    \/ RenderFile

FactsSpec == FactsInit /\ [][FactsNext]_fvars

----------------------------------------------------------------------------
(* Properties.                                                             *)

\* Two statements of one source; a reviewer is one whatever the review cites.
SameSource(s, t) ==
    /\ s.kind = t.kind
    /\ \/ s.ref = t.ref /\ s.kind # "manual_review" /\ s.ref # NoRef
       \/ s.actor = t.actor /\ (s.kind = "manual_review" \/ s.ref = t.ref \/ s.legacy)

\* The statements nobody has taken back, among the first n.
LastWords(n) ==
    {said[i] : i \in {k \in 1..n : \A m \in (k + 1)..n : ~SameSource(said[k], said[m])}}

\* Those that count: no mere candidates, none of lesser authority.
Heard(n) ==
    LET words == {s \in LastWords(n) : s.status # "candidate"}
    IN {s \in words : \A t \in words : Authority(s.kind) <= Authority(t.kind)}

\* A job says what was agreed.  Nobody's word takes the place of another's,
\* and an accepted job renders what the sources of the highest authority had
\* all last said when it was accepted, or what its slot provides for a fact
\* nobody had confirmed, whatever is written before it runs; it is never
\* refused then (upsert_fact_version; FactRegistry.resolve, "Conflicting
\* values at the same authority level are always surfaced instead of
\* guessed"; frozen_snapshot).
RendersWhatWasAgreed ==
    rendering.stage = "rendered" /\ ~rendering.slot.master =>
        \/ rendering.slot.kind = "semantic" /\ rendering.outcome = "omitted"
        \/ LET words == Heard(rendering.heard) IN
           IF words = {} THEN rendering.outcome = Missing(rendering.slot).outcome
           ELSE /\ rendering.outcome = "agreed"
                /\ \A s \in words : s.status = "confirmed" /\ s.value = rendering.value
=============================================================================
