---------------------------- MODULE ReportDrafts ----------------------------
(***************************************************************************)
(* Generation of the draft report of an engagement: the analysis run, the  *)
(* citation plan, the versioned draft, its frozen citation manifest, its   *)
(* rendered files, and the chat message that delivers it.                  *)
(*                                                                         *)
(* Grain of atomicity.  A generation is a chain of transactions, each an   *)
(* action; between any two of them it may fail or its process may die, and *)
(* other generations, imports and changes of the evidence may happen.  A   *)
(* generation that failed is not resumed: a later one starts afresh.       *)
(*                                                                         *)
(* Abstractions.  The sales and the cash analysis are one analysis.  The   *)
(* workpapers, versioned beside the draft under the same lock and the same *)
(* key, are part of it.  A run has one finding; its citation is the run    *)
(* and the state of the evidence it was planned from, and state 0 of the   *)
(* evidence has no anchors, so nothing is cited.  The other facts of the   *)
(* snapshot (profile, gate, corrections) are left out.                     *)
(***************************************************************************)
EXTENDS Naturals, Sequences

CONSTANTS
    Makers,          \* turns that generate a draft
    MaxFacts,        \* bound: completed imports
    MaxEvidence,     \* bound: changes of the evidence a finding is traced to
    MaxGenerations   \* bound: generations started

ASSUME DraftAssumption ==
    MaxFacts \in Nat /\ MaxEvidence \in Nat /\ MaxGenerations \in Nat

VARIABLES
    facts,       \* number of completed import batches
    evidence,    \* state of the anchors in the knowledge graph, 0: unbound
    runs,        \* rows of annual_analysis_run: the input version of each
    drafts,      \* rows of audit_report, with their manifest and the snapshots
                 \* their artifact_ref was rendered from
    maker,       \* generations under way
    delivered,   \* messages bound to the version they delivered
    generations  \* bound variable: generations started

dvars == <<facts, evidence, runs, drafts, maker, delivered, generations>>

Citations == [run : 1..MaxGenerations, evidence : 1..MaxEvidence]
Snapshot == [ready : 0..MaxFacts, run : 0..MaxGenerations, cached : BOOLEAN,
             cites : SUBSET Citations]

Stages == {"idle", "analysing", "computing", "planning", "drafting", "citing",
           "publishing", "uploaded", "delivering"}

DraftsTypeOK ==
    /\ facts \in 0..MaxFacts /\ evidence \in 0..MaxEvidence
    /\ runs \in Seq(0..MaxFacts)
    /\ \A d \in 1..Len(drafts) :
        /\ drafts[d].snapshot \in Snapshot
        /\ drafts[d].manifest \subseteq Citations
        /\ drafts[d].files \subseteq Snapshot
    /\ \A m \in Makers : /\ maker[m].stage \in Stages
                         /\ maker[m].snapshot \in Snapshot
                         /\ maker[m].version \in 0..Len(drafts)
    /\ \A message \in delivered : message.version \in 1..Len(drafts)
    /\ generations \in 0..MaxGenerations

EmptySnapshot == [ready |-> 0, run |-> 0, cached |-> FALSE, cites |-> {}]
IdleMaker == [stage |-> "idle", recompute |-> FALSE, input |-> 0, version |-> 0,
              files |-> FALSE, snapshot |-> EmptySnapshot]

DraftsInit ==
    /\ facts = 0 /\ evidence = 0
    /\ runs = <<>> /\ drafts = <<>> /\ delivered = {}
    /\ maker = [m \in Makers |-> IdleMaker]
    /\ generations = 0

Ends(m) == maker' = [maker EXCEPT ![m] = IdleMaker]

----------------------------------------------------------------------------
(* The world around: imports complete, anchors are bound or revised.       *)

ImportFacts ==
    /\ facts < MaxFacts /\ facts' = facts + 1
    /\ UNCHANGED <<evidence, runs, drafts, maker, delivered, generations>>

ChangeEvidence ==
    /\ evidence < MaxEvidence /\ evidence' = evidence + 1
    /\ UNCHANGED <<facts, runs, drafts, maker, delivered, generations>>

----------------------------------------------------------------------------
(* A generation.                                                           *)

\* readiness is read before the analysis
StartDraft(m, recompute) ==
    /\ maker[m].stage = "idle" /\ generations < MaxGenerations
    /\ maker' = [maker EXCEPT ![m] =
                    [IdleMaker EXCEPT !.stage = "analysing", !.recompute = recompute,
                                      !.snapshot.ready = facts]]
    /\ generations' = generations + 1
    /\ UNCHANGED <<facts, evidence, runs, drafts, delivered>>

Latest(S) == CHOOSE x \in S : \A y \in S : y <= x

\* The completed runs of the present input version.
CachedRuns == {r \in 1..Len(runs) : runs[r] = facts}

\* Without rows there is nothing to analyse; a cached run is taken unless a
\* recomputation was asked for.
Analyse(m) ==
    /\ maker[m].stage = "analysing"
    /\ maker' =
        IF facts = 0
        THEN [maker EXCEPT ![m].stage = "planning", ![m].recompute = FALSE]
        ELSE IF ~maker[m].recompute /\ CachedRuns # {}
        THEN [maker EXCEPT ![m].stage = "planning",
                           ![m].snapshot.run = Latest(CachedRuns),
                           ![m].snapshot.cached = TRUE]
        ELSE [maker EXCEPT ![m].stage = "computing", ![m].recompute = FALSE,
                           ![m].input = facts]
    /\ UNCHANGED <<facts, evidence, runs, drafts, delivered, generations>>

PersistRun(m) ==
    /\ maker[m].stage = "computing"
    /\ runs' = Append(runs, maker[m].input)
    /\ maker' = [maker EXCEPT ![m].stage = "planning", ![m].input = 0,
                              ![m].snapshot.run = Len(runs')]
    /\ UNCHANGED <<facts, evidence, drafts, delivered, generations>>

\* Only findings whose claim in the knowledge graph has an anchor are cited.
PlanCitations(m) ==
    /\ maker[m].stage = "planning"
    /\ maker' = [maker EXCEPT
                    ![m].stage = "drafting",
                    ![m].snapshot.cites =
                        {c \in Citations : c.run = maker[m].snapshot.run
                                           /\ c.evidence = evidence}]
    /\ UNCHANGED <<facts, evidence, runs, drafts, delivered, generations>>

\* Mutant: the citation plan is not part of the key.
GenerationKeyUnplanned(s) == [s EXCEPT !.cites = {}]

GenerationKey(s) == s

\* The latest version is reused when its key is the same; the engagement row
\* is locked.
PersistDraft(m) ==
    /\ maker[m].stage = "drafting"
    /\ LET last == Len(drafts)
           reused == last > 0 /\ GenerationKey(drafts[last].snapshot)
                                 = GenerationKey(maker[m].snapshot)
       IN /\ drafts' = IF reused THEN drafts
                       ELSE Append(drafts, [snapshot |-> maker[m].snapshot,
                                            manifest |-> {}, files |-> {}])
          /\ maker' = [maker EXCEPT ![m].stage = "citing", ![m].version = Len(drafts')]
    /\ UNCHANGED <<facts, evidence, runs, delivered, generations>>

\* A complete manifest that differs from the one on record is a conflict.
ManifestAccepts(version, cites) == drafts[version].manifest \in {{}, cites}

\* A plan without citations writes nothing; a conflict fails the generation.
PersistManifest(m) ==
    /\ maker[m].stage = "citing"
    /\ LET v == maker[m].version
           cites == maker[m].snapshot.cites
       IN IF cites # {} /\ ~ManifestAccepts(v, cites)
          THEN Ends(m) /\ UNCHANGED drafts
          ELSE /\ drafts' = [drafts EXCEPT ![v].manifest = @ \cup cites]
               /\ maker' = [maker EXCEPT ![m].stage = "publishing"]
    /\ UNCHANGED <<facts, evidence, runs, delivered, generations>>

\* An upload that fails is only reported; the files stored so far are kept.
Upload(m, stored) ==
    /\ maker[m].stage = "publishing"
    /\ maker' = [maker EXCEPT ![m].stage = "uploaded", ![m].files = stored]
    /\ UNCHANGED <<facts, evidence, runs, drafts, delivered, generations>>

\* The text of a draft is written from the snapshot of its generation alone.
Rendered(m) == maker[m].snapshot

SaveArtifactRefs(m) ==
    /\ maker[m].stage = "uploaded"
    /\ drafts' = IF maker[m].files
                 THEN [drafts EXCEPT ![maker[m].version].files = {Rendered(m)}]
                 ELSE drafts
    /\ maker' = [maker EXCEPT ![m].stage = "delivering", ![m].files = FALSE]
    /\ UNCHANGED <<facts, evidence, runs, delivered, generations>>

\* Mutant: the message is bound to the version that is the latest by then.
FrozenVersionLatest(m) == Len(drafts)

\* Mutant: off by one, the message is bound to the version after its own.
FrozenVersionNext(m) == maker[m].version + 1

FrozenVersion(m) == maker[m].version

\* The reference of the answer, bound to the frozen version.
DeliveryRef(m) == [version |-> FrozenVersion(m), cites |-> maker[m].snapshot.cites]

\* The answer is stored under a fresh reference; the message is delivered even
\* when the binding fails, without one.
Deliver(m, binds) ==
    /\ maker[m].stage = "delivering"
    /\ binds => maker[m].snapshot.cites # {}
    /\ delivered' = IF binds THEN delivered \cup {DeliveryRef(m)} ELSE delivered
    /\ Ends(m)
    /\ UNCHANGED <<facts, evidence, runs, drafts, generations>>

\* An exception, or the end of the process, between two steps.
FailDraft(m) ==
    /\ maker[m].stage # "idle" /\ Ends(m)
    /\ UNCHANGED <<facts, evidence, runs, drafts, delivered, generations>>

\* The citations frozen for the version a message's reference is bound to.
FrozenCitations(message) == drafts[message.version].manifest

\* What the reference resolves to: the stored answer or, once that has
\* expired, the frozen citations.
Resolutions(message) == {message.cites, FrozenCitations(message)}

DraftsNext ==
    \/ ImportFacts \/ ChangeEvidence
    \/ \E m \in Makers :
        \/ \E recompute \in BOOLEAN : StartDraft(m, recompute)
        \/ Analyse(m) \/ PersistRun(m) \/ PlanCitations(m)
        \/ PersistDraft(m) \/ PersistManifest(m)
        \/ \E stored \in BOOLEAN : Upload(m, stored)
        \/ SaveArtifactRefs(m)
        \/ \E binds \in BOOLEAN : Deliver(m, binds)
        \/ FailDraft(m)

DraftsSpec == DraftsInit /\ [][DraftsNext]_dvars

----------------------------------------------------------------------------
(* Properties.                                                             *)

\* A version is one thing: the manifest frozen for it and the files rendered
\* for it come from the very snapshot stored with it, however many
\* generations reused the version and wherever each of them failed
\* (persist_report_citation_manifest: "exactly one report version").
VersionCoherent ==
    \A d \in 1..Len(drafts) :
        /\ drafts[d].manifest \in {{}, drafts[d].snapshot.cites}
        /\ drafts[d].files \in {{}, {drafts[d].snapshot}}

\* A message bound to a version keeps the citations it showed: after its
\* stored answer has expired, and whatever was generated since, its reference
\* resolves to the same ones (resolve_report_evidence falls back on the
\* manifest).
DeliveredCitationsKept ==
    \A message \in delivered : Resolutions(message) = {message.cites}
=============================================================================
