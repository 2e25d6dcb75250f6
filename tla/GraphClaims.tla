----------------------------- MODULE GraphClaims ----------------------------
(***************************************************************************)
(* The knowledge graph of one case and the jobs that extend it: entities,  *)
(* relations and claims are upserted or inserted, items that could not be  *)
(* placed wait for a later batch, and older claims are superseded.  A      *)
(* report or an answer projects the findings of the audit rules into the   *)
(* same tables, and inserts a claim only for those that have none.         *)
(*                                                                         *)
(* Grain of atomicity.  Every kg_service call is a transaction and an      *)
(* action; a look-up is part of the write that follows it.  The jobs run   *)
(* in the threads of an executor, interleave freely, and any of them may   *)
(* stop between two calls, by an exception or with the process.            *)
(*                                                                         *)
(* Abstractions.  A fact stands for a relation key, the entity the         *)
(* relation hangs on and the claims about it; what a batch says of a fact  *)
(* is one claim.  Claims of one fact match by relation key, and the model  *)
(* or the fallback decides which of the candidates are overridden.  The    *)
(* unresolved relation and the unresolved claim of a fact are one item,    *)
(* which is the claim's.  The evidence of a claim is due when one of the   *)
(* chunks it cites could be read, and missing when none could: a chunk     *)
(* that is not in the batch's map, or that has no file or page, is passed  *)
(* over.  Findings come with chunks that were read.  ADD rows of the       *)
(* ledger, which only explain a replay, are left out.  A finding is a fact *)
(* that only a projection states, as its entity and its relation have keys *)
(* that no extraction gives.  An extracted claim may read like the claim   *)
(* of a finding, and override it; claims of different extracted facts do   *)
(* not read alike.                                                         *)
(*                                                                         *)
(* Reads whose failure the code swallows (look-ups of entities, relations, *)
(* unresolved items and chunks, of which one call gives at most fifty) are *)
(* choices of what was found.                                              *)
(***************************************************************************)
EXTENDS Naturals, SequencesExt

CONSTANTS Facts, GraphJobs,
          RuleFacts,   \* findings of the audit rules
          MaxJobs      \* bound: jobs started

ASSUME GraphAssumption ==
    RuleFacts \subseteq Facts /\ IsFiniteSet(Facts) /\ MaxJobs \in Nat

VARIABLES
    entity,      \* facts whose entity is in kg_entity
    relation,    \* kg_relation.status of every fact
    claims,      \* rows of kg_claim, in the order of their ids
    items,       \* rows of kg_unresolved_item
    ledger,      \* OVERRIDE rows: pairs of a new and a superseded claim
    projections, \* kg_extraction_run.status of the runs of projections
    job,         \* what every thread is doing
    started      \* bound variable: jobs so far

wvars == <<entity, relation, claims, items, ledger, projections, job, started>>

\* Mutant: replayed items are marked resolved before their evidence is linked.
OrderResolvedFirst ==
    <<"entities", "relations", "replay_relations", "claims", "replay_claims", "resolve", "link",
      "unresolved", "reconcile", "supersede_claims", "supersede_relations", "ledger">>

\* persist_graph and reconcile_graph_delta.
Order ==
    <<"entities", "relations", "replay_relations", "claims", "replay_claims", "link", "resolve",
      "unresolved", "reconcile", "supersede_claims", "supersede_relations", "ledger">>

\* Mutant: the run of a projection is completed before the evidence is linked.
ProjectionCompletedFirst == <<"entities", "relations", "find", "claims", "complete", "link">>

\* _persist_projection.
ProjectionOrder == <<"entities", "relations", "find", "claims", "link", "complete">>

Calls(rec) == IF rec.says \subseteq RuleFacts THEN ProjectionOrder ELSE Order

\* read: one of the chunks it cites could be read
Claim(fact, run, read) == [fact |-> fact, active |-> TRUE,
                           evidence |-> IF read THEN "due" ELSE "missing", run |-> run]
Item(fact) == [fact |-> fact, claim |-> 0]     \* claim 0: pending
NoJob == [step |-> 0, says |-> {}, names |-> {}, placed |-> {}, mine |-> {},
          resolving |-> {}, old |-> {}, run |-> 0]

Ids == DOMAIN claims

\* Rows and jobs have the shapes of their tables and nodes.
GraphTypeOK ==
    /\ entity \subseteq Facts
    /\ relation \in [Facts -> {"none", "active", "superseded"}]
    /\ projections \in Seq({"running", "completed", "failed"})
    /\ claims \in Seq([fact : Facts, active : BOOLEAN, evidence : {"due", "missing", "linked"},
                       run : DOMAIN projections \cup {0}])
    /\ items \in Seq([fact : Facts, claim : Ids \cup {0}])
    /\ ledger \subseteq Ids \X Ids
    /\ job \in [GraphJobs -> [step : 0..Len(Order), says : SUBSET Facts, names : SUBSET Facts,
                              placed : SUBSET Facts, mine : SUBSET Ids,
                              resolving : SUBSET ((DOMAIN items) \X Ids), old : SUBSET Ids,
                              run : DOMAIN projections \cup {0}]]
    /\ started \in 0..MaxJobs

GraphInit ==
    /\ entity = {} /\ relation = [f \in Facts |-> "none"]
    /\ claims = <<>> /\ items = <<>> /\ ledger = {} /\ projections = <<>>
    /\ job = [j \in GraphJobs |-> NoJob]
    /\ started = 0

At(j, step) == job[j].step # 0 /\ Calls(job[j])[job[j].step] = step
Onward(rec) == IF rec.step = Len(Calls(rec)) THEN NoJob ELSE [rec EXCEPT !.step = @ + 1]
Advance(j) == job' = [job EXCEPT ![j] = Onward(@)]
FactOf(c) == claims[c].fact


\* insert_claims, with the ids it returns.
Insert(facts, read, run) == claims \o SetToSeq({Claim(f, run, f \in read) : f \in facts})
NewIds(facts) == {Len(claims) + n : n \in 1..Cardinality(facts)}

-----------------------------------------------------------------------------
(* persist_graph.                                                           *)

StartJob(j, says, names) ==
    /\ job[j].step = 0 /\ started < MaxJobs
    /\ job' = [job EXCEPT ![j] = [NoJob EXCEPT !.step = 1, !.says = says, !.names = names]]
    /\ started' = started + 1
    /\ UNCHANGED <<entity, relation, claims, items, ledger, projections>>

SaveEntities(j) ==
    /\ At(j, "entities")
    /\ entity' = entity \cup job[j].names
    /\ Advance(j) /\ UNCHANGED <<relation, claims, items, ledger, projections, started>>

\* An upsert makes a superseded relation active again.  Without the look-up of
\* what the case has, only the entities of the batch itself are known.  The
\* names of the batch are not needed after this.
SaveRelations(j) ==
    /\ At(j, "relations")
    /\ \E known \in {entity, job[j].names} : LET placed == job[j].says \cap known IN
        /\ relation' = [f \in Facts |-> IF f \in placed THEN "active" ELSE relation[f]]
        /\ job' = [job EXCEPT ![j] = Onward([@ EXCEPT !.placed = placed, !.names = {}])]
    /\ UNCHANGED <<entity, claims, items, ledger, projections, started>>

Pending == {n \in DOMAIN items : items[n].claim = 0}
PendingFacts == {items[n].fact : n \in Pending}

\* Unresolved relations whose entities have come since; those of the batch's
\* own relations are skipped.
ReplayRelations(j) ==
    /\ At(j, "replay_relations")
    /\ \E come \in SUBSET ((PendingFacts \cap entity) \ job[j].placed) :
        /\ relation' = [f \in Facts |-> IF f \in come THEN "active" ELSE relation[f]]
        /\ job' = [job EXCEPT ![j] = Onward(
               [@ EXCEPT !.placed = job[j].placed \cup (come \cap job[j].says)])]
    /\ UNCHANGED <<entity, claims, items, ledger, projections, started>>

\* The facts of the batch some chunk of which could be read.
Read(rec) == IF rec.run = 0 THEN SUBSET rec.placed ELSE {rec.placed}

InsertClaims(j) ==
    /\ At(j, "claims")
    /\ \E read \in Read(job[j]) : claims' = Insert(job[j].placed, read, job[j].run)
    /\ job' = [job EXCEPT ![j] = Onward([@ EXCEPT !.mine = NewIds(job[j].placed)])]
    /\ UNCHANGED <<entity, relation, items, ledger, projections, started>>

\* Unresolved claims whose entity and relation are there.
Ready == {n \in Pending : items[n].fact \in entity /\ relation[items[n].fact] = "active"}

\* Every item found gives a claim of its own, whether its chunks can be read or
\* not, and is marked only once the evidence is linked.
ReplayClaims(j) ==
    /\ At(j, "replay_claims")
    /\ \E found \in SUBSET Ready : \E read \in SUBSET found :
          LET order == SetToSeq(found) IN
          /\ claims' = claims \o
                 [k \in DOMAIN order |-> Claim(items[order[k]].fact, 0, order[k] \in read)]
          /\ job' = [job EXCEPT ![j] = Onward(
                 [@ EXCEPT !.mine = job[j].mine \cup (Len(claims) + 1)..Len(claims'),
                           !.resolving = {<<order[k], Len(claims) + k>> : k \in DOMAIN order}])]
    /\ UNCHANGED <<entity, relation, items, ledger, projections, started>>

\* insert_evidence_links: rows for the chunks that could be read.
Linked(c, mine) == IF c \in mine /\ claims[c].evidence = "due" THEN "linked" ELSE claims[c].evidence

LinkEvidence(j) ==
    /\ At(j, "link")
    /\ claims' = [c \in Ids |-> [claims[c] EXCEPT !.evidence = Linked(c, job[j].mine)]]
    /\ Advance(j) /\ UNCHANGED <<entity, relation, items, ledger, projections, started>>

ResolveItems(j) ==
    /\ At(j, "resolve")
    /\ items' = [n \in DOMAIN items |->
           LET into == {c \in Ids : <<n, c>> \in job[j].resolving}
           IN  IF into = {} THEN items[n] ELSE [items[n] EXCEPT !.claim = CHOOSE c \in into : TRUE]]
    /\ Advance(j) /\ UNCHANGED <<entity, relation, claims, ledger, projections, started>>

\* A failure to keep the unresolved items is swallowed.
SaveUnresolved(j) ==
    /\ At(j, "unresolved")
    /\ LET open == SetToSeq({Item(f) : f \in job[j].says \ job[j].placed}) IN
        items' \in {items \o open, items}
    /\ Advance(j) /\ UNCHANGED <<entity, relation, claims, ledger, projections, started>>

-----------------------------------------------------------------------------
(* reconcile_graph_delta.                                                   *)

\* What the batch says is judged, whether it was placed or not.
Signatures(j) == job[j].says

\* Claims match by relation key; with the claim of a finding it is by text.
Matches(fact, old) == fact = old \/ old \in RuleFacts

\* Active claims that match, but for the batch's own.
Candidates(j) ==
    {c \in Ids \ job[j].mine : /\ claims[c].active
                               /\ \E f \in Signatures(j) : Matches(f, FactOf(c))
                               /\ FactOf(c) \in entity /\ relation[FactOf(c)] = "active"}

\* The model overrides some of them, the heuristic those that match and would
\* lose no detail; either may find nothing.
Decisions(j) == SUBSET Candidates(j)

\* A batch without claims, or without anything to override, is not reconciled.
Reconcile(j) ==
    /\ At(j, "reconcile")
    /\ \/ /\ job[j].mine # {}
          /\ \E old \in Decisions(j) \ {{}} :
                job' = [job EXCEPT ![j] = Onward([@ EXCEPT !.old = old])]
       \/ job' = [job EXCEPT ![j] = NoJob]
    /\ UNCHANGED <<entity, relation, claims, items, ledger, projections, started>>

SupersedeClaims(j) ==
    /\ At(j, "supersede_claims")
    /\ claims' = [c \in Ids |-> [claims[c] EXCEPT !.active = @ /\ c \notin job[j].old]]
    /\ Advance(j) /\ UNCHANGED <<entity, relation, items, ledger, projections, started>>

\* The relation of a superseded claim with the same relation key is the row
\* the batch has just upserted.
Outdated(j) == {FactOf(c) : c \in job[j].old} \cap Signatures(j)

SupersedeRelations(j) ==
    /\ At(j, "supersede_relations")
    /\ relation' = [f \in Facts |-> IF f \in Outdated(j) THEN "superseded" ELSE relation[f]]
    /\ Advance(j) /\ UNCHANGED <<entity, claims, items, ledger, projections, started>>

\* The claim of the batch that replaces c: its latest about a fact that matches.
Replacing(j, c) ==
    {n \in job[j].mine : /\ FactOf(n) \in Signatures(j)
                         /\ Matches(FactOf(n), FactOf(c))
                         /\ \A m \in job[j].mine : FactOf(m) = FactOf(n) => m <= n}

\* The new claim of a row must exist: a decision about a claim that was left
\* unresolved fails the insert of them all.
WriteLedger(j) ==
    /\ At(j, "ledger")
    /\ \E new \in [job[j].old -> job[j].mine] :
          /\ \A c \in job[j].old : new[c] \in Replacing(j, c)
          /\ ledger' = ledger \cup {<<new[c], c>> : c \in job[j].old}
    /\ Advance(j) /\ UNCHANGED <<entity, relation, claims, items, projections, started>>

-----------------------------------------------------------------------------
(* _persist_projection, but for the calls it shares with persist_graph.     *)

\* The findings with bound evidence; every one gets an entity and a relation.
StartProjection(j, says) ==
    /\ job[j].step = 0 /\ started < MaxJobs
    /\ job' = [job EXCEPT ![j] = [NoJob EXCEPT !.step = 1, !.says = says, !.names = says]]
    /\ started' = started + 1
    /\ UNCHANGED <<entity, relation, claims, items, ledger, projections>>

\* find_active_annual_projection_claims
Projected == {FactOf(c) : c \in {d \in Ids : claims[d].active}} \cap RuleFacts

\* create_extraction_run
NewRun == Append(projections, "running")

\* A run is created for the findings without an active claim, if there are any.
FindProjected(j) ==
    /\ At(j, "find")
    /\ LET missing == job[j].says \ Projected IN
        IF missing = {}
        THEN projections' = projections /\ job' = [job EXCEPT ![j] = NoJob]
        ELSE /\ projections' = NewRun
             /\ job' = [job EXCEPT ![j] =
                    Onward([@ EXCEPT !.placed = missing, !.run = Len(projections) + 1])]
    /\ UNCHANGED <<entity, relation, claims, items, ledger, started>>

CompleteRun(j) ==
    /\ At(j, "complete")
    /\ projections' = [projections EXCEPT ![job[j].run] = "completed"]
    /\ Advance(j) /\ UNCHANGED <<entity, relation, claims, items, ledger, started>>

\* An exception in any call fails the batch or the projection; a retry is a new
\* job.  The run of a projection is marked failed, unless that fails as well or
\* the process has died.
FailJob(j) ==
    /\ job[j].step # 0
    /\ job' = [job EXCEPT ![j] = NoJob]
    /\ \/ projections' = projections
       \/ job[j].run # 0 /\ projections' = [projections EXCEPT ![job[j].run] = "failed"]
    /\ UNCHANGED <<entity, relation, claims, items, ledger, started>>

GraphNext ==
    \E j \in GraphJobs :
        \/ \E says \in (SUBSET (Facts \ RuleFacts)) \ {{}}, names \in SUBSET (Facts \ RuleFacts) :
               StartJob(j, says, names)
        \/ \E says \in (SUBSET RuleFacts) \ {{}} : StartProjection(j, says)
        \/ FindProjected(j) \/ CompleteRun(j)
        \/ SaveEntities(j) \/ SaveRelations(j) \/ ReplayRelations(j) \/ InsertClaims(j)
        \/ ReplayClaims(j) \/ LinkEvidence(j) \/ ResolveItems(j) \/ SaveUnresolved(j)
        \/ Reconcile(j) \/ SupersedeClaims(j) \/ SupersedeRelations(j) \/ WriteLedger(j)
        \/ FailJob(j)

GraphSpec == GraphInit /\ [][GraphNext]_wvars

-----------------------------------------------------------------------------
(* Properties.                                                              *)

\* The records that explain the graph tell the truth wherever the jobs that
\* write them stop: an unresolved item is marked resolved only by a claim about
\* its fact, and only when all the evidence of the claim that could be read is
\* linked (persist_graph), the old claim of a ledger row is superseded, by a
\* claim about the same fact or about one that reads like the finding it was
\* about (insert_reconciliation_ledger), and a projection's run is marked
\* completed only when all its claims have their evidence
\* (complete_extraction_run).
TrailTellsTrue ==
    /\ \A n \in DOMAIN items : items[n].claim # 0 =>
           claims[items[n].claim].evidence # "due" /\ FactOf(items[n].claim) = items[n].fact
    /\ \A r \in ledger : /\ ~claims[r[2]].active /\ FactOf(r[1]) \notin RuleFacts
                         /\ Matches(FactOf(r[1]), FactOf(r[2]))
    /\ \A c \in Ids : claims[c].run # 0 /\ projections[claims[c].run] = "completed" =>
                          claims[c].evidence = "linked"

\* "Soft-supersede relations so new evidence can replace them": a claim that
\* has replaced another is in the graph with its relation, once no job that
\* could still write it is at work (mark_relations_superseded).
ReplacementVisible ==
    \A r \in ledger :
        claims[r[1]].active /\ (\A j \in GraphJobs : job[j].step = 0)
            => relation[FactOf(r[1])] = "active"
=============================================================================
