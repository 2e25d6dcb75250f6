--------------------------- MODULE MCDeliverables ---------------------------
(* TLC instance of what leads to the deliverables of an engagement: the      *)
(* facts an attachment job freezes, the creation of the job, the draft of    *)
(* the report, and the access to a published artifact.  The components share *)
(* no variable: a behaviour of the instance is one of one part, chosen at    *)
(* the start, while the others rest.                                         *)
EXTENDS AttachmentCreate, ReportDrafts, EngagementFacts, ArtifactTickets, TLC

VARIABLE part

\* A slot of each kind, and one of master data.
MCSlots == {[kind |-> "scalar", master |-> FALSE, missing |-> "block"],
            [kind |-> "scalar", master |-> TRUE, missing |-> "block"],
            [kind |-> "narrative", master |-> FALSE, missing |-> "empty"],
            [kind |-> "table", master |-> FALSE, missing |-> "omit"],
            [kind |-> "semantic", master |-> FALSE, missing |-> "omit"]}

\* Requests are interchangeable; the other processes and the keys come in
\* interchangeable pairs, and exchanging them all at once will do.
Pairs == {Makers, Actors, Holders, Keys}
Exchange == [x \in UNION Pairs |-> CHOOSE y \in UNION Pairs : {x, y} \in Pairs /\ y # x]
Symmetry == Permutations(Requests) \cup {Exchange}

\* A part at rest has one initial state.
AtRest == /\ part = "facts" \/ rows = {}
          /\ part = "attachments" \/ req = [r \in Requests |-> [input |-> CHOOSE i \in Inputs : TRUE,
                                                               key |-> NoKey]]

MCInit ==
    /\ Init /\ DraftsInit /\ FactsInit /\ TicketsInit
    /\ part \in {"attachments", "drafts", "facts", "tickets"}
    /\ AtRest

MCNext ==
    /\ \/ part = "attachments" /\ Next /\ UNCHANGED <<dvars, fvars, avars>>
       \/ part = "drafts" /\ DraftsNext /\ UNCHANGED <<vars, fvars, avars>>
       \/ part = "facts" /\ FactsNext /\ UNCHANGED <<vars, dvars, avars>>
       \/ part = "tickets" /\ TicketsNext /\ UNCHANGED <<vars, dvars, fvars>>
    /\ UNCHANGED part

MCSpec == MCInit /\ [][MCNext]_<<vars, dvars, fvars, avars, part>>

\* Every variable of the part that moves has its type; the others rest, and
\* those of the attachments always have theirs (TypeOK of AttachmentCreate).
DeliverablesTypeOK ==
    /\ TypeOK
    /\ part = "drafts" => DraftsTypeOK
    /\ part = "facts" => FactsTypeOK
    /\ part = "tickets" => TicketsTypeOK
=============================================================================
