----------------------------- MODULE MCPlatform -----------------------------
(* TLC instance of eight components of the back end that share no variable:  *)
(* a behaviour of the instance is one of one part, chosen at the start,     *)
(* while the others rest.                                                   *)
EXTENDS ReleaseGate, PolicyKnowledge, ConversationTurns, UploadIngest, GraphClaims,
        CaseMigration, AuditProgress, ThreadCases, TLC

CONSTANTS b1, b2, b3, o1, o2

VARIABLE part

MCRulesetOf == [r \in Rules |-> CHOOSE s \in Rulesets : TRUE]

\* The first category holds one file, which the folder's second version changes;
\* the second category has a file of its own and one it shares with the first.
MCContents == {b1, b2, b3}
MCFolders == {o1, o2}
MCFilesIn == [f \in {o1, o2} |-> <<IF f = o1 THEN {b1} ELSE {b2}, {b1, b3}>>]

\* The first file is a journal, or a balance under another name; the second is a
\* balance, and the third is not detected as anything.
MCExpectedDataset ==
    [f \in {o1, o2} |-> <<[c \in {b1, b2, b3} |-> IF f = o1 THEN "journal" ELSE "balance"]>>]
MCDetectedAs == [c \in {b1, b2, b3} |-> CASE c = b1 -> {"journal", "balance"}
                                           [] c = b2 -> {"balance"}
                                           [] c = b3 -> {NoDataset}]

\* Processes and rules come in interchangeable pairs; only one part moves in a
\* behaviour, so that exchanging all the pairs at once will do.
Pairs == {Issuers, Clerks, Rules, Callers, Requests, Workers, GraphJobs, Visitors}
Exchange == [x \in UNION Pairs |-> CHOOSE y \in UNION Pairs : {x, y} \in Pairs /\ y # x]
Symmetry == {f \in {Exchange, [x \in UNION Pairs |-> x]} : TRUE}

Init ==
    /\ GateInit /\ KnowledgeInit /\ ConversationInit /\ UploadInit
    /\ GraphInit /\ MigrationInit /\ ProgressInit /\ ThreadInit
    /\ part \in {"gate", "knowledge", "conversation", "upload", "graph", "migration",
                 "progress", "thread"}

Next ==
    /\ \/ /\ part = "gate" /\ GateNext
          /\ UNCHANGED <<kvars, cvars, uvars, wvars, mvars, pvars, tvars>>
       \/ /\ part = "knowledge" /\ KnowledgeNext
          /\ UNCHANGED <<gvars, cvars, uvars, wvars, mvars, pvars, tvars>>
       \/ /\ part = "conversation" /\ ConversationNext
          /\ UNCHANGED <<gvars, kvars, uvars, wvars, mvars, pvars, tvars>>
       \/ /\ part = "upload" /\ UploadNext
          /\ UNCHANGED <<gvars, kvars, cvars, wvars, mvars, pvars, tvars>>
       \/ /\ part = "graph" /\ GraphNext
          /\ UNCHANGED <<gvars, kvars, cvars, uvars, mvars, pvars, tvars>>
       \/ /\ part = "migration" /\ MigrationNext
          /\ UNCHANGED <<gvars, kvars, cvars, uvars, wvars, pvars, tvars>>
       \/ /\ part = "progress" /\ ProgressNext
          /\ UNCHANGED <<gvars, kvars, cvars, uvars, wvars, mvars, tvars>>
       \/ /\ part = "thread" /\ ThreadNext
          /\ UNCHANGED <<gvars, kvars, cvars, uvars, wvars, mvars, pvars>>
    /\ UNCHANGED part

Spec == Init /\ [][Next]_<<gvars, kvars, cvars, uvars, wvars, mvars, pvars, tvars, part>>

\* Every variable of the part that moves has its type; the others rest.
TypeOK ==
    /\ part = "gate" => GateTypeOK
    /\ part = "knowledge" => KnowledgeTypeOK
    /\ part = "conversation" => ConversationTypeOK
    /\ part = "upload" => UploadTypeOK
    /\ part = "graph" => GraphTypeOK
    /\ part = "migration" => MigrationTypeOK
    /\ part = "progress" => ProgressTypeOK
    /\ part = "thread" => ThreadTypeOK
=============================================================================
