--------------------------- MODULE PlatformProofs ----------------------------
(***************************************************************************)
(* Proofs about MCPlatform: whatever part moves, the behaviour is one of   *)
(* every part, of the one that moves by its own steps and of the others by *)
(* stuttering.  The theorems about the parts therefore hold of the whole,  *)
(* for any values of all the constants.                                    *)
(***************************************************************************)
EXTENDS MCPlatform, WorkflowProofs, ChatProofs, IngestProofs, TLAPS

\* The variables of all parts.
everything == <<gvars, kvars, cvars, uvars, wvars, mvars, pvars, tvars, part>>

\* A step of the platform is a step of one part and leaves the others alone.
LEMMA PlatformStepOfParts ==
    [Next]_everything =>
        /\ [GateNext]_gvars /\ [KnowledgeNext]_kvars /\ [ConversationNext]_cvars
        /\ [UploadNext]_uvars /\ [GraphNext]_wvars /\ [MigrationNext]_mvars
        /\ [ProgressNext]_pvars /\ [ThreadNext]_tvars
<1>1. CASE UNCHANGED everything
  BY <1>1 DEF everything
<1>2. CASE Next
  <2>1. CASE GateNext /\ UNCHANGED <<kvars, cvars, uvars, wvars, mvars, pvars, tvars>>
    BY <2>1
  <2>2. CASE KnowledgeNext /\ UNCHANGED <<gvars, cvars, uvars, wvars, mvars, pvars, tvars>>
    BY <2>2
  <2>3. CASE ConversationNext /\ UNCHANGED <<gvars, kvars, uvars, wvars, mvars, pvars, tvars>>
    BY <2>3
  <2>4. CASE UploadNext /\ UNCHANGED <<gvars, kvars, cvars, wvars, mvars, pvars, tvars>>
    BY <2>4
  <2>5. CASE GraphNext /\ UNCHANGED <<gvars, kvars, cvars, uvars, mvars, pvars, tvars>>
    BY <2>5
  <2>6. CASE MigrationNext /\ UNCHANGED <<gvars, kvars, cvars, uvars, wvars, pvars, tvars>>
    BY <2>6
  <2>7. CASE ProgressNext /\ UNCHANGED <<gvars, kvars, cvars, uvars, wvars, mvars, tvars>>
    BY <2>7
  <2>8. CASE ThreadNext /\ UNCHANGED <<gvars, kvars, cvars, uvars, wvars, mvars, pvars>>
    BY <2>8
  <2> QED
    BY <1>2, <2>1, <2>2, <2>3, <2>4, <2>5, <2>6, <2>7, <2>8 DEF Next
<1> QED
  BY <1>1, <1>2

\* The platform implements each of its parts: running them as one instance,
\* of which one part moves at a time, adds no behaviour to any of them.
THEOREM PlatformParts ==
    Spec => /\ GateSpec /\ KnowledgeSpec /\ ConversationSpec /\ UploadSpec
            /\ GraphSpec /\ MigrationSpec /\ ProgressSpec /\ ThreadSpec
<1>1. Init => /\ GateInit /\ KnowledgeInit /\ ConversationInit /\ UploadInit
              /\ GraphInit /\ MigrationInit /\ ProgressInit /\ ThreadInit
  BY DEF Init
<1>2. Spec => Init /\ [][Next]_everything
  BY DEF Spec, everything
<1> QED
  BY <1>1, <1>2, PlatformStepOfParts, PTL
     DEF GateSpec, KnowledgeSpec, ConversationSpec, UploadSpec, GraphSpec, MigrationSpec,
         ProgressSpec, ThreadSpec

\* The rows of all tables and the requests at work on them keep their types,
\* in whatever part.
THEOREM PlatformTypeCorrect == Spec => []TypeOK
<1>1. /\ GateTypeOK /\ KnowledgeTypeOK /\ ConversationTypeOK /\ UploadTypeOK
      /\ GraphTypeOK /\ MigrationTypeOK /\ ProgressTypeOK /\ ThreadTypeOK
      => TypeOK
  BY DEF TypeOK
<1> QED
  BY <1>1, PlatformParts, GateTypeCorrect, KnowledgeTypeCorrect, ConversationTyped,
     UploadTyped, GraphTyped, MigrationTyped, ProgressTyped, ThreadTyped, PTL

\* Every safety property of a part holds of the platform, in all parts at once.
THEOREM PlatformSafe ==
    Spec => [](/\ PassedGateSawAll /\ PublishedRulesVetted
               /\ AnswerVersionsDistinct /\ RememberedIsRecorded
               /\ IdleMeansSettled /\ CompletedWhenGraphed /\ TrailTellsTrue
               /\ CompletedBatchWhole /\ RowsImportedOnce
               /\ ViewAgreesWithGate /\ TurnsStayInCase /\ NoTwins)
BY PlatformParts, PassedGateSawAllHolds, PublishedRulesVettedHolds, ConversationVersions,
   ConversationRemembers, IdleMeansSettledHolds, CompletedWhenGraphedHolds, GraphTrail,
   MigrationCompletes, MigrationImportsOnce, ProgressViewAgrees, ThreadStays, ThreadNoTwins, PTL
=============================================================================
