----------------------- MODULE AttachmentCreateProofs -----------------------
(***************************************************************************)
(* Proofs about AttachmentCreate, for any sets of requests, inputs and     *)
(* keys and any number of faults.  The two UNIQUE constraints make live    *)
(* jobs differ in their inputs; the rest says how far a request has come:  *)
(* whether its context can be stored and whether its own row can exist.    *)
(* From the same invariant, every step is one of JobRegister or unseen     *)
(* there: what a request has read is still true of its job when it is      *)
(* answered, because rows keep their input and key for ever.               *)
(***************************************************************************)
EXTENDS AttachmentCreate, TLAPS

\* Two jobs that are not cancelled have different inputs.
LiveInputsDiffer == \A i, j \in Live : req[i].input = req[j].input => i = j

\* A job a request has read is there, and is about the request's input.
FoundMatches ==
    \A r \in Requests : pc[r] \in {"found", "lost_race"} =>
        found[r] \in Persisted /\ req[found[r]].input = req[r].input

\* A request has no row before it inserts one, stores its context before that,
\* and stores none before it has found no job.
Progressed ==
    \A r \in Requests :
        /\ pc[r] \notin {"raised", "done"} => status[r] = "none"
        /\ pc[r] = "not_persisted" => status[r] = "none"
        /\ pc[r] = "uploaded" => r \in contexts
        /\ pc[r] \in {"start", "no_key_job", "found", "no_job"} => r \notin contexts

CreateInv ==
    /\ TypeOK /\ LiveInputsDiffer /\ FoundMatches /\ Progressed
    /\ AnswerMatchesInput /\ ContextPresent /\ OrphansOnlyAfterFaults

----------------------------------------------------------------------------
(* Splitting a step.                                                       *)

\* Steps of a request that write no job row.
Reading(r) ==
    \/ LookUpKey(r) \/ LookUpInput(r) \/ AnswerFound(r)
    \/ UploadContext(r) \/ UploadContextFails(r)
    \/ InsertFails(r) \/ InsertConflicts(r) \/ ResolveConflict(r) \/ AnswerLostRace(r)
    \/ LookUpOwnJob(r) \/ LookUpOwnJobFails(r) \/ AnswerNotPersisted(r) \/ RequestDies(r)

Inserting(r) == Insert(r) \/ InsertUnanswered(r)

\* What a request does to its own control state, and to nobody else's.
LEMMA OwnGoto ==
    ASSUME TypeOK, NEW r \in Requests, NEW p \in Stage, Goto(r, p)
    PROVE  /\ pc' \in [Requests -> Stage] /\ pc'[r] = p
           /\ \A s \in Requests \ {r} : pc'[s] = pc[s]
           /\ UNCHANGED <<found, answer>>
BY DEF TypeOK, Goto

LEMMA OwnAnswer ==
    ASSUME TypeOK, NEW r \in Requests, NEW o \in Outcome, NEW j \in Requests \cup {NoJob},
           Answer(r, o, j)
    PROVE  /\ pc' \in [Requests -> Stage] /\ pc'[r] = "done"
           /\ \A s \in Requests \ {r} : pc'[s] = pc[s]
           /\ answer' \in [Requests -> [outcome : Outcome, job : Requests \cup {NoJob}]]
           /\ answer'[r].job = j /\ \A s \in Requests \ {r} : answer'[s] = answer[s]
           /\ UNCHANGED found
<1> DEFINE a == [outcome |-> o, job |-> j]
<1>1. a \in [outcome : Outcome, job : Requests \cup {NoJob}] /\ a.job = j
  OBVIOUS
<1>2. answer' = [answer EXCEPT ![r] = a] /\ pc' = [pc EXCEPT ![r] = "done"] /\ UNCHANGED found
  BY DEF Answer
<1>3. "done" \in Stage
  BY DEF Stage
<1> HIDE DEF a
<1> QED
  BY <1>1, <1>2, <1>3 DEF TypeOK

LEMMA OwnMoves ==
    ASSUME TypeOK, NEW r \in Requests
    PROVE  /\ \A p \in Stage : Goto(r, p) =>
                /\ pc' \in [Requests -> Stage] /\ pc'[r] = p
                /\ \A s \in Requests \ {r} : pc'[s] = pc[s]
                /\ UNCHANGED <<found, answer>>
           /\ \A o \in Outcome, j \in Requests \cup {NoJob} : Answer(r, o, j) =>
                /\ pc' \in [Requests -> Stage] /\ pc'[r] = "done"
                /\ \A s \in Requests \ {r} : pc'[s] = pc[s]
                /\ answer' \in [Requests -> [outcome : Outcome, job : Requests \cup {NoJob}]]
                /\ answer'[r].job = j /\ \A s \in Requests \ {r} : answer'[s] = answer[s]
                /\ UNCHANGED found
<1>1. ASSUME NEW p \in Stage, Goto(r, p)
      PROVE  /\ pc' \in [Requests -> Stage] /\ pc'[r] = p
             /\ \A s \in Requests \ {r} : pc'[s] = pc[s]
             /\ UNCHANGED <<found, answer>>
  BY <1>1, OwnGoto
<1>2. ASSUME NEW o \in Outcome, NEW j \in Requests \cup {NoJob}, Answer(r, o, j)
      PROVE  /\ pc' \in [Requests -> Stage] /\ pc'[r] = "done"
             /\ \A s \in Requests \ {r} : pc'[s] = pc[s]
             /\ answer' \in [Requests -> [outcome : Outcome, job : Requests \cup {NoJob}]]
             /\ answer'[r].job = j /\ \A s \in Requests \ {r} : answer'[s] = answer[s]
             /\ UNCHANGED found
  BY <1>2, OwnAnswer
<1> QED
  BY <1>1, <1>2

----------------------------------------------------------------------------
(* The invariant holds initially, and every step keeps it.                 *)

LEMMA CreateInvInit == Init => CreateInv
<1> SUFFICES ASSUME Init PROVE CreateInv
  OBVIOUS
<1>1. TypeOK
  BY CreateAssumption DEF Init, TypeOK, Outcome, Stage
<1>2. Persisted = {} /\ Live = {}
  BY DEF Init, Persisted, Live
<1>3. LiveInputsDiffer /\ FoundMatches /\ Progressed
  BY <1>2 DEF Init, LiveInputsDiffer, FoundMatches, Progressed
<1>4. AnswerMatchesInput /\ ContextPresent /\ OrphansOnlyAfterFaults
  BY <1>2 DEF Init, AnswerMatchesInput, Answered, ContextPresent, OrphansOnlyAfterFaults
<1> QED
  BY <1>1, <1>3, <1>4 DEF CreateInv

\* Types of the steps that write no job row.
LEMMA ReadingTypes ==
    ASSUME CreateInv, NEW r \in Requests, Reading(r)
    PROVE  TypeOK' /\ faults <= faults' /\ UNCHANGED <<req, status>>
           /\ \A s \in Requests \ {r} : /\ pc'[s] = pc[s] /\ found'[s] = found[s]
                                        /\ answer'[s] = answer[s] /\ (s \in contexts' <=> s \in contexts)
<1> USE DEF CreateInv
<1>0. /\ TypeOK /\ Persisted \subseteq Requests /\ Live \subseteq Requests
      /\ WithKey(r) \subseteq Requests /\ WithInput(r) \subseteq Requests
  BY DEF Persisted, Live, WithKey, WithInput
<1>f. Fault \/ UNCHANGED faults => faults' \in 0..MaxFaults /\ faults <= faults'
  BY <1>0, CreateAssumption DEF Fault, TypeOK
<1>1. CASE LookUpKey(r)
  <2>1. CASE Goto(r, "no_key_job")
    BY <1>0, <1>f, <1>1, <2>1, OwnMoves DEF LookUpKey, TypeOK, Stage
  <2>2. CASE \E j \in WithKey(r) : AnswerByKey(r, j)
    <3>1. PICK j \in Requests : AnswerByKey(r, j)
      BY <1>0, <2>2
    <3>2. /\ pc' \in [Requests -> Stage] /\ \A s \in Requests \ {r} : pc'[s] = pc[s]
          /\ answer' \in [Requests -> [outcome : Outcome, job : Requests \cup {NoJob}]]
          /\ \A s \in Requests \ {r} : answer'[s] = answer[s]
          /\ UNCHANGED found
      <4>1. CASE Answer(r, "job", j)
        BY <1>0, <4>1, OwnMoves DEF Outcome
      <4>2. CASE Answer(r, "IDEMPOTENCY_KEY_REUSED", NoJob)
        BY <1>0, <4>2, OwnMoves DEF Outcome
      <4> QED
        BY <3>1, <4>1, <4>2 DEF AnswerByKey
    <3> QED
      BY <1>0, <1>f, <1>1, <3>2 DEF LookUpKey, TypeOK
  <2> QED
    BY <1>1, <2>1, <2>2 DEF LookUpKey
<1>2. CASE LookUpInput(r)
  <2>1. CASE Goto(r, "no_job")
    BY <1>0, <1>f, <1>2, <2>1, OwnMoves DEF LookUpInput, TypeOK, Stage
  <2>2. CASE ~Goto(r, "no_job")
    <3>1. PICK j \in WithInput(r) : found' = [found EXCEPT ![r] = j]
      BY <1>2, <2>2 DEF LookUpInput
    <3>2. pc' = [pc EXCEPT ![r] = "found"] /\ UNCHANGED <<answer, req, status, contexts, faults>>
      BY <1>2, <2>2 DEF LookUpInput
    <3>3. j \in Requests /\ "found" \in Stage
      BY <1>0 DEF Stage
    <3> QED
      BY <1>0, <1>f, <3>1, <3>2, <3>3 DEF TypeOK
  <2> QED
    BY <2>1, <2>2
<1>3. CASE AnswerFound(r)
  BY <1>0, <1>f, <1>3, OwnMoves DEF AnswerFound, TypeOK, Outcome
<1>4. CASE UploadContext(r) \/ UploadContextFails(r)
  BY <1>0, <1>f, <1>4, OwnMoves DEF UploadContext, UploadContextFails, TypeOK, Outcome, Stage
<1>5. CASE InsertFails(r) \/ InsertConflicts(r) \/ RequestDies(r)
  BY <1>0, <1>f, <1>5, OwnMoves DEF InsertFails, InsertConflicts, RequestDies, TypeOK, Stage
<1>6. CASE ResolveConflict(r)
  <2>1. CASE Goto(r, "raised")
    BY <1>0, <1>f, <1>6, <2>1, OwnMoves DEF ResolveConflict, TypeOK, Stage
  <2>2. CASE ~Goto(r, "raised")
    <3>1. PICK j \in Requests : found' = [found EXCEPT ![r] = j]
      BY <1>0, <1>6, <2>2 DEF ResolveConflict
    <3>2. /\ pc' = [pc EXCEPT ![r] = "lost_race"] /\ "lost_race" \in Stage
          /\ UNCHANGED <<answer, req, status, contexts, faults>>
      BY <1>6, <2>2 DEF ResolveConflict, Stage
    <3> QED
      BY <1>0, <1>f, <3>1, <3>2 DEF TypeOK
  <2> QED
    BY <2>1, <2>2
<1>7. CASE AnswerLostRace(r) \/ AnswerNotPersisted(r)
  BY <1>0, <1>f, <1>7, OwnMoves DEF AnswerLostRace, AnswerNotPersisted, DeleteContext, TypeOK, Outcome
<1>8. CASE LookUpOwnJob(r) \/ LookUpOwnJobFails(r)
  BY <1>0, <1>f, <1>8, OwnMoves DEF LookUpOwnJob, LookUpOwnJobFails, TypeOK, Outcome, Stage
<1> QED
  BY <1>1, <1>2, <1>3, <1>4, <1>5, <1>6, <1>7, <1>8 DEF Reading

\* What such a step does to the request that takes it.
LEMMA ReadingOwn ==
    ASSUME CreateInv, NEW r \in Requests, Reading(r)
    PROVE  /\ pc'[r] \in {"found", "lost_race"} =>
                found'[r] \in Persisted /\ req[found'[r]].input = req[r].input
           /\ pc'[r] \notin {"raised", "done"} => status[r] = "none"
           /\ pc'[r] = "uploaded" => r \in contexts'
           /\ pc'[r] \in {"start", "no_key_job", "found", "no_job"} => r \notin contexts'
           /\ answer'[r].job # answer[r].job /\ answer'[r].job # NoJob =>
                answer'[r].job \in Persisted /\ req[answer'[r].job].input = req[r].input
           /\ status[r] # "none" /\ r \in contexts => r \in contexts'
           /\ pc'[r] = "done" /\ r \in contexts' /\ status[r] = "none" => faults' > 0
<1> USE DEF CreateInv
<1>0. /\ TypeOK /\ Persisted \subseteq Requests /\ Live \subseteq Persisted
      /\ WithKey(r) \subseteq Persisted /\ WithInput(r) \subseteq Persisted
      /\ r \in Persisted <=> status[r] # "none"
  BY DEF Persisted, Live, WithKey, WithInput
<1>f. Fault => faults' > 0
  BY <1>0, CreateAssumption DEF Fault, TypeOK
<1>1. CASE LookUpKey(r)
  <2>1. CASE Goto(r, "no_key_job")
    BY <1>0, <1>1, <2>1, OwnMoves DEF LookUpKey, Stage, Progressed
  <2>2. CASE \E j \in WithKey(r) : AnswerByKey(r, j)
    BY <1>0, <1>1, <2>2, OwnMoves DEF LookUpKey, AnswerByKey, Outcome, Progressed
  <2> QED
    BY <1>1, <2>1, <2>2 DEF LookUpKey
<1>2. CASE LookUpInput(r)
  <2>1. CASE Goto(r, "no_job")
    BY <1>0, <1>2, <2>1, OwnMoves DEF LookUpInput, Stage, Progressed
  <2>2. CASE ~Goto(r, "no_job")
    <3>1. /\ pc'[r] = "found" /\ found'[r] \in WithInput(r) /\ UNCHANGED <<answer, contexts>>
          /\ pc[r] = "no_key_job"
      BY <1>0, <1>2, <2>2 DEF LookUpInput, TypeOK
    <3> QED
      BY <1>0, <3>1 DEF WithInput, Progressed
  <2> QED
    BY <2>1, <2>2
<1>3. CASE AnswerFound(r)
  BY <1>0, <1>3, OwnMoves DEF AnswerFound, TypeOK, Outcome, FoundMatches, Progressed
<1>4. CASE UploadContext(r) \/ UploadContextFails(r)
  BY <1>0, <1>f, <1>4, OwnMoves DEF UploadContext, UploadContextFails, Outcome, Stage, Progressed
<1>5. CASE InsertFails(r) \/ InsertConflicts(r) \/ RequestDies(r)
  BY <1>0, <1>f, <1>5, OwnMoves DEF InsertFails, InsertConflicts, RequestDies, Stage, Progressed
<1>6. CASE ResolveConflict(r)
  <2>1. CASE Goto(r, "raised")
    BY <1>0, <1>6, <2>1, OwnMoves DEF ResolveConflict, Stage, Progressed
  <2>2. CASE ~Goto(r, "raised")
    <3>1. /\ pc'[r] = "lost_race" /\ UNCHANGED <<answer, contexts>> /\ pc[r] = "conflict"
          /\ found'[r] \in Persisted /\ req[found'[r]].input = req[r].input
      BY <1>0, <1>6, <2>2 DEF ResolveConflict, TypeOK, WithInput
    <3> QED
      BY <1>0, <3>1 DEF Progressed
  <2> QED
    BY <2>1, <2>2
<1>7. CASE AnswerLostRace(r)
  <2>1. /\ status[r] = "none" /\ (r \notin contexts' \/ faults' > 0)
        /\ found[r] \in Persisted /\ req[found[r]].input = req[r].input
    BY <1>f, <1>7 DEF AnswerLostRace, DeleteContext, Progressed, FoundMatches
  <2> QED
    BY <1>0, <1>7, <2>1, OwnMoves DEF AnswerLostRace, Outcome
<1>8. CASE AnswerNotPersisted(r)
  <2>1. status[r] = "none" /\ (r \notin contexts' \/ faults' > 0)
    BY <1>f, <1>8 DEF AnswerNotPersisted, DeleteContext, Progressed
  <2> QED
    BY <1>8, <2>1, OwnMoves DEF AnswerNotPersisted, Outcome
<1>9. CASE LookUpOwnJob(r) \/ LookUpOwnJobFails(r)
  BY <1>f, <1>9, OwnMoves DEF LookUpOwnJob, LookUpOwnJobFails, Outcome, Stage
<1> QED
  BY <1>1, <1>2, <1>3, <1>4, <1>5, <1>6, <1>7, <1>8, <1>9 DEF Reading

LEMMA ReadingKept ==
    ASSUME CreateInv, NEW r \in Requests, Reading(r)
    PROVE  CreateInv'
<1>1. /\ TypeOK' /\ faults <= faults' /\ UNCHANGED <<req, status>> /\ TypeOK
      /\ \A s \in Requests \ {r} : /\ pc'[s] = pc[s] /\ found'[s] = found[s]
                                   /\ answer'[s] = answer[s] /\ (s \in contexts' <=> s \in contexts)
  BY ReadingTypes DEF CreateInv
<1>2. Persisted' = Persisted /\ Live' = Live /\ Persisted = {j \in Requests : status[j] # "none"}
  BY <1>1 DEF Persisted, Live
<1>3. LiveInputsDiffer'
  BY <1>1, <1>2 DEF CreateInv, LiveInputsDiffer
<1>4. FoundMatches' /\ Progressed'
  BY <1>1, <1>2, ReadingOwn DEF CreateInv, FoundMatches, Progressed
<1>5. AnswerMatchesInput'
  BY <1>1, <1>2, ReadingOwn DEF CreateInv, AnswerMatchesInput, Answered
<1>6. ContextPresent'
  BY <1>1, <1>2, ReadingOwn DEF CreateInv, ContextPresent
<1>7. OrphansOnlyAfterFaults'
  <2>1. \A s \in Requests \ {r} : faults > 0 => faults' > 0
    BY <1>1, CreateAssumption DEF TypeOK
  <2>2. contexts' \subseteq Requests
    BY <1>1 DEF TypeOK
  <2> QED
    BY <1>1, <1>2, <2>1, <2>2, ReadingOwn DEF CreateInv, OrphansOnlyAfterFaults
<1> QED
  BY <1>1, <1>3, <1>4, <1>5, <1>6, <1>7 DEF CreateInv

\* A row is inserted only beside live rows of other inputs, and only for a
\* context that is stored.
LEMMA InsertingKept ==
    ASSUME CreateInv, NEW r \in Requests, Inserting(r)
    PROVE  CreateInv'
<1>1. /\ TypeOK /\ pc[r] = "uploaded" /\ WithInput(r) = {} /\ r \in contexts
      /\ status' = [status EXCEPT ![r] = "queued"] /\ UNCHANGED <<req, contexts, found>>
  BY DEF Inserting, Insert, InsertUnanswered, InsertRow, Collides, Goto, Answer, CreateInv, Progressed
<1>2. /\ faults' \in 0..MaxFaults /\ faults <= faults'
  BY <1>1, CreateAssumption DEF Inserting, Insert, InsertUnanswered, Fault, TypeOK
<1>3. /\ pc' \in [Requests -> Stage] /\ pc'[r] \in {"raised", "done"}
      /\ \A s \in Requests \ {r} : pc'[s] = pc[s] /\ answer'[s] = answer[s]
      /\ answer' \in [Requests -> [outcome : Outcome, job : Requests \cup {NoJob}]]
      /\ answer'[r].job = r \/ answer' = answer
  <2>1. CASE Answer(r, "job", r)
    BY <1>1, <2>1, OwnMoves DEF Outcome
  <2>2. CASE Goto(r, "raised")
    BY <1>1, <2>2, OwnMoves DEF Stage, TypeOK
  <2> QED
    BY <2>1, <2>2 DEF Inserting, Insert, InsertUnanswered
<1>4. TypeOK'
  BY <1>1, <1>2, <1>3 DEF TypeOK, JobStatus
<1>5. Persisted' = Persisted \cup {r} /\ Live' = Live \cup {r} /\ r \notin Persisted
      /\ Persisted \subseteq Requests
  BY <1>1 DEF Persisted, Live, TypeOK, CreateInv, Progressed
<1>6. LiveInputsDiffer'
  BY <1>1, <1>5 DEF CreateInv, LiveInputsDiffer, WithInput
<1>7. FoundMatches' /\ Progressed'
  BY <1>1, <1>3, <1>5 DEF CreateInv, FoundMatches, Progressed, TypeOK
<1>8. AnswerMatchesInput'
  BY <1>1, <1>3, <1>5 DEF CreateInv, AnswerMatchesInput, Answered
<1>9. ContextPresent' /\ OrphansOnlyAfterFaults'
  <2>1. faults > 0 => faults' > 0
    BY <1>1, <1>2, CreateAssumption DEF TypeOK
  <2> QED
    BY <1>1, <1>3, <1>5, <2>1 DEF CreateInv, ContextPresent, OrphansOnlyAfterFaults, TypeOK
<1> QED
  BY <1>4, <1>6, <1>7, <1>8, <1>9 DEF CreateInv

\* A job stays a row, and a cancelled one stays cancelled.
LEMMA JobMovesKept ==
    ASSUME CreateInv, NEW j \in Requests, JobMoves(j)
    PROVE  CreateInv'
<1>1. /\ TypeOK /\ status[j] \notin {"none", "cancelled"} /\ status'[j] # "none"
      /\ status' \in [Requests -> JobStatus \cup {"none"}]
      /\ \A s \in Requests \ {j} : status'[s] = status[s]
      /\ UNCHANGED <<req, contexts, pc, found, answer, faults>>
  <2>1. PICK m \in JobMove : status[j] = m[1] /\ status' = [status EXCEPT ![j] = m[2]]
    BY DEF JobMoves
  <2>2. m[1] \notin {"none", "cancelled"} /\ m[2] \in JobStatus
    BY DEF JobMove, JobStatus
  <2>3. "none" \notin JobStatus
    BY DEF JobStatus
  <2> QED
    BY <2>1, <2>2, <2>3 DEF JobMoves, CreateInv, TypeOK
<1>2. Persisted' = Persisted /\ Live' \subseteq Live
  BY <1>1 DEF Persisted, Live
<1>3. TypeOK'
  BY <1>1 DEF TypeOK
<1>4. LiveInputsDiffer' /\ FoundMatches' /\ AnswerMatchesInput' /\ ContextPresent'
      /\ OrphansOnlyAfterFaults'
  BY <1>1, <1>2 DEF CreateInv, LiveInputsDiffer, FoundMatches, AnswerMatchesInput, Answered,
                    ContextPresent, OrphansOnlyAfterFaults
<1>5. Progressed'
  BY <1>1 DEF CreateInv, Progressed
<1> QED
  BY <1>3, <1>4, <1>5 DEF CreateInv

LEMMA CreateInvStep == CreateInv /\ [Next]_vars => CreateInv'
<1> SUFFICES ASSUME CreateInv, [Next]_vars PROVE CreateInv'
  OBVIOUS
<1>1. CASE UNCHANGED vars
  BY <1>1 DEF vars, CreateInv, TypeOK, LiveInputsDiffer, FoundMatches, Progressed,
              AnswerMatchesInput, Answered, ContextPresent, OrphansOnlyAfterFaults, Persisted, Live
<1>2. CASE Next
  <2>1. PICK r \in Requests : Reading(r) \/ Inserting(r) \/ JobMoves(r)
    BY <1>2 DEF Next, Reading, Inserting
  <2> QED
    BY <2>1, ReadingKept, InsertingKept, JobMovesKept
<1> QED
  BY <1>1, <1>2

LEMMA CreateInvariance == Spec => []CreateInv
BY CreateInvInit, CreateInvStep, PTL DEF Spec

----------------------------------------------------------------------------
(* Theorems.                                                               *)

\* Requests, rows, contexts and answers keep their types.
THEOREM CreateTypeCorrect == Spec => []TypeOK
<1>1. CreateInv => TypeOK
  BY DEF CreateInv
<1> QED
  BY <1>1, CreateInvariance, PTL

\* Requests for one frozen input, however many run at once, are answered with
\* one live job.
THEOREM LiveAnswersAgreeHolds == Spec => []LiveAnswersAgree
<1>1. CreateInv => LiveAnswersAgree
  BY DEF CreateInv, LiveInputsDiffer, AnswerMatchesInput, LiveAnswersAgree
<1> QED
  BY <1>1, CreateInvariance, PTL

\* The job a request is answered with exists and has the request's input.
THEOREM AnswerMatchesInputHolds == Spec => []AnswerMatchesInput
<1>1. CreateInv => AnswerMatchesInput
  BY DEF CreateInv
<1> QED
  BY <1>1, CreateInvariance, PTL

\* No compensation takes the context of a job that exists.
THEOREM ContextPresentHolds == Spec => []ContextPresent
<1>1. CreateInv => ContextPresent
  BY DEF CreateInv
<1> QED
  BY <1>1, CreateInvariance, PTL

\* Without a fault a finished request leaves no context without a job.
THEOREM OrphansOnlyAfterFaultsHolds == Spec => []OrphansOnlyAfterFaults
<1>1. CreateInv => OrphansOnlyAfterFaults
  BY DEF CreateInv
<1> QED
  BY <1>1, CreateInvariance, PTL

----------------------------------------------------------------------------
(* The refinement of JobRegister.                                          *)

\* Only a finished request has been answered, and with its own job if it has one.
Unanswered == \A r \in Requests : pc[r] # "done" => answer[r].job = NoJob

\* What a step of a request that writes no job row is to the register: nothing
\* if the request goes on, and otherwise an answer with a job of its input,
\* which it has not made, or with none.
LEMMA ReadingAnswers ==
    ASSUME CreateInv, Unanswered, NEW r \in Requests, Reading(r)
    PROVE  /\ pc[r] # "done"
           /\ \/ pc'[r] # "done" /\ answer'[r] = answer[r]
              \/ pc'[r] = "done" /\ answer'[r].job = NoJob
              \/ /\ pc'[r] = "done" /\ status[r] = "none" /\ answer'[r].job \in Persisted
                 /\ req[answer'[r].job].input = req[r].input
<1> USE DEF CreateInv
<1>0. /\ TypeOK /\ Persisted \subseteq Requests /\ WithKey(r) \subseteq Persisted
      /\ pc[r] # "done" => answer[r].job = NoJob
  BY DEF Persisted, WithKey, Unanswered
<1>1. CASE LookUpKey(r)
  <2>1. CASE Goto(r, "no_key_job")
    BY <1>0, <1>1, <2>1, OwnMoves DEF LookUpKey, Stage
  <2>2. CASE \E j \in WithKey(r) : AnswerByKey(r, j)
    BY <1>0, <1>1, <2>2, OwnMoves DEF LookUpKey, AnswerByKey, Outcome, Progressed
  <2> QED
    BY <1>1, <2>1, <2>2 DEF LookUpKey
<1>2. CASE LookUpInput(r)
  <2>1. CASE Goto(r, "no_job")
    BY <1>0, <1>2, <2>1, OwnMoves DEF LookUpInput, Stage
  <2>2. CASE ~Goto(r, "no_job")
    BY <1>0, <1>2, <2>2 DEF LookUpInput, TypeOK
  <2> QED
    BY <2>1, <2>2
<1>3. CASE AnswerFound(r)
  BY <1>0, <1>3, OwnMoves DEF AnswerFound, TypeOK, Outcome, FoundMatches, Progressed
<1>4. CASE UploadContext(r) \/ UploadContextFails(r)
  BY <1>0, <1>4, OwnMoves DEF UploadContext, UploadContextFails, Outcome, Stage
<1>5. CASE InsertFails(r) \/ InsertConflicts(r)
  BY <1>0, <1>5, OwnMoves DEF InsertFails, InsertConflicts, Stage
<1>6. CASE RequestDies(r)
  BY <1>0, <1>6, OwnMoves DEF RequestDies, Stage
<1>7. CASE ResolveConflict(r)
  <2>1. CASE Goto(r, "raised")
    BY <1>0, <1>7, <2>1, OwnMoves DEF ResolveConflict, Stage
  <2>2. CASE ~Goto(r, "raised")
    BY <1>0, <1>7, <2>2 DEF ResolveConflict, TypeOK
  <2> QED
    BY <2>1, <2>2
<1>8. CASE AnswerLostRace(r)
  <2>1. /\ status[r] = "none" /\ pc[r] # "done" /\ Answer(r, "job", found[r])
        /\ found[r] \in Persisted /\ req[found[r]].input = req[r].input
    BY <1>8 DEF AnswerLostRace, Progressed, FoundMatches
  <2> QED
    BY <1>0, <2>1, OwnMoves DEF Outcome
<1>9. CASE AnswerNotPersisted(r)
  BY <1>0, <1>9, OwnMoves DEF AnswerNotPersisted, Outcome
<1>10. CASE LookUpOwnJob(r) \/ LookUpOwnJobFails(r)
  BY <1>0, <1>10, OwnMoves DEF LookUpOwnJob, LookUpOwnJobFails, Outcome, Stage
<1> QED
  BY <1>1, <1>2, <1>3, <1>4, <1>5, <1>6, <1>7, <1>8, <1>9, <1>10 DEF Reading

\* The same for a step that inserts a row: the request may insert one.
LEMMA InsertingAnswers ==
    ASSUME CreateInv, Unanswered, NEW r \in Requests, Inserting(r)
    PROVE  /\ pc[r] # "done" /\ ~Collides(r) /\ status[r] = "none"
           /\ status' = [status EXCEPT ![r] = "queued"] /\ UNCHANGED req
           /\ \A s \in Requests \ {r} : pc'[s] = pc[s] /\ answer'[s] = answer[s]
           /\ \/ pc'[r] # "done" /\ answer'[r] = answer[r]
              \/ pc'[r] = "done" /\ answer'[r].job = r
<1>1. /\ TypeOK /\ pc[r] = "uploaded" /\ ~Collides(r) /\ status[r] = "none"
      /\ status' = [status EXCEPT ![r] = "queued"] /\ UNCHANGED req
  BY DEF Inserting, Insert, InsertUnanswered, InsertRow, CreateInv, Progressed
<1>2. CASE Answer(r, "job", r)
  BY <1>1, <1>2, OwnMoves DEF Outcome
<1>3. CASE Goto(r, "raised")
  BY <1>1, <1>3, OwnMoves DEF Stage
<1> QED
  BY <1>1, <1>2, <1>3 DEF Inserting, Insert, InsertUnanswered

LEMMA UnansweredInit == Init => Unanswered
BY DEF Init, Unanswered

LEMMA UnansweredStep == CreateInv /\ Unanswered /\ [Next]_vars => Unanswered'
<1> SUFFICES ASSUME CreateInv, Unanswered, [Next]_vars PROVE Unanswered'
  OBVIOUS
<1>1. CASE UNCHANGED vars
  BY <1>1 DEF vars, Unanswered
<1>2. CASE Next
  <2>1. PICK r \in Requests : Reading(r) \/ Inserting(r) \/ JobMoves(r)
    BY <1>2 DEF Next, Reading, Inserting
  <2>2. CASE Reading(r)
    BY <2>2, ReadingAnswers, ReadingTypes DEF Unanswered
  <2>3. CASE Inserting(r)
    BY <2>3, InsertingAnswers DEF Unanswered
  <2>4. CASE JobMoves(r)
    BY <2>4 DEF JobMoves, Unanswered
  <2> QED
    BY <2>1, <2>2, <2>3, <2>4
<1> QED
  BY <1>1, <1>2

\* The three ways a step of the service appears in the register.
LEMMA RegisterReading ==
    ASSUME CreateInv, Unanswered, NEW r \in Requests, Reading(r)
    PROVE  [Register!Next]_(Register!vars)
<1> DEFINE closed == {s \in Requests : pc[s] = "done"}
           given == [s \in Requests |-> answer[s].job]
<1>1. /\ UNCHANGED <<req, status>>
      /\ \A s \in Requests \ {r} : pc'[s] = pc[s] /\ answer'[s] = answer[s]
  BY ReadingTypes
<1>2. CASE pc'[r] # "done" /\ answer'[r] = answer[r]
  <2>1. closed' = closed /\ given' = given
    BY <1>1, <1>2, ReadingAnswers
  <2> QED
    BY <1>1, <2>1 DEF Register!vars
<1>3. CASE pc'[r] = "done"
  <2> DEFINE j == answer'[r].job
  <2>1. r \notin closed /\ closed' = closed \cup {r}
    BY <1>1, <1>3, ReadingAnswers
  <2>2. given' = [given EXCEPT ![r] = j]
    <3>1. \A s \in Requests : given'[s] = IF s = r THEN j ELSE given[s]
      BY <1>1
    <3> QED
      BY <3>1
  <2>3. \/ j = NoJob
        \/ /\ j \in Register!Made /\ r \notin Register!Made /\ j \in Requests
           /\ req[j].input = req[r].input
    BY <1>3, ReadingAnswers DEF Register!Made, Persisted
  <2> HIDE DEF j
  <2>4. Register!Close(r, j)
    BY <2>1, <2>2 DEF Register!Close
  <2>5. CASE j = NoJob
    <3>1. Register!GiveUp(r)
      BY <1>1, <2>1, <2>2, <2>5 DEF Register!GiveUp, Register!Close
    <3> QED
      BY <3>1 DEF Register!Next
  <2>6. CASE j # NoJob
    <3>1. Register!Join(r, j) /\ j \in Requests
      BY <1>1, <2>3, <2>4, <2>6 DEF Register!Join
    <3> QED
      BY <3>1 DEF Register!Next
  <2> QED
    BY <2>5, <2>6
<1> QED
  BY <1>2, <1>3, ReadingAnswers

LEMMA RegisterInserting ==
    ASSUME CreateInv, Unanswered, NEW r \in Requests, Inserting(r)
    PROVE  [Register!Next]_(Register!vars)
<1> DEFINE closed == {s \in Requests : pc[s] = "done"}
           given == [s \in Requests |-> answer[s].job]
<1>1. /\ status' = [status EXCEPT ![r] = "queued"] /\ UNCHANGED req
      /\ r \notin closed /\ r \notin Register!Made
      /\ \A s \in Requests \ {r} : pc'[s] = pc[s] /\ answer'[s] = answer[s]
  BY InsertingAnswers DEF Register!Made
<1>2. Register!Vacant(r)
  BY InsertingAnswers DEF Collides, WithKey, WithInput, Persisted, Live,
     Register!Vacant, Register!Made, Register!Standing
<1>3. Register!Close(r, r) \/ (closed' = closed /\ given' = given)
  <2>1. CASE pc'[r] # "done" /\ answer'[r] = answer[r]
    BY <1>1, <2>1
  <2>2. CASE pc'[r] = "done" /\ answer'[r].job = r
    <3>1. closed' = closed \cup {r} /\ given' = [given EXCEPT ![r] = r]
      BY <1>1, <2>2
    <3> QED
      BY <1>1, <3>1 DEF Register!Close
  <2> QED
    BY <2>1, <2>2, InsertingAnswers
<1>4. Register!Enter(r)
  BY <1>1, <1>2, <1>3 DEF Register!Enter
<1> QED
  BY <1>4 DEF Register!Next

\* However the look-ups, uploads, inserts and compensations of any number of
\* requests interleave, and wherever they fail, what clients see is a register
\* of jobs that is read and written in single steps.
THEOREM RegisterImplemented == Spec => ImplementsRegister
<1>1. Init => Register!Init
  <2> SUFFICES ASSUME Init PROVE Register!Init
    OBVIOUS
  <2>1. \A r \in Requests : pc[r] = "start" /\ answer[r].job = NoJob
    BY DEF Init
  <2> QED
    BY <2>1 DEF Init, Register!Init
<1>2. CreateInv /\ Unanswered /\ [Next]_vars => [Register!Next]_(Register!vars)
  <2> SUFFICES ASSUME CreateInv, Unanswered, [Next]_vars
               PROVE  [Register!Next]_(Register!vars)
    OBVIOUS
  <2>1. CASE UNCHANGED vars
    BY <2>1 DEF vars, Register!vars
  <2>2. CASE Next
    <3>1. PICK r \in Requests : Reading(r) \/ Inserting(r) \/ JobMoves(r)
      BY <2>2 DEF Next, Reading, Inserting
    <3>2. CASE JobMoves(r)
      <4>1. Register!LifeOn(r)
        BY <3>2 DEF JobMoves, JobMove, Register!LifeOn
      <4> QED
        BY <4>1 DEF Register!Next
    <3> QED
      BY <3>1, <3>2, RegisterReading, RegisterInserting
  <2> QED
    BY <2>1, <2>2
<1>3. Spec => []Unanswered
  BY UnansweredInit, UnansweredStep, CreateInvariance, PTL DEF Spec
<1> QED
  BY <1>1, <1>2, <1>3, CreateInvariance, PTL DEF Spec, ImplementsRegister, Register!Spec
=============================================================================
