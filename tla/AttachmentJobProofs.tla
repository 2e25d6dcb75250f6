------------------------ MODULE AttachmentJobProofs ------------------------
(***************************************************************************)
(* Proofs about AttachmentJob, for any finite set of items and any set of  *)
(* attempts.  The inductive invariant Inv has one part for each fact that  *)
(* the safety properties lean on; a lemma shows that each part is kept by  *)
(* every step that starts in Inv, and the theorems follow.                 *)
(***************************************************************************)
EXTENDS AttachmentJob, FiniteSetTheorems, TLAPS

\* The types of the rows.
JobRow == [status : JobStatus, lease : Token, live : BOOLEAN, count : Nat]
ItemRow == [status : ItemStatus, lease : Token]
ArtifactRow == [status : {"none", "validated", "published"}, lease : Token]

\* The steps of one attempt, under names the proofs can split on.
AttemptStep(w) ==
    \/ Claim(w) \/ ClaimNothing(w) \/ Load(w) \/ LoadFails(w) \/ FailJob(w)
    \/ \E i \in Items : SelectItem(w, i)
    \/ ClaimItem(w) \/ Upload(w) \/ RenderFails(w)
    \/ Complete(w) \/ CompleteFails(w) \/ CompleteUnanswered(w)
    \/ FailItem(w) \/ LoopEnds(w) \/ Publish(w) \/ Crash(w)

\* An attempt works on an item of the job exactly in these stages.
WorksOnItem(w) == pc[w] \in {"claiming", "rendering", "uploaded", "item_failed"}

CurrentItem ==
    \A w \in Leases :
        /\ WorksOnItem(w) => cur[w] \in Items
        /\ ~WorksOnItem(w) => cur[w] = NoItem
        /\ cur[w] \notin todo[w]

\* Only a running job has a lease.
LeaseState ==
    /\ job.status = "running" <=> job.lease # NoLease
    /\ job.live => job.status = "running"

\* An item has an artifact row exactly when it has succeeded.
RowsAgree ==
    \A i \in Items :
        /\ item[i].status = "succeeded" <=> artifact[i].status # "none"
        /\ artifact[i].status = "none" <=> artifact[i].lease = NoLease

\* Published artifacts and a succeeded job come together.
Settled ==
    /\ \A i \in Items : artifact[i].status = "published" => job.status = "succeeded"
    /\ job.status = "succeeded" => \A i \in Items : artifact[i].status = "published"

\* What an attempt may still delete is not referenced: bundles referenced under
\* its token belong to items it is through with.
Unreferenced ==
    \A w \in Leases, i \in Items : <<i, w>> \in referenced =>
        /\ pc[w] \notin {"new", "claimed"}
        /\ i \notin todo[w]
        /\ cur[w] = i => pc[w] = "item_failed"

Uploaded == \A w \in Leases : pc[w] = "uploaded" => <<cur[w], w>> \in objects

Inv ==
    /\ TypeOK /\ CurrentItem
    /\ LeaseState /\ RowsAgree /\ Settled
    /\ Unreferenced /\ Uploaded
    /\ CountIsExact /\ ContextKept /\ ReferencedAreStored

----------------------------------------------------------------------------
(* Lemmas about operators.                                                 *)

\* Splitting a step of the specification.
LEMMA StepCases ==
    ASSUME [Next]_vars
    PROVE  \/ \E w \in Leases : AttemptStep(w)
           \/ LeaseExpires \/ Retry \/ Cancel \/ PlanReclamation
           \/ UNCHANGED vars
BY DEF Next, AttemptStep

\* Counts of items are natural numbers.
LEMMA CountType == \A S \in SUBSET Items : Cardinality(S) \in Nat
BY JobAssumption, FS_Subset, FS_CardinalityType

----------------------------------------------------------------------------
(* Inv holds initially.                                                    *)

LEMMA InitInv == Init => Inv
<1> SUFFICES ASSUME Init PROVE Inv
  OBVIOUS
<1>1. TypeOK
  BY DEF Init, TypeOK, JobStatus, ItemStatus, Stage, Token
<1>2. CurrentItem
  BY DEF Init, CurrentItem, WorksOnItem
<1>3. LeaseState /\ RowsAgree /\ Settled /\ Unreferenced /\ Uploaded
  BY DEF Init, LeaseState, RowsAgree, Settled, Unreferenced, Uploaded
<1>4. CountIsExact
  <2>1. Succeeded = {}
    BY DEF Init, Succeeded
  <2> QED
    BY <2>1, FS_EmptySet DEF Init, CountIsExact
<1>5. ContextKept /\ ReferencedAreStored
  BY DEF Init, ContextKept, ReferencedAreStored
<1> QED
  BY <1>1, <1>2, <1>3, <1>4, <1>5 DEF Inv

----------------------------------------------------------------------------
(* Types.                                                                  *)

LEMMA TypeStep ==
    ASSUME Inv, [Next]_vars
    PROVE  TypeOK'
<1> USE JobAssumption DEF Inv, JobRow, ItemRow, ArtifactRow, JobStatus, ItemStatus, Stage,
                           Token, rows, ledger, attempt
<1>1. ASSUME NEW w \in Leases, AttemptStep(w) PROVE TypeOK'
  <2>1. CASE Claim(w)
    <3>1. item' \in [Items -> ItemRow]
      <4>1. CASE ClaimQueued(w)
        BY <4>1 DEF TypeOK, ClaimQueued
      <4>2. CASE TakeOver(w)
        BY <4>2 DEF TypeOK, TakeOver, Requeue
      <4> QED
        BY <2>1, <4>1, <4>2 DEF Claim
    <3>2. job' \in JobRow
      BY <2>1 DEF TypeOK, Claim, ClaimQueued, TakeOver
    <3> QED
      BY <2>1, <3>1, <3>2 DEF TypeOK, Claim, Goto
  <2>2. CASE ClaimNothing(w)
    BY <2>2 DEF TypeOK, ClaimNothing, End
  <2>3. CASE Load(w)
    BY <2>3 DEF TypeOK, Load
  <2>4. CASE LoadFails(w)
    BY <2>4 DEF TypeOK, LoadFails, Goto
  <2>5. CASE FailJob(w)
    <3>1. job' \in JobRow
      BY <2>5 DEF TypeOK, FailJob, FailJobRow
    <3> QED
      BY <2>5, <3>1 DEF TypeOK, FailJob, End
  <2>6. ASSUME NEW i \in Items, SelectItem(w, i) PROVE TypeOK'
    BY <2>6 DEF TypeOK, SelectItem
  <2>7. CASE ClaimItem(w)
    <3>1. item' \in [Items -> ItemRow]
      BY <2>7 DEF TypeOK, ClaimItem
    <3>2. pc' \in [Leases -> Stage] /\ cur' \in [Leases -> Items \cup {NoItem}] /\ UNCHANGED todo
      BY <2>7 DEF TypeOK, ClaimItem, Goto, NextItem
    <3> QED
      BY <2>7, <3>1, <3>2 DEF TypeOK, ClaimItem
  <2>8. CASE Upload(w)
    BY <2>8 DEF TypeOK, CurrentItem, WorksOnItem, Upload, Goto, Blob
  <2>9. CASE RenderFails(w)
    BY <2>9 DEF TypeOK, CurrentItem, WorksOnItem, RenderFails, Goto, Blob
  <2>10. CASE Complete(w)
    BY <2>10, CountType DEF TypeOK, CurrentItem, WorksOnItem, Complete, CommitItem, NextItem, Blob, Succeeded
  <2>11. CASE CompleteFails(w)
    BY <2>11 DEF TypeOK, CompleteFails, Cleanup, Goto
  <2>12. CASE CompleteUnanswered(w)
    <3>1. <<cur[w], w>> \in Items \X Token
      BY <2>12 DEF CurrentItem, WorksOnItem, CompleteUnanswered
    <3>2. job' \in JobRow
      BY <2>12, <3>1, CountType DEF TypeOK, CompleteUnanswered, CommitItem, Succeeded
    <3>3. item' \in [Items -> ItemRow]
      BY <2>12 DEF TypeOK, CompleteUnanswered, CommitItem
    <3>4. artifact' \in [Items -> ArtifactRow]
      BY <2>12 DEF TypeOK, CompleteUnanswered, CommitItem
    <3>5. /\ referenced' \subseteq Items \X Token /\ objects' \subseteq Items \X Token
          /\ unacked' \subseteq Items \X Token /\ UNCHANGED context
      BY <2>12, <3>1 DEF TypeOK, CompleteUnanswered, CommitItem, Cleanup, Blob
    <3> QED
      BY <2>12, <3>2, <3>3, <3>4, <3>5 DEF TypeOK, CompleteUnanswered, Goto
  <2>13. CASE FailItem(w)
    <3>1. item' \in [Items -> ItemRow]
      BY <2>13 DEF TypeOK, FailItem
    <3>2. job' \in JobRow
      BY <2>13 DEF TypeOK, FailItem, FailJobRow
    <3> QED
      BY <2>13, <3>1, <3>2 DEF TypeOK, FailItem, End
  <2>14. CASE LoopEnds(w)
    BY <2>14 DEF TypeOK, LoopEnds, Goto
  <2>15. CASE Publish(w)
    <3>1. artifact' \in [Items -> ArtifactRow]
      <4>1. CASE UNCHANGED artifact
        BY <4>1 DEF TypeOK
      <4>2. CASE artifact' = [i \in Items |-> IF artifact[i].status = "validated"
                                               THEN [artifact[i] EXCEPT !.status = "published"]
                                               ELSE artifact[i]]
        <5>1. \A i \in Items : artifact[i] \in ArtifactRow
          BY DEF TypeOK
        <5>2. \A i \in Items : [artifact[i] EXCEPT !.status = "published"] \in ArtifactRow
          BY <5>1
        <5> HIDE DEF ArtifactRow
        <5> QED
          BY <4>2, <5>1, <5>2
      <4> QED
        BY <2>15, <4>1, <4>2 DEF Publish
    <3>2. job' \in JobRow
      <4>1. CASE UNCHANGED job
        BY <4>1 DEF TypeOK
      <4>2. CASE job' = [status |-> "succeeded", lease |-> NoLease, live |-> FALSE,
                         count |-> Cardinality(Items)]
        BY <4>2, CountType
      <4> QED
        BY <2>15, <4>1, <4>2 DEF Publish
    <3>3. /\ pc' \in [Leases -> Stage] /\ cur' \in [Leases -> Items \cup {NoItem}]
          /\ todo' \in [Leases -> SUBSET Items]
      BY <2>15 DEF TypeOK, Publish, Goto, End
    <3> QED
      BY <2>15, <3>1, <3>2, <3>3 DEF TypeOK, Publish
  <2>16. CASE Crash(w)
    BY <2>16 DEF TypeOK, Crash, End
  <2> QED
    BY <1>1, <2>1, <2>2, <2>3, <2>4, <2>5, <2>6, <2>7, <2>8, <2>9, <2>10, <2>11,
       <2>12, <2>13, <2>14, <2>15, <2>16 DEF AttemptStep
<1>2. CASE LeaseExpires
  BY <1>2 DEF TypeOK, LeaseExpires
<1>3. CASE Retry
  BY <1>3 DEF TypeOK, Retry, Requeue
<1>4. CASE Cancel
  BY <1>4 DEF TypeOK, Cancel
<1>5. CASE PlanReclamation
  BY <1>5 DEF TypeOK, PlanReclamation
<1>6. CASE UNCHANGED vars
  BY <1>6 DEF TypeOK, vars
<1> QED
  BY <1>1, <1>2, <1>3, <1>4, <1>5, <1>6, StepCases

----------------------------------------------------------------------------
(* Control of the attempts.                                                *)

\* Each attempt works on one item at a time, one it has not left to do.
LEMMA CurrentItemStep ==
    ASSUME Inv, [Next]_vars
    PROVE  CurrentItem'
<1> USE JobAssumption DEF CurrentItem, WorksOnItem, attempt
<1>0. /\ CurrentItem /\ pc \in [Leases -> Stage] /\ cur \in [Leases -> Items \cup {NoItem}]
      /\ todo \in [Leases -> SUBSET Items]
  BY DEF Inv, TypeOK
<1> USE <1>0
<1>1. ASSUME NEW w \in Leases, AttemptStep(w) PROVE CurrentItem'
  <2>1. CASE Claim(w)
    BY <2>1 DEF Claim, Goto
  <2>2. CASE ClaimNothing(w)
    BY <2>2 DEF ClaimNothing, End
  <2>3. CASE Load(w)
    BY <2>3 DEF Load
  <2>4. CASE LoadFails(w)
    BY <2>4 DEF LoadFails, Goto
  <2>5. CASE FailJob(w)
    BY <2>5 DEF FailJob, End
  <2>6. ASSUME NEW i \in Items, SelectItem(w, i) PROVE CurrentItem'
    BY <2>6 DEF SelectItem
  <2>7. CASE ClaimItem(w)
    BY <2>7 DEF ClaimItem, Goto, NextItem
  <2>8. CASE Upload(w)
    BY <2>8 DEF Upload, Goto
  <2>9. CASE RenderFails(w)
    BY <2>9 DEF RenderFails, Goto
  <2>10. CASE Complete(w)
    BY <2>10 DEF Complete, NextItem
  <2>11. CASE CompleteFails(w)
    BY <2>11 DEF CompleteFails, Goto
  <2>12. CASE CompleteUnanswered(w)
    BY <2>12 DEF CompleteUnanswered, Goto
  <2>13. CASE FailItem(w)
    BY <2>13 DEF FailItem, End
  <2>14. CASE LoopEnds(w)
    BY <2>14 DEF LoopEnds, Goto
  <2>15. CASE Publish(w)
    BY <2>15 DEF Publish, Goto, End
  <2>16. CASE Crash(w)
    BY <2>16 DEF Crash, End
  <2> QED
    BY <1>1, <2>1, <2>2, <2>3, <2>4, <2>5, <2>6, <2>7, <2>8, <2>9,
       <2>10, <2>11, <2>12, <2>13, <2>14, <2>15, <2>16 DEF AttemptStep
<1>2. CASE LeaseExpires
  BY <1>2 DEF LeaseExpires
<1>3. CASE Retry
  BY <1>3 DEF Retry
<1>4. CASE Cancel
  BY <1>4 DEF Cancel
<1>5. CASE PlanReclamation
  BY <1>5 DEF PlanReclamation
<1>6. CASE UNCHANGED vars
  BY <1>6 DEF vars
<1> QED
  BY <1>1, <1>2, <1>3, <1>4, <1>5, <1>6, StepCases

----------------------------------------------------------------------------
(* Rows: leases, artifacts, settled jobs.                                  *)

\* The steps of an attempt that write the job, its items or its artifacts.
LEMMA RowWriters ==
    ASSUME NEW w \in Leases, AttemptStep(w)
    PROVE  \/ Claim(w) \/ FailJob(w) \/ ClaimItem(w) \/ Complete(w)
           \/ CompleteUnanswered(w) \/ FailItem(w) \/ Publish(w)
           \/ UNCHANGED <<job, item, artifact>>
BY DEF AttemptStep, ClaimNothing, Load, LoadFails, SelectItem, Upload, RenderFails,
       CompleteFails, LoopEnds, Crash, rows

\* A lease belongs to a running job, and to nothing else.
LEMMA LeaseStep ==
    ASSUME Inv, [Next]_vars
    PROVE  LeaseState'
<1> USE JobAssumption DEF LeaseState
<1>0. LeaseState /\ job \in JobRow
  BY DEF Inv, TypeOK, JobRow
<1> USE <1>0 DEF JobRow
<1>1. ASSUME NEW w \in Leases, AttemptStep(w) PROVE LeaseState'
  <2>1. CASE Claim(w)
    BY <2>1 DEF Claim, ClaimQueued, TakeOver
  <2>2. CASE FailJob(w) \/ FailItem(w)
    BY <2>2 DEF FailJob, FailItem, FailJobRow
  <2>3. CASE Complete(w) \/ CompleteUnanswered(w)
    BY <2>3 DEF Complete, CompleteUnanswered, CommitItem
  <2>4. CASE Publish(w)
    BY <2>4 DEF Publish
  <2>5. CASE ClaimItem(w) \/ UNCHANGED <<job, item, artifact>>
    BY <2>5 DEF ClaimItem
  <2> QED
    BY <1>1, <2>1, <2>2, <2>3, <2>4, <2>5, RowWriters
<1>2. CASE LeaseExpires \/ Retry \/ Cancel \/ PlanReclamation \/ UNCHANGED vars
  BY <1>2 DEF LeaseExpires, Retry, Cancel, PlanReclamation, rows, vars
<1> QED
  BY <1>1, <1>2, StepCases

\* No step separates a succeeded item from its artifact row.
LEMMA RowsAgreeStep ==
    ASSUME Inv, [Next]_vars
    PROVE  RowsAgree'
<1> USE JobAssumption DEF RowsAgree
<1>0. /\ RowsAgree /\ CurrentItem
      /\ item \in [Items -> [status : ItemStatus, lease : Token]]
      /\ artifact \in [Items -> [status : {"none", "validated", "published"}, lease : Token]]
  BY DEF Inv, TypeOK
<1> USE <1>0 DEF ItemStatus
<1>1. ASSUME NEW w \in Leases, AttemptStep(w) PROVE RowsAgree'
  <2>1. CASE Claim(w)
    BY <2>1 DEF Claim, ClaimQueued, TakeOver, Requeue
  <2>2. CASE FailJob(w) \/ UNCHANGED <<job, item, artifact>>
    BY <2>2 DEF FailJob
  <2>3. CASE ClaimItem(w)
    BY <2>3 DEF ClaimItem
  <2>4. CASE Complete(w) \/ CompleteUnanswered(w)
    <3>1. cur[w] \in Items /\ CommitItem(w)
      BY <2>4 DEF Complete, CompleteUnanswered, CurrentItem, WorksOnItem
    <3>2. \A i \in Items : i # cur[w] => item'[i] = item[i] /\ artifact'[i] = artifact[i]
      BY <3>1 DEF CommitItem
    <3>3. /\ item'[cur[w]] = [status |-> "succeeded", lease |-> NoLease]
          /\ artifact'[cur[w]] = [status |-> "validated", lease |-> w]
      BY <3>1 DEF CommitItem
    <3> QED
      BY <3>1, <3>2, <3>3
  <2>5. CASE FailItem(w)
    BY <2>5 DEF FailItem, OwnsItem
  <2>6. CASE Publish(w)
    BY <2>6 DEF Publish
  <2> QED
    BY <1>1, <2>1, <2>2, <2>3, <2>4, <2>5, <2>6, RowWriters
<1>2. CASE Retry
  BY <1>2 DEF Retry, Requeue
<1>3. CASE Cancel
  BY <1>3 DEF Cancel
<1>4. CASE LeaseExpires \/ PlanReclamation \/ UNCHANGED vars
  BY <1>4 DEF LeaseExpires, PlanReclamation, rows, vars
<1> QED
  BY <1>1, <1>2, <1>3, <1>4, StepCases

\* Publication and success of the job are one step, and neither is undone.
LEMMA SettledStep ==
    ASSUME Inv, [Next]_vars
    PROVE  Settled'
<1> USE JobAssumption DEF Settled
<1>0. /\ Settled /\ RowsAgree /\ CurrentItem /\ job \in JobRow
      /\ artifact \in [Items -> [status : {"none", "validated", "published"}, lease : Token]]
  BY DEF Inv, TypeOK, JobRow
<1> USE <1>0 DEF JobRow
<1>1. ASSUME NEW w \in Leases, AttemptStep(w) PROVE Settled'
  <2>1. CASE Claim(w)
    BY <2>1 DEF Claim, ClaimQueued, TakeOver
  <2>2. CASE FailJob(w) \/ FailItem(w)
    BY <2>2 DEF FailJob, FailItem, FailJobRow, OwnsItem, HoldsLease
  <2>3. CASE Complete(w) \/ CompleteUnanswered(w)
    <3>1. job.status = "running" /\ job'.status = "running"
      BY <2>3 DEF Complete, CompleteUnanswered, CommitItem, OwnsItem, HoldsLease
    <3>2. \A i \in Items : artifact'[i].status # "published"
      BY <2>3, <3>1 DEF Complete, CompleteUnanswered, CommitItem
    <3> QED
      BY <3>1, <3>2
  <2>4. CASE Publish(w)
    BY <2>4 DEF Publish, PackageComplete
  <2>5. CASE ClaimItem(w) \/ UNCHANGED <<job, item, artifact>>
    BY <2>5 DEF ClaimItem
  <2> QED
    BY <1>1, <2>1, <2>2, <2>3, <2>4, <2>5, RowWriters
<1>2. CASE LeaseExpires \/ Retry \/ Cancel \/ PlanReclamation \/ UNCHANGED vars
  BY <1>2 DEF LeaseExpires, Retry, Cancel, PlanReclamation, rows, vars
<1> QED
  BY <1>1, <1>2, StepCases

----------------------------------------------------------------------------
(* Stored objects and the ledger.                                          *)

\* What an attempt works with: its own control state only.
LEMMA OwnControl ==
    ASSUME Inv, NEW w \in Leases, AttemptStep(w), NEW v \in Leases, v # w
    PROVE  pc'[v] = pc[v] /\ cur'[v] = cur[v] /\ todo'[v] = todo[v]
<1>1. /\ pc \in [Leases -> Stage] /\ cur \in [Leases -> Items \cup {NoItem}]
      /\ todo \in [Leases -> SUBSET Items]
  BY DEF Inv, TypeOK
<1>2. \E p, c, t : /\ pc' = [pc EXCEPT ![w] = p]
                   /\ cur' = [cur EXCEPT ![w] = c]
                   /\ todo' = [todo EXCEPT ![w] = t]
  BY <1>1 DEF AttemptStep, Claim, ClaimNothing, Load, LoadFails, FailJob, SelectItem, ClaimItem,
      Upload, RenderFails, Complete, CompleteFails, CompleteUnanswered, FailItem,
      LoopEnds, Publish, Crash, Goto, NextItem, End
<1> QED
  BY <1>1, <1>2

\* The steps of an attempt that write the ledger, and those that write MinIO.
LEMMA LedgerWriters ==
    ASSUME NEW w \in Leases, AttemptStep(w)
    PROVE  /\ Complete(w) \/ CompleteUnanswered(w) \/ UNCHANGED <<referenced, unacked>>
           /\ Upload(w) \/ RenderFails(w) \/ CompleteFails(w) \/ CompleteUnanswered(w)
                \/ UNCHANGED objects
           /\ UNCHANGED context
BY DEF AttemptStep, Claim, ClaimNothing, Load, LoadFails, FailJob, SelectItem, ClaimItem,
       Upload, RenderFails, Complete, CompleteFails, CompleteUnanswered, FailItem,
       LoopEnds, Publish, Crash, CommitItem, ledger

\* An attempt comes to reference a bundle only by committing its current item,
\* and never takes up that item again.
LEMMA UnreferencedStep ==
    ASSUME Inv, [Next]_vars
    PROVE  Unreferenced'
<1>0. /\ Unreferenced /\ CurrentItem
      /\ pc \in [Leases -> Stage] /\ cur \in [Leases -> Items \cup {NoItem}]
      /\ todo \in [Leases -> SUBSET Items]
  BY DEF Inv, TypeOK
<1>1. ASSUME NEW w \in Leases, AttemptStep(w) PROVE Unreferenced'
  <2>1. CASE UNCHANGED referenced
    <3>1. ASSUME NEW i \in Items, <<i, w>> \in referenced
          PROVE  /\ pc'[w] \notin {"new", "claimed"}
                 /\ i \notin todo'[w]
                 /\ cur'[w] = i => pc'[w] = "item_failed"
      BY <1>0, <1>1, <3>1, JobAssumption
         DEF Unreferenced, CurrentItem, WorksOnItem, AttemptStep, Claim, ClaimNothing, Load, LoadFails,
             FailJob, SelectItem, ClaimItem, Upload, RenderFails, Complete, CompleteFails,
             CompleteUnanswered, FailItem, LoopEnds, Publish, Crash, Goto, NextItem, End
    <3> QED
      BY <1>0, <1>1, <2>1, <3>1, OwnControl DEF Unreferenced
  <2>2. CASE Complete(w) \/ CompleteUnanswered(w)
    <3>1. /\ pc[w] = "uploaded" /\ cur[w] \in Items /\ cur[w] \notin todo[w]
          /\ referenced' = referenced \cup {<<cur[w], w>>}
          /\ todo'[w] = todo[w]
          /\ (pc'[w] = "loop" /\ cur'[w] = NoItem) \/ (pc'[w] = "item_failed" /\ cur'[w] = cur[w])
      BY <1>0, <2>2 DEF CurrentItem, WorksOnItem, Complete, CompleteUnanswered, CommitItem, Blob,
                        Goto, NextItem
    <3>2. ASSUME NEW i \in Items, <<i, w>> \in referenced'
          PROVE  /\ pc'[w] \notin {"new", "claimed"}
                 /\ i \notin todo'[w]
                 /\ cur'[w] = i => pc'[w] = "item_failed"
      BY <1>0, <3>1, <3>2, JobAssumption DEF Unreferenced
    <3> QED
      BY <1>0, <1>1, <3>1, <3>2, OwnControl DEF Unreferenced
  <2> QED
    BY <1>1, <2>1, <2>2, LedgerWriters
<1>2. CASE LeaseExpires \/ Retry \/ Cancel \/ PlanReclamation \/ UNCHANGED vars
  BY <1>0, <1>2 DEF Unreferenced, LeaseExpires, Retry, Cancel, PlanReclamation, ledger, attempt, vars
<1> QED
  BY <1>1, <1>2, StepCases

\* Until an attempt commits or deletes what it has uploaded, it is stored.
LEMMA UploadedStep ==
    ASSUME Inv, [Next]_vars
    PROVE  Uploaded'
<1>0. /\ Uploaded
      /\ pc \in [Leases -> Stage] /\ cur \in [Leases -> Items \cup {NoItem}]
      /\ todo \in [Leases -> SUBSET Items]
  BY DEF Inv, TypeOK
<1>1. ASSUME NEW w \in Leases, AttemptStep(w) PROVE Uploaded'
  <2>1. \A v \in Leases, b \in objects : v # w /\ b[2] = v => b \in objects'
    BY <1>1, LedgerWriters DEF Upload, RenderFails, CompleteFails, CompleteUnanswered, Cleanup, Blob
  <2>2. \A v \in Leases : v # w /\ pc'[v] = "uploaded" => <<cur'[v], v>> \in objects'
    BY <1>0, <1>1, <2>1, OwnControl DEF Uploaded
  <2>3. pc'[w] = "uploaded" => Upload(w)
    BY <1>0, <1>1 DEF AttemptStep, Claim, ClaimNothing, Load, LoadFails, FailJob, SelectItem,
        ClaimItem, RenderFails, Complete, CompleteFails, CompleteUnanswered, FailItem,
        LoopEnds, Publish, Crash, Goto, NextItem, End
  <2>4. Upload(w) => <<cur'[w], w>> \in objects'
    BY DEF Upload, Goto, Blob
  <2> QED
    BY <2>2, <2>3, <2>4 DEF Uploaded
<1>2. CASE LeaseExpires \/ Retry \/ Cancel \/ PlanReclamation \/ UNCHANGED vars
  BY <1>0, <1>2 DEF Uploaded, LeaseExpires, Retry, Cancel, PlanReclamation, attempt, vars
<1> QED
  BY <1>1, <1>2, StepCases

\* No deletion hits a referenced bundle, and none is referenced before it is
\* stored.
LEMMA ReferencedStep ==
    ASSUME Inv, [Next]_vars
    PROVE  ReferencedAreStored'
<1>0. ReferencedAreStored /\ Unreferenced /\ Uploaded /\ CurrentItem
  BY DEF Inv
<1>1. ASSUME NEW w \in Leases, AttemptStep(w) PROVE ReferencedAreStored'
  <2>1. CASE Complete(w)
    BY <1>0, <2>1 DEF ReferencedAreStored, Uploaded, Complete, CommitItem, Blob
  <2>2. CASE CompleteUnanswered(w)
    BY <1>0, <2>2 DEF ReferencedAreStored, CompleteUnanswered, CommitItem, Cleanup, Blob
  <2>3. CASE Upload(w) /\ UNCHANGED <<referenced, unacked>>
    BY <1>0, <2>3 DEF ReferencedAreStored, Upload
  <2>4. CASE (RenderFails(w) \/ CompleteFails(w)) /\ UNCHANGED <<referenced, unacked>>
    <3>1. cur[w] \in Items /\ <<cur[w], w>> \notin referenced
      BY <1>0, <2>4 DEF Unreferenced, CurrentItem, WorksOnItem, RenderFails, CompleteFails
    <3>2. objects \ {<<cur[w], w>>} \subseteq objects'
      BY <2>4 DEF RenderFails, CompleteFails, Cleanup, Blob
    <3> QED
      BY <1>0, <2>4, <3>1, <3>2 DEF ReferencedAreStored
  <2>5. CASE UNCHANGED <<referenced, unacked, objects>>
    BY <1>0, <2>5 DEF ReferencedAreStored
  <2> QED
    BY <1>1, <2>1, <2>2, <2>3, <2>4, <2>5, LedgerWriters
<1>2. CASE LeaseExpires \/ Retry \/ Cancel \/ PlanReclamation \/ UNCHANGED vars
  BY <1>0, <1>2 DEF ReferencedAreStored, LeaseExpires, Retry, Cancel, PlanReclamation, ledger, vars
<1> QED
  BY <1>1, <1>2, StepCases

\* Only a cancellation lets go of the context, and a cancelled job stays so.
LEMMA ContextStep ==
    ASSUME Inv, [Next]_vars
    PROVE  ContextKept'
<1>0. ContextKept /\ job \in JobRow
  BY DEF Inv, TypeOK, JobRow
<1>1. ASSUME NEW w \in Leases, AttemptStep(w) PROVE ContextKept'
  <2>1. UNCHANGED context
    BY <1>1, LedgerWriters
  <2>2. job.status = "cancelled" => job'.status = "cancelled"
    BY <1>0, <1>1, RowWriters DEF JobRow, Claim, ClaimQueued, TakeOver, FailJob, ClaimItem,
        Complete, CompleteUnanswered, CommitItem, FailItem, FailJobRow, Publish, OwnsItem, HoldsLease
  <2> QED
    BY <1>0, <2>1, <2>2 DEF ContextKept
<1>2. CASE LeaseExpires \/ Retry \/ Cancel \/ PlanReclamation \/ UNCHANGED vars
  BY <1>0, <1>2 DEF ContextKept, JobRow, LeaseExpires, Retry, Cancel, PlanReclamation, rows, ledger, vars
<1> QED
  BY <1>1, <1>2, StepCases

\* Whatever else changes the items keeps the set of succeeded ones, and the
\* count with it.
LEMMA CountStep ==
    ASSUME Inv, [Next]_vars
    PROVE  CountIsExact'
<1>0. /\ CountIsExact /\ job \in JobRow
      /\ item \in [Items -> [status : ItemStatus, lease : Token]]
  BY DEF Inv, TypeOK, JobRow
<1>1. /\ \A i \in Items : item'[i].status = "succeeded" <=> item[i].status = "succeeded"
      /\ job'.count = job.count
      => CountIsExact'
  BY <1>0 DEF CountIsExact, Succeeded
<1>2. ASSUME NEW w \in Leases, AttemptStep(w) PROVE CountIsExact'
  <2>1. CASE Claim(w)
    <3>1. \A i \in Items : item'[i].status = "succeeded" <=> item[i].status = "succeeded"
      BY <2>1 DEF Claim, ClaimQueued, TakeOver, Requeue
    <3>2. job'.count = job.count
      BY <1>0, <2>1 DEF JobRow, Claim, ClaimQueued, TakeOver
    <3> QED
      BY <1>1, <3>1, <3>2
  <2>2. CASE FailJob(w) \/ UNCHANGED <<job, item, artifact>>
    BY <1>0, <1>1, <2>2 DEF JobRow, FailJob, FailJobRow
  <2>3. CASE ClaimItem(w)
    BY <1>0, <1>1, <2>3 DEF ClaimItem
  <2>4. CASE Complete(w) \/ CompleteUnanswered(w)
    <3>1. cur[w] \in Items /\ CommitItem(w)
      BY <2>4 DEF Inv, CurrentItem, WorksOnItem, Complete, CompleteUnanswered
    <3>2. Succeeded' = Succeeded \cup {cur[w]}
      BY <1>0, <3>1 DEF CommitItem, Succeeded
    <3>3. job'.count = Cardinality(Succeeded \cup {cur[w]})
      BY <1>0, <3>1 DEF CommitItem, JobRow
    <3> QED
      BY <3>2, <3>3 DEF CountIsExact
  <2>5. CASE FailItem(w)
    <3>1. \A i \in Items : item'[i].status = "succeeded" <=> item[i].status = "succeeded"
      BY <1>0, <2>5 DEF FailItem, OwnsItem
    <3>2. job'.count = job.count
      BY <1>0, <2>5 DEF JobRow, FailItem, FailJobRow
    <3> QED
      BY <1>1, <3>1, <3>2
  <2>6. CASE Publish(w)
    <3>1. CASE UNCHANGED job
      BY <1>1, <2>6, <3>1 DEF Publish
    <3>2. CASE PackageComplete /\ job'.count = Cardinality(Items)
      BY <2>6, <3>2 DEF Publish, PackageComplete, Succeeded, CountIsExact
    <3> QED
      BY <2>6, <3>1, <3>2 DEF Publish
  <2> QED
    BY <1>2, <2>1, <2>2, <2>3, <2>4, <2>5, <2>6, RowWriters
<1>3. CASE Retry
  BY <1>0, <1>1, <1>3 DEF JobRow, ItemStatus, Retry, Requeue
<1>4. CASE Cancel
  BY <1>0, <1>1, <1>4 DEF JobRow, ItemStatus, Cancel
<1>5. CASE LeaseExpires \/ PlanReclamation \/ UNCHANGED vars
  BY <1>0, <1>1, <1>5 DEF JobRow, LeaseExpires, PlanReclamation, rows, vars
<1> QED
  BY <1>2, <1>3, <1>4, <1>5, StepCases

----------------------------------------------------------------------------
(* Invariants.                                                             *)

\* The lemmas together.
LEMMA InvStep == Inv /\ [Next]_vars => Inv'
<1> SUFFICES ASSUME Inv, [Next]_vars PROVE Inv'
  OBVIOUS
<1> QED
  BY TypeStep, CurrentItemStep, LeaseStep, RowsAgreeStep, SettledStep, UnreferencedStep,
     UploadedStep, ReferencedStep, ContextStep, CountStep DEF Inv

\* Inv holds in every reachable state.
THEOREM Invariance == Spec => []Inv
BY InitInv, InvStep, PTL DEF Spec

\* Every variable keeps its type, in particular the states of jobs and items
\* stay within those the schema's CHECK constraints admit.
THEOREM TypeCorrect == Spec => []TypeOK
<1>1. Inv => TypeOK
  BY DEF Inv
<1> QED
  BY <1>1, Invariance, PTL

\* A package is published as a whole or not at all, by publish_job_if_complete,
\* whatever attempts, take-overs, retries and cancellations interleave.
THEOREM PublishedTogetherHolds == Spec => []PublishedTogether
<1>1. Inv => PublishedTogether
  BY DEF Inv, Settled, RowsAgree, PublishedTogether
<1> QED
  BY <1>1, Invariance, PTL

\* succeeded_item_count always equals the number of succeeded items.
THEOREM CountIsExactHolds == Spec => []CountIsExact
<1>1. Inv => CountIsExact
  BY DEF Inv
<1> QED
  BY <1>1, Invariance, PTL

\* The frozen context of a job that may still run never enters retention.
THEOREM ContextKeptHolds == Spec => []ContextKept
<1>1. Inv => ContextKept
  BY DEF Inv
<1> QED
  BY <1>1, Invariance, PTL

\* _cleanup_uploaded_refs never deletes a bundle the ledger has as referenced,
\* lost answers of complete_item excepted.
THEOREM ReferencedAreStoredHolds == Spec => []ReferencedAreStored
<1>1. Inv => ReferencedAreStored
  BY DEF Inv
<1> QED
  BY <1>1, Invariance, PTL

----------------------------------------------------------------------------
(* Action properties.                                                      *)

\* The step of an attempt that neither holds nor takes the lease leaves the
\* job and the artifacts alone.
LEMMA StaleStep ==
    ASSUME Inv, [Next]_vars
    PROVE  \A w \in Leases :
             pc'[w] # pc[w] /\ ~HoldsLease(w) /\ job'.lease # w => UNCHANGED <<job, artifact>>
<1> SUFFICES ASSUME NEW v \in Leases, pc'[v] # pc[v], ~HoldsLease(v), job'.lease # v
             PROVE  UNCHANGED <<job, artifact>>
  OBVIOUS
<1>1. ASSUME NEW w \in Leases, AttemptStep(w) PROVE UNCHANGED <<job, artifact>>
  <2>1. v = w
    BY <1>1, OwnControl
  <2>2. ~Claim(v)
    BY DEF Inv, TypeOK, Claim, ClaimQueued, TakeOver
  <2>3. FailJob(v) \/ ClaimItem(v) \/ FailItem(v) \/ Publish(v) => UNCHANGED <<job, artifact>>
    BY DEF FailJob, ClaimItem, FailItem, Publish, OwnsItem
  <2>4. ~Complete(v) /\ ~CompleteUnanswered(v)
    BY DEF Complete, CompleteUnanswered, OwnsItem
  <2> QED
    BY <1>1, <2>1, <2>2, <2>3, <2>4, RowWriters
<1>2. ~(LeaseExpires \/ Retry \/ Cancel \/ PlanReclamation \/ UNCHANGED vars)
  BY DEF LeaseExpires, Retry, Cancel, PlanReclamation, attempt, vars
<1> QED
  BY <1>1, <1>2, StepCases

\* Lease fencing, for any number of attempts.
THEOREM StaleAttemptHarmlessHolds == Spec => StaleAttemptHarmless
<1>1. Inv /\ [Next]_vars =>
        [\A w \in Leases :
           pc'[w] # pc[w] /\ ~HoldsLease(w) /\ job'.lease # w => UNCHANGED <<job, artifact>>]_vars
  BY StaleStep
<1> QED
  BY <1>1, Invariance, PTL DEF Spec, StaleAttemptHarmless

\* No step changes a succeeded item or the artifact row that goes with it.
LEMMA FinishedStep ==
    ASSUME Inv, [Next]_vars
    PROVE  \A i \in Items : item[i].status = "succeeded" =>
             item'[i].status = "succeeded" /\ artifact'[i].lease = artifact[i].lease
<1>0. /\ RowsAgree /\ item \in [Items -> ItemRow] /\ artifact \in [Items -> ArtifactRow]
  BY DEF Inv, TypeOK, ItemRow, ArtifactRow
<1> SUFFICES ASSUME NEW i \in Items, item[i].status = "succeeded"
             PROVE  item'[i].status = "succeeded" /\ artifact'[i].lease = artifact[i].lease
  OBVIOUS
<1>1. ASSUME NEW w \in Leases, AttemptStep(w)
      PROVE  item'[i].status = "succeeded" /\ artifact'[i].lease = artifact[i].lease
  <2>1. CASE Claim(w) \/ FailJob(w) \/ UNCHANGED <<job, item, artifact>>
    BY <1>0, <2>1 DEF Claim, ClaimQueued, TakeOver, Requeue, FailJob
  <2>2. CASE ClaimItem(w) \/ FailItem(w)
    BY <1>0, <2>2 DEF ClaimItem, FailItem, OwnsItem
  <2>3. CASE Complete(w) \/ CompleteUnanswered(w)
    BY <1>0, <2>3 DEF RowsAgree, Complete, CompleteUnanswered, CommitItem, OwnsItem
  <2>4. CASE Publish(w)
    BY <1>0, <2>4 DEF ArtifactRow, Publish
  <2> QED
    BY <1>1, <2>1, <2>2, <2>3, <2>4, RowWriters
<1>2. CASE LeaseExpires \/ Retry \/ Cancel \/ PlanReclamation \/ UNCHANGED vars
  BY <1>0, <1>2 DEF LeaseExpires, Retry, Requeue, Cancel, PlanReclamation, rows, vars
<1> QED
  BY <1>1, <1>2, StepCases

\* retry_failed_job and take-overs never redo finished work.
THEOREM FinishedWorkKeptHolds == Spec => FinishedWorkKept
<1>1. Inv /\ [Next]_vars =>
        [\A i \in Items : item[i].status = "succeeded" =>
           item'[i].status = "succeeded" /\ artifact'[i].lease = artifact[i].lease]_vars
  BY FinishedStep
<1> QED
  BY <1>1, Invariance, PTL DEF Spec, FinishedWorkKept

----------------------------------------------------------------------------
(* Refinement.                                                             *)

\* Every step is a step of the package, or leaves it as it is.
LEMMA PackageStep ==
    ASSUME Inv, [Next]_vars
    PROVE  [Package!Next]_(Package!vars)
<1>0. /\ RowsAgree /\ Settled /\ CurrentItem /\ job \in JobRow /\ artifact \in [Items -> ArtifactRow]
  BY DEF Inv, TypeOK, JobRow, ArtifactRow
<1> USE DEF JobRow, JobStatus
<1>1. ASSUME artifact' = artifact, Phase' = Phase
      PROVE  UNCHANGED Package!vars
  BY <1>1 DEF Package!vars, Accepted
<1>2. ASSUME NEW w \in Leases, AttemptStep(w) PROVE [Package!Next]_(Package!vars)
  <2>1. CASE Claim(w)
    BY <1>0, <1>1, <2>1 DEF Claim, ClaimQueued, TakeOver, Phase
  <2>2. CASE FailJob(w) \/ FailItem(w)
    BY <1>0, <1>1, <2>2 DEF FailJob, FailItem, FailJobRow, OwnsItem, HoldsLease, Phase
  <2>3. CASE ClaimItem(w) \/ UNCHANGED <<job, item, artifact>>
    BY <1>1, <2>3 DEF ClaimItem, Phase
  <2>4. CASE Complete(w) \/ CompleteUnanswered(w)
    <3>1. cur[w] \in Items /\ CommitItem(w) /\ job.status = "running"
      BY <1>0, <2>4 DEF CurrentItem, WorksOnItem, Complete, CompleteUnanswered, OwnsItem, HoldsLease
    <3>2. Phase = "open" /\ Phase' = Phase
      BY <1>0, <3>1 DEF Phase, CommitItem
    <3>3. Accepted[cur[w]] = NoLease
      BY <1>0, <3>1 DEF Accepted, RowsAgree, CommitItem
    <3>4. Accepted' = [Accepted EXCEPT ![cur[w]] = w]
      BY <1>0, <3>1 DEF Accepted, ArtifactRow, CommitItem
    <3>5. Package!Accept(cur[w], w)
      BY <3>2, <3>3, <3>4 DEF Package!Accept
    <3> QED
      BY <3>1, <3>5 DEF Package!Next
  <2>5. CASE Publish(w)
    <3>1. CASE UNCHANGED <<job, artifact>>
      BY <1>1, <3>1 DEF Phase
    <3>2. CASE ~UNCHANGED <<job, artifact>>
      <4>1. job.status = "running" /\ job'.status = "succeeded" /\ PackageComplete
        BY <2>5, <3>2 DEF Publish, HoldsLease
      <4>2. Phase = "open" /\ Phase' = "delivered"
        BY <4>1 DEF Phase
      <4>3. \A i \in Items : Accepted[i] # NoLease
        BY <1>0, <4>1 DEF Accepted, PackageComplete, RowsAgree
      <4>4. \A i \in Items : artifact'[i].lease = artifact[i].lease
        BY <1>0, <2>5 DEF ArtifactRow, Publish
      <4>5. Accepted' = Accepted
        BY <4>4 DEF Accepted
      <4>6. Package!Deliver
        BY <4>2, <4>3, <4>5 DEF Package!Deliver
      <4> QED
        BY <4>6 DEF Package!Next
    <3> QED
      BY <3>1, <3>2
  <2> QED
    BY <1>2, <2>1, <2>2, <2>3, <2>4, <2>5, RowWriters
<1>3. CASE Cancel
  <2>1. Package!Withdraw
    BY <1>0, <1>3 DEF Cancel, Phase, Accepted, Package!Withdraw
  <2> QED
    BY <2>1 DEF Package!Next
<1>4. CASE LeaseExpires \/ Retry \/ PlanReclamation \/ UNCHANGED vars
  BY <1>0, <1>1, <1>4 DEF LeaseExpires, Retry, PlanReclamation, rows, vars, Phase
<1> QED
  BY <1>2, <1>3, <1>4, StepCases

\* The generation job, its attempts, retries and cancellation implement
\* AttachmentPackage.
THEOREM Implementation == Spec => ImplementsPackage
<1>1. Init => Package!Init
  BY DEF Init, Package!Init, Phase, Accepted
<1>2. Inv /\ [Next]_vars => [Package!Next]_(Package!vars)
  BY PackageStep
<1> QED
  BY <1>1, <1>2, Invariance, PTL DEF Spec, ImplementsPackage, Package!Spec
============================================================================
