----------------------------- MODULE ChatProofs -----------------------------
(***************************************************************************)
(* Proofs about conversations: the case a thread works on, the cases and   *)
(* tasks its turns open, the messages of its turns, and the tickets with   *)
(* which what they deliver is downloaded.  The components share no state   *)
(* here; each part has its own invariant and theorems, for any values of   *)
(* its constants.                                                          *)
(***************************************************************************)
EXTENDS ThreadCases, ConversationTurns, ArtifactTickets, FiniteSetTheorems,
        WellFoundedInduction, TLAPS

-----------------------------------------------------------------------------
(***************************************************************************)
(* Threads, cases and tasks, for any number of requests and any number of  *)
(* cases and tasks.  Requests read the binding of a thread and look for    *)
(* twins in steps of their own before they write; the inductive invariant  *)
(* says what such a request still knows when it writes: the case its turn  *)
(* was admitted to, and that whoever it may duplicate is listed as raced.  *)
(***************************************************************************)

----------------------------------------------------------------------------
(* Requests and what they do to each other.                                *)

VisitorRecord == [stage : VisitStage, asked : 0..MaxCases, create : BOOLEAN,
                  chat : BOOLEAN, case : 0..MaxCases, entity : Entities]

\* A turn that runs, from the lock to the checkpoint.
InGraph(p) ==
    \/ visitor[p].stage \in {"working", "created", "tasking", "inserting task"}
    \/ visitor[p].stage = "inserting case" /\ visitor[p].chat

\* The thread a turn has been admitted to has a row.
Admitted(p) ==
    InGraph(p) \/ visitor[p].stage \in {"rechecking", "binding", "waiting", "bind created"}

\* A turn holds the lock, works on the case of the checkpoint, and waits only
\* with the case its thread is bound to.
TurnOK(p) ==
    /\ InGraph(p) => lock = p
    /\ Admitted(p) => bound.exists
    /\ visitor[p].stage = "waiting" /\ visitor[p].asked > 0 => visitor[p].asked = bound.case
    /\ visitor[p].stage = "working" => visitor[p].case = checkpoint
    /\ visitor[p].stage \in {"created", "bind created", "tasking", "inserting task"} =>
          visitor[p].case \in CaseIds

BindingInv ==
    /\ \A p \in Visitors : TurnOK(p)
    /\ ~bound.exists => bound.case = 0
    /\ checkpoint \in {0, bound.case} \cup pending

\* Live cases of an entity, and requests that are about to insert one.
CaseTwinsInv ==
    /\ \A m, n \in 1..Len(cases) :
          m # n /\ cases[m].live /\ cases[n].live /\ cases[m].entity = cases[n].entity =>
              cases[m].entity \in raced
    /\ \A p \in Visitors, m \in 1..Len(cases) :
          visitor[p].stage = "inserting case" /\ cases[m].live
          /\ cases[m].entity = visitor[p].entity => visitor[p].entity \in raced
    /\ \A p, q \in Visitors :
          p # q /\ visitor[p].stage = "inserting case" /\ visitor[q].stage = "inserting case"
          /\ visitor[p].entity = visitor[q].entity => visitor[p].entity \in raced

\* Open tasks of a case, and the turn that is about to insert one.
TaskTwinsInv ==
    /\ \A i, j \in 1..Len(tasks) :
          i # j /\ tasks[i].status # "cancelled" /\ tasks[j].status # "cancelled"
          /\ tasks[i].case = tasks[j].case => tasks[i].case \in raced
    /\ \A p \in Visitors, i \in 1..Len(tasks) :
          visitor[p].stage = "inserting task" /\ tasks[i].status # "cancelled"
          /\ tasks[i].case = visitor[p].case => tasks[i].case \in raced

ThreadInv == ThreadTypeOK /\ BindingInv /\ CaseTwinsInv /\ TaskTwinsInv

\* A visitor who is away asks for nothing.
LEMMA ThreadAway == Away \in VisitorRecord /\ Away.stage = "idle" /\ Away.asked = 0
  BY VisitAssumption DEF Away, VisitorRecord, VisitStage

\* Changing one row keeps the others, and the table a table.
LEMMA ChatRowChanged ==
    ASSUME NEW S, NEW s \in Seq(S), NEW v \in 1..Len(s), NEW x \in S
    PROVE  LET t == [s EXCEPT ![v] = x] IN
           /\ t \in Seq(S) /\ Len(t) = Len(s) /\ t[v] = x
           /\ \A d \in 1..Len(s) : d # v => t[d] = s[d]
  OBVIOUS

\* A row of a table.
LEMMA ChatRowIn ==
    ASSUME NEW S, NEW s \in Seq(S), NEW v \in 1..Len(s)
    PROVE  s[v] \in S
  OBVIOUS

\* Adding a row at the end keeps the others.
LEMMA ChatRowAdded ==
    ASSUME NEW S, NEW s \in Seq(S), NEW x \in S
    PROVE  LET t == Append(s, x) IN
           /\ t \in Seq(S) /\ Len(t) = Len(s) + 1 /\ Len(s) \in Nat
           /\ t[Len(s) + 1] = x /\ \A d \in 1..Len(s) : t[d] = s[d]
  OBVIOUS

\* Only the request that moves changes.
LEMMA ThreadMoves ==
    ASSUME ThreadTypeOK, NEW p \in Visitors, NEW r \in VisitorRecord,
           visitor' = [visitor EXCEPT ![p] = r]
    PROVE  /\ visitor' \in [Visitors -> VisitorRecord]
           /\ \A q \in Visitors \ {p} : visitor'[q] = visitor[q]
           /\ visitor'[p] = r
  <1>1. visitor \in [Visitors -> VisitorRecord]
    BY DEF ThreadTypeOK, VisitorRecord
  <1> QED BY <1>1

\* A request that moves on stays a request.
LEMMA ThreadProceeds ==
    ASSUME ThreadTypeOK, NEW p \in Visitors, NEW stage \in VisitStage, Proceed(p, stage)
    PROVE  /\ visitor' \in [Visitors -> VisitorRecord]
           /\ \A q \in Visitors \ {p} : visitor'[q] = visitor[q]
           /\ visitor'[p].stage = stage /\ visitor'[p].case = visitor[p].case
           /\ visitor'[p].asked = visitor[p].asked /\ visitor'[p].chat = visitor[p].chat
           /\ visitor'[p].entity = visitor[p].entity
  BY DEF ThreadTypeOK, Proceed, VisitorRecord

\* A request that ends leaves a visitor who is away.
LEMMA ThreadLeaves ==
    ASSUME ThreadTypeOK, NEW p \in Visitors, Leaves(p)
    PROVE  /\ visitor' \in [Visitors -> VisitorRecord]
           /\ \A q \in Visitors \ {p} : visitor'[q] = visitor[q]
           /\ visitor'[p].stage = "idle"
  BY ThreadAway DEF ThreadTypeOK, Leaves, VisitorRecord

\* Where one request looks for a case and finds none, and what it finds.
LEMMA ThreadNewest ==
    ASSUME ThreadTypeOK, NEW entity, SameCases(entity) # {}
    PROVE  Newest(SameCases(entity)) \in SameCases(entity)
  <1> DEFINE S == SameCases(entity)
             n == Len(cases)
             T == {k \in Nat : n - k \in S}
  <1>0. n \in Nat /\ S \subseteq 1..n /\ S # {}
    BY DEF ThreadTypeOK, SameCases
  <1> HIDE DEF S, n
  <1>1. \A x \in S : n - x \in T
    BY <1>0
  <1>2. T \subseteq Nat /\ T # {}
    BY <1>0, <1>1
  <1>3. \E t \in T : \A u \in T : ~(<<u, t>> \in OpToRel(<, Nat))
    BY <1>2, NatLessThanWellFounded, WFMin, Zenon
  <1>4. PICK t \in T : \A u \in T : ~(u < t)
    BY <1>2, <1>3 DEF OpToRel
  <1>5. n - t \in S /\ \A y \in S : ~(n - y < t)
    BY <1>1, <1>4
  <1>6. \E x \in S : \A y \in S : y <= x
    BY <1>0, <1>2, <1>5
  <1> QED BY <1>6 DEF Newest, S

\* The invariant holds of empty tables.
LEMMA ThreadInitInv == ThreadInit => ThreadInv
  <1> SUFFICES ASSUME ThreadInit PROVE ThreadInv
    OBVIOUS
  <1> USE DEF ThreadInit
  <1>1. /\ Len(cases) = 1 /\ cases \in Seq([entity : Entities, live : BOOLEAN])
        /\ tasks = <<>> /\ Len(tasks) = 0
    BY ThreadAway DEF VisitorRecord
  <1>2. ThreadTypeOK
    <2>1. visitor \in [Visitors -> VisitorRecord]
      BY ThreadAway
    <2>2. tasks \in Seq([case : CaseIds, status : TaskStatus])
      BY <1>1
    <2>3. bound \in [exists : BOOLEAN, case : 0..MaxCases]
      BY VisitAssumption
    <2>4. /\ Len(cases) <= MaxCases /\ Len(tasks) <= MaxTasks /\ checkpoint \in 0..MaxCases
          /\ visits \in 0..MaxVisits /\ lock = NoVisitor /\ pending = {}
      BY <1>1, VisitAssumption
    <2> HIDE DEF ThreadInit
    <2> QED BY <1>1, <2>1, <2>2, <2>3, <2>4 DEF ThreadTypeOK, VisitorRecord
  <1>3. BindingInv
    BY ThreadAway DEF BindingInv, TurnOK, InGraph, Admitted
  <1>4. CaseTwinsInv
    <2>1. \A p \in Visitors : visitor[p].stage = "idle"
      BY ThreadAway
    <2>2. \A m, n \in 1..Len(cases) : m = n
      BY <1>1
    <2> HIDE DEF ThreadInit
    <2> QED BY <2>1, <2>2 DEF CaseTwinsInv
  <1>5. TaskTwinsInv
    BY <1>1 DEF TaskTwinsInv
  <1> QED BY <1>2, <1>3, <1>4, <1>5 DEF ThreadInv

\* A look-up finds the newest live case or lets the request insert one.
LEMMA ThreadLooksUp ==
    ASSUME ThreadTypeOK, NEW p \in Visitors, NEW entity \in Entities, LookUpEntity(p, entity)
    PROVE  /\ visitor' \in [Visitors -> VisitorRecord]
           /\ \A q \in Visitors \ {p} : visitor'[q] = visitor[q]
           /\ visitor'[p].chat = visitor[p].chat /\ visitor'[p].entity = entity
           /\ \/ /\ visitor'[p].stage = "created" /\ visitor'[p].case \in 1..Len(cases)
                 /\ raced' = raced
              \/ /\ visitor'[p].stage = "inserting case" /\ SameCases(entity) = {}
                 /\ raced \subseteq raced'
                 /\ Inserting(entity) # {} => entity \in raced'
  <1>0. visitor \in [Visitors -> VisitorRecord] /\ Len(cases) \in Nat /\ Len(cases) <= MaxCases
    BY DEF ThreadTypeOK, VisitorRecord
  <1>1. CASE SameCases(entity) # {}
    <2> DEFINE n == Newest(SameCases(entity))
               r == [visitor[p] EXCEPT !.stage = "created", !.entity = entity, !.case = n]
    <2>1. n \in 1..Len(cases)
      BY <1>1, ThreadNewest DEF SameCases
    <2>2. visitor' = [visitor EXCEPT ![p] = r] /\ raced' = raced
      BY <1>1 DEF LookUpEntity
    <2> HIDE DEF n
    <2>3. n \in 0..MaxCases
      BY <1>0, <2>1, VisitAssumption
    <2>4. /\ r \in VisitorRecord /\ r.stage = "created" /\ r.case = n
          /\ r.chat = visitor[p].chat /\ r.entity = entity
      BY <1>0, <2>3 DEF VisitorRecord, VisitStage
    <2> HIDE DEF r
    <2> QED BY <2>1, <2>2, <2>4, ThreadMoves
  <1>2. CASE SameCases(entity) = {}
    <2> DEFINE r == [visitor[p] EXCEPT !.stage = "inserting case", !.entity = entity]
    <2>1. visitor' = [visitor EXCEPT ![p] = r]
      BY <1>2 DEF LookUpEntity
    <2>2. /\ r \in VisitorRecord /\ r.stage = "inserting case"
          /\ r.chat = visitor[p].chat /\ r.entity = entity
      BY <1>0 DEF VisitorRecord, VisitStage
    <2>3. /\ raced \subseteq raced'
          /\ Inserting(entity) # {} => entity \in raced'
      BY <1>2 DEF LookUpEntity
    <2> HIDE DEF r
    <2> QED BY <1>2, <2>1, <2>2, <2>3, ThreadMoves
  <1> QED BY <1>1, <1>2

\* Every step keeps the shape of the tables.
LEMMA ThreadTypeStep == ThreadTypeOK /\ BindingInv /\ [ThreadNext]_tvars => ThreadTypeOK'
  <1> SUFFICES ASSUME ThreadTypeOK, BindingInv, [ThreadNext]_tvars PROVE ThreadTypeOK'
    OBVIOUS
  <1> DEFINE Tables == /\ cases \in Seq([entity : Entities, live : BOOLEAN])
                       /\ Len(cases) <= MaxCases
                       /\ tasks \in Seq([case : CaseIds, status : TaskStatus])
                       /\ Len(tasks) <= MaxTasks
             Thread == /\ bound \in [exists : BOOLEAN, case : 0..MaxCases]
                       /\ checkpoint \in 0..MaxCases /\ lock \in Visitors \cup {NoVisitor}
                       /\ pending \subseteq CaseIds /\ visits \in 0..MaxVisits
  <1>t. Tables /\ Thread /\ visitor \in [Visitors -> VisitorRecord]
    BY DEF ThreadTypeOK, VisitorRecord
  <1>q. /\ Tables' /\ Thread' /\ visitor' \in [Visitors -> VisitorRecord] => ThreadTypeOK'
        /\ UNCHANGED <<cases, tasks>> => Tables'
        /\ UNCHANGED <<bound, checkpoint, pending, visits>> /\ lock' \in Visitors \cup {NoVisitor}
              => Thread'
    BY <1>t DEF ThreadTypeOK, VisitorRecord
  <1> DEFINE Good == Tables' /\ Thread' /\ visitor' \in [Visitors -> VisitorRecord]
  <1>s. {"idle", "arrived", "registering", "rechecking", "binding", "waiting", "working",
         "inserting case", "created", "bind created", "tasking", "inserting task"} = VisitStage
    BY DEF VisitStage
  <1>1. ASSUME NEW p \in Visitors,
               \/ \E asked \in 0..Len(cases), create \in BOOLEAN, entity \in Entities :
                     Arrive(p, asked, create, entity)
               \/ FindThread(p) \/ Register(p) \/ Recheck(p) \/ BindThread(p)
        PROVE  Good
    <2>1. ASSUME NEW asked \in 0..Len(cases), NEW create \in BOOLEAN, NEW entity \in Entities,
                 Arrive(p, asked, create, entity)
          PROVE  Good
      <3>1. asked \in 0..MaxCases /\ visits' \in 0..MaxVisits
        BY <1>t, <2>1, VisitAssumption DEF Arrive
      <3>2. visitor' \in [Visitors -> VisitorRecord]
        BY <1>t, <1>s, <2>1, <3>1, ThreadAway DEF Arrive, VisitorRecord
      <3> QED BY <1>t, <2>1, <3>1, <3>2 DEF Arrive, store
    <2>2. CASE FindThread(p)
      BY <1>t, <1>q, <1>s, <2>2, ThreadProceeds, ThreadLeaves DEF FindThread, store
    <2>3. CASE Register(p)
      <3>1. visitor' \in [Visitors -> VisitorRecord] /\ visitor[p].asked \in 0..MaxCases
        BY <1>t, <1>s, <2>3, ThreadProceeds DEF Register, VisitorRecord
      <3> QED BY <1>t, <2>3, <3>1 DEF Register, store
    <2>4. CASE Recheck(p)
      BY <1>t, <1>q, <1>s, <2>4, ThreadProceeds, ThreadLeaves DEF Recheck, store
    <2>5. CASE BindThread(p)
      <3>1. visitor' \in [Visitors -> VisitorRecord] /\ visitor[p].asked \in 0..MaxCases
        BY <1>t, <1>s, <2>5, ThreadProceeds, ThreadLeaves DEF BindThread, VisitorRecord
      <3> QED BY <1>t, <2>5, <3>1 DEF BindThread, BoundTo, store
    <2> QED BY <1>1, <2>1, <2>2, <2>3, <2>4, <2>5
  <1>2. ASSUME NEW p \in Visitors,
               \/ EnterGraph(p) \/ Answer(p) \/ LookUpCase(p) \/ InsertCase(p)
               \/ FinishGraph(p) \/ BindCreated(p)
               \/ \E entity \in Entities : RequestCase(p, entity)
        PROVE  Good
    <2>0. visitor[p] \in VisitorRecord
      BY <1>t
    <2>1. CASE EnterGraph(p)
      <3>1. checkpoint' \in 0..MaxCases
        BY <1>t, <2>0, <2>1 DEF EnterGraph, VisitorRecord
      <3>2. visitor' \in [Visitors -> VisitorRecord]
        <4>1. visitor' = [visitor EXCEPT ![p] = [visitor[p] EXCEPT !.stage = "working",
                                                                   !.case = checkpoint']]
          BY <2>1 DEF EnterGraph
        <4>2. [visitor[p] EXCEPT !.stage = "working", !.case = checkpoint'] \in VisitorRecord
          BY <2>0, <3>1, <1>s DEF VisitorRecord
        <4> QED BY <4>1, <4>2, ThreadMoves
      <3> QED BY <1>t, <2>1, <3>1, <3>2 DEF EnterGraph, store
    <2>2. CASE Answer(p)
      BY <1>t, <1>q, <2>2, ThreadLeaves DEF Answer, store
    <2>3. CASE LookUpCase(p)
      <3>1. visitor' \in [Visitors -> VisitorRecord]
        BY <2>0, <2>3, ThreadLooksUp DEF LookUpCase, VisitorRecord
      <3> QED BY <1>t, <1>q, <2>3, <3>1 DEF LookUpCase, store
    <2>4. CASE InsertCase(p)
      <3>1. /\ cases' \in Seq([entity : Entities, live : BOOLEAN])
            /\ Len(cases') = Len(cases) + 1 /\ Len(cases') \in 0..MaxCases
        <4>1. [entity |-> visitor[p].entity, live |-> TRUE] \in [entity : Entities, live : BOOLEAN]
          BY <2>0 DEF VisitorRecord
        <4>2. /\ cases' = Append(cases, [entity |-> visitor[p].entity, live |-> TRUE])
              /\ Len(cases) < MaxCases
          BY <2>4 DEF InsertCase
        <4> QED BY <1>t, <4>1, <4>2, ChatRowAdded, VisitAssumption
      <3>2. visitor' \in [Visitors -> VisitorRecord]
        <4>1. CASE visitor[p].chat
          <5>1. visitor' = [visitor EXCEPT ![p] = [visitor[p] EXCEPT !.stage = "created",
                                                                     !.case = Len(cases')]]
            BY <2>4, <4>1 DEF InsertCase
          <5>2. [visitor[p] EXCEPT !.stage = "created", !.case = Len(cases')] \in VisitorRecord
            BY <2>0, <3>1, <1>s DEF VisitorRecord
          <5> QED BY <5>1, <5>2, ThreadMoves
        <4>2. CASE ~visitor[p].chat
          BY <2>4, <4>2, ThreadLeaves DEF InsertCase
        <4> QED BY <4>1, <4>2
      <3>3. /\ tasks' = tasks /\ bound' = bound /\ checkpoint' = checkpoint /\ lock' = lock
            /\ pending' = pending /\ visits' = visits
        BY <2>4 DEF InsertCase
      <3>4. Len(cases') <= MaxCases
        BY <3>1, VisitAssumption
      <3> QED BY <1>t, <3>1, <3>2, <3>3, <3>4
    <2>5. CASE FinishGraph(p)
      <3>1. visitor' \in [Visitors -> VisitorRecord]
        BY <1>s, <2>5, ThreadProceeds DEF FinishGraph
      <3>2. visitor[p].case \in CaseIds /\ visitor[p].case \in 0..MaxCases
        BY <2>0, <2>5 DEF FinishGraph, BindingInv, TurnOK, VisitorRecord
      <3> QED BY <1>t, <2>5, <3>1, <3>2 DEF FinishGraph, store
    <2>6. CASE BindCreated(p)
      <3>1. visitor' \in [Visitors -> VisitorRecord] /\ visitor[p].case \in 0..MaxCases
        BY <2>0, <2>6, ThreadLeaves DEF BindCreated, VisitorRecord
      <3> QED BY <1>t, <2>6, <3>1 DEF BindCreated, BoundTo, store
    <2>7. ASSUME NEW entity \in Entities, RequestCase(p, entity)
          PROVE  Good
      <3>1. visits' \in 0..MaxVisits
        <4>1. visits < MaxVisits /\ visits' = visits + 1
          BY <2>7 DEF RequestCase
        <4> QED BY <1>t, <4>1, VisitAssumption
      <3>2. visitor' \in [Visitors -> VisitorRecord]
        <4> DEFINE r == [visitor[p] EXCEPT !.chat = FALSE, !.stage = "inserting case",
                                           !.entity = entity]
        <4>1. visitor' = visitor \/ visitor' = [visitor EXCEPT ![p] = r]
          BY <1>t, <2>7 DEF RequestCase
        <4>2. r \in VisitorRecord
          BY <2>0, <1>s DEF VisitorRecord
        <4> HIDE DEF r
        <4> QED BY <1>t, <4>1, <4>2, ThreadMoves
      <3> QED BY <1>t, <2>7, <3>1, <3>2 DEF RequestCase, store
    <2> QED BY <1>2, <2>1, <2>2, <2>3, <2>4, <2>5, <2>6, <2>7
  <1>3. ASSUME NEW p \in Visitors,
               StartTask(p) \/ LookUpTask(p) \/ InsertTask(p) \/ Dies(p)
        PROVE  Good
    <2>1. CASE StartTask(p)
      BY <1>t, <1>q, <1>s, <2>1, ThreadProceeds DEF StartTask, store
    <2>2. CASE LookUpTask(p)
      BY <1>t, <1>q, <1>s, <2>2, ThreadProceeds, ThreadLeaves DEF LookUpTask, store
    <2>3. CASE InsertTask(p)
      <3>1. visitor[p].case \in CaseIds
        BY <2>3 DEF InsertTask, BindingInv, TurnOK
      <3>2. /\ tasks' \in Seq([case : CaseIds, status : TaskStatus])
            /\ Len(tasks') = Len(tasks) + 1 /\ Len(tasks') <= MaxTasks
        <4>1. [case |-> visitor[p].case, status |-> "todo"] \in [case : CaseIds, status : TaskStatus]
          BY <3>1 DEF TaskStatus
        <4>2. /\ tasks' = Append(tasks, [case |-> visitor[p].case, status |-> "todo"])
              /\ Len(tasks) < MaxTasks
          BY <2>3 DEF InsertTask
        <4> QED BY <1>t, <4>1, <4>2, ChatRowAdded, VisitAssumption
      <3> QED BY <1>t, <2>3, <3>2, ThreadLeaves DEF InsertTask
    <2>4. CASE Dies(p)
      BY <1>t, <1>q, <2>4, ThreadLeaves DEF Dies, store
    <2> QED BY <1>3, <2>1, <2>2, <2>3, <2>4
  <1>4. ASSUME NEW i \in 1..Len(tasks), NEW status \in TaskStatus, ChangeTask(i, status)
        PROVE  Good
    <2>1. /\ tasks' \in Seq([case : CaseIds, status : TaskStatus])
          /\ Len(tasks') = Len(tasks)
      <3>1. tasks' = [tasks EXCEPT ![i] = [tasks[i] EXCEPT !.status = status]]
        BY <1>4 DEF ChangeTask
      <3>2. [tasks[i] EXCEPT !.status = status] \in [case : CaseIds, status : TaskStatus]
        <4>1. tasks[i] \in [case : CaseIds, status : TaskStatus]
          BY <1>t, ChatRowIn
        <4> QED BY <4>1
      <3> QED BY <1>t, <3>1, <3>2, ChatRowChanged
    <2> QED BY <1>t, <1>4, <2>1 DEF ChangeTask
  <1>5. ASSUME NEW n \in 1..Len(cases), DeleteCase(n)
        PROVE  Good
    <2>1. /\ cases' \in Seq([entity : Entities, live : BOOLEAN])
          /\ Len(cases') = Len(cases)
      <3>1. cases' = [cases EXCEPT ![n] = [cases[n] EXCEPT !.live = FALSE]]
        BY <1>5 DEF DeleteCase
      <3>2. [cases[n] EXCEPT !.live = FALSE] \in [entity : Entities, live : BOOLEAN]
        <4>1. cases[n] \in [entity : Entities, live : BOOLEAN]
          BY <1>t, ChatRowIn
        <4> QED BY <4>1
      <3> QED BY <1>t, <3>1, <3>2, ChatRowChanged
    <2> QED BY <1>t, <1>5, <2>1 DEF DeleteCase
  <1>6. CASE UNCHANGED tvars
    <2>1. /\ cases' = cases /\ tasks' = tasks /\ visitor' = visitor /\ lock' = lock
          /\ UNCHANGED <<bound, checkpoint, pending, visits>>
      BY <1>6 DEF tvars
    <2> QED BY <1>t, <1>q, <2>1
  <1> QED BY <1>q, <1>1, <1>2, <1>3, <1>4, <1>5, <1>6 DEF ThreadNext

\* The turns that do not move stay as they are: the thread keeps its row and
\* the case it is bound to, and only the holder of the lock runs.
LEMMA ThreadOthers ==
    ASSUME ThreadTypeOK, BindingInv, NEW p \in Visitors,
           \A q \in Visitors \ {p} : visitor'[q] = visitor[q],
           bound.exists => bound'.exists,
           bound.case # 0 => bound'.case = bound.case,
           lock \in {p, NoVisitor} \/ (lock' = lock /\ checkpoint' = checkpoint)
    PROVE  \A q \in Visitors \ {p} : TurnOK(q)'
  <1> SUFFICES ASSUME NEW q \in Visitors \ {p} PROVE TurnOK(q)'
    OBVIOUS
  <1>1. TurnOK(q) /\ visitor'[q] = visitor[q]
    BY DEF BindingInv
  <1>2. (InGraph(q)' <=> InGraph(q)) /\ (Admitted(q)' <=> Admitted(q))
    BY <1>1 DEF InGraph, Admitted
  <1>3. InGraph(q) => lock' = q /\ checkpoint' = checkpoint
    BY <1>1, VisitAssumption DEF TurnOK
  <1>4. visitor[q].stage = "working" => InGraph(q)
    BY DEF InGraph
  <1>5. visitor[q].stage = "waiting" /\ visitor[q].asked > 0 => visitor[q].asked = bound'.case
    <2>1. visitor[q].asked \in Nat
      BY VisitAssumption DEF ThreadTypeOK
    <2> QED BY <1>1, <2>1 DEF TurnOK
  <1>6. Admitted(q) => bound'.exists
    BY <1>1 DEF TurnOK
  <1>7. visitor[q].stage = "working" => visitor[q].case = checkpoint'
    BY <1>1, <1>3, <1>4 DEF TurnOK
  <1>8. visitor[q].stage \in {"created", "bind created", "tasking", "inserting task"} =>
            visitor[q].case \in CaseIds
    BY <1>1 DEF TurnOK
  <1> QED BY <1>1, <1>2, <1>3, <1>5, <1>6, <1>7, <1>8 DEF TurnOK, CaseIds

\* A thread that is bound keeps its case; the case it gets is no longer pending.
LEMMA ThreadBound ==
    ASSUME ThreadTypeOK, BindingInv, NEW c, bound.exists, bound' = BoundTo(c)
    PROVE  /\ bound'.exists /\ (bound.case # 0 => bound'.case = bound.case)
           /\ checkpoint \in {0, bound'.case} \cup (pending \ {bound'.case})
           /\ bound.case = 0 => bound'.case = c
  BY DEF BoundTo, ThreadTypeOK, BindingInv

\* Every step keeps a turn on the case of its thread.
LEMMA ThreadBindingStep == ThreadTypeOK /\ BindingInv /\ [ThreadNext]_tvars => BindingInv'
  <1> SUFFICES ASSUME ThreadTypeOK, BindingInv, [ThreadNext]_tvars PROVE BindingInv'
    OBVIOUS
  <1>t. /\ visitor \in [Visitors -> VisitorRecord] /\ bound \in [exists : BOOLEAN, case : 0..MaxCases]
        /\ checkpoint \in 0..MaxCases
    BY DEF ThreadTypeOK, VisitorRecord
  <1>s. {"idle", "arrived", "registering", "rechecking", "binding", "waiting", "working",
         "inserting case", "created", "bind created", "tasking", "inserting task"} = VisitStage
    BY DEF VisitStage
  <1>i. /\ \A p \in Visitors : TurnOK(p)
        /\ ~bound.exists => bound.case = 0
        /\ checkpoint \in {0, bound.case} \cup pending
    BY DEF BindingInv
  <1>q. ASSUME NEW p \in Visitors, \A q \in Visitors \ {p} : visitor'[q] = visitor[q],
               UNCHANGED <<bound, checkpoint, pending>>,
               lock' = lock \/ lock \in {p, NoVisitor}, TurnOK(p)'
        PROVE  BindingInv'
    BY <1>q, <1>i, ThreadOthers DEF BindingInv
  <1>l. ASSUME NEW p \in Visitors, visitor'[p].stage \in {"idle", "arrived", "registering"}
        PROVE  TurnOK(p)'
    BY <1>l DEF TurnOK, InGraph, Admitted
  <1>1. ASSUME NEW p \in Visitors, NEW asked \in 0..Len(cases), NEW create \in BOOLEAN,
               NEW entity \in Entities, Arrive(p, asked, create, entity)
        PROVE  BindingInv'
    <2>1. /\ \A q \in Visitors \ {p} : visitor'[q] = visitor[q]
          /\ visitor'[p].stage = "arrived"
      BY <1>t, <1>1, ThreadAway DEF Arrive, VisitorRecord
    <2> QED BY <1>1, <1>q, <1>l, <2>1 DEF Arrive
  <1>2. ASSUME NEW p \in Visitors, FindThread(p)
        PROVE  BindingInv'
    <2>0. UNCHANGED <<bound, checkpoint, pending, lock>>
      BY <1>2 DEF FindThread
    <2>1. CASE Leaves(p)
      BY <2>0, <2>1, <1>q, <1>l, ThreadLeaves
    <2>2. CASE ~bound.exists /\ Proceed(p, "registering")
      BY <2>0, <2>2, <1>s, <1>q, <1>l, ThreadProceeds
    <2>3. CASE bound.exists /\ Proceed(p, "binding")
      <3>1. TurnOK(p)'
        BY <2>0, <2>3, <1>s, ThreadProceeds DEF TurnOK, InGraph, Admitted
      <3> QED BY <2>0, <2>3, <3>1, <1>s, <1>q, ThreadProceeds
    <2>4. CASE /\ bound.exists /\ Proceed(p, "waiting")
               /\ visitor[p].asked > 0 => visitor[p].asked = bound.case
      <3>1. TurnOK(p)'
        BY <2>0, <2>4, <1>s, ThreadProceeds DEF TurnOK, InGraph, Admitted
      <3> QED BY <2>0, <2>4, <3>1, <1>s, <1>q, ThreadProceeds
    <2>5. \/ Leaves(p) \/ (~bound.exists /\ Proceed(p, "registering"))
          \/ bound.exists /\ Proceed(p, "binding")
          \/ /\ bound.exists /\ Proceed(p, "waiting")
             /\ visitor[p].asked > 0 => visitor[p].asked = bound.case
      BY <1>2 DEF FindThread
    <2> QED BY <2>1, <2>2, <2>3, <2>4, <2>5
  <1>3. ASSUME NEW p \in Visitors, Register(p)
        PROVE  BindingInv'
    <2>1. /\ \A q \in Visitors \ {p} : visitor'[q] = visitor[q]
          /\ visitor'[p].stage = "rechecking"
      BY <1>3, <1>s, ThreadProceeds DEF Register
    <2>2. /\ bound'.exists /\ (bound.case # 0 => bound'.case = bound.case)
          /\ checkpoint \in {0, bound'.case} \cup pending
      BY <1>3, <1>t, <1>i DEF Register
    <2>3. UNCHANGED <<checkpoint, pending, lock>>
      BY <1>3 DEF Register
    <2>4. \A q \in Visitors \ {p} : TurnOK(q)'
      BY <2>1, <2>2, <2>3, ThreadOthers
    <2>5. TurnOK(p)'
      BY <2>1, <2>2 DEF TurnOK, InGraph, Admitted
    <2> QED BY <2>2, <2>3, <2>4, <2>5 DEF BindingInv
  <1>4. ASSUME NEW p \in Visitors, Recheck(p)
        PROVE  BindingInv'
    <2>0. UNCHANGED <<bound, checkpoint, pending, lock>> /\ bound.exists
      BY <1>4, <1>i DEF Recheck, TurnOK, Admitted
    <2>1. CASE Leaves(p)
      BY <2>0, <2>1, <1>q, <1>l, ThreadLeaves
    <2>2. CASE Proceed(p, "waiting") /\ visitor[p].asked \in {0, bound.case}
      <3>1. TurnOK(p)'
        <4>1. /\ visitor'[p].stage = "waiting" /\ visitor'[p].asked \in {0, bound.case}
          BY <2>2, <1>s, ThreadProceeds
        <4>2. visitor'[p].asked > 0 => visitor'[p].asked = bound'.case
          BY <2>0, <4>1
        <4> QED BY <2>0, <4>1, <4>2 DEF TurnOK, InGraph, Admitted
      <3> QED BY <2>0, <2>2, <3>1, <1>s, <1>q, ThreadProceeds
    <2> QED BY <1>4, <2>1, <2>2 DEF Recheck
  <1>5. ASSUME NEW p \in Visitors, BindThread(p)
        PROVE  BindingInv'
    <2>1. /\ bound.exists /\ bound' = BoundTo(visitor[p].asked)
          /\ checkpoint' = checkpoint /\ lock' = lock /\ pending' = pending \ {bound'.case}
      BY <1>5, <1>i DEF BindThread, TurnOK, Admitted
    <2>2. /\ bound'.exists /\ (bound.case # 0 => bound'.case = bound.case)
          /\ checkpoint' \in {0, bound'.case} \cup pending'
      BY <2>1, ThreadBound
    <2>3. CASE Leaves(p)
      BY <2>1, <2>2, <2>3, <1>l, ThreadLeaves, ThreadOthers DEF BindingInv
    <2>4. CASE Proceed(p, "waiting") /\ bound'.case = visitor[p].asked
      <3>1. TurnOK(p)'
        BY <2>2, <2>4, <1>s, ThreadProceeds DEF TurnOK, InGraph, Admitted
      <3> QED BY <2>1, <2>2, <2>4, <3>1, <1>s, ThreadProceeds, ThreadOthers DEF BindingInv
    <2> QED BY <1>5, <2>3, <2>4 DEF BindThread
  <1>6. ASSUME NEW p \in Visitors, EnterGraph(p)
        PROVE  BindingInv'
    <2>1. /\ lock = NoVisitor /\ lock' = p /\ UNCHANGED <<bound, pending>> /\ bound.exists
          /\ checkpoint' = IF visitor[p].asked > 0 THEN visitor[p].asked ELSE checkpoint
          /\ visitor[p].asked > 0 => visitor[p].asked = bound.case
      BY <1>6, <1>i DEF EnterGraph, TurnOK, Admitted
    <2>2. /\ \A q \in Visitors \ {p} : visitor'[q] = visitor[q]
          /\ visitor'[p].stage = "working" /\ visitor'[p].case = checkpoint'
      <3>1. visitor' = [visitor EXCEPT ![p] = [visitor[p] EXCEPT !.stage = "working",
                                                                 !.case = checkpoint']]
        BY <1>6 DEF EnterGraph
      <3> QED BY <1>t, <3>1 DEF VisitorRecord
    <2>3. checkpoint' \in {0, bound'.case} \cup pending'
      BY <1>i, <2>1
    <2>4. TurnOK(p)'
      BY <2>1, <2>2 DEF TurnOK, InGraph, Admitted
    <2> QED BY <1>i, <2>1, <2>2, <2>3, <2>4, ThreadOthers DEF BindingInv
  <1>7. ASSUME NEW p \in Visitors, Answer(p) \/ Dies(p)
        PROVE  BindingInv'
    <2>1. Leaves(p) /\ UNCHANGED <<bound, checkpoint, pending>>
      BY <1>7 DEF Answer, Dies
    <2>2. lock' = lock \/ lock \in {p, NoVisitor}
      BY <1>7, <1>i DEF Answer, Dies, TurnOK, InGraph
    <2> QED BY <2>1, <2>2, <1>q, <1>l, ThreadLeaves
  <1>8. ASSUME NEW p \in Visitors, LookUpCase(p)
        PROVE  BindingInv'
    <2>1. LookUpEntity(p, visitor[p].entity) /\ UNCHANGED <<bound, checkpoint, pending, lock>>
      BY <1>8 DEF LookUpCase
    <2>2. lock = p /\ bound.exists
      BY <1>8, <1>i DEF LookUpCase, TurnOK, InGraph, Admitted
    <2>3. /\ \A q \in Visitors \ {p} : visitor'[q] = visitor[q]
          /\ \/ visitor'[p].stage = "created" /\ visitor'[p].case \in 1..Len(cases)
             \/ visitor'[p].stage = "inserting case"
      BY <2>1, <1>t, ThreadLooksUp DEF VisitorRecord
    <2>4. 1..Len(cases) \subseteq CaseIds
      BY VisitAssumption DEF ThreadTypeOK, CaseIds
    <2>5. TurnOK(p)'
      BY <2>1, <2>2, <2>3, <2>4 DEF TurnOK, InGraph, Admitted
    <2> QED BY <2>1, <2>3, <2>5, <1>q
  <1>9. ASSUME NEW p \in Visitors, NEW entity \in Entities, RequestCase(p, entity)
        PROVE  BindingInv'
    <2>1. UNCHANGED <<bound, checkpoint, pending, lock>>
      BY <1>9 DEF RequestCase
    <2>2. CASE visitor' = visitor
      <3>1. TurnOK(p)'
        BY <1>i, <2>1, <2>2 DEF TurnOK, InGraph, Admitted
      <3> QED BY <2>1, <2>2, <3>1, <1>q
    <2>3. CASE visitor' # visitor
      <3>1. visitor' = [visitor EXCEPT ![p] = [visitor[p] EXCEPT !.chat = FALSE,
                                         !.stage = "inserting case", !.entity = entity]]
        BY <1>9, <1>t, <2>3 DEF RequestCase
      <3>2. /\ \A q \in Visitors \ {p} : visitor'[q] = visitor[q]
            /\ visitor'[p].stage = "inserting case" /\ visitor'[p].chat = FALSE
        BY <1>t, <3>1 DEF VisitorRecord
      <3>3. TurnOK(p)'
        BY <3>2 DEF TurnOK, InGraph, Admitted
      <3> QED BY <2>1, <3>2, <3>3, <1>q
    <2> QED BY <2>2, <2>3
  <1>10. ASSUME NEW p \in Visitors, InsertCase(p)
         PROVE  BindingInv'
    <2>1. UNCHANGED <<bound, checkpoint, pending, lock>>
      BY <1>10 DEF InsertCase
    <2>2. CASE ~visitor[p].chat
      BY <1>10, <2>1, <2>2, <1>q, <1>l, ThreadLeaves DEF InsertCase
    <2>3. CASE visitor[p].chat
      <3>1. visitor' = [visitor EXCEPT ![p] = [visitor[p] EXCEPT !.stage = "created",
                                                                 !.case = Len(cases')]]
        BY <1>10, <2>3 DEF InsertCase
      <3>2. /\ \A q \in Visitors \ {p} : visitor'[q] = visitor[q]
            /\ visitor'[p].stage = "created" /\ visitor'[p].case = Len(cases')
        BY <1>t, <3>1 DEF VisitorRecord
      <3>3. Len(cases') \in CaseIds
        <4>1. Len(cases') = Len(cases) + 1 /\ Len(cases) \in Nat /\ Len(cases) < MaxCases
          <5>1. cases' = Append(cases, [entity |-> visitor[p].entity, live |-> TRUE])
                /\ Len(cases) < MaxCases
            BY <1>10 DEF InsertCase
          <5> QED BY <5>1, <1>t DEF ThreadTypeOK
        <4> QED BY <4>1, VisitAssumption DEF CaseIds
      <3>4. lock = p /\ bound.exists
        BY <1>10, <2>3, <1>i DEF InsertCase, TurnOK, InGraph, Admitted
      <3>5. TurnOK(p)'
        BY <2>1, <3>2, <3>3, <3>4 DEF TurnOK, InGraph, Admitted
      <3> QED BY <2>1, <3>2, <3>5, <1>q
    <2> QED BY <2>2, <2>3
  <1>11. ASSUME NEW p \in Visitors, FinishGraph(p)
         PROVE  BindingInv'
    <2>1. /\ lock = p /\ bound.exists /\ visitor[p].case \in CaseIds /\ bound' = bound
          /\ checkpoint' = visitor[p].case
          /\ pending' = (pending \cup {visitor[p].case}) \ {bound.case}
      BY <1>11, <1>i DEF FinishGraph, TurnOK, InGraph, Admitted
    <2>2. /\ \A q \in Visitors \ {p} : visitor'[q] = visitor[q]
          /\ visitor'[p].stage = "bind created" /\ visitor'[p].case = visitor[p].case
      BY <1>11, <1>s, ThreadProceeds DEF FinishGraph
    <2>3. TurnOK(p)'
      BY <2>1, <2>2 DEF TurnOK, InGraph, Admitted, CaseIds
    <2> QED BY <1>i, <2>1, <2>2, <2>3, ThreadOthers DEF BindingInv
  <1>12. ASSUME NEW p \in Visitors, BindCreated(p)
         PROVE  BindingInv'
    <2>1. /\ bound.exists /\ bound' = BoundTo(visitor[p].case) /\ Leaves(p)
          /\ checkpoint' = checkpoint /\ lock' = lock /\ pending' = pending \ {bound'.case}
      BY <1>12, <1>i DEF BindCreated, TurnOK, Admitted
    <2>2. /\ bound'.exists /\ (bound.case # 0 => bound'.case = bound.case)
          /\ checkpoint' \in {0, bound'.case} \cup pending'
      BY <2>1, ThreadBound
    <2> QED BY <2>1, <2>2, <1>l, ThreadLeaves, ThreadOthers DEF BindingInv
  <1>13. ASSUME NEW p \in Visitors, StartTask(p) \/ LookUpTask(p)
         PROVE  BindingInv'
    <2>1. UNCHANGED <<bound, checkpoint, pending>> /\ lock = p /\ bound.exists
      BY <1>13, <1>i DEF StartTask, LookUpTask, TurnOK, InGraph, Admitted
    <2>2. CASE Leaves(p)
      BY <2>1, <2>2, <1>q, <1>l, ThreadLeaves
    <2>3. CASE /\ \E st \in {"tasking", "inserting task"} : Proceed(p, st)
               /\ visitor[p].case \in CaseIds /\ lock' = lock
      <3>1. PICK st \in {"tasking", "inserting task"} : Proceed(p, st)
        BY <2>3
      <3>2. TurnOK(p)'
        BY <2>1, <2>3, <3>1, <1>s, ThreadProceeds DEF TurnOK, InGraph, Admitted
      <3> QED BY <2>1, <3>1, <3>2, <1>s, <1>q, ThreadProceeds
    <2>4. visitor[p].stage \in {"working", "tasking"} /\ visitor[p].case > 0 => visitor[p].case \in CaseIds
      BY <1>t, VisitAssumption DEF VisitorRecord, CaseIds
    <2> QED BY <1>13, <2>2, <2>3, <2>4, <1>i DEF StartTask, LookUpTask, TurnOK
  <1>14. ASSUME NEW p \in Visitors, InsertTask(p)
         PROVE  BindingInv'
    <2>1. Leaves(p) /\ UNCHANGED <<bound, checkpoint, pending>> /\ lock = p
      BY <1>14, <1>i DEF InsertTask, TurnOK, InGraph
    <2> QED BY <2>1, <1>q, <1>l, ThreadLeaves
  <1>15. ASSUME UNCHANGED <<bound, checkpoint, pending, lock, visitor>>
         PROVE  BindingInv'
    BY <1>15, <1>i DEF BindingInv, TurnOK, InGraph, Admitted
  <1>16. ASSUME NEW i \in 1..Len(tasks), NEW status \in TaskStatus, ChangeTask(i, status)
         PROVE  BindingInv'
    BY <1>15, <1>16 DEF ChangeTask
  <1>17. ASSUME NEW n \in 1..Len(cases), DeleteCase(n)
         PROVE  BindingInv'
    BY <1>15, <1>17 DEF DeleteCase
  <1>18. CASE UNCHANGED tvars
    BY <1>15, <1>18 DEF tvars
  <1> QED BY <1>1, <1>2, <1>3, <1>4, <1>5, <1>6, <1>7, <1>8, <1>9, <1>10, <1>11, <1>12, <1>13,
             <1>14, <1>16, <1>17, <1>18 DEF ThreadNext

\* Requests that may insert a case: new ones found no live case, and each knows
\* of the others.
LEMMA ThreadCaseTwinsStep ==
    ThreadTypeOK /\ BindingInv /\ CaseTwinsInv /\ [ThreadNext]_tvars => CaseTwinsInv'
  <1> SUFFICES ASSUME ThreadTypeOK, BindingInv, CaseTwinsInv, [ThreadNext]_tvars
               PROVE  CaseTwinsInv'
    OBVIOUS
  <1>t. /\ visitor \in [Visitors -> VisitorRecord] /\ cases \in Seq([entity : Entities, live : BOOLEAN])
    BY DEF ThreadTypeOK, VisitorRecord
  <1>s. {"idle", "arrived", "registering", "rechecking", "binding", "waiting", "working",
         "inserting case", "created", "bind created", "tasking", "inserting task"} = VisitStage
    BY DEF VisitStage
  \* A request that does not come to insert.
  <1>q. ASSUME NEW p \in Visitors, \A q \in Visitors \ {p} : visitor'[q] = visitor[q],
               cases' = cases, raced \subseteq raced', visitor'[p].stage # "inserting case"
        PROVE  CaseTwinsInv'
    <2>1. \A q \in Visitors : visitor'[q].stage = "inserting case" => visitor'[q] = visitor[q]
      BY <1>q
    <2> QED BY <1>q, <2>1 DEF CaseTwinsInv
  \* One that has looked and found none.
  <1>n. ASSUME NEW p \in Visitors, \A q \in Visitors \ {p} : visitor'[q] = visitor[q],
               cases' = cases, raced \subseteq raced', NEW entity, SameCases(entity) = {},
               visitor[p].stage # "inserting case",
               visitor'[p].stage = "inserting case", visitor'[p].entity = entity,
               Inserting(entity) # {} => entity \in raced'
        PROVE  CaseTwinsInv'
    <2>1. \A m \in 1..Len(cases) : cases[m].live => cases[m].entity # entity
      BY <1>n DEF SameCases
    <2>2. \A q \in Visitors \ {p} : visitor[q].stage = "inserting case" /\ visitor[q].entity = entity
                                  => entity \in raced'
      BY <1>n DEF Inserting
    <2>3. \A q \in Visitors, m \in 1..Len(cases) :
              visitor'[q].stage = "inserting case" /\ cases[m].live
              /\ cases[m].entity = visitor'[q].entity => visitor'[q].entity \in raced'
      BY <1>n, <2>1 DEF CaseTwinsInv
    <2>4. \A q, r \in Visitors :
              q # r /\ visitor'[q].stage = "inserting case" /\ visitor'[r].stage = "inserting case"
              /\ visitor'[q].entity = visitor'[r].entity => visitor'[q].entity \in raced'
      <3> SUFFICES ASSUME NEW q \in Visitors, NEW r \in Visitors, q # r,
                          visitor'[q].stage = "inserting case", visitor'[r].stage = "inserting case",
                          visitor'[q].entity = visitor'[r].entity
                   PROVE  visitor'[q].entity \in raced'
        OBVIOUS
      <3>1. CASE q = p
        BY <1>n, <2>2, <3>1
      <3>2. CASE r = p
        BY <1>n, <2>2, <3>2
      <3>3. CASE q # p /\ r # p
        BY <1>n, <3>3 DEF CaseTwinsInv
      <3> QED BY <3>1, <3>2, <3>3
    <2> QED BY <1>n, <2>3, <2>4 DEF CaseTwinsInv
  <1>1. ASSUME NEW p \in Visitors,
               \/ \E asked \in 0..Len(cases), create \in BOOLEAN, entity \in Entities :
                     Arrive(p, asked, create, entity)
               \/ EnterGraph(p)
        PROVE  CaseTwinsInv'
    <2>1. ASSUME NEW asked \in 0..Len(cases), NEW create \in BOOLEAN, NEW entity \in Entities,
                 Arrive(p, asked, create, entity)
          PROVE  CaseTwinsInv'
      <3>1. /\ \A q \in Visitors \ {p} : visitor'[q] = visitor[q]
            /\ visitor'[p].stage = "arrived"
        BY <1>t, <2>1, ThreadAway DEF Arrive, VisitorRecord
      <3> QED BY <2>1, <3>1, <1>q DEF Arrive, store
    <2>2. CASE EnterGraph(p)
      <3>1. visitor' = [visitor EXCEPT ![p] = [visitor[p] EXCEPT !.stage = "working",
                                                                 !.case = checkpoint']]
        BY <2>2 DEF EnterGraph
      <3>2. /\ \A q \in Visitors \ {p} : visitor'[q] = visitor[q]
            /\ visitor'[p].stage = "working"
        BY <1>t, <3>1 DEF VisitorRecord
      <3> QED BY <2>2, <3>2, <1>q DEF EnterGraph, store
    <2> QED BY <1>1, <2>1, <2>2
  <1>2. ASSUME NEW p \in Visitors, cases' = cases, raced' = raced,
               Leaves(p) \/ \E st \in VisitStage \ {"inserting case"} : Proceed(p, st)
        PROVE  CaseTwinsInv'
    <2>1. CASE Leaves(p)
      BY <1>2, <2>1, <1>q, ThreadLeaves
    <2>2. CASE \E st \in VisitStage \ {"inserting case"} : Proceed(p, st)
      <3>1. PICK st \in VisitStage \ {"inserting case"} : Proceed(p, st)
        BY <2>2
      <3>2. /\ \A q \in Visitors \ {p} : visitor'[q] = visitor[q]
            /\ visitor'[p].stage = st
        BY <3>1, ThreadProceeds
      <3> QED BY <1>2, <3>2, <1>q
    <2> QED BY <1>2, <2>1, <2>2
  <1>3. ASSUME NEW p \in Visitors,
               \/ FindThread(p) \/ Register(p) \/ Recheck(p) \/ BindThread(p)
               \/ Answer(p) \/ FinishGraph(p) \/ BindCreated(p)
               \/ StartTask(p) \/ LookUpTask(p) \/ InsertTask(p) \/ Dies(p)
        PROVE  CaseTwinsInv'
    <2>1. cases' = cases /\ raced' = raced
      BY <1>3 DEF FindThread, Register, Recheck, BindThread, Answer, FinishGraph, BindCreated,
                  StartTask, LookUpTask, InsertTask, Dies, store
    <2>2. Leaves(p) \/ \E st \in {"registering", "rechecking", "binding", "waiting", "bind created",
                                 "tasking", "inserting task"} : Proceed(p, st)
      BY <1>3 DEF FindThread, Register, Recheck, BindThread, Answer, FinishGraph, BindCreated,
                  StartTask, LookUpTask, InsertTask, Dies
    <2> QED BY <2>1, <2>2, <1>s, <1>2
  <1>4. ASSUME NEW p \in Visitors, LookUpCase(p)
        PROVE  CaseTwinsInv'
    <2> DEFINE e == visitor[p].entity
    <2>1. /\ LookUpEntity(p, e) /\ cases' = cases /\ visitor[p].stage = "working"
          /\ e \in Entities
      BY <1>4, <1>t DEF LookUpCase, store, VisitorRecord
    <2> HIDE DEF e
    <2> QED BY <2>1, <1>q, <1>n, ThreadLooksUp
  <1>5. ASSUME NEW p \in Visitors, NEW entity \in Entities, RequestCase(p, entity)
        PROVE  CaseTwinsInv'
    <2>1. cases' = cases /\ visitor[p].stage = "idle"
      BY <1>5 DEF RequestCase, store
    <2>2. CASE SameCases(entity) # {}
      <3>1. visitor' = visitor /\ raced' = raced
        BY <1>5, <2>2 DEF RequestCase
      <3> QED BY <2>1, <3>1, <1>q
    <2>3. CASE SameCases(entity) = {}
      <3>1. /\ visitor' = [visitor EXCEPT ![p] = [visitor[p] EXCEPT !.chat = FALSE,
                                         !.stage = "inserting case", !.entity = entity]]
            /\ raced \subseteq raced' /\ (Inserting(entity) # {} => entity \in raced')
        BY <1>5, <1>t, <2>3 DEF RequestCase
      <3>2. /\ \A q \in Visitors \ {p} : visitor'[q] = visitor[q]
            /\ visitor'[p].stage = "inserting case" /\ visitor'[p].entity = entity
        BY <1>t, <3>1 DEF VisitorRecord
      <3> QED BY <2>1, <2>3, <3>1, <3>2, <1>n
    <2> QED BY <2>2, <2>3
  <1>6. ASSUME NEW p \in Visitors, InsertCase(p)
        PROVE  CaseTwinsInv'
    <2> DEFINE e == visitor[p].entity
    <2>1. /\ cases' = Append(cases, [entity |-> e, live |-> TRUE]) /\ raced' = raced
          /\ visitor[p].stage = "inserting case"
      BY <1>6 DEF InsertCase
    <2>2. /\ \A q \in Visitors \ {p} : visitor'[q] = visitor[q]
          /\ visitor'[p].stage # "inserting case"
      <3>1. CASE visitor[p].chat
        <4>1. visitor' = [visitor EXCEPT ![p] = [visitor[p] EXCEPT !.stage = "created",
                                                                   !.case = Len(cases')]]
          BY <1>6, <3>1 DEF InsertCase
        <4> QED BY <1>t, <4>1 DEF VisitorRecord
      <3>2. CASE ~visitor[p].chat
        BY <1>6, <3>2, ThreadLeaves DEF InsertCase
      <3> QED BY <3>1, <3>2
    <2>3. /\ Len(cases') = Len(cases) + 1 /\ Len(cases) \in Nat
          /\ \A m \in 1..Len(cases) : cases'[m] = cases[m]
          /\ cases'[Len(cases) + 1] = [entity |-> e, live |-> TRUE]
      <3>1. [entity |-> e, live |-> TRUE] \in [entity : Entities, live : BOOLEAN]
        BY <1>t DEF VisitorRecord
      <3> DEFINE new == [entity |-> e, live |-> TRUE]
      <3> HIDE DEF e, new
      <3>2. /\ Len(Append(cases, new)) = Len(cases) + 1 /\ Len(cases) \in Nat
            /\ Append(cases, new)[Len(cases) + 1] = new
            /\ \A d \in 1..Len(cases) : Append(cases, new)[d] = cases[d]
        BY <1>t, <3>1, ChatRowAdded DEF new
      <3>3. cases' = Append(cases, new)
        BY <2>1 DEF new
      <3> QED BY <3>2, <3>3 DEF new
    <2>4. \A m \in 1..Len(cases') : m \in 1..Len(cases) \/ m = Len(cases) + 1
      BY <2>3
    <2>5. \A m \in 1..Len(cases) : cases[m].live /\ cases[m].entity = e => e \in raced
      BY <2>1 DEF CaseTwinsInv
    <2>6. \A q \in Visitors \ {p} :
              visitor[q].stage = "inserting case" /\ visitor[q].entity = e => e \in raced
      BY <2>1 DEF CaseTwinsInv
    <2>7. \A q \in Visitors : visitor'[q].stage = "inserting case" =>
              q # p /\ visitor[q].stage = "inserting case" /\ visitor'[q] = visitor[q]
      BY <2>2
    <2> HIDE DEF e
    <2>8. cases'[Len(cases) + 1].entity = e
      BY <2>3
    <2>9. \A m, n \in 1..Len(cases') :
              m # n /\ cases'[m].live /\ cases'[n].live /\ cases'[m].entity = cases'[n].entity =>
                  cases'[m].entity \in raced'
      <3> SUFFICES ASSUME NEW m \in 1..Len(cases'), NEW n \in 1..Len(cases'), m # n,
                          cases'[m].live, cases'[n].live, cases'[m].entity = cases'[n].entity
                   PROVE  cases'[m].entity \in raced
        BY <2>1
      <3>1. CASE m \in 1..Len(cases) /\ n \in 1..Len(cases)
        BY <2>3, <3>1 DEF CaseTwinsInv
      <3>2. CASE m = Len(cases) + 1
        BY <2>3, <2>4, <2>5, <2>8, <3>2
      <3>3. CASE n = Len(cases) + 1
        BY <2>3, <2>4, <2>5, <2>8, <3>3
      <3> QED BY <2>4, <3>1, <3>2, <3>3
    <2>10. \A q \in Visitors, m \in 1..Len(cases') :
              visitor'[q].stage = "inserting case" /\ cases'[m].live
              /\ cases'[m].entity = visitor'[q].entity => visitor'[q].entity \in raced'
      <3> SUFFICES ASSUME NEW q \in Visitors, NEW m \in 1..Len(cases'),
                          visitor'[q].stage = "inserting case", cases'[m].live,
                          cases'[m].entity = visitor'[q].entity
                   PROVE  visitor'[q].entity \in raced
        BY <2>1
      <3>1. CASE m \in 1..Len(cases)
        BY <2>3, <2>7, <3>1 DEF CaseTwinsInv
      <3>2. CASE m = Len(cases) + 1
        BY <2>6, <2>7, <2>8, <3>2
      <3> QED BY <2>4, <3>1, <3>2
    <2>11. \A q, r \in Visitors :
              q # r /\ visitor'[q].stage = "inserting case" /\ visitor'[r].stage = "inserting case"
              /\ visitor'[q].entity = visitor'[r].entity => visitor'[q].entity \in raced'
      BY <2>1, <2>7 DEF CaseTwinsInv
    <2> QED BY <2>9, <2>10, <2>11 DEF CaseTwinsInv
  <1>7. ASSUME NEW i \in 1..Len(tasks), NEW status \in TaskStatus, ChangeTask(i, status)
        PROVE  CaseTwinsInv'
    BY <1>7 DEF ChangeTask, CaseTwinsInv
  <1>8. ASSUME NEW n \in 1..Len(cases), DeleteCase(n)
        PROVE  CaseTwinsInv'
    <2>1. /\ Len(cases') = Len(cases) /\ visitor' = visitor /\ raced' = raced
          /\ \A m \in 1..Len(cases) : cases'[m].entity = cases[m].entity
                                      /\ (cases'[m].live => cases[m].live)
      <3>1. /\ cases' = [cases EXCEPT ![n] = [cases[n] EXCEPT !.live = FALSE]]
            /\ visitor' = visitor /\ raced' = raced
        BY <1>8 DEF DeleteCase
      <3>2. cases[n] \in [entity : Entities, live : BOOLEAN]
        BY <1>t, ChatRowIn
      <3>3. [cases[n] EXCEPT !.live = FALSE].entity = cases[n].entity
            /\ [cases[n] EXCEPT !.live = FALSE].live = FALSE
        BY <3>2
      <3>4. [cases[n] EXCEPT !.live = FALSE] \in [entity : Entities, live : BOOLEAN]
        BY <3>2
      <3> QED BY <1>t, <3>1, <3>3, <3>4, ChatRowChanged
    <2> QED BY <2>1 DEF CaseTwinsInv
  <1>9. CASE UNCHANGED tvars
    BY <1>9 DEF tvars, CaseTwinsInv
  <1> QED BY <1>1, <1>3, <1>4, <1>5, <1>6, <1>7, <1>8, <1>9 DEF ThreadNext

\* A turn that may insert a task found none open, and no other turn runs.
LEMMA ThreadTaskTwinsStep ==
    ThreadTypeOK /\ BindingInv /\ TaskTwinsInv /\ [ThreadNext]_tvars => TaskTwinsInv'
  <1> SUFFICES ASSUME ThreadTypeOK, BindingInv, TaskTwinsInv, [ThreadNext]_tvars
               PROVE  TaskTwinsInv'
    OBVIOUS
  <1>t. /\ visitor \in [Visitors -> VisitorRecord] /\ tasks \in Seq([case : CaseIds, status : TaskStatus])
    BY DEF ThreadTypeOK, VisitorRecord
  <1>s. {"idle", "arrived", "registering", "rechecking", "binding", "waiting", "working",
         "inserting case", "created", "bind created", "tasking", "inserting task"} = VisitStage
    BY DEF VisitStage
  <1>q. ASSUME NEW p \in Visitors, \A q \in Visitors \ {p} : visitor'[q] = visitor[q],
               tasks' = tasks, raced \subseteq raced', visitor'[p].stage # "inserting task"
        PROVE  TaskTwinsInv'
    <2>1. \A q \in Visitors : visitor'[q].stage = "inserting task" => visitor'[q] = visitor[q]
      BY <1>q
    <2>2. \A q \in Visitors, i \in 1..Len(tasks) :
              visitor'[q].stage = "inserting task" /\ tasks[i].status # "cancelled"
              /\ tasks[i].case = visitor'[q].case => tasks[i].case \in raced'
      BY <1>q, <2>1 DEF TaskTwinsInv
    <2>3. \A i, j \in 1..Len(tasks) :
              i # j /\ tasks[i].status # "cancelled" /\ tasks[j].status # "cancelled"
              /\ tasks[i].case = tasks[j].case => tasks[i].case \in raced'
      BY <1>q DEF TaskTwinsInv
    <2> QED BY <1>q, <2>2, <2>3 DEF TaskTwinsInv
  <1>1. ASSUME NEW p \in Visitors,
               \/ \E asked \in 0..Len(cases), create \in BOOLEAN, entity \in Entities :
                     Arrive(p, asked, create, entity)
               \/ EnterGraph(p)
        PROVE  TaskTwinsInv'
    <2>1. ASSUME NEW asked \in 0..Len(cases), NEW create \in BOOLEAN, NEW entity \in Entities,
                 Arrive(p, asked, create, entity)
          PROVE  TaskTwinsInv'
      <3>1. /\ \A q \in Visitors \ {p} : visitor'[q] = visitor[q]
            /\ visitor'[p].stage = "arrived"
        BY <1>t, <2>1, ThreadAway DEF Arrive, VisitorRecord
      <3> QED BY <2>1, <3>1, <1>q DEF Arrive, store
    <2>2. CASE EnterGraph(p)
      <3>1. visitor' = [visitor EXCEPT ![p] = [visitor[p] EXCEPT !.stage = "working",
                                                                 !.case = checkpoint']]
        BY <2>2 DEF EnterGraph
      <3>2. /\ \A q \in Visitors \ {p} : visitor'[q] = visitor[q]
            /\ visitor'[p].stage = "working"
        BY <1>t, <3>1 DEF VisitorRecord
      <3> QED BY <2>2, <3>2, <1>q DEF EnterGraph, store
    <2> QED BY <1>1, <2>1, <2>2
  <1>2. ASSUME NEW p \in Visitors, tasks' = tasks, raced' = raced,
               Leaves(p) \/ \E st \in VisitStage \ {"inserting task"} : Proceed(p, st)
        PROVE  TaskTwinsInv'
    <2>1. CASE Leaves(p)
      BY <1>2, <2>1, <1>q, ThreadLeaves
    <2>2. CASE \E st \in VisitStage \ {"inserting task"} : Proceed(p, st)
      <3>1. PICK st \in VisitStage \ {"inserting task"} : Proceed(p, st)
        BY <2>2
      <3>2. /\ \A q \in Visitors \ {p} : visitor'[q] = visitor[q]
            /\ visitor'[p].stage = st
        BY <3>1, ThreadProceeds
      <3> QED BY <1>2, <3>2, <1>q
    <2> QED BY <1>2, <2>1, <2>2
  <1>3. ASSUME NEW p \in Visitors,
               \/ FindThread(p) \/ Register(p) \/ Recheck(p) \/ BindThread(p)
               \/ Answer(p) \/ FinishGraph(p) \/ BindCreated(p)
               \/ StartTask(p) \/ Dies(p)
        PROVE  TaskTwinsInv'
    <2>1. tasks' = tasks /\ raced' = raced
      BY <1>3 DEF FindThread, Register, Recheck, BindThread, Answer, FinishGraph, BindCreated,
                  StartTask, Dies, store
    <2>2. Leaves(p) \/ \E st \in {"registering", "rechecking", "binding", "waiting", "bind created",
                                 "tasking"} : Proceed(p, st)
      BY <1>3 DEF FindThread, Register, Recheck, BindThread, Answer, FinishGraph, BindCreated,
                  StartTask, Dies
    <2> QED BY <2>1, <2>2, <1>s, <1>2
  <1>4. ASSUME NEW p \in Visitors, LookUpCase(p)
        PROVE  TaskTwinsInv'
    <2> DEFINE e == visitor[p].entity
    <2>1. /\ LookUpEntity(p, e) /\ tasks' = tasks /\ e \in Entities
      BY <1>4, <1>t DEF LookUpCase, store, VisitorRecord
    <2> HIDE DEF e
    <2> QED BY <2>1, <1>q, ThreadLooksUp
  <1>5. ASSUME NEW p \in Visitors, NEW entity \in Entities, RequestCase(p, entity)
        PROVE  TaskTwinsInv'
    <2>1. tasks' = tasks /\ visitor[p].stage = "idle"
      BY <1>5 DEF RequestCase, store
    <2>2. CASE SameCases(entity) # {}
      <3>1. visitor' = visitor /\ raced' = raced
        BY <1>5, <2>2 DEF RequestCase
      <3> QED BY <2>1, <3>1, <1>q
    <2>3. CASE SameCases(entity) = {}
      <3>1. /\ visitor' = [visitor EXCEPT ![p] = [visitor[p] EXCEPT !.chat = FALSE,
                                         !.stage = "inserting case", !.entity = entity]]
            /\ raced \subseteq raced'
        BY <1>5, <1>t, <2>3 DEF RequestCase
      <3>2. /\ \A q \in Visitors \ {p} : visitor'[q] = visitor[q]
            /\ visitor'[p].stage = "inserting case"
        BY <1>t, <3>1 DEF VisitorRecord
      <3> QED BY <2>1, <3>1, <3>2, <1>q
    <2> QED BY <2>2, <2>3
  <1>6. ASSUME NEW p \in Visitors, InsertCase(p)
        PROVE  TaskTwinsInv'
    <2>1. tasks' = tasks /\ raced' = raced
      BY <1>6 DEF InsertCase
    <2>2. /\ \A q \in Visitors \ {p} : visitor'[q] = visitor[q]
          /\ visitor'[p].stage # "inserting task"
      <3>1. CASE visitor[p].chat
        <4>1. visitor' = [visitor EXCEPT ![p] = [visitor[p] EXCEPT !.stage = "created",
                                                                   !.case = Len(cases')]]
          BY <1>6, <3>1 DEF InsertCase
        <4> QED BY <1>t, <4>1 DEF VisitorRecord
      <3>2. CASE ~visitor[p].chat
        BY <1>6, <3>2, ThreadLeaves DEF InsertCase
      <3> QED BY <3>1, <3>2
    <2> QED BY <2>1, <2>2, <1>q
  <1>7. ASSUME NEW p \in Visitors, LookUpTask(p)
        PROVE  TaskTwinsInv'
    <2>1. tasks' = tasks /\ raced' = raced
      BY <1>7 DEF LookUpTask, store
    <2>2. CASE Leaves(p)
      BY <2>1, <2>2, <1>2
    <2>3. CASE ~Leaves(p)
      <3>1. OpenTasks(visitor[p].case) = {} /\ Proceed(p, "inserting task")
        BY <1>7, <2>3 DEF LookUpTask
      <3>2. /\ \A q \in Visitors \ {p} : visitor'[q] = visitor[q]
            /\ visitor'[p].case = visitor[p].case
        BY <1>s, <3>1, ThreadProceeds
      <3>3. \A i \in 1..Len(tasks) : tasks[i].status # "cancelled" => tasks[i].case # visitor[p].case
        BY <3>1 DEF OpenTasks
      <3>4. \A q \in Visitors, i \in 1..Len(tasks) :
                visitor'[q].stage = "inserting task" /\ tasks[i].status # "cancelled"
                /\ tasks[i].case = visitor'[q].case => tasks[i].case \in raced
        BY <3>2, <3>3 DEF TaskTwinsInv
      <3> QED BY <2>1, <3>4 DEF TaskTwinsInv
    <2> QED BY <2>2, <2>3
  <1>8. ASSUME NEW p \in Visitors, InsertTask(p)
        PROVE  TaskTwinsInv'
    <2> DEFINE c == visitor[p].case
    <2>1. /\ tasks' = Append(tasks, [case |-> c, status |-> "todo"]) /\ raced' = raced
          /\ visitor[p].stage = "inserting task" /\ Leaves(p)
      BY <1>8 DEF InsertTask
    <2>2. \A q \in Visitors : visitor'[q].stage # "inserting task"
      <3>1. lock = p /\ \A q \in Visitors : visitor[q].stage = "inserting task" => lock = q
        BY <2>1 DEF BindingInv, TurnOK, InGraph
      <3> QED BY <2>1, <3>1, ThreadLeaves
    <2>3. /\ Len(tasks') = Len(tasks) + 1 /\ Len(tasks) \in Nat
          /\ \A i \in 1..Len(tasks) : tasks'[i] = tasks[i]
          /\ tasks'[Len(tasks) + 1] = [case |-> c, status |-> "todo"]
      <3>1. [case |-> c, status |-> "todo"] \in [case : CaseIds, status : TaskStatus]
        BY <2>1 DEF BindingInv, TurnOK, TaskStatus
      <3> DEFINE new == [case |-> c, status |-> "todo"]
      <3> HIDE DEF c, new
      <3>2. /\ Len(Append(tasks, new)) = Len(tasks) + 1 /\ Len(tasks) \in Nat
            /\ Append(tasks, new)[Len(tasks) + 1] = new
            /\ \A d \in 1..Len(tasks) : Append(tasks, new)[d] = tasks[d]
        BY <1>t, <3>1, ChatRowAdded DEF new
      <3>3. tasks' = Append(tasks, new)
        BY <2>1 DEF new
      <3> QED BY <3>2, <3>3 DEF new
    <2>4. \A i \in 1..Len(tasks') : i \in 1..Len(tasks) \/ i = Len(tasks) + 1
      BY <2>3
    <2>5. \A i \in 1..Len(tasks) : tasks[i].status # "cancelled" /\ tasks[i].case = c => c \in raced
      BY <2>1 DEF TaskTwinsInv
    <2> HIDE DEF c
    <2>6. tasks'[Len(tasks) + 1].case = c
      BY <2>3
    <2>7. \A i, j \in 1..Len(tasks') :
              i # j /\ tasks'[i].status # "cancelled" /\ tasks'[j].status # "cancelled"
              /\ tasks'[i].case = tasks'[j].case => tasks'[i].case \in raced
      BY <2>3, <2>4, <2>5, <2>6 DEF TaskTwinsInv
    <2> QED BY <2>1, <2>2, <2>7 DEF TaskTwinsInv
  <1>9. ASSUME NEW k \in 1..Len(tasks), NEW status \in TaskStatus, ChangeTask(k, status)
        PROVE  TaskTwinsInv'
    <2>1. /\ tasks' = [tasks EXCEPT ![k] = [tasks[k] EXCEPT !.status = status]]
          /\ visitor' = visitor
          /\ raced \subseteq raced' /\ (tasks[k].status = "cancelled" => tasks[k].case \in raced')
      BY <1>9 DEF ChangeTask
    <2>2. tasks[k] \in [case : CaseIds, status : TaskStatus]
      BY <1>t, ChatRowIn
    <2>3. [tasks[k] EXCEPT !.status = status] = [case |-> tasks[k].case, status |-> status]
      BY <2>2
    <2>4. [tasks[k] EXCEPT !.status = status] \in [case : CaseIds, status : TaskStatus]
      BY <2>2
    <2>5. /\ Len(tasks') = Len(tasks) /\ tasks'[k] = [case |-> tasks[k].case, status |-> status]
          /\ \A i \in 1..Len(tasks) : i # k => tasks'[i] = tasks[i]
      BY <1>t, <2>1, <2>3, <2>4, ChatRowChanged
    <2>6. \A i \in 1..Len(tasks) :
              /\ tasks'[i].case = tasks[i].case
              /\ tasks'[i].status # "cancelled" =>
                    tasks[i].status # "cancelled" \/ tasks[i].case \in raced'
      <3> SUFFICES ASSUME NEW i \in 1..Len(tasks)
                   PROVE  /\ tasks'[i].case = tasks[i].case
                          /\ tasks'[i].status # "cancelled" =>
                                tasks[i].status # "cancelled" \/ tasks[i].case \in raced'
        OBVIOUS
      <3>1. CASE i = k
        BY <2>1, <2>5, <3>1
      <3>2. CASE i # k
        BY <2>5, <3>2
      <3> QED BY <3>1, <3>2
    <2>7. \A i, j \in 1..Len(tasks) :
              i # j /\ tasks'[i].status # "cancelled" /\ tasks'[j].status # "cancelled"
              /\ tasks'[i].case = tasks'[j].case => tasks'[i].case \in raced'
      BY <2>1, <2>6 DEF TaskTwinsInv
    <2>8. \A p \in Visitors, i \in 1..Len(tasks) :
              visitor[p].stage = "inserting task" /\ tasks'[i].status # "cancelled"
              /\ tasks'[i].case = visitor[p].case => tasks'[i].case \in raced'
      BY <2>1, <2>6 DEF TaskTwinsInv
    <2>9. Len(tasks') = Len(tasks) /\ visitor' = visitor
      BY <2>1, <2>5
    <2> HIDE DEF TaskTwinsInv
    <2> QED BY <2>7, <2>8, <2>9 DEF TaskTwinsInv
  <1>10. ASSUME NEW n \in 1..Len(cases), DeleteCase(n)
         PROVE  TaskTwinsInv'
    BY <1>10 DEF DeleteCase, TaskTwinsInv
  <1>11. CASE UNCHANGED tvars
    BY <1>11 DEF tvars, TaskTwinsInv
  <1> QED BY <1>1, <1>3, <1>4, <1>5, <1>6, <1>7, <1>8, <1>9, <1>10, <1>11 DEF ThreadNext

\* The invariant holds always.
LEMMA ThreadInvariant == ThreadSpec => []ThreadInv
  <1>1. ThreadInv /\ [ThreadNext]_tvars => ThreadInv'
    BY ThreadTypeStep, ThreadBindingStep, ThreadCaseTwinsStep, ThreadTaskTwinsStep DEF ThreadInv
  <1> QED BY <1>1, ThreadInitInv, PTL DEF ThreadSpec

\* The tables and the requests have the shape the handlers give them.
THEOREM ThreadTyped == ThreadSpec => []ThreadTypeOK
  <1>1. ThreadInv => ThreadTypeOK
    BY DEF ThreadInv
  <1> QED BY <1>1, ThreadInvariant, PTL

\* A turn works on the case its thread is bound to, or could not be bound to.
THEOREM ThreadStays == ThreadSpec => []TurnsStayInCase
  <1>1. ThreadInv => TurnsStayInCase
    BY DEF ThreadInv, ThreadTypeOK, BindingInv, TurnOK, TurnsStayInCase
  <1> QED BY <1>1, ThreadInvariant, PTL

\* No twins but those of overlapping look-ups and reopened tasks.
THEOREM ThreadNoTwins == ThreadSpec => []NoTwins
  <1>1. ThreadInv => NoTwins
    BY DEF ThreadInv, CaseTwinsInv, TaskTwinsInv, NoTwins
  <1> QED BY <1>1, ThreadInvariant, PTL

-----------------------------------------------------------------------------
(***************************************************************************)
(* Messages, for any sets of requests and client_turn_ids and any number   *)
(* of severed streams.  The holder of the lock is about to write an answer *)
(* nobody has written (FreshInv); a stream that is cut off lets go of the  *)
(* lock with its write outstanding, which is why turns that were severed   *)
(* are left out.                                                           *)
(***************************************************************************)

MessageRow == [turn : Keys \cup Nat, role : {"user", "assistant"}, version : Nat, live : BOOLEAN]
RequestRecord == [pc : {"idle", "queued", "looking", "persist", "append", "checkpoint"},
                  key : Keys \cup {NoKey}, regenerate : BOOLEAN, count : Nat, version : Nat]

\* Tables of rows and of requests; versions are bounded at any time.
ConversationShape ==
    /\ messages \in Seq(MessageRow) /\ memory \in Seq(Keys \cup Nat)
    /\ chat \in [Callers -> RequestRecord] /\ turnLock \in Callers \cup {NoCaller}
    /\ \E b \in Nat : \A i \in DOMAIN messages : messages[i].version <= b

\* A request works under the lock, unless its stream was cut off.
LockInv ==
    \A c \in Callers :
        /\ chat[c].pc \in {"looking", "checkpoint"} => turnLock = c
        /\ chat[c].pc \in {"persist", "append"} => turnLock = c \/ Turn(c) \in severed

\* The holder of the lock is about to write an answer nobody has written: the
\* first to its turn, or one after all others.
FreshInv ==
    \A c \in Callers : turnLock = c /\ Turn(c) \in Keys \ severed =>
        /\ chat[c].pc = "persist" /\ ~chat[c].regenerate => Answers(Turn(c)) = {}
        /\ chat[c].pc = "append" =>
              \A i \in Answers(Turn(c)) : messages[i].version # chat[c].version

Recorded(turn) == \E i \in DOMAIN messages : messages[i].turn = turn /\ messages[i].role = "assistant"

\* What goes into the memory next is recorded as well.
RecordInv ==
    /\ RememberedIsRecorded
    /\ \A c \in Callers : chat[c].pc = "checkpoint" => Recorded(Turn(c))

ConversationInv ==
    ConversationShape /\ LockInv /\ FreshInv /\ RecordInv /\ AnswerVersionsDistinct

\* The highest of finitely many versions is one of them, and none is higher.
LEMMA ConversationMax ==
    ASSUME NEW S \in SUBSET Nat, NEW b \in Nat, \A x \in S : x <= b, S # {}
    PROVE  Max(S) \in S /\ \A y \in S : Max(S) >= y
  <1> DEFINE T == {k \in Nat : b - k \in S}
  <1>1. \A x \in S : b - x \in T
    OBVIOUS
  <1>2. T \subseteq Nat /\ T # {}
    BY <1>1
  <1>3. \E t \in T : \A u \in T : ~(<<u, t>> \in OpToRel(<, Nat))
    BY <1>2, NatLessThanWellFounded, WFMin, Zenon
  <1>4. PICK t \in T : \A u \in T : ~(u < t)
    BY <1>2, <1>3 DEF OpToRel
  <1>5. b - t \in S /\ \A y \in S : ~(b - y < t)
    BY <1>1, <1>4
  <1>6. \E x \in S : \A y \in S : x >= y
    BY <1>2, <1>5
  <1> QED BY <1>6 DEF Max

\* A regenerated answer comes after every live one of its turn.
LEMMA ConversationNextVersion ==
    ASSUME ConversationShape, NEW turn
    PROVE  /\ MaxVersion(turn) \in Nat
           /\ \A i \in Answers(turn) : messages[i].version < MaxVersion(turn) + 1
  <1> DEFINE S == {messages[i].version : i \in Answers(turn)} \cup {0}
  <1>1. PICK b \in Nat : \A i \in DOMAIN messages : messages[i].version <= b
    BY DEF ConversationShape
  <1>2. Answers(turn) \subseteq DOMAIN messages
    BY DEF Answers, Live
  <1>3. \A i \in DOMAIN messages : messages[i].version \in Nat
    <2>1. \A i \in DOMAIN messages : messages[i] \in MessageRow
      BY DEF ConversationShape
    <2> QED BY <2>1 DEF MessageRow
  <1>4. S \in SUBSET Nat /\ S # {} /\ \A x \in S : x <= b
    BY <1>1, <1>2, <1>3
  <1>5. MaxVersion(turn) = Max(S)
    BY DEF MaxVersion
  <1>6. \A i \in Answers(turn) : messages[i].version \in S
    OBVIOUS
  <1> HIDE DEF S
  <1>7. Max(S) \in S /\ \A y \in S : Max(S) >= y
    BY <1>1, <1>4, ConversationMax
  <1>8. Max(S) \in Nat /\ \A y \in S : y \in Nat /\ y < Max(S) + 1
    <2>1. ASSUME NEW m \in S, \A y \in S : m >= y
          PROVE  m \in Nat /\ \A y \in S : y \in Nat /\ y < m + 1
      BY <1>4, <2>1
    <2> QED BY <1>7, <2>1
  <1> QED BY <1>5, <1>6, <1>8

\* What an append adds: at most a question, then the answer.
LEMMA ConversationAppends ==
    ASSUME messages \in Seq(MessageRow), NEW turn \in Keys \cup Nat, NEW again \in BOOLEAN,
           NEW version \in Nat, AppendRows(turn, again, version)
    PROVE  /\ messages' \in Seq(MessageRow)
           /\ \A i \in DOMAIN messages : i \in DOMAIN messages' /\ messages'[i] = messages[i]
           /\ \A i \in DOMAIN messages' :
                 \/ i \in DOMAIN messages
                 \/ messages'[i] = Row(turn, "user", 1)
                 \/ i = Len(messages') /\ messages'[i] = Row(turn, "assistant", version)
           /\ Len(messages') \in DOMAIN messages'
           /\ messages'[Len(messages')] = Row(turn, "assistant", version)
  <1> DEFINE q == Row(turn, "user", 1)
             a == Row(turn, "assistant", version)
  <1>1. q \in MessageRow /\ a \in MessageRow
    BY DEF Row, MessageRow
  <1>2. messages' = messages \o <<>> \o <<a>> \/ messages' = messages \o <<q>> \o <<a>>
    BY DEF AppendRows
  <1> HIDE DEF q, a
  <1>3. CASE messages' = messages \o <<>> \o <<a>>
    <2>1. messages \o <<>> = messages
      OBVIOUS
    <2>2. messages' = messages \o <<a>>
      BY <1>3, <2>1
    <2>3. /\ messages' \in Seq(MessageRow) /\ Len(messages') = Len(messages) + 1
          /\ \A i \in 1..Len(messages) : messages'[i] = messages[i]
          /\ messages'[Len(messages) + 1] = a
      BY <1>1, <2>2
    <2> QED BY <2>3 DEF a
  <1>4. CASE messages' = messages \o <<q>> \o <<a>>
    <2>1. /\ messages' \in Seq(MessageRow) /\ Len(messages') = Len(messages) + 2
          /\ \A i \in 1..Len(messages) : messages'[i] = messages[i]
          /\ messages'[Len(messages) + 1] = q /\ messages'[Len(messages) + 2] = a
      BY <1>1, <1>4
    <2> QED BY <2>1 DEF q, a
  <1> QED BY <1>2, <1>3, <1>4

\* Only the request that moves changes.
LEMMA ConversationMoves ==
    ASSUME ConversationShape, NEW c \in Callers, NEW r \in RequestRecord,
           chat' = [chat EXCEPT ![c] = r]
    PROVE  /\ chat' \in [Callers -> RequestRecord] /\ chat'[c] = r
           /\ \A d \in Callers \ {c} : chat'[d] = chat[d]
  BY DEF ConversationShape

\* A turn is known by its client_turn_id, or by a number of its own.
LEMMA ConversationTurn ==
    ASSUME ConversationShape, NEW c \in Callers
    PROVE  /\ Turn(c) \in Keys \cup Nat
           /\ Turn(c) \in Keys => chat[c].key # NoKey /\ Turn(c) = chat[c].key
  BY CallersAssumption DEF ConversationShape, RequestRecord, Turn, TurnId

\* The invariant holds of empty tables.
LEMMA ConversationInitInv == ConversationInit => ConversationInv
  <1> SUFFICES ASSUME ConversationInit PROVE ConversationInv
    OBVIOUS
  <1>1. /\ messages = <<>> /\ memory = <<>> /\ DOMAIN messages = {} /\ DOMAIN memory = {}
        /\ turnLock = NoCaller /\ \A c \in Callers : chat[c].pc = "idle"
    BY DEF ConversationInit, Idle
  <1>2. ConversationShape
    <2>1. \E b \in Nat : \A i \in DOMAIN messages : messages[i].version <= b
      BY <1>1
    <2> QED BY <1>1, <2>1 DEF ConversationInit, ConversationShape, Idle, RequestRecord
  <1>3. LockInv /\ FreshInv /\ RecordInv
    BY <1>1, CallersAssumption DEF LockInv, FreshInv, RecordInv, RememberedIsRecorded
  <1>4. AnswerVersionsDistinct
    BY <1>1 DEF AnswerVersionsDistinct, Answers, Live
  <1> QED BY <1>2, <1>3, <1>4 DEF ConversationInv

\* A step that writes no row: the request that moves keeps or gives back the
\* lock, or takes one that is free.
LEMMA ConversationQuietStep ==
    ASSUME ConversationInv, NEW c \in Callers, NEW r \in RequestRecord,
           chat' = [chat EXCEPT ![c] = r], UNCHANGED messages,
           memory' \in Seq(Keys \cup Nat), RememberedIsRecorded',
           severed \subseteq severed',
           turnLock' = turnLock \/ (turnLock' \in {c, NoCaller} /\ turnLock \in {c, NoCaller}),
           r.pc \in {"looking", "checkpoint"} => turnLock' = c,
           r.pc \in {"persist", "append"} => turnLock' = c \/ TurnId(r.key, r.count) \in severed',
           r.pc = "checkpoint" => Recorded(TurnId(r.key, r.count)),
           turnLock' = c /\ TurnId(r.key, r.count) \in Keys \ severed' =>
               /\ r.pc = "persist" /\ ~r.regenerate => Answers(TurnId(r.key, r.count)) = {}
               /\ r.pc = "append" =>
                    \A i \in Answers(TurnId(r.key, r.count)) : messages[i].version # r.version
    PROVE  ConversationInv'
  <1>0. ConversationShape
    BY DEF ConversationInv
  <1>1. /\ chat' \in [Callers -> RequestRecord] /\ chat'[c] = r
        /\ \A d \in Callers \ {c} : chat'[d] = chat[d]
    BY <1>0, ConversationMoves
  <1>2. /\ Turn(c)' = TurnId(r.key, r.count)
        /\ \A d \in Callers \ {c} : Turn(d)' = Turn(d)
    BY <1>1 DEF Turn, TurnId
  <1>3. \A turn : Answers(turn)' = Answers(turn)
    BY DEF Answers, Live
  <1>4. turnLock' \in Callers \cup {NoCaller}
    BY <1>0 DEF ConversationShape
  <1>5. ConversationShape'
    BY <1>0, <1>1, <1>4 DEF ConversationShape
  <1>6. \A d \in Callers \ {c} : turnLock = d <=> turnLock' = d
    BY CallersAssumption
  <1>7. LockInv'
    <2> SUFFICES ASSUME NEW d \in Callers
                 PROVE  /\ chat'[d].pc \in {"looking", "checkpoint"} => turnLock' = d
                        /\ chat'[d].pc \in {"persist", "append"} =>
                              turnLock' = d \/ Turn(d)' \in severed'
      BY DEF LockInv
    <2>1. CASE d = c
      BY <1>1, <1>2, <2>1
    <2>2. CASE d # c
      BY <1>1, <1>2, <1>6, <2>2 DEF ConversationInv, LockInv
    <2> QED BY <2>1, <2>2
  <1>8. FreshInv'
    <2> SUFFICES ASSUME NEW d \in Callers, turnLock' = d, Turn(d)' \in Keys \ severed'
                 PROVE  /\ chat'[d].pc = "persist" /\ ~chat'[d].regenerate => Answers(Turn(d))' = {}
                        /\ chat'[d].pc = "append" =>
                              \A i \in Answers(Turn(d))' : messages'[i].version # chat'[d].version
      BY DEF FreshInv
    <2>1. CASE d = c
      BY <1>1, <1>2, <1>3, <2>1
    <2>2. CASE d # c
      <3>1. turnLock = d /\ Turn(d) \in Keys \ severed /\ chat'[d] = chat[d] /\ Turn(d)' = Turn(d)
        BY <1>1, <1>2, <1>6, <2>2
      <3>2. Answers(Turn(d))' = Answers(Turn(d))
        BY <1>3, <3>1
      <3> QED BY <3>1, <3>2 DEF ConversationInv, FreshInv
    <2> QED BY <2>1, <2>2
  <1>9. RecordInv'
    <2>1. \A d \in Callers : chat'[d].pc = "checkpoint" => Recorded(Turn(d)')
      BY <1>1, <1>2 DEF ConversationInv, RecordInv
    <2> QED BY <2>1 DEF RecordInv, Recorded
  <1>10. AnswerVersionsDistinct'
    BY <1>3 DEF ConversationInv, AnswerVersionsDistinct
  <1> QED BY <1>5, <1>7, <1>8, <1>9, <1>10 DEF ConversationInv

\* The rows a turn appends are the only ones of its turn, and come once.
LEMMA ConversationAppendStep ==
    ASSUME ConversationInv, NEW c \in Callers, AppendMessages(c)
    PROVE  ConversationInv'
  <1>0. ConversationShape /\ chat[c] \in RequestRecord
    BY DEF ConversationInv, ConversationShape
  <1>2. PICK turn \in Keys \cup Nat : turn = Turn(c)
    BY <1>0, ConversationTurn
  <1>6. PICK version \in Nat : version = chat[c].version
    BY <1>0 DEF RequestRecord
  <1>1. /\ chat[c].pc = "append" /\ AppendRows(turn, chat[c].regenerate, version)
        /\ UNCHANGED <<memory, turnLock, severed>>
        /\ chat' = [chat EXCEPT ![c] = IF turnLock = c THEN [chat[c] EXCEPT !.pc = "checkpoint"]
                                       ELSE Idle]
    BY <1>2, <1>6 DEF AppendMessages
  <1>3. /\ [chat[c] EXCEPT !.pc = "checkpoint"] \in RequestRecord /\ Idle \in RequestRecord
        /\ [chat[c] EXCEPT !.pc = "checkpoint"].pc = "checkpoint" /\ Idle.pc = "idle"
        /\ [chat[c] EXCEPT !.pc = "checkpoint"].key = chat[c].key
        /\ [chat[c] EXCEPT !.pc = "checkpoint"].count = chat[c].count
    BY <1>0 DEF RequestRecord, Idle
  <1>4. /\ chat' \in [Callers -> RequestRecord]
        /\ \A d \in Callers \ {c} : chat'[d] = chat[d] /\ Turn(d)' = Turn(d)
        /\ \/ turnLock = c /\ chat'[c].pc = "checkpoint" /\ Turn(c)' = turn
           \/ turnLock # c /\ chat'[c].pc = "idle"
    <2>1. CASE turnLock = c
      BY <1>0, <1>1, <1>2, <1>3, <2>1, ConversationMoves DEF Turn
    <2>2. CASE turnLock # c
      BY <1>0, <1>1, <1>3, <2>2, ConversationMoves DEF Turn
    <2> QED BY <2>1, <2>2
  <1>5. /\ messages' \in Seq(MessageRow)
        /\ \A i \in DOMAIN messages : i \in DOMAIN messages' /\ messages'[i] = messages[i]
        /\ \A i \in DOMAIN messages' :
              \/ i \in DOMAIN messages
              \/ messages'[i] = Row(turn, "user", 1)
              \/ i = Len(messages') /\ messages'[i] = Row(turn, "assistant", version)
        /\ Len(messages') \in DOMAIN messages'
        /\ messages'[Len(messages')] = Row(turn, "assistant", version)
    <2>1. messages \in Seq(MessageRow) /\ chat[c].regenerate \in BOOLEAN /\ version \in Nat
      BY <1>0, <1>6 DEF ConversationShape, RequestRecord
    <2> QED BY <1>1, <2>1, ConversationAppends
  <1>7. ConversationShape'
    <2>1. PICK b \in Nat : \A i \in DOMAIN messages : messages[i].version <= b
      BY <1>0 DEF ConversationShape
    <2>2. \A i \in DOMAIN messages : messages[i].version \in Nat
      <3>1. \A i \in DOMAIN messages : messages[i] \in MessageRow
        BY <1>0 DEF ConversationShape
      <3> QED BY <3>1 DEF MessageRow
    <2>3. \A i \in DOMAIN messages' : messages'[i].version <= b + version + 1
      <3> SUFFICES ASSUME NEW i \in DOMAIN messages' PROVE messages'[i].version <= b + version + 1
        OBVIOUS
      <3>1. CASE i \in DOMAIN messages
        <4>1. messages'[i].version = messages[i].version
          BY <1>5, <3>1
        <4>2. messages[i].version \in Nat /\ messages[i].version <= b
          BY <2>1, <2>2, <3>1
        <4> QED BY <1>6, <4>1, <4>2
      <3>2. CASE messages'[i] = Row(turn, "user", 1)
        BY <1>6, <3>2 DEF Row
      <3>3. CASE messages'[i] = Row(turn, "assistant", version)
        BY <1>6, <3>3 DEF Row
      <3> QED BY <1>5, <3>1, <3>2, <3>3
    <2>4. b + version + 1 \in Nat
      BY <1>6
    <2>5. \E n \in Nat : \A i \in DOMAIN messages' : messages'[i].version <= n
      BY <2>3, <2>4
    <2> QED BY <1>0, <1>1, <1>4, <1>5, <2>5 DEF ConversationShape
  <1>8. \A d \in Callers : chat[d].pc = "append" => turnLock = d \/ Turn(d) \in severed
    BY DEF ConversationInv, LockInv
  <1>9. LockInv'
    <2>1. \A d \in Callers \ {c} : chat'[d] = chat[d] /\ Turn(d)' = Turn(d)
      BY <1>4
    <2>2. chat'[c].pc = "idle" \/ (chat'[c].pc = "checkpoint" /\ turnLock' = c)
      BY <1>1, <1>4
    <2>3. UNCHANGED <<turnLock, severed>>
      BY <1>1
    <2> SUFFICES ASSUME NEW d \in Callers
                 PROVE  /\ chat'[d].pc \in {"looking", "checkpoint"} => turnLock' = d
                        /\ chat'[d].pc \in {"persist", "append"} =>
                              turnLock' = d \/ Turn(d)' \in severed'
      BY DEF LockInv
    <2>4. CASE d = c
      BY <2>2, <2>4
    <2>5. CASE d # c
      BY <2>1, <2>3, <2>5 DEF ConversationInv, LockInv
    <2> QED BY <2>4, <2>5
  <1>10. \A t : t # turn => Answers(t)' = Answers(t) /\ \A i \in Answers(t) : messages'[i] = messages[i]
    <2> SUFFICES ASSUME NEW t, t # turn
                 PROVE  Answers(t)' = Answers(t) /\ \A i \in Answers(t) : messages'[i] = messages[i]
      OBVIOUS
    <2>1. Answers(t) = {i \in DOMAIN messages : /\ messages[i].live /\ messages[i].turn = t
                                                /\ messages[i].role = "assistant"}
      BY DEF Answers, Live
    <2>2. Answers(t)' = {i \in DOMAIN messages' : /\ messages'[i].live /\ messages'[i].turn = t
                                                  /\ messages'[i].role = "assistant"}
      BY DEF Answers, Live
    <2>3. \A i \in DOMAIN messages' : messages'[i].turn = t => i \in DOMAIN messages
      BY <1>5 DEF Row
    <2> QED BY <1>5, <2>1, <2>2, <2>3
  <1>11. \A i \in Answers(turn)' : \/ i \in Answers(turn) /\ messages'[i] = messages[i]
                                   \/ i = Len(messages') /\ messages'[i].version = version
    <2> SUFFICES ASSUME NEW i \in Answers(turn)'
                 PROVE  \/ i \in Answers(turn) /\ messages'[i] = messages[i]
                        \/ i = Len(messages') /\ messages'[i].version = version
      OBVIOUS
    <2>1. /\ i \in DOMAIN messages' /\ messages'[i].live /\ messages'[i].turn = turn
          /\ messages'[i].role = "assistant"
      BY DEF Answers, Live
    <2>2. messages'[i] # Row(turn, "user", 1)
      BY <2>1 DEF Row
    <2>3. CASE i \in DOMAIN messages
      BY <1>5, <2>1, <2>3 DEF Answers, Live
    <2>4. CASE i = Len(messages') /\ messages'[i] = Row(turn, "assistant", version)
      BY <2>4 DEF Row
    <2> QED BY <1>5, <2>1, <2>2, <2>3, <2>4
  <1>12. turnLock = c \/ turn \in severed
    BY <1>1, <1>2, <1>8
  <1>13. FreshInv'
    <2> SUFFICES ASSUME NEW d \in Callers, turnLock' = d, Turn(d)' \in Keys \ severed'
                 PROVE  /\ chat'[d].pc = "persist" /\ ~chat'[d].regenerate => Answers(Turn(d))' = {}
                        /\ chat'[d].pc = "append" =>
                              \A i \in Answers(Turn(d))' : messages'[i].version # chat'[d].version
      BY DEF FreshInv
    <2>1. CASE d = c
      <3>1. chat'[c].pc \in {"checkpoint", "idle"}
        BY <1>4
      <3> QED BY <2>1, <3>1
    <2>2. CASE d # c
      <3>1. PICK t : t = Turn(d)
        OBVIOUS
      <3>2. turnLock = d /\ t \in Keys \ severed /\ chat'[d] = chat[d] /\ Turn(d)' = t
        BY <1>1, <1>4, <2>2, <3>1
      <3>3. t # turn
        BY <1>12, <2>2, <3>2
      <3>4. /\ chat[d].pc = "persist" /\ ~chat[d].regenerate => Answers(t) = {}
            /\ chat[d].pc = "append" => \A i \in Answers(t) : messages[i].version # chat[d].version
        BY <3>1, <3>2 DEF ConversationInv, FreshInv
      <3>5. Answers(Turn(d))' = Answers(t)'
        BY <3>2
      <3> QED BY <1>10, <3>2, <3>3, <3>4, <3>5
    <2> QED BY <2>1, <2>2
  <1>14. AnswerVersionsDistinct'
    <2> SUFFICES ASSUME NEW key \in Keys \ severed', NEW i \in Answers(key)', NEW j \in Answers(key)',
                        messages'[i].version = messages'[j].version
                 PROVE  i = j
      BY DEF AnswerVersionsDistinct
    <2>0. key \in Keys \ severed
      BY <1>1
    <2>1. CASE key # turn
      BY <1>10, <2>0, <2>1 DEF ConversationInv, AnswerVersionsDistinct
    <2>2. CASE key = turn
      <3>1. turnLock = c
        BY <1>12, <2>0, <2>2
      <3>2. \A n \in Answers(turn) : messages[n].version # version
        BY <1>1, <1>2, <1>6, <2>0, <2>2, <3>1 DEF ConversationInv, FreshInv
      <3>3. \/ i \in Answers(turn) /\ messages'[i] = messages[i]
            \/ i = Len(messages') /\ messages'[i].version = version
        BY <1>11, <2>2
      <3>4. \/ j \in Answers(turn) /\ messages'[j] = messages[j]
            \/ j = Len(messages') /\ messages'[j].version = version
        BY <1>11, <2>2
      <3>5. \A m, n \in Answers(turn) : messages[m].version = messages[n].version => m = n
        BY <2>0, <2>2 DEF ConversationInv, AnswerVersionsDistinct
      <3> QED BY <3>2, <3>3, <3>4, <3>5
    <2> QED BY <2>1, <2>2
  <1>15. RecordInv'
    <2>1. \A t : Recorded(t) => Recorded(t)'
      BY <1>5 DEF Recorded
    <2>2. Recorded(turn)'
      BY <1>5 DEF Recorded, Row
    <2>3. RememberedIsRecorded'
      BY <1>1, <1>5 DEF ConversationInv, RecordInv, RememberedIsRecorded
    <2>4. ASSUME NEW d \in Callers, chat'[d].pc = "checkpoint"
          PROVE  Recorded(Turn(d))'
      <3>1. CASE d = c
        <4>1. Turn(d)' = turn
          BY <1>2, <1>4, <2>4, <3>1
        <4> QED BY <2>2, <4>1 DEF Recorded
      <3>2. CASE d # c
        <4>1. PICK t : t = Turn(d)
          OBVIOUS
        <4>2. Turn(d)' = t /\ Recorded(t)
          BY <1>4, <2>4, <3>2, <4>1 DEF ConversationInv, RecordInv
        <4>3. Recorded(t)'
          BY <2>1, <4>2
        <4> QED BY <4>2, <4>3 DEF Recorded
      <3> QED BY <3>1, <3>2
    <2> QED BY <2>3, <2>4 DEF RecordInv
  <1> QED BY <1>7, <1>9, <1>13, <1>14, <1>15 DEF ConversationInv

\* Every step of every request keeps the invariant.
LEMMA ConversationStepInv == ConversationInv /\ [ConversationNext]_cvars => ConversationInv'
  <1> SUFFICES ASSUME ConversationInv, [ConversationNext]_cvars PROVE ConversationInv'
    OBVIOUS
  <1>s. ConversationShape
    BY DEF ConversationInv
  <1>i. Idle \in RequestRecord /\ Idle.pc = "idle"
    BY DEF Idle, RequestRecord
  <1>r. RememberedIsRecorded /\ memory \in Seq(Keys \cup Nat)
    BY DEF ConversationInv, RecordInv, ConversationShape
  \* What every quiet step of a request has in common.
  <1>m. UNCHANGED <<messages, memory>> =>
            RememberedIsRecorded' /\ memory' \in Seq(Keys \cup Nat)
    BY <1>r DEF RememberedIsRecorded
  \* A request that is over, one way or the other.
  <1>o. ASSUME NEW c \in Callers, Release(c), UNCHANGED messages, severed' = severed,
               RememberedIsRecorded', memory' \in Seq(Keys \cup Nat)
        PROVE  ConversationInv'
    <2>1. /\ chat' = [chat EXCEPT ![c] = Idle]
          /\ turnLock' = turnLock \/ (turnLock' = NoCaller /\ turnLock = c)
      BY <1>o DEF Release
    <2>2. turnLock' = turnLock \/ (turnLock' \in {c, NoCaller} /\ turnLock \in {c, NoCaller})
      BY <2>1
    <2>3. Idle.pc \notin {"looking", "checkpoint", "persist", "append"}
      BY <1>i
    <2> QED BY <1>o, <1>i, <2>1, <2>2, <2>3, ConversationQuietStep
  <1>1. ASSUME NEW c \in Callers, NEW key \in Keys \cup {NoKey}, NEW regenerate \in BOOLEAN,
               Admit(c, key, regenerate)
        PROVE  ConversationInv'
    <2> DEFINE r == [Idle EXCEPT !.pc = "queued", !.key = key, !.regenerate = regenerate]
    <2>1. r \in RequestRecord /\ r.pc = "queued"
      BY DEF Idle, RequestRecord
    <2>2. /\ chat' = [chat EXCEPT ![c] = r]
          /\ UNCHANGED <<messages, memory, turnLock, severed>>
      BY <1>1 DEF Admit
    <2>3. r.pc \notin {"looking", "checkpoint", "persist", "append"} /\ turnLock' = turnLock
      BY <2>1, <2>2
    <2> HIDE DEF r
    <2>4. RememberedIsRecorded' /\ memory' \in Seq(Keys \cup Nat)
      BY <1>m, <2>2
    <2> QED BY <2>1, <2>2, <2>3, <2>4, ConversationQuietStep
  <1>2. ASSUME NEW c \in Callers, Enter(c)
        PROVE  ConversationInv'
    <2> DEFINE r == [chat[c] EXCEPT !.pc = "looking"]
    <2>1. r \in RequestRecord /\ r.pc = "looking"
      BY <1>s DEF ConversationShape, RequestRecord
    <2>2. /\ chat' = [chat EXCEPT ![c] = r] /\ turnLock = NoCaller /\ turnLock' = c
          /\ UNCHANGED <<messages, memory, severed>>
      BY <1>2 DEF Enter, TurnFree
    <2> HIDE DEF r
    <2> QED BY <1>m, <2>1, <2>2, ConversationQuietStep
  <1>3. ASSUME NEW c \in Callers, AnswerFromRows(c) \/ Fail(c)
        PROVE  ConversationInv'
    BY <1>3, <1>o, <1>m DEF AnswerFromRows, Fail
  <1>4. ASSUME NEW c \in Callers, StartGraph(c)
        PROVE  ConversationInv'
    <2> DEFINE r == [chat[c] EXCEPT !.pc = "persist", !.count = Len(memory)]
    <2>1. /\ r \in RequestRecord /\ r.pc = "persist" /\ r.key = chat[c].key
          /\ r.regenerate = chat[c].regenerate /\ r.count = Len(memory) /\ r.count \in Nat
      <3>1. Len(memory) \in Nat /\ chat[c] \in RequestRecord
        BY <1>s, <1>r DEF ConversationShape
      <3> QED BY <3>1 DEF RequestRecord
    <2>2. /\ chat' = [chat EXCEPT ![c] = r] /\ chat[c].pc = "looking"
          /\ ~Cached(chat[c].key) \/ chat[c].regenerate
          /\ UNCHANGED <<messages, memory, turnLock, severed>>
      BY <1>4 DEF StartGraph
    <2>3. turnLock = c
      BY <2>2 DEF ConversationInv, LockInv
    <2> HIDE DEF r
    <2>4. TurnId(r.key, r.count) \in Keys /\ ~r.regenerate => Answers(TurnId(r.key, r.count)) = {}
      BY <2>1, <2>2, CallersAssumption DEF TurnId, Cached
    <2> QED BY <1>m, <2>1, <2>2, <2>3, <2>4, ConversationQuietStep
  <1>5. ASSUME NEW c \in Callers, TakeVersion(c)
        PROVE  ConversationInv'
    <2> DEFINE v == IF chat[c].regenerate THEN MaxVersion(Turn(c)) + 1 ELSE 1
               r == [chat[c] EXCEPT !.pc = "append", !.version = v]
    <2>0. v \in Nat
      BY <1>s, ConversationNextVersion
    <2>1. /\ chat' = [chat EXCEPT ![c] = r] /\ chat[c].pc = "persist"
          /\ UNCHANGED <<messages, memory, turnLock, severed>>
      BY <1>5 DEF TakeVersion
    <2>2. chat[c].regenerate => \A i \in Answers(Turn(c)) : messages[i].version # v
      <3>1. \A i \in Answers(Turn(c)) : messages[i].version \in Nat
        <4>1. \A i \in DOMAIN messages : messages[i] \in MessageRow
          BY <1>s DEF ConversationShape
        <4> QED BY <4>1 DEF Answers, Live, MessageRow
      <3> QED BY <1>s, <3>1, ConversationNextVersion
    <2> HIDE DEF v
    <2>3. /\ r \in RequestRecord /\ r.pc = "append" /\ r.version = v
          /\ r.key = chat[c].key /\ r.count = chat[c].count /\ r.regenerate = chat[c].regenerate
      BY <1>s, <2>0 DEF ConversationShape, RequestRecord
    <2> HIDE DEF r
    <2>4. TurnId(r.key, r.count) = Turn(c)
      BY <2>3 DEF Turn
    <2>5. turnLock = c \/ Turn(c) \in severed
      BY <2>1 DEF ConversationInv, LockInv
    <2>6. turnLock = c /\ Turn(c) \in Keys \ severed =>
              \A i \in Answers(Turn(c)) : messages[i].version # v
      BY <2>1, <2>2, <1>s DEF ConversationInv, FreshInv
    <2>7. turnLock' = turnLock /\ RememberedIsRecorded' /\ memory' \in Seq(Keys \cup Nat)
      BY <1>m, <2>1
    <2>8. /\ turnLock' = c \/ TurnId(r.key, r.count) \in severed'
          /\ turnLock' = c /\ TurnId(r.key, r.count) \in Keys \ severed' =>
                \A i \in Answers(TurnId(r.key, r.count)) : messages[i].version # r.version
      BY <2>1, <2>3, <2>4, <2>5, <2>6
    <2>9. r.pc \notin {"looking", "checkpoint", "persist"} /\ severed \subseteq severed'
      BY <2>1, <2>3
    <2> QED BY <2>1, <2>3, <2>7, <2>8, <2>9, ConversationQuietStep
  <1>6. ASSUME NEW c \in Callers, AppendMessages(c)
        PROVE  ConversationInv'
    BY <1>6, ConversationAppendStep
  <1>7. ASSUME NEW c \in Callers, SaveCheckpoint(c)
        PROVE  ConversationInv'
    <2> DEFINE turns == IF chat[c].regenerate THEN memory ELSE memory \o <<Turn(c)>>
               first == IF Len(turns) > Window THEN 2 ELSE 1
    <2>1. /\ memory' = SubSeq(turns, first, Len(turns)) /\ chat[c].pc = "checkpoint"
          /\ Release(c) /\ UNCHANGED <<messages, severed>>
      BY <1>7 DEF SaveCheckpoint
    <2>2. Turn(c) \in Keys \cup Nat /\ Recorded(Turn(c))
      BY <2>1, <1>s, ConversationTurn DEF ConversationInv, RecordInv
    <2>3. /\ turns \in Seq(Keys \cup Nat)
          /\ \A n \in DOMAIN turns : Recorded(turns[n])
      <3>1. \A n \in DOMAIN memory : Recorded(memory[n])
        BY <1>r DEF RememberedIsRecorded, Recorded
      <3>2. CASE chat[c].regenerate
        BY <1>r, <3>1, <3>2
      <3>3. CASE ~chat[c].regenerate
        <4>1. /\ turns \in Seq(Keys \cup Nat) /\ DOMAIN turns = 1..(Len(memory) + 1)
              /\ turns[Len(memory) + 1] = Turn(c)
              /\ \A n \in 1..Len(memory) : turns[n] = memory[n]
          BY <1>r, <2>2, <3>3
        <4>2. \A n \in 1..(Len(memory) + 1) : n \in 1..Len(memory) \/ n = Len(memory) + 1
          BY <1>r
        <4> HIDE DEF turns
        <4> QED BY <1>r, <2>2, <3>1, <4>1, <4>2
      <3> QED BY <3>2, <3>3
    <2> HIDE DEF turns
    <2>4. /\ memory' \in Seq(Keys \cup Nat)
          /\ \A n \in DOMAIN memory' : \E k \in DOMAIN turns : memory'[n] = turns[k]
      <3>1. first \in {1, 2}
        OBVIOUS
      <3> HIDE DEF first
      <3>2. /\ memory' \in Seq(Keys \cup Nat)
            /\ \A n \in DOMAIN memory' : n + first - 1 \in DOMAIN turns
                                       /\ memory'[n] = turns[n + first - 1]
        BY <2>1, <2>3, <3>1
      <3> QED BY <3>2
    <2>5. RememberedIsRecorded'
      BY <2>1, <2>3, <2>4 DEF RememberedIsRecorded, Recorded
    <2> QED BY <1>o, <2>1, <2>4, <2>5
  <1>8. ASSUME NEW c \in Callers, Disconnect(c)
        PROVE  ConversationInv'
    <2>1. /\ turnLock = c /\ turnLock' = NoCaller /\ severed' = severed \cup {Turn(c)}
          /\ UNCHANGED <<messages, memory, chat>> /\ chat[c].pc \in {"persist", "append"}
      BY <1>8 DEF Disconnect
    <2>2. chat[c] \in RequestRecord /\ chat' = [chat EXCEPT ![c] = chat[c]]
      BY <1>s, <2>1 DEF ConversationShape
    <2>3. TurnId(chat[c].key, chat[c].count) \in severed' /\ turnLock' # c
      BY <2>1, CallersAssumption DEF Turn
    <2> QED BY <1>m, <2>1, <2>2, <2>3, ConversationQuietStep
  <1>9. CASE DeleteThread \/ DeleteMessages \/ UNCHANGED cvars
    <2>1. /\ UNCHANGED <<memory, turnLock, chat, severed>>
          /\ \/ messages' = messages
             \/ messages' = [i \in DOMAIN messages |-> [messages[i] EXCEPT !.live = FALSE]]
      BY <1>9 DEF DeleteThread, DeleteMessages, cvars
    <2>2. \A i \in DOMAIN messages : messages[i] \in MessageRow
      BY <1>s DEF ConversationShape
    <2>3. /\ messages' \in Seq(MessageRow) /\ DOMAIN messages' = DOMAIN messages
          /\ \A i \in DOMAIN messages :
                /\ messages'[i].turn = messages[i].turn /\ messages'[i].role = messages[i].role
                /\ messages'[i].version = messages[i].version
                /\ messages'[i].live => messages[i].live
      <3>1. CASE messages' = messages
        BY <1>s, <3>1 DEF ConversationShape
      <3>2. CASE messages' = [i \in DOMAIN messages |-> [messages[i] EXCEPT !.live = FALSE]]
        <4>1. \A i \in DOMAIN messages :
                /\ [messages[i] EXCEPT !.live = FALSE] \in MessageRow
                /\ [messages[i] EXCEPT !.live = FALSE].turn = messages[i].turn
                /\ [messages[i] EXCEPT !.live = FALSE].role = messages[i].role
                /\ [messages[i] EXCEPT !.live = FALSE].version = messages[i].version
                /\ [messages[i] EXCEPT !.live = FALSE].live = FALSE
          BY <2>2 DEF MessageRow
        <4>2. DOMAIN messages = 1..Len(messages) /\ Len(messages) \in Nat
          BY <1>s DEF ConversationShape
        <4>3. messages' \in [1..Len(messages) -> MessageRow]
          BY <3>2, <4>1, <4>2
        <4>4. messages' \in Seq(MessageRow)
          BY <4>2, <4>3
        <4> QED BY <3>2, <4>1, <4>4
      <3> QED BY <2>1, <3>1, <3>2
    <2>4. \A t : Answers(t)' \subseteq Answers(t)
      BY <2>3 DEF Answers, Live
    <2>5. \A d \in Callers : Turn(d)' = Turn(d)
      BY <2>1 DEF Turn
    <2>6. Answers(NoKey) \subseteq DOMAIN messages /\ \A t : Answers(t) \subseteq DOMAIN messages
      BY DEF Answers, Live
    <2>7. ConversationShape'
      BY <1>s, <2>1, <2>3 DEF ConversationShape
    <2>8. LockInv'
      BY <2>1, <2>5 DEF ConversationInv, LockInv
    <2>9. FreshInv'
      <3> SUFFICES ASSUME NEW d \in Callers, turnLock' = d, Turn(d)' \in Keys \ severed'
                   PROVE  /\ chat'[d].pc = "persist" /\ ~chat'[d].regenerate => Answers(Turn(d))' = {}
                          /\ chat'[d].pc = "append" =>
                                \A i \in Answers(Turn(d))' : messages'[i].version # chat'[d].version
        BY DEF FreshInv
      <3>1. PICK t : t = Turn(d)
        OBVIOUS
      <3>2. Turn(d)' = t /\ turnLock = d /\ t \in Keys \ severed
        BY <2>1, <2>5, <3>1
      <3>3. Answers(Turn(d))' = Answers(t)'
        BY <3>2
      <3>4. /\ chat[d].pc = "persist" /\ ~chat[d].regenerate => Answers(t) = {}
            /\ chat[d].pc = "append" => \A i \in Answers(t) : messages[i].version # chat[d].version
        BY <3>1, <3>2 DEF ConversationInv, FreshInv
      <3> QED BY <2>1, <2>3, <2>4, <2>6, <3>3, <3>4
    <2>10. RecordInv'
      <3>1. \A t : Recorded(t) => Recorded(t)'
        BY <2>3 DEF Recorded
      <3>2. RememberedIsRecorded'
        BY <1>r, <2>1, <2>3 DEF RememberedIsRecorded
      <3>3. ASSUME NEW d \in Callers, chat'[d].pc = "checkpoint"
            PROVE  Recorded(Turn(d))'
        <4>1. PICK t : t = Turn(d)
          OBVIOUS
        <4>2. Recorded(t)' /\ Turn(d)' = t
          BY <2>1, <2>5, <3>1, <3>3, <4>1 DEF ConversationInv, RecordInv
        <4> QED BY <4>2 DEF Recorded
      <3> QED BY <3>2, <3>3 DEF RecordInv
    <2>11. AnswerVersionsDistinct'
      BY <2>1, <2>3, <2>4, <2>6 DEF ConversationInv, AnswerVersionsDistinct
    <2> QED BY <2>7, <2>8, <2>9, <2>10, <2>11 DEF ConversationInv
  <1> QED BY <1>1, <1>2, <1>3, <1>4, <1>5, <1>6, <1>7, <1>8, <1>9 DEF ConversationNext

\* The invariant holds always.
LEMMA ConversationInvariant == ConversationSpec => []ConversationInv
  BY ConversationInitInv, ConversationStepInv, PTL DEF ConversationSpec

\* The pages of answers to a turn with a client_turn_id are told apart.
THEOREM ConversationVersions == ConversationSpec => []AnswerVersionsDistinct
  <1>1. ConversationInv => AnswerVersionsDistinct
    BY DEF ConversationInv
  <1> QED BY <1>1, ConversationInvariant, PTL

\* What the model remembers was recorded for the user.
THEOREM ConversationRemembers == ConversationSpec => []RememberedIsRecorded
  <1>1. ConversationInv => RememberedIsRecorded
    BY DEF ConversationInv, RecordInv
  <1> QED BY <1>1, ConversationInvariant, PTL

----------------------------------------------------------------------------
\* The requests that have not taken the version of their answer yet.
Unversioned == {c \in Callers : chat[c].pc \in {"queued", "looking", "persist"}}

\* What the bounds of a run mean for the tables: a request takes one version at
\* most, one above those there are, so that no version exceeds the requests
\* that were sent and have taken theirs.
ConversationBounds ==
    /\ thread \in {"none", "active", "deleted"} /\ deleting \in BOOLEAN
    /\ severed \subseteq TurnIds /\ sent \in 0..MaxRequests
    /\ memory \in Seq(TurnIds) /\ Len(memory) <= Window
    /\ IsFiniteSet(Unversioned) /\ Cardinality(Unversioned) <= sent
    /\ \A c \in Callers : /\ chat[c].count \in 0..Window
                          /\ chat[c].version + Cardinality(Unversioned) <= sent
                          /\ chat[c].pc = "append" => chat[c].version >= 1
    /\ \A i \in DOMAIN messages : /\ messages[i].turn \in TurnIds /\ messages[i].version >= 1
                                  /\ messages[i].version + Cardinality(Unversioned) <= sent

LEMMA ConversationTurnIds ==
    ASSUME ConversationShape, ConversationBounds, NEW c \in Callers
    PROVE  Turn(c) \in TurnIds
BY DEF ConversationShape, ConversationBounds, RequestRecord, Turn, TurnId, TurnIds

\* A request that moves among the steps before its version, or leaves them.
LEMMA UnversionedOf ==
    ASSUME IsFiniteSet(Unversioned), NEW c \in Callers, NEW r \in RequestRecord,
           chat \in [Callers -> RequestRecord], chat' = [chat EXCEPT ![c] = r]
    PROVE  /\ IsFiniteSet(Unversioned') /\ Cardinality(Unversioned') \in Nat
           /\ (r.pc \in {"queued", "looking", "persist"} => c \in Unversioned)
                => Cardinality(Unversioned') <= Cardinality(Unversioned)
           /\ r.pc \notin {"queued", "looking", "persist"} /\ c \in Unversioned
                => Cardinality(Unversioned') = Cardinality(Unversioned) - 1
           /\ r.pc \in {"queued", "looking", "persist"} /\ c \notin Unversioned
                => Cardinality(Unversioned') = Cardinality(Unversioned) + 1
<1>1. /\ r.pc \in {"queued", "looking", "persist"} => Unversioned' = Unversioned \cup {c}
      /\ r.pc \notin {"queued", "looking", "persist"} => Unversioned' = Unversioned \ {c}
  BY DEF Unversioned
<1>2. /\ IsFiniteSet(Unversioned \cup {c}) /\ IsFiniteSet(Unversioned \ {c})
      /\ Cardinality(Unversioned) \in Nat
  BY FS_AddElement, FS_RemoveElement, FS_CardinalityType
<1>3. /\ Cardinality(Unversioned \cup {c}) \in Nat /\ Cardinality(Unversioned \ {c}) \in Nat
      /\ Cardinality(Unversioned \cup {c})
            = IF c \in Unversioned THEN Cardinality(Unversioned) ELSE Cardinality(Unversioned) + 1
      /\ Cardinality(Unversioned \ {c})
            = IF c \in Unversioned THEN Cardinality(Unversioned) - 1 ELSE Cardinality(Unversioned)
  BY <1>2, FS_AddElement, FS_RemoveElement, FS_CardinalityType
<1>4. CASE r.pc \in {"queued", "looking", "persist"}
  <2>1. Unversioned' = Unversioned \cup {c}
    BY <1>1, <1>4
  <2>2. /\ IsFiniteSet(Unversioned') /\ Cardinality(Unversioned') \in Nat
        /\ Cardinality(Unversioned')
              = IF c \in Unversioned THEN Cardinality(Unversioned) ELSE Cardinality(Unversioned) + 1
    BY <1>2, <1>3, <2>1, Zenon
  <2> QED
    BY <1>2, <1>4, <2>2
<1>5. CASE r.pc \notin {"queued", "looking", "persist"}
  <2>1. Unversioned' = Unversioned \ {c}
    BY <1>1, <1>5
  <2>2. /\ IsFiniteSet(Unversioned') /\ Cardinality(Unversioned') \in Nat
        /\ Cardinality(Unversioned')
              = IF c \in Unversioned THEN Cardinality(Unversioned) - 1 ELSE Cardinality(Unversioned)
    BY <1>2, <1>3, <2>1, Zenon
  <2> QED
    BY <1>2, <1>5, <2>2
<1> QED
  BY <1>4, <1>5

LEMMA ConversationBoundsInit == ConversationInit => ConversationBounds
<1> SUFFICES ASSUME ConversationInit PROVE ConversationBounds
  OBVIOUS
<1>1. Unversioned = {}
  BY DEF ConversationInit, Unversioned, Idle
<1>2. IsFiniteSet(Unversioned) /\ Cardinality(Unversioned) = 0
  BY <1>1, FS_EmptySet
<1>3. \A c \in Callers : chat[c].pc = "idle" /\ chat[c].count = 0 /\ chat[c].version = 0
  BY DEF ConversationInit, Idle
<1>4. DOMAIN messages = {} /\ memory = <<>> /\ memory \in Seq(TurnIds) /\ Len(memory) = 0
  BY DEF ConversationInit
<1>5. \A c \in Callers : chat[c].version + Cardinality(Unversioned) <= sent
  BY <1>2, <1>3 DEF ConversationInit
<1>6. /\ thread \in {"none", "active", "deleted"} /\ deleting \in BOOLEAN
      /\ severed \subseteq TurnIds /\ sent = 0
  BY DEF ConversationInit
<1>a. sent \in 0..MaxRequests /\ Len(memory) <= Window /\ 0 \in 0..Window
  BY <1>4, <1>6, WindowAssumption
<1>7. \A i \in DOMAIN messages : /\ messages[i].turn \in TurnIds /\ messages[i].version >= 1
                                 /\ messages[i].version + Cardinality(Unversioned) <= sent
  BY <1>4
<1>8. \A c \in Callers : /\ chat[c].count \in 0..Window
                         /\ chat[c].version + Cardinality(Unversioned) <= sent
                         /\ chat[c].pc = "append" => chat[c].version >= 1
  BY <1>3, <1>5, <1>a
<1>b. memory \in Seq(TurnIds)
  BY <1>4
<1>9. Cardinality(Unversioned) <= sent
  BY <1>2, <1>6
<1> QED
  BY <1>2, <1>6, <1>7, <1>8, <1>9, <1>a, <1>b DEF ConversationBounds

\* A request that moves, and takes no new version.
LEMMA ConversationBoundsMove ==
    ASSUME ConversationShape, ConversationBounds, NEW c \in Callers, NEW r \in RequestRecord,
           chat' = [chat EXCEPT ![c] = r], UNCHANGED <<deleting, sent>>,
           thread' \in {"none", "active", "deleted"}, severed' \subseteq TurnIds,
           memory' \in Seq(TurnIds), Len(memory') <= Window,
           r.pc \in {"queued", "looking", "persist"} => c \in Unversioned,
           r.count \in 0..Window, r.version \in {0, chat[c].version},
           r.pc = "append" => r.version >= 1,
           \A i \in DOMAIN messages' :
              /\ messages'[i].turn \in TurnIds /\ messages'[i].version >= 1
              /\ messages'[i].version \in Nat
              /\ messages'[i].version + Cardinality(Unversioned) <= sent
    PROVE  ConversationBounds'
<1>1. /\ IsFiniteSet(Unversioned) /\ Cardinality(Unversioned) \in Nat /\ sent \in Nat
      /\ Cardinality(Unversioned) <= sent /\ sent \in 0..MaxRequests
      /\ chat \in [Callers -> RequestRecord]
  BY WindowAssumption, FS_CardinalityType DEF ConversationShape, ConversationBounds
<1>2. /\ IsFiniteSet(Unversioned') /\ Cardinality(Unversioned') \in Nat
      /\ Cardinality(Unversioned') <= Cardinality(Unversioned)
  BY <1>1, UnversionedOf
<1>3. ASSUME NEW d \in Callers
      PROVE  /\ chat'[d].count \in 0..Window
             /\ chat'[d].version + Cardinality(Unversioned') <= sent
             /\ chat'[d].pc = "append" => chat'[d].version >= 1
  <2>1. /\ chat[d].version \in Nat /\ chat[d].version + Cardinality(Unversioned) <= sent
        /\ chat[d].count \in 0..Window
        /\ chat[d].pc = "append" => chat[d].version >= 1
    BY <1>1 DEF ConversationBounds, RequestRecord
  <2>2. CASE d = c
    <3>1. chat'[d] = r /\ r.version \in Nat
      BY <1>1, <2>2 DEF RequestRecord
    <3>2. r.version <= chat[c].version
      BY <2>1, <2>2
    <3>3. chat'[d].version + Cardinality(Unversioned') <= sent
      <4> DEFINE v == r.version
                 w == chat[d].version
                 k == Cardinality(Unversioned')
                 n == Cardinality(Unversioned)
      <4>1. v \in Nat /\ w \in Nat /\ k \in Nat /\ n \in Nat /\ v <= w /\ k <= n /\ w + n <= sent
        BY <1>1, <1>2, <2>1, <2>2, <3>1, <3>2
      <4>2. chat'[d].version = v
        BY <3>1
      <4> HIDE DEF v, w, k, n
      <4>3. v + k <= sent
        BY <1>1, <4>1
      <4> QED
        BY <4>2, <4>3 DEF k
    <3>4. chat'[d].count \in 0..Window
      BY <3>1
    <3>5. chat'[d].pc = "append" => chat'[d].version >= 1
      BY <3>1
    <3> QED
      BY <3>3, <3>4, <3>5
  <2>3. CASE d # c
    <3>1. chat'[d] = chat[d]
      BY <1>1, <2>3
    <3>2. chat'[d].version + Cardinality(Unversioned') <= sent
      <4> DEFINE w == chat[d].version
                 k == Cardinality(Unversioned')
                 n == Cardinality(Unversioned)
      <4>1. w \in Nat /\ k \in Nat /\ n \in Nat /\ k <= n /\ w + n <= sent
        BY <1>1, <1>2, <2>1
      <4>2. chat'[d].version = w
        BY <3>1
      <4> HIDE DEF w, k, n
      <4>3. w + k <= sent
        BY <1>1, <4>1
      <4> QED
        BY <4>2, <4>3 DEF k
    <3> QED
      BY <2>1, <3>1, <3>2
  <2> QED
    BY <2>2, <2>3
<1>4. \A i \in DOMAIN messages' : messages'[i].version + Cardinality(Unversioned') <= sent
  BY <1>1, <1>2
<1>5. deleting' \in BOOLEAN /\ sent' = sent
  BY DEF ConversationBounds
<1> QED
  BY <1>1, <1>2, <1>3, <1>4, <1>5 DEF ConversationBounds

\* The highest version is within the bound that every version keeps.
LEMMA ConversationMaxBound ==
    ASSUME ConversationShape, ConversationBounds, NEW turn
    PROVE  MaxVersion(turn) \in Nat /\ MaxVersion(turn) + Cardinality(Unversioned) <= sent
<1> DEFINE S == {messages[i].version : i \in Answers(turn)} \cup {0}
           k == Cardinality(Unversioned)
<1>1. /\ k \in Nat /\ sent \in Nat /\ k <= sent
      /\ \A i \in DOMAIN messages : messages[i].version \in Nat /\ messages[i].version + k <= sent
  <2>1. \A i \in DOMAIN messages : messages[i] \in MessageRow
    BY DEF ConversationShape
  <2> QED
    BY <2>1, WindowAssumption, FS_CardinalityType DEF ConversationBounds, MessageRow
<1>2. Answers(turn) \subseteq DOMAIN messages
  BY DEF Answers, Live
<1> HIDE DEF k
<1>3. S \in SUBSET Nat /\ S # {} /\ \A x \in S : x + k <= sent
  <2>1. ASSUME NEW i \in Answers(turn) PROVE messages[i].version \in Nat /\ messages[i].version + k <= sent
    BY <1>1, <1>2
  <2>2. 0 \in Nat /\ 0 + k <= sent
    BY <1>1
  <2>3. ASSUME NEW x \in S PROVE x \in Nat /\ x + k <= sent
    <3>1. CASE x \in {0}
      BY <2>2, <3>1
    <3>2. CASE x \in {messages[i].version : i \in Answers(turn)}
      <4>1. PICK i \in Answers(turn) : x = messages[i].version
        BY <3>2
      <4> QED
        BY <2>1, <4>1
    <3> QED
      BY <3>1, <3>2
  <2>4. S # {}
    OBVIOUS
  <2> HIDE DEF S
  <2> QED
    BY <2>3, <2>4
<1>5. MaxVersion(turn) = Max(S)
  BY DEF MaxVersion
<1> HIDE DEF S
<1>4. ASSUME NEW x \in S PROVE x <= sent
  <2>1. x \in Nat /\ x + k <= sent
    BY <1>3
  <2> QED
    BY <1>1, <2>1
<1>6. Max(S) \in S
  BY <1>1, <1>3, <1>4, ConversationMax
<1>7. MaxVersion(turn) \in Nat /\ MaxVersion(turn) + k <= sent
  <2>1. \A m \in S : m \in Nat /\ m + k <= sent
    BY <1>3
  <2> QED
    BY <1>5, <1>6, <2>1, Zenon
<1> QED
  BY <1>7 DEF k

LEMMA ConversationBoundsStep ==
    ConversationInv /\ ConversationBounds /\ [ConversationNext]_cvars => ConversationBounds'
<1> SUFFICES ASSUME ConversationInv, ConversationBounds, [ConversationNext]_cvars
             PROVE  ConversationBounds'
  OBVIOUS
<1>1. /\ ConversationShape /\ chat \in [Callers -> RequestRecord]
      /\ IsFiniteSet(Unversioned) /\ Cardinality(Unversioned) \in Nat
      /\ Cardinality(Unversioned) <= sent /\ sent \in Nat /\ sent <= MaxRequests
      /\ MaxRequests \in Nat /\ Window \in Nat /\ Window >= 1
      /\ \A c \in Callers : chat[c] \in RequestRecord
  <2>1. ConversationShape /\ chat \in [Callers -> RequestRecord]
    BY DEF ConversationInv, ConversationShape
  <2>2. IsFiniteSet(Unversioned) /\ Cardinality(Unversioned) \in Nat
    BY FS_CardinalityType DEF ConversationBounds
  <2>3. Cardinality(Unversioned) <= sent /\ sent \in 0..MaxRequests
    BY DEF ConversationBounds
  <2> QED
    BY <2>1, <2>2, <2>3, WindowAssumption
<1>2. \A i \in DOMAIN messages :
         /\ messages[i].turn \in TurnIds /\ messages[i].version >= 1
         /\ messages[i].version \in Nat
         /\ messages[i].version + Cardinality(Unversioned) <= sent
  <2>1. \A i \in DOMAIN messages : messages[i] \in MessageRow
    BY <1>1 DEF ConversationShape
  <2> QED
    BY <2>1 DEF ConversationBounds, MessageRow
<1>3. \A c \in Callers : /\ chat[c].count \in 0..Window
                         /\ chat[c].version \in Nat
                         /\ chat[c].version + Cardinality(Unversioned) <= sent
                         /\ chat[c].pc = "append" => chat[c].version >= 1
  BY <1>1 DEF ConversationBounds, RequestRecord
<1>4. /\ memory \in Seq(TurnIds) /\ Len(memory) \in 0..Window /\ severed \subseteq TurnIds
      /\ thread \in {"none", "active", "deleted"}
  BY <1>1 DEF ConversationBounds
<1>5. Idle \in RequestRecord /\ Idle.pc = "idle" /\ Idle.count = 0 /\ Idle.version = 0
      /\ 0 \in 0..Window
  BY <1>1 DEF Idle, RequestRecord
\* A request that is over, whatever it leaves in the memory.
<1>6. ASSUME NEW c \in Callers, chat' = [chat EXCEPT ![c] = Idle],
             UNCHANGED <<messages, thread, severed, deleting, sent>>,
             memory' \in Seq(TurnIds), Len(memory') <= Window
      PROVE  ConversationBounds'
  BY <1>1, <1>2, <1>4, <1>5, <1>6, ConversationBoundsMove
\* A request that goes on to a later step, before it takes its version.
<1>m. ASSUME NEW c \in Callers, NEW r \in RequestRecord, chat' = [chat EXCEPT ![c] = r],
             UNCHANGED <<messages, memory, thread, severed, deleting, sent>>,
             c \in Unversioned, r.pc \in {"looking", "persist"}, r.count \in 0..Window,
             r.version = chat[c].version
      PROVE  ConversationBounds'
  <2>1. /\ thread' \in {"none", "active", "deleted"} /\ severed' \subseteq TurnIds
        /\ memory' \in Seq(TurnIds) /\ Len(memory') <= Window /\ UNCHANGED <<deleting, sent>>
    BY <1>1, <1>4, <1>m
  <2>2. \A i \in DOMAIN messages' :
           /\ messages'[i].turn \in TurnIds /\ messages'[i].version >= 1
           /\ messages'[i].version \in Nat
           /\ messages'[i].version + Cardinality(Unversioned) <= sent
    BY <1>2, <1>m
  <2>3. r.pc # "append" /\ r.version \in {0, chat[c].version}
    BY <1>m
  <2> QED
    BY <1>1, <1>m, <2>1, <2>2, <2>3, ConversationBoundsMove
<1>7. ASSUME NEW c \in Callers, NEW key \in Keys \cup {NoKey}, NEW regenerate \in BOOLEAN,
             Admit(c, key, regenerate)
      PROVE  ConversationBounds'
  <2> DEFINE r == [Idle EXCEPT !.pc = "queued", !.key = key, !.regenerate = regenerate]
  <2>1. r \in RequestRecord /\ r.pc = "queued" /\ r.count = 0 /\ r.version = 0
    BY DEF Idle, RequestRecord
  <2>2. /\ chat' = [chat EXCEPT ![c] = r] /\ thread' = "active" /\ sent' = sent + 1
        /\ sent < MaxRequests /\ c \notin Unversioned
        /\ UNCHANGED <<messages, memory, severed, deleting>>
    BY <1>7 DEF Admit, Unversioned
  <2> HIDE DEF r
  <2>3. IsFiniteSet(Unversioned') /\ Cardinality(Unversioned') = Cardinality(Unversioned) + 1
    BY <1>1, <2>1, <2>2, UnversionedOf
  <2>4. \A d \in Callers : /\ chat'[d].count \in 0..Window
                           /\ chat'[d].version + Cardinality(Unversioned') <= sent'
                           /\ chat'[d].pc = "append" => chat'[d].version >= 1
    <3> SUFFICES ASSUME NEW d \in Callers
                 PROVE  /\ chat'[d].count \in 0..Window
                        /\ chat'[d].version + Cardinality(Unversioned') <= sent'
                        /\ chat'[d].pc = "append" => chat'[d].version >= 1
      OBVIOUS
    <3>1. CASE d = c
      BY <1>1, <1>5, <2>1, <2>2, <2>3, <3>1
    <3>2. CASE d # c
      <4>1. chat'[d] = chat[d]
        BY <1>1, <2>2, <3>2
      <4> QED
        BY <1>1, <1>3, <2>2, <2>3, <4>1
    <3> QED
      BY <3>1, <3>2
  <2>5. \A i \in DOMAIN messages' :
           /\ messages'[i].turn \in TurnIds /\ messages'[i].version >= 1
           /\ messages'[i].version + Cardinality(Unversioned') <= sent'
    BY <1>1, <1>2, <2>2, <2>3
  <2>6. sent' \in 0..MaxRequests /\ Cardinality(Unversioned') <= sent'
    BY <1>1, <2>2, <2>3
  <2> QED
    BY <1>4, <2>2, <2>3, <2>4, <2>5, <2>6 DEF ConversationBounds
<1>8. ASSUME NEW c \in Callers, Enter(c) PROVE ConversationBounds'
  <2> DEFINE r == [chat[c] EXCEPT !.pc = "looking"]
  <2>1. /\ r \in RequestRecord /\ r.pc = "looking" /\ r.count = chat[c].count
        /\ r.version = chat[c].version
    BY <1>1 DEF RequestRecord
  <2>2. /\ chat' = [chat EXCEPT ![c] = r] /\ c \in Unversioned
        /\ UNCHANGED <<messages, memory, thread, severed, deleting, sent>>
    BY <1>1, <1>8 DEF Enter, Unversioned
  <2> HIDE DEF r
  <2> QED
    BY <1>3, <1>m, <2>1, <2>2
<1>9. ASSUME NEW c \in Callers, AnswerFromRows(c) \/ Fail(c) PROVE ConversationBounds'
  BY <1>4, <1>6, <1>9 DEF AnswerFromRows, Fail, Release
<1>10. ASSUME NEW c \in Callers, StartGraph(c) PROVE ConversationBounds'
  <2> DEFINE r == [chat[c] EXCEPT !.pc = "persist", !.count = Len(memory)]
  <2>1. /\ r \in RequestRecord /\ r.pc = "persist" /\ r.count = Len(memory)
        /\ r.version = chat[c].version
    <3>1. Len(memory) \in Nat
      BY <1>1, <1>4
    <3> QED
      BY <1>1, <3>1 DEF RequestRecord
  <2>2. /\ chat' = [chat EXCEPT ![c] = r] /\ c \in Unversioned
        /\ UNCHANGED <<messages, memory, thread, severed, deleting, sent>>
    BY <1>1, <1>10 DEF StartGraph, Unversioned
  <2> HIDE DEF r
  <2> QED
    BY <1>4, <1>m, <2>1, <2>2
<1>11. ASSUME NEW c \in Callers, TakeVersion(c) PROVE ConversationBounds'
  <2> DEFINE v == IF chat[c].regenerate THEN MaxVersion(Turn(c)) + 1 ELSE 1
             r == [chat[c] EXCEPT !.pc = "append", !.version = v]
  <2>1. /\ v \in Nat /\ v >= 1 /\ v + Cardinality(Unversioned) <= sent + 1
    BY <1>1, ConversationMaxBound
  <2>2. /\ chat' = [chat EXCEPT ![c] = r] /\ c \in Unversioned
        /\ UNCHANGED <<messages, memory, thread, severed, deleting, sent>>
    BY <1>1, <1>11 DEF TakeVersion, Unversioned
  <2> HIDE DEF v
  <2>3. r \in RequestRecord /\ r.pc = "append" /\ r.count = chat[c].count /\ r.version = v
    BY <1>1, <2>1 DEF RequestRecord
  <2> HIDE DEF r
  <2>4. /\ IsFiniteSet(Unversioned') /\ Cardinality(Unversioned') \in Nat
        /\ Cardinality(Unversioned') = Cardinality(Unversioned) - 1
    BY <1>1, <2>2, <2>3, UnversionedOf
  <2>5. \A d \in Callers : /\ chat'[d].count \in 0..Window
                           /\ chat'[d].version + Cardinality(Unversioned') <= sent'
                           /\ chat'[d].pc = "append" => chat'[d].version >= 1
    <3> SUFFICES ASSUME NEW d \in Callers
                 PROVE  /\ chat'[d].count \in 0..Window
                        /\ chat'[d].version + Cardinality(Unversioned') <= sent'
                        /\ chat'[d].pc = "append" => chat'[d].version >= 1
      OBVIOUS
    <3>1. CASE d = c
      <4>1. chat'[d] = r
        BY <1>1, <2>2, <3>1
      <4> QED
        BY <1>1, <1>3, <2>1, <2>2, <2>3, <2>4, <4>1
    <3>2. CASE d # c
      <4>1. chat'[d] = chat[d]
        BY <1>1, <2>2, <3>2
      <4> QED
        BY <1>1, <1>3, <2>2, <2>4, <4>1
    <3> QED
      BY <3>1, <3>2
  <2>6. \A i \in DOMAIN messages' :
           /\ messages'[i].turn \in TurnIds /\ messages'[i].version >= 1
           /\ messages'[i].version + Cardinality(Unversioned') <= sent'
    BY <1>1, <1>2, <2>2, <2>4
  <2>7. sent' \in 0..MaxRequests /\ Cardinality(Unversioned') <= sent' /\ deleting' \in BOOLEAN
    BY <1>1, <2>2, <2>4 DEF ConversationBounds
  <2> QED
    BY <1>4, <2>2, <2>4, <2>5, <2>6, <2>7 DEF ConversationBounds
<1>12. ASSUME NEW c \in Callers, AppendMessages(c) PROVE ConversationBounds'
  <2>1. /\ chat[c].pc = "append" /\ AppendRows(Turn(c), chat[c].regenerate, chat[c].version)
        /\ chat' = [chat EXCEPT ![c] = IF turnLock = c THEN [@ EXCEPT !.pc = "checkpoint"] ELSE Idle]
        /\ UNCHANGED <<memory, thread, severed, deleting, sent>>
    BY <1>12 DEF AppendMessages
  <2>2. PICK r \in RequestRecord :
          /\ chat' = [chat EXCEPT ![c] = r] /\ r.pc \in {"checkpoint", "idle"}
          /\ r.count \in 0..Window /\ r.version \in {0, chat[c].version}
    <3>1. CASE turnLock = c
      <4> DEFINE r == [chat[c] EXCEPT !.pc = "checkpoint"]
      <4>1. r \in RequestRecord /\ r.pc = "checkpoint" /\ r.count = chat[c].count
            /\ r.version = chat[c].version
        BY <1>1 DEF RequestRecord
      <4>2. chat' = [chat EXCEPT ![c] = r]
        BY <1>1, <2>1, <3>1
      <4> HIDE DEF r
      <4> QED
        BY <1>3, <4>1, <4>2
    <3>2. CASE turnLock # c
      BY <1>5, <2>1, <3>2
    <3> QED
      BY <3>1, <3>2
  <2>3. /\ messages \in Seq(MessageRow) /\ Turn(c) \in Keys \cup Nat /\ Turn(c) \in TurnIds
        /\ chat[c].regenerate \in BOOLEAN /\ chat[c].version \in Nat
    BY <1>1, ConversationTurn, ConversationTurnIds DEF ConversationShape, RequestRecord
  <2>4. \A i \in DOMAIN messages' :
           \/ i \in DOMAIN messages /\ messages'[i] = messages[i]
           \/ messages'[i] = Row(Turn(c), "user", 1)
           \/ messages'[i] = Row(Turn(c), "assistant", chat[c].version)
    BY <2>1, <2>3, ConversationAppends
  <2>5. /\ chat[c].version >= 1 /\ chat[c].version + Cardinality(Unversioned) <= sent
        /\ 1 + Cardinality(Unversioned) <= sent
    BY <1>1, <1>3, <2>1
  <2>6. \A i \in DOMAIN messages' :
           /\ messages'[i].turn \in TurnIds /\ messages'[i].version >= 1
           /\ messages'[i].version \in Nat
           /\ messages'[i].version + Cardinality(Unversioned) <= sent
    <3> SUFFICES ASSUME NEW i \in DOMAIN messages'
                 PROVE  /\ messages'[i].turn \in TurnIds /\ messages'[i].version >= 1
                        /\ messages'[i].version \in Nat
                        /\ messages'[i].version + Cardinality(Unversioned) <= sent
      OBVIOUS
    <3>1. CASE i \in DOMAIN messages /\ messages'[i] = messages[i]
      BY <1>2, <3>1
    <3>2. CASE messages'[i] = Row(Turn(c), "user", 1)
      BY <2>3, <2>5, <3>2 DEF Row
    <3>3. CASE messages'[i] = Row(Turn(c), "assistant", chat[c].version)
      BY <2>3, <2>5, <3>3 DEF Row
    <3> QED
      BY <2>4, <3>1, <3>2, <3>3
  <2> QED
    <3>1. /\ thread' \in {"none", "active", "deleted"} /\ severed' \subseteq TurnIds
          /\ memory' \in Seq(TurnIds) /\ Len(memory') <= Window /\ UNCHANGED <<deleting, sent>>
      BY <1>1, <1>4, <2>1
    <3>2. r.pc # "append" /\ r.pc \notin {"queued", "looking", "persist"}
      BY <2>2
    <3> QED
      BY <1>1, <2>2, <2>6, <3>1, <3>2, ConversationBoundsMove
<1>13. ASSUME NEW c \in Callers, SaveCheckpoint(c) PROVE ConversationBounds'
  <2> DEFINE turns == IF chat[c].regenerate THEN memory ELSE memory \o <<Turn(c)>>
             first == IF Len(turns) > Window THEN 2 ELSE 1
  <2>1. /\ memory' = SubSeq(turns, first, Len(turns)) /\ chat' = [chat EXCEPT ![c] = Idle]
        /\ UNCHANGED <<messages, thread, severed, deleting, sent>>
    BY <1>13 DEF SaveCheckpoint, Release
  <2>2. Turn(c) \in TurnIds
    BY <1>1, ConversationTurnIds
  <2>3. turns \in Seq(TurnIds) /\ Len(turns) \in Nat /\ Len(turns) <= Window + 1
    <3>1. CASE chat[c].regenerate
      BY <1>1, <1>4, <3>1
    <3>2. CASE ~chat[c].regenerate
      BY <1>1, <1>4, <2>2, <3>2
    <3> QED
      BY <3>1, <3>2
  <2> HIDE DEF turns
  <2>4. CASE Len(turns) > Window
    <3>1. memory' = SubSeq(turns, 2, Len(turns))
      BY <2>1, <2>4
    <3>2. memory' \in Seq(TurnIds) /\ Len(memory') = Len(turns) - 1
      BY <1>1, <2>3, <2>4, <3>1
    <3> QED
      <4>1. Len(memory') <= Window
        BY <1>1, <2>3, <3>2
      <4> QED
        BY <1>6, <2>1, <3>2, <4>1
  <2>5. CASE ~(Len(turns) > Window)
    <3>1. memory' = SubSeq(turns, 1, Len(turns))
      BY <2>1, <2>5
    <3>2. memory' \in Seq(TurnIds) /\ Len(memory') = Len(turns)
      BY <1>1, <2>3, <2>5, <3>1
    <3> QED
      <4>1. Len(memory') <= Window
        BY <1>1, <2>3, <2>5, <3>2
      <4> QED
        BY <1>6, <2>1, <3>2, <4>1
  <2> QED
    BY <2>4, <2>5
<1>14. ASSUME NEW c \in Callers, Disconnect(c) PROVE ConversationBounds'
  <2>1. /\ UNCHANGED <<messages, memory, thread, chat, deleting, sent>>
        /\ severed' \subseteq TurnIds /\ Unversioned' = Unversioned
    BY <1>1, <1>4, <1>14, ConversationTurnIds DEF Disconnect, Unversioned
  <2> QED
    BY <2>1 DEF ConversationBounds
<1>15. CASE DeleteThread \/ DeleteMessages \/ UNCHANGED cvars
  <2>1. /\ UNCHANGED <<memory, chat, severed, sent>> /\ Unversioned' = Unversioned
        /\ thread' \in {"none", "active", "deleted"} /\ deleting' \in BOOLEAN
    BY <1>4, <1>15 DEF DeleteThread, DeleteMessages, cvars, Unversioned, ConversationBounds
  <2>2. /\ DOMAIN messages' = DOMAIN messages
        /\ \A i \in DOMAIN messages : /\ messages'[i].turn = messages[i].turn
                                      /\ messages'[i].version = messages[i].version
    <3>1. \A i \in DOMAIN messages : messages[i] \in MessageRow
      BY <1>1 DEF ConversationShape
    <3>2. CASE UNCHANGED messages
      BY <3>2
    <3>3. CASE messages' = [i \in DOMAIN messages |-> [messages[i] EXCEPT !.live = FALSE]]
      BY <3>1, <3>3 DEF MessageRow
    <3> QED
      BY <1>15, <3>2, <3>3 DEF DeleteThread, DeleteMessages, cvars
  <2> QED
    BY <2>1, <2>2 DEF ConversationBounds
<1> QED
  BY <1>7, <1>8, <1>9, <1>10, <1>11, <1>12, <1>13, <1>14, <1>15 DEF ConversationNext

\* Messages, memory and requests keep their types: the memory never holds more
\* turns than its window, and a version never exceeds the requests made.
THEOREM ConversationTyped == ConversationSpec => []ConversationTypeOK
<1>1. ConversationInv /\ ConversationBounds => ConversationTypeOK
  <2> SUFFICES ASSUME ConversationInv, ConversationBounds PROVE ConversationTypeOK
    OBVIOUS
  <2>1. /\ messages \in Seq(MessageRow) /\ chat \in [Callers -> RequestRecord]
        /\ turnLock \in Callers \cup {NoCaller} /\ sent \in Nat /\ sent <= MaxRequests
        /\ MaxRequests \in Nat /\ Cardinality(Unversioned) \in Nat
    BY WindowAssumption, FS_CardinalityType
    DEF ConversationInv, ConversationShape, ConversationBounds
  <2>2. messages \in Seq([turn : TurnIds, role : {"user", "assistant"},
                          version : 1..(MaxRequests + 1), live : BOOLEAN])
    <3>1. \A i \in 1..Len(messages) :
             messages[i] \in [turn : TurnIds, role : {"user", "assistant"},
                              version : 1..(MaxRequests + 1), live : BOOLEAN]
      <4> SUFFICES ASSUME NEW i \in 1..Len(messages)
                   PROVE  messages[i] \in [turn : TurnIds, role : {"user", "assistant"},
                                           version : 1..(MaxRequests + 1), live : BOOLEAN]
        OBVIOUS
      <4>1. messages[i] \in MessageRow /\ i \in DOMAIN messages
        BY <2>1
      <4>2. /\ messages[i].turn \in TurnIds /\ messages[i].version >= 1
            /\ messages[i].version + Cardinality(Unversioned) <= sent
        BY <4>1 DEF ConversationBounds
      <4>3. messages[i].version \in 1..(MaxRequests + 1)
        BY <2>1, <4>1, <4>2 DEF MessageRow
      <4> QED
        BY <4>1, <4>2, <4>3 DEF MessageRow
    <3> DEFINE R == [turn : TurnIds, role : {"user", "assistant"},
                     version : 1..(MaxRequests + 1), live : BOOLEAN]
    <3>2. \A i \in 1..Len(messages) : messages[i] \in R
      BY <3>1
    <3> HIDE DEF R
    <3>3. messages \in Seq(R)
      BY <2>1, <3>2
    <3> QED
      BY <3>3 DEF R
  <2>3. chat \in [Callers -> [pc : {"idle", "queued", "looking", "persist", "append", "checkpoint"},
                              key : Keys \cup {NoKey}, regenerate : BOOLEAN,
                              count : 0..Window, version : 0..(MaxRequests + 1)]]
    <3> SUFFICES ASSUME NEW c \in Callers
                 PROVE  chat[c] \in [pc : {"idle", "queued", "looking", "persist", "append", "checkpoint"},
                                     key : Keys \cup {NoKey}, regenerate : BOOLEAN,
                                     count : 0..Window, version : 0..(MaxRequests + 1)]
      BY <2>1
    <3>1. chat[c] \in RequestRecord
      BY <2>1
    <3>2. chat[c].count \in 0..Window /\ chat[c].version + Cardinality(Unversioned) <= sent
      BY DEF ConversationBounds
    <3>3. chat[c].version \in 0..(MaxRequests + 1)
      BY <2>1, <3>1, <3>2 DEF RequestRecord
    <3> QED
      BY <3>1, <3>2, <3>3 DEF RequestRecord
  <2> QED
    BY <2>1, <2>2, <2>3 DEF ConversationBounds, ConversationTypeOK
<1> QED
  BY <1>1, ConversationBoundsInit, ConversationBoundsStep, ConversationInvariant, PTL
  DEF ConversationSpec

-----------------------------------------------------------------------------
(***************************************************************************)
(* AccessShape tickets, for any number of requests at a time.  The compare-and- *)
(* set of redeem_ticket leaves at most one request between redeeming a     *)
(* download and opening its object.                                        *)
(***************************************************************************)

AccessStages == {"idle", "found", "verified", "available", "redeemed"}
AccessShape == [stage : AccessStages, purpose : Purposes, ticket : Nat]

TicketShapes ==
    /\ tickets \in Seq(Ticket) /\ served \in Seq(Nat) /\ Len(served) = Len(tickets)
    /\ access \in [Holders -> AccessShape]

\* A request that has verified a ticket holds a ticket of the table.
HoldsTicket ==
    \A h \in Holders : access[h].stage \in {"verified", "available", "redeemed"} =>
        access[h].ticket \in 1..Len(tickets)

\* A request about to open an object has redeemed its ticket; a download has
\* one such request at most, and only while nothing has been opened.
OpensRedeemed ==
    \A h \in Holders : access[h].stage = "redeemed" =>
        /\ tickets[access[h].ticket].redeemed
        /\ tickets[access[h].ticket].purpose = "download" =>
            /\ served[access[h].ticket] = 0
            /\ \A k \in Holders : access[k].stage = "redeemed" /\ access[k].ticket = access[h].ticket
                                  => k = h

TicketsInv == TicketShapes /\ HoldsTicket /\ OpensRedeemed /\ DownloadedOnce

----------------------------------------------------------------------------
(* Lemmas about operators.                                                 *)

LEMMA TicketReplaced ==
    ASSUME NEW S, NEW s \in Seq(S), NEW v \in 1..Len(s), NEW x \in S
    PROVE  LET t == [s EXCEPT ![v] = x] IN
           /\ t \in Seq(S) /\ Len(t) = Len(s) /\ t[v] = x
           /\ \A d \in 1..Len(s) : d # v => t[d] = s[d]
OBVIOUS

LEMMA TicketAppended ==
    ASSUME NEW S, NEW s \in Seq(S), NEW x \in S
    PROVE  LET t == Append(s, x) IN
           /\ t \in Seq(S) /\ Len(t) = Len(s) + 1 /\ Len(s) \in Nat /\ t[Len(s) + 1] = x
           /\ \A d \in 1..Len(s) : t[d] = s[d]
OBVIOUS

LEMMA TicketRows ==
    ASSUME TicketsInv
    PROVE  DOMAIN tickets = 1..Len(tickets) /\ Len(tickets) \in Nat
BY DEF TicketsInv, TicketShapes

----------------------------------------------------------------------------
(* The invariant holds initially, and every step keeps it.                 *)

LEMMA TicketsInvInit == TicketsInit => TicketsInv
<1> SUFFICES ASSUME TicketsInit PROVE TicketsInv
  OBVIOUS
<1>1. NoAccess \in AccessShape /\ NoAccess.stage = "idle"
  BY DEF NoAccess, AccessShape, AccessStages, Purposes
<1>2. TicketShapes /\ HoldsTicket /\ OpensRedeemed
  BY <1>1 DEF TicketsInit, TicketShapes, HoldsTicket, OpensRedeemed
<1>3. DownloadedOnce
  BY DEF TicketsInit, DownloadedOnce
<1> QED
  BY <1>2, <1>3 DEF TicketsInv

\* A request that redeems nothing and leaves the tables alone.
LEMMA TicketTablesRest ==
    ASSUME TicketsInv, UNCHANGED <<tickets, served>>, NEW h \in Holders, NEW a \in AccessShape,
           access' = [access EXCEPT ![h] = a], a.stage # "redeemed",
           a.stage \in {"verified", "available"} => a.ticket \in 1..Len(tickets)
    PROVE  TicketsInv'
<1>1. /\ access' \in [Holders -> AccessShape] /\ access'[h] = a
      /\ \A k \in Holders \ {h} : access'[k] = access[k]
  BY DEF TicketsInv, TicketShapes
<1>2. TicketShapes' /\ DownloadedOnce'
  BY <1>1 DEF TicketsInv, TicketShapes, DownloadedOnce
<1>3. HoldsTicket'
  BY <1>1 DEF TicketsInv, HoldsTicket
<1>4. OpensRedeemed'
  BY <1>1 DEF TicketsInv, OpensRedeemed
<1> QED
  BY <1>2, <1>3, <1>4 DEF TicketsInv

LEMMA TicketRestingKept ==
    ASSUME TicketsInv, NEW h \in Holders,
           \/ \E purpose \in Purposes : AskTicket(h, purpose)
           \/ \E t \in DOMAIN tickets : VerifyTicket(h, t)
           \/ FindArtifact(h) \/ Break(h)
    PROVE  TicketsInv'
<1>0. NoAccess \in AccessShape /\ access[h] \in AccessShape /\ tickets \in Seq(Ticket)
  BY DEF NoAccess, AccessShape, AccessStages, Purposes, TicketsInv, TicketShapes
<1>1. ASSUME NEW purpose \in Purposes, AskTicket(h, purpose) PROVE TicketsInv'
  <2> DEFINE a == [NoAccess EXCEPT !.stage = "found", !.purpose = purpose]
  <2>1. a \in AccessShape /\ a.stage = "found"
    BY <1>0 DEF AccessShape, AccessStages
  <2>2. access' = [access EXCEPT ![h] = a] /\ UNCHANGED <<tickets, served>>
    BY <1>1 DEF AskTicket
  <2> HIDE DEF a
  <2> QED
    BY <2>1, <2>2, TicketTablesRest
<1>2. ASSUME NEW t \in DOMAIN tickets, VerifyTicket(h, t) PROVE TicketsInv'
  <2> DEFINE a == [stage |-> "verified", ticket |-> t, purpose |-> tickets[t].purpose]
  <2>1. t \in 1..Len(tickets) /\ tickets[t] \in Ticket
    BY <1>0
  <2>2. a \in AccessShape /\ a.stage = "verified" /\ a.ticket \in 1..Len(tickets)
    BY <1>0, <2>1 DEF AccessShape, AccessStages, Ticket
  <2>3. access' = [access EXCEPT ![h] = a] /\ UNCHANGED <<tickets, served>>
    BY <1>2 DEF VerifyTicket
  <2> HIDE DEF a
  <2> QED
    BY <2>2, <2>3, TicketTablesRest
<1>3. CASE FindArtifact(h)
  <2>1. access[h].ticket \in 1..Len(tickets)
    BY <1>3 DEF FindArtifact, TicketsInv, HoldsTicket
  <2>2. PICK a \in AccessShape : /\ access' = [access EXCEPT ![h] = a] /\ a.stage \in {"idle", "available"}
                                 /\ a.ticket = access[h].ticket \/ a.stage = "idle"
    BY <1>0, <1>3 DEF FindArtifact, Moves, Refused, AccessShape, AccessStages, NoAccess
  <2> QED
    BY <1>3, <2>1, <2>2, TicketTablesRest DEF FindArtifact
<1>4. CASE Break(h)
  BY <1>0, <1>4, TicketTablesRest DEF Break, Refused, NoAccess
<1> QED
  BY <1>1, <1>2, <1>3, <1>4

\* A row that expires keeps its purpose and whether it was redeemed.
LEMMA TicketExpireKept ==
    ASSUME TicketsInv, NEW t \in DOMAIN tickets, Expire(t)
    PROVE  TicketsInv'
<1> DEFINE x == [tickets[t] EXCEPT !.live = FALSE]
<1>1. /\ tickets \in Seq(Ticket) /\ t \in 1..Len(tickets) /\ tickets[t] \in Ticket
      /\ UNCHANGED <<access, served>> /\ tickets' = [tickets EXCEPT ![t] = x]
  BY TicketRows DEF TicketsInv, TicketShapes, Expire
<1>2. x \in Ticket /\ x.purpose = tickets[t].purpose /\ x.redeemed = tickets[t].redeemed
  BY <1>1 DEF Ticket
<1> HIDE DEF x
<1>3. /\ tickets' \in Seq(Ticket) /\ Len(tickets') = Len(tickets) /\ tickets'[t] = x
      /\ \A d \in 1..Len(tickets) : d # t => tickets'[d] = tickets[d]
  BY <1>1, <1>2, TicketReplaced
<1>4. \A d \in 1..Len(tickets) : /\ tickets'[d].purpose = tickets[d].purpose
                                 /\ tickets'[d].redeemed = tickets[d].redeemed
  BY <1>2, <1>3
<1>5. DOMAIN tickets = 1..Len(tickets) /\ DOMAIN tickets' = 1..Len(tickets)
  BY <1>1, <1>3
<1>6. TicketShapes' /\ HoldsTicket'
  BY <1>1, <1>3 DEF TicketsInv, TicketShapes, HoldsTicket
<1>7. OpensRedeemed'
  BY <1>1, <1>4 DEF TicketsInv, OpensRedeemed, HoldsTicket
<1>8. DownloadedOnce'
  BY <1>1, <1>4, <1>5 DEF TicketsInv, DownloadedOnce
<1> QED
  BY <1>6, <1>7, <1>8 DEF TicketsInv

LEMMA TicketRecordKept ==
    ASSUME TicketsInv, NEW h \in Holders, RecordTicket(h)
    PROVE  TicketsInv'
<1> DEFINE x == [purpose |-> access[h].purpose, live |-> TRUE, redeemed |-> FALSE]
<1>1. /\ tickets \in Seq(Ticket) /\ served \in Seq(Nat) /\ Len(served) = Len(tickets)
      /\ tickets' = Append(tickets, x) /\ served' = Append(served, 0)
      /\ access' = [access EXCEPT ![h] = NoAccess] /\ access \in [Holders -> AccessShape]
  BY DEF TicketsInv, TicketShapes, RecordTicket, Refused
<1>2. x \in Ticket /\ NoAccess \in AccessShape /\ NoAccess.stage = "idle"
  BY <1>1 DEF AccessShape, Ticket, NoAccess, AccessStages, Purposes
<1> HIDE DEF x
<1>3. /\ tickets' \in Seq(Ticket) /\ Len(tickets') = Len(tickets) + 1 /\ Len(tickets) \in Nat
      /\ \A d \in 1..Len(tickets) : tickets'[d] = tickets[d]
  BY <1>1, <1>2, TicketAppended
<1>4. /\ served' \in Seq(Nat) /\ Len(served') = Len(tickets) + 1 /\ served'[Len(tickets) + 1] = 0
      /\ \A d \in 1..Len(tickets) : served'[d] = served[d]
  BY <1>1, TicketAppended
<1>5. /\ access' \in [Holders -> AccessShape] /\ access'[h].stage = "idle"
      /\ \A k \in Holders \ {h} : access'[k] = access[k]
  BY <1>1, <1>2
<1>6. TicketShapes'
  BY <1>3, <1>4, <1>5 DEF TicketShapes
<1>7. HoldsTicket'
  <2>1. 1..Len(tickets) \subseteq 1..Len(tickets')
    BY <1>3
  <2> QED
    BY <1>5, <2>1 DEF TicketsInv, HoldsTicket
<1>8. OpensRedeemed'
  <2> SUFFICES ASSUME NEW k \in Holders, access'[k].stage = "redeemed"
               PROVE  /\ tickets'[access'[k].ticket].redeemed
                      /\ tickets'[access'[k].ticket].purpose = "download" =>
                          /\ served'[access'[k].ticket] = 0
                          /\ \A j \in Holders : access'[j].stage = "redeemed"
                                /\ access'[j].ticket = access'[k].ticket => j = k
    BY DEF OpensRedeemed
  <2>1. access'[k] = access[k] /\ access[k].ticket \in 1..Len(tickets)
    BY <1>5 DEF TicketsInv, HoldsTicket
  <2> QED
    BY <1>3, <1>4, <1>5, <2>1 DEF TicketsInv, OpensRedeemed
<1>9. DownloadedOnce'
  <2>1. DOMAIN tickets' = 1..(Len(tickets) + 1) /\ DOMAIN tickets = 1..Len(tickets)
    BY <1>1, <1>3
  <2>2. \A d \in 1..(Len(tickets) + 1) : d \in 1..Len(tickets) \/ d = Len(tickets) + 1
    BY <1>3
  <2> QED
    BY <1>3, <1>4, <2>1, <2>2 DEF TicketsInv, DownloadedOnce
<1> QED
  BY <1>6, <1>7, <1>8, <1>9 DEF TicketsInv

\* A redemption that changes nothing would have failed: the first request to
\* redeem a download shuts out the others.
LEMMA TicketRedeemKept ==
    ASSUME TicketsInv, NEW h \in Holders, RedeemTicket(h)
    PROVE  TicketsInv'
<1> DEFINE t == access[h].ticket
           x == [tickets[t] EXCEPT !.redeemed = TRUE]
<1>1. /\ tickets \in Seq(Ticket) /\ t \in 1..Len(tickets) /\ tickets[t] \in Ticket
      /\ served \in Seq(Nat) /\ access \in [Holders -> AccessShape] /\ UNCHANGED served
      /\ access[h].stage = "available"
  BY TicketRows DEF TicketsInv, TicketShapes, HoldsTicket, RedeemTicket
<1>2. CASE ~Redeemable(t)
  <2>1. NoAccess \in AccessShape /\ NoAccess.stage = "idle"
    BY DEF NoAccess, AccessShape, AccessStages, Purposes
  <2> QED
    BY <1>2, <2>1, TicketTablesRest DEF RedeemTicket, Refused
<1>3. CASE Redeemable(t)
  <2>1. /\ tickets' = [tickets EXCEPT ![t] = x]
        /\ access' = [access EXCEPT ![h].stage = "redeemed"]
    BY <1>3 DEF RedeemTicket, Moves
  <2>2. x \in Ticket /\ x.purpose = tickets[t].purpose /\ x.redeemed
    BY <1>1 DEF Ticket
  <2>3. /\ access' \in [Holders -> AccessShape] /\ access'[h].stage = "redeemed" /\ access'[h].ticket = t
        /\ \A k \in Holders \ {h} : access'[k] = access[k]
    BY <1>1, <2>1 DEF AccessShape, AccessStages
  <2> HIDE DEF x
  <2>4. /\ tickets' \in Seq(Ticket) /\ Len(tickets') = Len(tickets) /\ tickets'[t] = x
        /\ \A d \in 1..Len(tickets) : d # t => tickets'[d] = tickets[d]
    BY <1>1, <2>1, <2>2, TicketReplaced
  <2>5. /\ DOMAIN tickets = 1..Len(tickets) /\ DOMAIN tickets' = 1..Len(tickets)
        /\ \A d \in 1..Len(tickets) : /\ tickets'[d].purpose = tickets[d].purpose
                                      /\ tickets[d].redeemed => tickets'[d].redeemed
    BY <1>1, <2>2, <2>4
  <2>6. tickets[t].purpose = "download" => ~tickets[t].redeemed /\ served[t] = 0
    <3>1. tickets[t].purpose = "download" => ~tickets[t].redeemed
      BY <1>3 DEF Redeemable
    <3>2. served[t] > 0 => tickets[t].redeemed
      BY <1>1, <2>5 DEF TicketsInv, DownloadedOnce
    <3>3. served[t] \in Nat
      BY <1>1 DEF TicketsInv, TicketShapes
    <3> QED
      BY <3>1, <3>2, <3>3
  <2>7. \A k \in Holders : access[k].stage = "redeemed" /\ access[k].ticket = t => tickets[t].redeemed
    BY DEF TicketsInv, OpensRedeemed
  <2> HIDE DEF t
  <2>8. TicketShapes' /\ HoldsTicket'
    BY <1>1, <2>3, <2>4 DEF TicketsInv, TicketShapes, HoldsTicket
  <2>9. OpensRedeemed'
    <3> SUFFICES ASSUME NEW k \in Holders, access'[k].stage = "redeemed"
                 PROVE  /\ tickets'[access'[k].ticket].redeemed
                        /\ tickets'[access'[k].ticket].purpose = "download" =>
                            /\ served'[access'[k].ticket] = 0
                            /\ \A j \in Holders : access'[j].stage = "redeemed"
                                  /\ access'[j].ticket = access'[k].ticket => j = k
      BY DEF OpensRedeemed
    <3>1. CASE k = h
      BY <1>1, <2>2, <2>3, <2>4, <2>6, <2>7, <3>1
    <3>2. CASE k # h
      <4>1. access'[k] = access[k] /\ access[k].ticket \in 1..Len(tickets)
        BY <2>3, <3>2 DEF TicketsInv, HoldsTicket
      <4>2. tickets[access[k].ticket].redeemed
        BY <4>1 DEF TicketsInv, OpensRedeemed
      <4>3. tickets[access[k].ticket].purpose = "download" =>
              /\ served[access[k].ticket] = 0 /\ access[k].ticket # t
              /\ \A j \in Holders : access[j].stage = "redeemed"
                    /\ access[j].ticket = access[k].ticket => j = k
        BY <2>6, <4>1, <4>2 DEF TicketsInv, OpensRedeemed
      <4> QED
        BY <1>1, <2>3, <2>5, <4>1, <4>2, <4>3
    <3> QED
      BY <3>1, <3>2
  <2>10. DownloadedOnce'
    BY <1>1, <2>5 DEF TicketsInv, DownloadedOnce
  <2> QED
    BY <2>8, <2>9, <2>10 DEF TicketsInv
<1> QED
  BY <1>2, <1>3

LEMMA TicketOpenKept ==
    ASSUME TicketsInv, NEW h \in Holders, OpenObject(h)
    PROVE  TicketsInv'
<1> DEFINE t == access[h].ticket
<1>1. /\ t \in 1..Len(tickets) /\ access[h].stage = "redeemed"
      /\ served \in Seq(Nat) /\ Len(served) = Len(tickets) /\ tickets \in Seq(Ticket)
      /\ access \in [Holders -> AccessShape] /\ UNCHANGED tickets
      /\ access' = [access EXCEPT ![h] = NoAccess]
  BY DEF TicketsInv, TicketShapes, HoldsTicket, OpenObject, Refused
<1>2. NoAccess \in AccessShape /\ NoAccess.stage = "idle"
  BY DEF NoAccess, AccessShape, AccessStages, Purposes
<1>3. CASE UNCHANGED served
  BY <1>1, <1>2, <1>3, TicketTablesRest
<1>4. CASE served' = [served EXCEPT ![t] = served[t] + 1]
  <2>1. served[t] \in Nat /\ tickets[t].redeemed
        /\ (tickets[t].purpose = "download" => served[t] = 0)
    BY <1>1 DEF TicketsInv, OpensRedeemed
  <2>2. \A k \in Holders \ {h} : access[k].stage = "redeemed" /\ access[k].ticket = t
                                 => tickets[t].purpose # "download"
    BY <1>1 DEF TicketsInv, OpensRedeemed
  <2> HIDE DEF t
  <2>3. /\ served' \in Seq(Nat) /\ Len(served') = Len(served) /\ served'[t] = served[t] + 1
        /\ \A d \in 1..Len(served) : d # t => served'[d] = served[d]
    BY <1>1, <1>4, <2>1, TicketReplaced
  <2>4. /\ access' \in [Holders -> AccessShape] /\ access'[h].stage = "idle"
        /\ \A k \in Holders \ {h} : access'[k] = access[k]
    BY <1>1, <1>2
  <2>5. TicketShapes' /\ HoldsTicket'
    BY <1>1, <2>3, <2>4 DEF TicketsInv, TicketShapes, HoldsTicket
  <2>6. OpensRedeemed'
    <3> SUFFICES ASSUME NEW k \in Holders, access'[k].stage = "redeemed"
                 PROVE  /\ tickets'[access'[k].ticket].redeemed
                        /\ tickets'[access'[k].ticket].purpose = "download" =>
                            /\ served'[access'[k].ticket] = 0
                            /\ \A j \in Holders : access'[j].stage = "redeemed"
                                  /\ access'[j].ticket = access'[k].ticket => j = k
      BY DEF OpensRedeemed
    <3>1. k # h /\ access'[k] = access[k] /\ access[k].ticket \in 1..Len(tickets)
      BY <2>4 DEF TicketsInv, HoldsTicket
    <3>2. tickets[access[k].ticket].purpose = "download" => access[k].ticket # t
      BY <2>2, <2>4, <3>1
    <3> QED
      BY <1>1, <2>3, <2>4, <3>1, <3>2 DEF TicketsInv, OpensRedeemed
  <2>7. DownloadedOnce'
    <3>1. DOMAIN tickets = 1..Len(tickets) /\ tickets' = tickets /\ Len(served) = Len(tickets)
      BY <1>1
    <3>2. ASSUME NEW d \in 1..Len(tickets)
          PROVE  /\ tickets[d].purpose = "download" => served'[d] <= 1
                 /\ served'[d] > 0 => tickets[d].redeemed
      <4>1. CASE d = t
        BY <2>1, <2>3, <4>1
      <4>2. CASE d # t
        <5>1. served'[d] = served[d]
          BY <2>3, <3>1, <4>2
        <5> QED
          BY <3>1, <5>1 DEF TicketsInv, DownloadedOnce
      <4> QED
        BY <4>1, <4>2
    <3> QED
      BY <3>1, <3>2 DEF DownloadedOnce
  <2> QED
    BY <2>5, <2>6, <2>7 DEF TicketsInv
<1> QED
  BY <1>3, <1>4 DEF OpenObject

LEMMA TicketsInvStep == TicketsInv /\ [TicketsNext]_avars => TicketsInv'
<1> SUFFICES ASSUME TicketsInv, [TicketsNext]_avars PROVE TicketsInv'
  OBVIOUS
<1>1. CASE PublishArtifact \/ UNCHANGED avars
  <2>1. UNCHANGED <<tickets, access, served>>
    BY <1>1 DEF PublishArtifact, avars
  <2>2. TicketShapes' /\ HoldsTicket'
    BY <2>1 DEF TicketsInv, TicketShapes, HoldsTicket
  <2>3. OpensRedeemed' /\ DownloadedOnce'
    BY <2>1 DEF TicketsInv, OpensRedeemed, DownloadedOnce
  <2> QED
    BY <2>2, <2>3 DEF TicketsInv
<1> QED
  BY <1>1, TicketExpireKept, TicketRestingKept, TicketRecordKept, TicketRedeemKept, TicketOpenKept DEF TicketsNext

----------------------------------------------------------------------------
(* Theorems.                                                               *)

\* A download ticket opens its object at most once, for any number of requests
\* that hold it, and what has been opened was redeemed.
THEOREM DownloadedOnceHolds == TicketsSpec => []DownloadedOnce
<1>1. TicketsInv => DownloadedOnce
  BY DEF TicketsInv
<1> QED
  BY <1>1, TicketsInvInit, TicketsInvStep, PTL DEF TicketsSpec

----------------------------------------------------------------------------
\* The requests under way, which have been counted and have not opened an
\* object yet.
Busy == {h \in Holders : access[h].stage # "idle"}

\* A request opens one object at most, so that the requests made bound what a
\* ticket has been used for.
TicketBounds ==
    /\ Len(tickets) <= MaxTickets /\ accesses \in 0..MaxAccesses
    /\ deliverable \subseteq Purposes
    /\ IsFiniteSet(Busy) /\ Cardinality(Busy) <= accesses
    /\ \A t \in 1..Len(tickets) : served[t] + Cardinality(Busy) <= accesses
    /\ \A h \in Holders : access[h].ticket \in 0..Len(tickets)

\* A request that is answered, or fails, and one that is made.
LEMMA BusyLeaves ==
    ASSUME IsFiniteSet(Busy), NEW h \in Holders, access' = [access EXCEPT ![h] = NoAccess],
           access \in [Holders -> AccessShape]
    PROVE  /\ IsFiniteSet(Busy') /\ Cardinality(Busy') \in Nat
           /\ Cardinality(Busy') <= Cardinality(Busy)
           /\ h \in Busy => Cardinality(Busy') = Cardinality(Busy) - 1
<1>1. Busy' = Busy \ {h}
  BY DEF Busy, NoAccess
<1>2. IsFiniteSet(Busy \ {h}) /\ Cardinality(Busy) \in Nat
      /\ Cardinality(Busy \ {h}) = IF h \in Busy THEN Cardinality(Busy) - 1 ELSE Cardinality(Busy)
  BY FS_RemoveElement, FS_CardinalityType
<1>3. Cardinality(Busy \ {h}) \in Nat
  BY <1>2, FS_CardinalityType
<1> QED
  BY <1>1, <1>2, <1>3

LEMMA BusyJoins ==
    ASSUME IsFiniteSet(Busy), NEW h \in Holders, NEW a, a.stage # "idle", h \notin Busy,
           access' = [access EXCEPT ![h] = a], access \in [Holders -> AccessShape]
    PROVE  IsFiniteSet(Busy') /\ Cardinality(Busy') = Cardinality(Busy) + 1
<1>1. Busy' = Busy \cup {h}
  BY DEF Busy
<1> QED
  BY <1>1, FS_AddElement

LEMMA TicketBoundsInit == TicketsInit => TicketBounds
<1> SUFFICES ASSUME TicketsInit PROVE TicketBounds
  OBVIOUS
<1>1. Busy = {}
  BY DEF TicketsInit, Busy, NoAccess
<1>2. IsFiniteSet(Busy) /\ Cardinality(Busy) = 0
  BY <1>1, FS_EmptySet
<1> QED
  BY <1>2, TicketAssumption DEF TicketsInit, TicketBounds, NoAccess

LEMMA TicketBoundsStep == TicketsInv /\ TicketBounds /\ [TicketsNext]_avars => TicketBounds'
<1> SUFFICES ASSUME TicketsInv, TicketBounds, [TicketsNext]_avars PROVE TicketBounds'
  OBVIOUS
<1>1. /\ tickets \in Seq(Ticket) /\ served \in Seq(Nat) /\ Len(served) = Len(tickets)
      /\ Len(tickets) \in Nat /\ DOMAIN tickets = 1..Len(tickets)
      /\ access \in [Holders -> AccessShape] /\ accesses \in Nat /\ accesses <= MaxAccesses
      /\ IsFiniteSet(Busy) /\ Cardinality(Busy) \in Nat /\ Cardinality(Busy) <= accesses
      /\ MaxTickets \in Nat /\ MaxAccesses \in Nat
  BY TicketAssumption, FS_CardinalityType DEF TicketsInv, TicketShapes, TicketBounds
<1>2. \A t \in 1..Len(tickets) : served[t] \in Nat /\ served[t] + Cardinality(Busy) <= accesses
  BY <1>1 DEF TicketBounds
<1>3. \A h \in Holders : access[h].ticket \in 0..Len(tickets)
  BY DEF TicketBounds
<1>4. NoAccess.ticket = 0
  BY DEF NoAccess
<1>5. CASE PublishArtifact \/ (\E t \in DOMAIN tickets : Expire(t)) \/ UNCHANGED avars
  <2>1. UNCHANGED <<served, access, accesses>> /\ deliverable' \subseteq Purposes
        /\ Len(tickets') = Len(tickets)
    BY <1>1, <1>5 DEF PublishArtifact, Expire, avars, Purposes, TicketBounds
  <2> QED
    BY <2>1 DEF TicketBounds, Busy
<1>6. ASSUME NEW h \in Holders, NEW a, a.stage # "idle", a.ticket \in 0..Len(tickets),
             access[h].stage = "idle", access' = [access EXCEPT ![h] = a],
             accesses < MaxAccesses, accesses' = accesses + 1,
             UNCHANGED <<deliverable, tickets, served>>
      PROVE  TicketBounds'
  <2>1. h \notin Busy
    BY <1>6 DEF Busy
  <2>2. IsFiniteSet(Busy') /\ Cardinality(Busy') = Cardinality(Busy) + 1
    BY <1>1, <1>6, <2>1, BusyJoins
  <2>3. \A k \in Holders : access'[k].ticket \in 0..Len(tickets)
    BY <1>1, <1>3, <1>6
  <2> QED
    BY <1>1, <1>2, <1>6, <2>2, <2>3 DEF TicketBounds
<1>7. ASSUME NEW h \in Holders, NEW stage, access' = [access EXCEPT ![h].stage = stage],
             access[h].stage # "idle", stage # "idle", Len(tickets') = Len(tickets),
             UNCHANGED <<deliverable, served, accesses>>
      PROVE  TicketBounds'
  <2>1. Busy' = Busy
    BY <1>1, <1>7 DEF Busy, AccessShape
  <2>2. \A k \in Holders : access'[k].ticket \in 0..Len(tickets)
    BY <1>1, <1>3, <1>7 DEF AccessShape
  <2> QED
    BY <1>7, <2>1, <2>2 DEF TicketBounds
<1>8. ASSUME NEW h \in Holders, access' = [access EXCEPT ![h] = NoAccess],
             access[h].stage # "idle", UNCHANGED <<deliverable, accesses>>,
             \/ UNCHANGED <<tickets, served>>
             \/ /\ Len(tickets') = Len(tickets) + 1 /\ Len(tickets) < MaxTickets
                /\ \A t \in 1..Len(tickets) : served'[t] = served[t]
                /\ served'[Len(tickets) + 1] = 0
             \/ /\ Len(tickets') = Len(tickets)
                /\ \A t \in 1..Len(tickets) : served'[t] \in {served[t], served[t] + 1}
      PROVE  TicketBounds'
  <2>1. h \in Busy
    BY <1>8 DEF Busy
  <2>2. /\ IsFiniteSet(Busy') /\ Cardinality(Busy') \in Nat
        /\ Cardinality(Busy') = Cardinality(Busy) - 1
    BY <1>1, <1>8, <2>1, BusyLeaves
  <2>3. Len(tickets') \in Nat /\ Len(tickets) <= Len(tickets') /\ Len(tickets') <= MaxTickets
    BY <1>1, <1>8 DEF TicketBounds
  <2>4. \A k \in Holders : access'[k].ticket \in 0..Len(tickets')
    BY <1>1, <1>3, <1>4, <1>8, <2>3
  <2>5. \A t \in 1..Len(tickets') : served'[t] + Cardinality(Busy') <= accesses
    <3> SUFFICES ASSUME NEW t \in 1..Len(tickets') PROVE served'[t] + Cardinality(Busy') <= accesses
      OBVIOUS
    <3>1. CASE t \in 1..Len(tickets) /\ served'[t] \in {served[t], served[t] + 1}
      <4>1. served[t] \in Nat /\ served[t] + Cardinality(Busy) <= accesses
        BY <1>2, <3>1
      <4>2. Cardinality(Busy') + 1 = Cardinality(Busy)
        BY <1>1, <2>2
      <4> QED
        BY <1>1, <2>2, <3>1, <4>1, <4>2
    <3>2. CASE t = Len(tickets) + 1 /\ served'[t] = 0
      BY <1>1, <2>2, <3>2
    <3> QED
      BY <1>1, <1>8, <3>1, <3>2
  <2> QED
    BY <1>1, <1>8, <2>2, <2>3, <2>4, <2>5 DEF TicketBounds
<1>9. ASSUME NEW h \in Holders,
             \/ \E purpose \in Purposes : AskTicket(h, purpose)
             \/ \E t \in DOMAIN tickets : VerifyTicket(h, t)
      PROVE  TicketBounds'
  <2>1. CASE \E purpose \in Purposes : AskTicket(h, purpose)
    <3>1. PICK purpose \in Purposes : AskTicket(h, purpose)
      BY <2>1
    <3> DEFINE a == [NoAccess EXCEPT !.stage = "found", !.purpose = purpose]
    <3>2. a.stage # "idle" /\ a.ticket \in 0..Len(tickets)
      BY <1>1 DEF NoAccess
    <3>3. /\ access[h].stage = "idle" /\ access' = [access EXCEPT ![h] = a]
          /\ accesses < MaxAccesses /\ accesses' = accesses + 1
          /\ UNCHANGED <<deliverable, tickets, served>>
      BY <3>1 DEF AskTicket
    <3> HIDE DEF a
    <3> QED
      BY <1>6, <3>2, <3>3
  <2>2. CASE \E t \in DOMAIN tickets : VerifyTicket(h, t)
    <3>1. PICK t \in DOMAIN tickets : VerifyTicket(h, t)
      BY <2>2
    <3> DEFINE a == [stage |-> "verified", ticket |-> t, purpose |-> tickets[t].purpose]
    <3>2. a.stage # "idle" /\ a.ticket \in 0..Len(tickets)
      BY <1>1
    <3>3. /\ access[h].stage = "idle" /\ access' = [access EXCEPT ![h] = a]
          /\ accesses < MaxAccesses /\ accesses' = accesses + 1
          /\ UNCHANGED <<deliverable, tickets, served>>
      BY <3>1 DEF VerifyTicket
    <3> HIDE DEF a
    <3> QED
      BY <1>6, <3>2, <3>3
  <2> QED
    BY <1>9, <2>1, <2>2
<1>10. ASSUME NEW h \in Holders, FindArtifact(h) \/ Break(h) PROVE TicketBounds'
  BY <1>7, <1>8, <1>10 DEF FindArtifact, Break, Moves, Refused
<1>11. ASSUME NEW h \in Holders, RedeemTicket(h) PROVE TicketBounds'
  <2>1. Len(tickets') = Len(tickets) /\ UNCHANGED <<deliverable, served, accesses>>
        /\ access[h].stage # "idle"
    BY <1>1, <1>11 DEF RedeemTicket
  <2>2. CASE access' = [access EXCEPT ![h].stage = "redeemed"]
    BY <1>7, <2>1, <2>2
  <2>3. CASE access' = [access EXCEPT ![h] = NoAccess]
    BY <1>1, <1>8, <2>1, <2>3
  <2> QED
    BY <1>11, <2>2, <2>3 DEF RedeemTicket, Moves, Refused
<1>12. ASSUME NEW h \in Holders, RecordTicket(h) PROVE TicketBounds'
  <2> DEFINE x == [purpose |-> access[h].purpose, live |-> TRUE, redeemed |-> FALSE]
  <2>1. /\ tickets' = Append(tickets, x) /\ Len(tickets) < MaxTickets /\ served' = Append(served, 0)
        /\ access' = [access EXCEPT ![h] = NoAccess] /\ access[h].stage # "idle"
        /\ UNCHANGED <<deliverable, accesses>>
    BY <1>12 DEF RecordTicket, Refused
  <2> HIDE DEF x
  <2>2. /\ Len(tickets') = Len(tickets) + 1
        /\ \A t \in 1..Len(tickets) : served'[t] = served[t]
        /\ served'[Len(tickets) + 1] = 0
    BY <1>1, <2>1
  <2> QED
    BY <1>8, <2>1, <2>2
<1>13. ASSUME NEW h \in Holders, OpenObject(h) PROVE TicketBounds'
  <2>1. /\ Len(tickets') = Len(tickets) /\ access[h].stage # "idle"
        /\ access' = [access EXCEPT ![h] = NoAccess] /\ UNCHANGED <<deliverable, accesses>>
    BY <1>13 DEF OpenObject, Refused
  <2>2. \A t \in 1..Len(tickets) : served'[t] \in {served[t], served[t] + 1}
    BY <1>1, <1>13 DEF OpenObject
  <2> QED
    BY <1>8, <2>1, <2>2
<1> QED
  BY <1>5, <1>9, <1>10, <1>11, <1>12, <1>13 DEF TicketsNext

\* Tickets, requests and the record of what was opened keep their types: a
\* ticket has opened no more objects than requests were made.
THEOREM TicketsTyped == TicketsSpec => []TicketsTypeOK
<1>1. TicketsInv /\ TicketBounds => TicketsTypeOK
  <2> SUFFICES ASSUME TicketsInv, TicketBounds PROVE TicketsTypeOK
    OBVIOUS
  <2>1. /\ tickets \in Seq(Ticket) /\ served \in Seq(Nat) /\ Len(served) = Len(tickets)
        /\ Len(tickets) \in Nat /\ access \in [Holders -> AccessShape]
        /\ Cardinality(Busy) \in Nat /\ accesses \in 0..MaxAccesses /\ MaxAccesses \in Nat
    BY TicketAssumption, FS_CardinalityType DEF TicketsInv, TicketShapes, TicketBounds
  <2>2. served \in [DOMAIN tickets -> 0..MaxAccesses]
    <3>1. \A t \in 1..Len(tickets) : served[t] \in Nat /\ served[t] + Cardinality(Busy) <= accesses
      BY <2>1 DEF TicketBounds
    <3>2. \A t \in 1..Len(tickets) : served[t] \in 0..MaxAccesses
      BY <2>1, <3>1
    <3> QED
      BY <2>1, <3>2
  <2>3. access \in [Holders -> [stage : AccessStages, purpose : Purposes, ticket : 0..Len(tickets)]]
    <3>1. \A h \in Holders : access[h] \in [stage : AccessStages, purpose : Purposes, ticket : 0..Len(tickets)]
      BY <2>1 DEF AccessShape, TicketBounds
    <3> QED
      BY <2>1, <3>1
  <2> QED
    BY <2>1, <2>2, <2>3 DEF TicketBounds, TicketsTypeOK, AccessStages
<1>2. TicketsSpec => []TicketsInv
  BY TicketsInvInit, TicketsInvStep, PTL DEF TicketsSpec
<1> QED
  BY <1>1, <1>2, TicketBoundsInit, TicketBoundsStep, PTL DEF TicketsSpec
=============================================================================
