----------------------------- MODULE ThreadCases -----------------------------
(***************************************************************************)
(* A chat thread and the engagement it belongs to.  The authority is the   *)
(* row of thread_metadata; a turn, however, works on the case its request  *)
(* names or, without one, on the case in the checkpoint of the thread.  A  *)
(* turn may create a case, and the thread is bound to it afterwards.       *)
(*                                                                         *)
(* Grain of atomicity.  Every transaction of a request is an action, and   *)
(* the look-up and the insert of create_engagement and of                  *)
(* create_task_batch, which lock nothing in between, are two.  Turns of    *)
(* the thread run one at a time, under the advisory lock, but arrive and   *)
(* bind outside it.                                                        *)
(*                                                                         *)
(* Abstractions.  One thread, its owner, authentication enabled.  Cases    *)
(* are numbered as they are inserted.  Tasks are those of the thread's own *)
(* turns and have one title; done and overdue count as started.            *)
(* Capabilities that write neither cases nor tasks are Answer.             *)
(***************************************************************************)
EXTENDS Naturals, Sequences

CONSTANTS
    Visitors,     \* requests of the thread, and of the API, under way
    Entities,     \* audited entity, fiscal year and company
    NoVisitor,
    MaxCases,     \* bound: cases
    MaxTasks,     \* bound: tasks
    MaxVisits     \* bound: requests

ASSUME VisitAssumption ==
    /\ NoVisitor \notin Visitors /\ Entities # {}
    /\ MaxCases \in Nat \ {0} /\ MaxTasks \in Nat /\ MaxVisits \in Nat

VARIABLES
    cases,        \* rows of audit_engagement
    tasks,        \* rows of annual_task
    bound,        \* the row of thread_metadata, case 0 for NULL
    checkpoint,   \* current_case_id of the thread's checkpoint
    lock,         \* holder of the advisory lock of the thread
    visitor,      \* requests under way
    pending,      \* history: cases a turn of the thread made its own and the
                  \* thread is not bound to
    raced,        \* history: entities with overlapping look-ups, and cases
                  \* with a task that was reopened
    visits        \* bound variable

tvars == <<cases, tasks, bound, checkpoint, lock, visitor, pending, raced, visits>>

CaseIds == 1..MaxCases
TaskStatus == {"todo", "started", "cancelled"}
VisitStage == {"idle", "arrived", "registering", "rechecking", "binding", "waiting", "working",
               "inserting case", "created", "bind created", "tasking", "inserting task"}

Away == [stage |-> "idle", asked |-> 0, create |-> FALSE, chat |-> TRUE, case |-> 0,
         entity |-> CHOOSE e \in Entities : TRUE]

\* The tables and the requests have the shape the handlers give them.
ThreadTypeOK ==
    /\ cases \in Seq([entity : Entities, live : BOOLEAN]) /\ Len(cases) <= MaxCases
    /\ tasks \in Seq([case : CaseIds, status : TaskStatus]) /\ Len(tasks) <= MaxTasks
    /\ bound \in [exists : BOOLEAN, case : 0..MaxCases]
    /\ checkpoint \in 0..MaxCases /\ lock \in Visitors \cup {NoVisitor}
    /\ visitor \in [Visitors -> [stage : VisitStage, asked : 0..MaxCases, create : BOOLEAN,
                                 chat : BOOLEAN, case : 0..MaxCases, entity : Entities]]
    /\ pending \subseteq CaseIds /\ visits \in 0..MaxVisits

ThreadInit ==
    /\ cases = <<[entity |-> Away.entity, live |-> TRUE]>> /\ tasks = <<>>
    /\ bound = [exists |-> FALSE, case |-> 0] /\ checkpoint = 0 /\ lock = NoVisitor
    /\ visitor = [p \in Visitors |-> Away]
    /\ pending = {} /\ raced = {} /\ visits = 0

Proceed(p, stage) == visitor' = [visitor EXCEPT ![p].stage = stage]
Leaves(p) == visitor' = [visitor EXCEPT ![p] = Away]
store == <<cases, tasks>>

----------------------------------------------------------------------------
(* A request arrives: the case must exist, and the thread be bound to it.  *)

Arrive(p, asked, create, entity) ==
    /\ visitor[p].stage = "idle" /\ visits < MaxVisits
    /\ asked > 0 /\ ~create => cases[asked].live
    /\ visitor' = [visitor EXCEPT ![p] = [Away EXCEPT !.stage = "arrived", !.asked = asked,
                                                      !.create = create, !.entity = entity]]
    /\ visits' = visits + 1
    /\ UNCHANGED <<store, bound, checkpoint, lock, pending, raced>>

\* A new thread needs a case, or is made for one.
FindThread(p) ==
    /\ visitor[p].stage = "arrived"
    /\ LET asked == visitor[p].asked IN
       IF bound.exists
       THEN IF asked > 0 /\ bound.case \notin {0, asked} THEN Leaves(p)
            ELSE Proceed(p, IF asked > 0 /\ bound.case = 0 THEN "binding" ELSE "waiting")
       ELSE IF asked = 0 /\ ~visitor[p].create THEN Leaves(p) ELSE Proceed(p, "registering")
    /\ UNCHANGED <<store, bound, checkpoint, lock, pending, raced, visits>>

\* ON CONFLICT DO NOTHING
Register(p) ==
    /\ visitor[p].stage = "registering" /\ Proceed(p, "rechecking")
    /\ bound' = IF bound.exists THEN bound ELSE [exists |-> TRUE, case |-> visitor[p].asked]
    /\ UNCHANGED <<store, checkpoint, lock, pending, raced, visits>>

Recheck(p) ==
    /\ visitor[p].stage = "rechecking"
    /\ IF visitor[p].asked \in {0, bound.case} THEN Proceed(p, "waiting") ELSE Leaves(p)
    /\ UNCHANGED <<store, bound, checkpoint, lock, pending, raced, visits>>

\* Mutant: the update does not ask whether the thread is still unbound.
BoundToAnyhow(case) == [bound EXCEPT !.case = case]

\* UPDATE ... WHERE case_id IS NULL
BoundTo(case) == IF bound.case = 0 THEN [bound EXCEPT !.case = case] ELSE bound

\* bind_thread_case, before a turn; the row is read again afterwards
BindThread(p) ==
    /\ visitor[p].stage = "binding"
    /\ bound' = BoundTo(visitor[p].asked)
    /\ IF bound'.case = visitor[p].asked THEN Proceed(p, "waiting") ELSE Leaves(p)
    /\ pending' = pending \ {bound'.case}
    /\ UNCHANGED <<store, checkpoint, lock, raced, visits>>

----------------------------------------------------------------------------
(* The turn.                                                               *)

\* A request without a case leaves the one of the checkpoint in place.
EnterGraph(p) ==
    /\ visitor[p].stage = "waiting" /\ lock = NoVisitor
    /\ lock' = p
    /\ checkpoint' = IF visitor[p].asked > 0 THEN visitor[p].asked ELSE checkpoint
    /\ visitor' = [visitor EXCEPT ![p].stage = "working", ![p].case = checkpoint']
    /\ UNCHANGED <<store, bound, pending, raced, visits>>

Answer(p) ==
    /\ visitor[p].stage = "working" /\ Leaves(p) /\ lock' = NoVisitor
    /\ UNCHANGED <<store, bound, checkpoint, pending, raced, visits>>

SameCases(entity) == {n \in 1..Len(cases) : cases[n].entity = entity /\ cases[n].live}
Newest(S) == CHOOSE n \in S : \A m \in S : m <= n

\* Requests between the look-up and the insert for an entity.
Inserting(entity) == {p \in Visitors : visitor[p].stage = "inserting case"
                                       /\ visitor[p].entity = entity}

\* An engagement of the same entity is reused.
LookUpEntity(p, entity) ==
    IF SameCases(entity) # {}
    THEN /\ visitor' = [visitor EXCEPT ![p].stage = "created", ![p].entity = entity,
                                       ![p].case = Newest(SameCases(entity))]
         /\ UNCHANGED raced
    ELSE /\ visitor' = [visitor EXCEPT ![p].stage = "inserting case", ![p].entity = entity]
         /\ raced' = IF Inserting(entity) = {} THEN raced ELSE raced \cup {entity}

\* Only a turn without a case creates one.
LookUpCase(p) ==
    /\ visitor[p].stage = "working" /\ visitor[p].create /\ visitor[p].case = 0
    /\ LookUpEntity(p, visitor[p].entity)
    /\ UNCHANGED <<store, bound, checkpoint, lock, pending, visits>>

\* POST /api/ingest/case
RequestCase(p, entity) ==
    /\ visitor[p].stage = "idle" /\ visits < MaxVisits
    /\ LET arrived == [visitor EXCEPT ![p].chat = FALSE] IN
       IF SameCases(entity) # {} THEN visitor' = visitor /\ UNCHANGED raced
       ELSE /\ visitor' = [arrived EXCEPT ![p].stage = "inserting case", ![p].entity = entity]
            /\ raced' = IF Inserting(entity) = {} THEN raced ELSE raced \cup {entity}
    /\ visits' = visits + 1
    /\ UNCHANGED <<store, bound, checkpoint, lock, pending>>

InsertCase(p) ==
    /\ visitor[p].stage = "inserting case" /\ Len(cases) < MaxCases
    /\ cases' = Append(cases, [entity |-> visitor[p].entity, live |-> TRUE])
    /\ IF visitor[p].chat
       THEN visitor' = [visitor EXCEPT ![p].stage = "created", ![p].case = Len(cases')]
       ELSE Leaves(p)
    /\ UNCHANGED <<tasks, bound, checkpoint, lock, pending, raced, visits>>

\* The case of the turn goes into the checkpoint, and the lock is released.
FinishGraph(p) ==
    /\ visitor[p].stage = "created" /\ Proceed(p, "bind created")
    /\ checkpoint' = visitor[p].case /\ lock' = NoVisitor
    /\ pending' = (pending \cup {visitor[p].case}) \ {bound.case}
    /\ UNCHANGED <<store, bound, raced, visits>>

BindCreated(p) ==
    /\ visitor[p].stage = "bind created" /\ Leaves(p)
    /\ bound' = BoundTo(visitor[p].case)
    /\ pending' = pending \ {bound'.case}
    /\ UNCHANGED <<store, checkpoint, lock, raced, visits>>

----------------------------------------------------------------------------
(* Tasks of the case.                                                      *)

\* get_engagement, in a transaction of its own
StartTask(p) ==
    /\ visitor[p].stage = "working" /\ visitor[p].case > 0
    /\ cases[visitor[p].case].live /\ Proceed(p, "tasking")
    /\ UNCHANGED <<store, bound, checkpoint, lock, pending, raced, visits>>

\* Mutant: only tasks that have not been started are found.
TasksNotStarted(case) == {i \in 1..Len(tasks) : tasks[i] = [case |-> case, status |-> "todo"]}

OpenTasks(case) ==
    {i \in 1..Len(tasks) : tasks[i].case = case /\ tasks[i].status # "cancelled"}

\* A task of the title that is not cancelled is left as it is.
LookUpTask(p) ==
    /\ visitor[p].stage = "tasking"
    /\ IF OpenTasks(visitor[p].case) # {} THEN Leaves(p) /\ lock' = NoVisitor
       ELSE Proceed(p, "inserting task") /\ UNCHANGED lock
    /\ UNCHANGED <<store, bound, checkpoint, pending, raced, visits>>

InsertTask(p) ==
    /\ visitor[p].stage = "inserting task" /\ Len(tasks) < MaxTasks
    /\ tasks' = Append(tasks, [case |-> visitor[p].case, status |-> "todo"])
    /\ Leaves(p) /\ lock' = NoVisitor
    /\ UNCHANGED <<cases, bound, checkpoint, pending, raced, visits>>

\* Any status may follow any other, through the chat or the API.
ChangeTask(i, status) ==
    /\ cases[tasks[i].case].live /\ status # tasks[i].status
    /\ tasks' = [tasks EXCEPT ![i].status = status]
    /\ raced' = IF tasks[i].status = "cancelled" THEN raced \cup {tasks[i].case} ELSE raced
    /\ UNCHANGED <<cases, bound, checkpoint, lock, visitor, pending, visits>>

----------------------------------------------------------------------------

DeleteCase(n) ==
    /\ cases[n].live /\ cases' = [cases EXCEPT ![n].live = FALSE]
    /\ UNCHANGED <<tasks, bound, checkpoint, lock, visitor, pending, raced, visits>>

\* The process of a request dies, or its client goes away; the lock goes
\* with its connection.
Dies(p) ==
    /\ visitor[p].stage # "idle" /\ Leaves(p)
    /\ lock' = IF lock = p THEN NoVisitor ELSE lock
    /\ UNCHANGED <<store, bound, checkpoint, pending, raced, visits>>

ThreadNext ==
    \/ \E p \in Visitors :
        \/ \E asked \in 0..Len(cases), create \in BOOLEAN, entity \in Entities :
            Arrive(p, asked, create, entity)
        \/ \E entity \in Entities : RequestCase(p, entity)
        \/ FindThread(p) \/ Register(p) \/ Recheck(p) \/ BindThread(p)
        \/ EnterGraph(p) \/ Answer(p) \/ LookUpCase(p) \/ InsertCase(p)
        \/ FinishGraph(p) \/ BindCreated(p)
        \/ StartTask(p) \/ LookUpTask(p) \/ InsertTask(p) \/ Dies(p)
    \/ \E i \in 1..Len(tasks), status \in TaskStatus : ChangeTask(i, status)
    \/ \E n \in 1..Len(cases) : DeleteCase(n)

ThreadSpec == ThreadInit /\ [][ThreadNext]_tvars

----------------------------------------------------------------------------
(* Properties.                                                             *)

\* A turn works on the case its thread is bound to, whoever binds it and
\* whenever; or on one a turn of the thread has created and the thread could
\* not be bound to, because it was bound to another in between or the process
\* died (ensure_thread_for_invoke: a thread bound to one engagement "cannot
\* be bound again", 409).
TurnsStayInCase ==
    lock # NoVisitor /\ visitor[lock].stage = "working" =>
        visitor[lock].case \in {0, bound.case} \cup pending

\* A case of an entity is not created twice, but by requests that looked for
\* it at the same time, through the chat or the API; nor an open task of a
\* title in a case, but for one that was cancelled, created again and
\* reopened (create_engagement: "deduplicated"; create_task_batch: "skipped").
NoTwins ==
    /\ \A m, n \in 1..Len(cases) :
        m # n /\ cases[m].live /\ cases[n].live => \/ cases[m].entity # cases[n].entity
                                                   \/ cases[m].entity \in raced
    /\ \A i, j \in 1..Len(tasks) :
        i # j /\ "cancelled" \notin {tasks[i].status, tasks[j].status} =>
            tasks[i].case # tasks[j].case \/ tasks[i].case \in raced
=============================================================================
