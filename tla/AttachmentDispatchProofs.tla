---------------------- MODULE AttachmentDispatchProofs ----------------------
(***************************************************************************)
(* Proofs about AttachmentDispatch, for any numbers of dispatchers,        *)
(* messages, faults and user retries: the shapes of its rows and messages, *)
(* that a message that comes late changes nothing, and that a job in       *)
(* flight is never forgotten.                                              *)
(***************************************************************************)
EXTENDS AttachmentDispatch, TLAPS

-----------------------------------------------------------------------------
(***************************************************************************)
(* Deliveries, for any numbers of dispatchers and messages.  Whatever      *)
(* arrives late finds the job settled, and leaves it as it is.  No message *)
(* is retried beyond its limit; and until the second fault and the second  *)
(* user retry a row or a message comes back to every job in flight.        *)
(***************************************************************************)

\* A delivery, or the end of a task, moves only a job that is in flight: the
\* claim finds it queued or running, and a run that ends still holds its lease.
LEMMA DispatchTaskStep ==
    ASSUME NEW m, Task(m) \/ Renew(m) \/ TaskRaises(m) \/ WorkerDies(m), ~InFlight
    PROVE  UNCHANGED job
  BY DEF Task, Deliver, FinishRun, ReadStatus, CountdownEnds, Renew, TaskRaises, WorkerDies,
         MayClaim, Holds, InFlight

\* Duplicated, delayed and retried messages do no harm, however many faults.
THEOREM DispatchLateMessages == Spec => LateMessageHarmless
  <1>1. [Next]_vars => [msgs' # msgs /\ ~InFlight => UNCHANGED job]_vars
    <2> SUFFICES ASSUME Next, msgs' # msgs, ~InFlight PROVE UNCHANGED job
      BY DEF vars
    <2>1. CASE \E m \in BagToSet(msgs) : Task(m) \/ Renew(m) \/ TaskRaises(m) \/ WorkerDies(m)
      BY <2>1, DispatchTaskStep
    <2>2. CASE \E d \in Dispatchers :
                   ClaimOutbox(d) \/ Dispatch(d) \/ SendFails(d) \/ DispatcherDies(d)
      BY <2>2 DEF ClaimOutbox, Dispatch, Send, MarkPublished, MarkFailed, Mark, SendFails,
                  DispatcherDies
    <2>3. CASE OutboxDue \/ OutboxDueEarly \/ LeaseRunsOut \/ LeaseRunsOutEarly
                   \/ UserRetry \/ UserCancel
      BY <2>3 DEF OutboxDue, OutboxDueEarly, LeaseRunsOut, LeaseRunsOutEarly, UserRetry, UserCancel
    <2> QED BY <2>1, <2>2, <2>3 DEF Next
  <1> QED BY <1>1, PTL DEF Spec, LateMessageHarmless

----------------------------------------------------------------------------
(* Lemmas about bags.                                                      *)

LEMMA OneMore ==
    ASSUME NEW b, IsABag(b), NEW n
    PROVE  /\ IsABag(b (+) SetToBag({n}))
           /\ BagToSet(b (+) SetToBag({n})) = BagToSet(b) \cup {n}
  BY DEF IsABag, BagToSet, SetToBag, (+)

LEMMA OneLess ==
    ASSUME NEW b, IsABag(b), NEW m
    PROVE  /\ IsABag(b (-) SetToBag({m}))
           /\ BagToSet(b (-) SetToBag({m})) \subseteq BagToSet(b)
           /\ BagToSet(b) \ {m} \subseteq BagToSet(b (-) SetToBag({m}))
  BY DEF IsABag, BagToSet, SetToBag, (-)

LEMMA OnlyOne ==
    ASSUME NEW m
    PROVE  /\ BagToSet(SetToBag({m})) = {m} /\ BagToSet(EmptyBag) = {}
           /\ IsABag(SetToBag({m})) /\ IsABag(EmptyBag)
           /\ EmptyBag (+) SetToBag({m}) = SetToBag({m})
           /\ SetToBag({m}) (-) SetToBag({m}) = EmptyBag
  <1>1. EmptyBag (+) SetToBag({m}) = SetToBag({m})
    BY DEF EmptyBag, SetToBag, (+)
  <1>2. SetToBag({m}) (-) SetToBag({m}) = EmptyBag
    BY DEF EmptyBag, SetToBag, (-)
  <1> QED BY <1>1, <1>2 DEF BagToSet, SetToBag, EmptyBag, IsABag

LEMMA BitsTyped ==
    ASSUME NEW m \in Message
    PROVE  /\ [m EXCEPT !.holds = FALSE] \in Message /\ [m EXCEPT !.seen = FALSE] \in Message
  BY DEF Message

\* The copies of a message that differ in one bit are counted together.
LEMMA BitCleared ==
    ASSUME NEW b, IsABag(b), BagToSet(b) \subseteq Message
    PROVE  /\ IsABag(Dispossessed(b)) /\ IsABag(Unseen(b))
           /\ BagToSet(Dispossessed(b)) \subseteq Message /\ BagToSet(Unseen(b)) \subseteq Message
           /\ BagToSet(Dispossessed(b)) = {[m EXCEPT !.holds = FALSE] : m \in BagToSet(b)}
           /\ BagToSet(Unseen(b)) = {[m EXCEPT !.seen = FALSE] : m \in BagToSet(b)}
  <1>1. ASSUME NEW m \in BagToSet(b), NEW x, NEW y, m = x \/ m = y
        PROVE  Copies(x, b) + Copies(y, b) \in {k \in Nat : k > 0}
    <2>1. Copies(m, b) \in Nat \ {0}
      BY DEF Copies, BagIn, BagToSet, IsABag
    <2>2. Copies(x, b) \in Nat /\ Copies(y, b) \in Nat
      BY DEF Copies, BagIn, BagToSet, IsABag
    <2> QED BY <1>1, <2>1, <2>2
  <1>2. ASSUME NEW m \in BagToSet(b)
        PROVE  /\ \/ m = [m EXCEPT !.holds = FALSE]
                  \/ m = [[m EXCEPT !.holds = FALSE] EXCEPT !.holds = TRUE]
               /\ \/ m = [m EXCEPT !.seen = FALSE]
                  \/ m = [[m EXCEPT !.seen = FALSE] EXCEPT !.seen = TRUE]
    BY DEF Message
  <1>3. \A n \in {[m EXCEPT !.holds = FALSE] : m \in BagToSet(b)} :
            Copies(n, b) + Copies([n EXCEPT !.holds = TRUE], b) \in {k \in Nat : k > 0}
    BY <1>1, <1>2, Zenon
  <1>4. \A n \in {[m EXCEPT !.seen = FALSE] : m \in BagToSet(b)} :
            Copies(n, b) + Copies([n EXCEPT !.seen = TRUE], b) \in {k \in Nat : k > 0}
    BY <1>1, <1>2, Zenon
  <1>5. IsABag(Dispossessed(b))
    BY <1>3, Zenon DEF IsABag, Dispossessed
  <1>6. IsABag(Unseen(b))
    BY <1>4, Zenon DEF IsABag, Unseen
  <1>7. /\ BagToSet(Dispossessed(b)) = {[m EXCEPT !.holds = FALSE] : m \in BagToSet(b)}
        /\ BagToSet(Unseen(b)) = {[m EXCEPT !.seen = FALSE] : m \in BagToSet(b)}
    BY DEF BagToSet, Dispossessed, Unseen
  <1>8. /\ \A m \in BagToSet(b) : [m EXCEPT !.holds = FALSE] \in Message
        /\ \A m \in BagToSet(b) : [m EXCEPT !.seen = FALSE] \in Message
    BY BitsTyped
  <1>9. BagToSet(Dispossessed(b)) \subseteq Message /\ BagToSet(Unseen(b)) \subseteq Message
    BY <1>7, <1>8, Zenon
  <1> QED BY <1>5, <1>6, <1>7, <1>9

LEMMA Moved ==
    ASSUME IsABag(msgs), NEW m, NEW n
    PROVE  /\ IsABag(Becomes(m, n)) /\ IsABag(Gone(m))
           /\ n \in BagToSet(Becomes(m, n))
           /\ BagToSet(Becomes(m, n)) \subseteq BagToSet(msgs) \cup {n}
           /\ BagToSet(Gone(m)) \subseteq BagToSet(msgs)
           /\ BagToSet(msgs) \ {m} \subseteq BagToSet(Gone(m))
           /\ BagToSet(Gone(m)) \subseteq BagToSet(Becomes(m, n))
  <1>1. /\ IsABag(Gone(m)) /\ BagToSet(Gone(m)) \subseteq BagToSet(msgs)
        /\ BagToSet(msgs) \ {m} \subseteq BagToSet(Gone(m))
    BY OneLess, Zenon DEF Gone
  <1>2. Becomes(m, n) = Gone(m) (+) SetToBag({n})
    BY DEF Becomes, Gone
  <1>3. /\ IsABag(Gone(m) (+) SetToBag({n}))
        /\ BagToSet(Gone(m) (+) SetToBag({n})) = BagToSet(Gone(m)) \cup {n}
    BY <1>1, OneMore, Zenon
  <1> QED BY <1>1, <1>2, <1>3

LEMMA FaultCounted == ASSUME TypeOK, Fault PROVE faults' \in 0..MaxFaults
  BY DispatchAssumption DEF TypeOK, Fault

----------------------------------------------------------------------------
(* The types.                                                              *)

LEMMA DispatchTaskTyped ==
    ASSUME TypeOK, NEW m \in BagToSet(msgs),
           Task(m) \/ Renew(m) \/ TaskRaises(m) \/ WorkerDies(m)
    PROVE  TypeOK'
  <1>1. IsABag(msgs) /\ BagToSet(msgs) \subseteq Message /\ m \in Message
    BY DEF TypeOK
  <1>2. Gone(m) \in {b \in {Gone(m)} : IsABag(b) /\ BagToSet(b) \subseteq Message}
    BY <1>1, Moved
  <1>3. ASSUME NEW n \in Message
        PROVE  IsABag(Becomes(m, n)) /\ BagToSet(Becomes(m, n)) \subseteq Message
    BY <1>1, Moved
  <1>4. CASE Deliver(m)
    <2>1. CASE MayClaim
      <3> DEFINE n == [m EXCEPT !.state = "working", !.holds = TRUE]
                 b == Dispossessed(Gone(m))
      <3>1. n \in Message
        BY <1>1 DEF Message
      <3>2. IsABag(b) /\ BagToSet(b) \subseteq Message
        BY <1>2, BitCleared
      <3>3. IsABag(b (+) SetToBag({n})) /\ BagToSet(b (+) SetToBag({n})) = BagToSet(b) \cup {n}
        BY <3>2, OneMore
      <3>4. job' = [status |-> "running", live |-> TRUE] /\ msgs' = b (+) SetToBag({n})
            /\ UNCHANGED <<outbox, disp, faults, userRetries>>
        BY <1>4, <2>1 DEF Deliver
      <3> QED BY <3>1, <3>2, <3>3, <3>4 DEF TypeOK
    <2>2. CASE ~MayClaim
      <3>1. [m EXCEPT !.state = "status"] \in Message
        BY <1>1 DEF Message
      <3>2. /\ msgs' = Becomes(m, [m EXCEPT !.state = "status"])
            /\ UNCHANGED <<job, outbox, disp, faults, userRetries>>
        BY <1>4, <2>2 DEF Deliver
      <3> QED BY <1>3, <3>1, <3>2 DEF TypeOK
    <2> QED BY <2>1, <2>2
  <1>5. CASE FinishRun(m)
    <2>1. [m EXCEPT !.state = "status", !.holds = FALSE] \in Message
      BY <1>1 DEF Message
    <2>2. job' \in [status : {"queued", "running", "succeeded", "failed", "cancelled"},
                    live : BOOLEAN]
      <3>1. \/ UNCHANGED job
            \/ \E outcome \in {"succeeded", "failed"} : job' = [status |-> outcome, live |-> FALSE]
        BY <1>5 DEF FinishRun
      <3>2. CASE UNCHANGED job
        BY <3>2 DEF TypeOK
      <3>3. ASSUME NEW outcome \in {"succeeded", "failed"},
                   job' = [status |-> outcome, live |-> FALSE]
            PROVE  job' \in [status : {"queued", "running", "succeeded", "failed", "cancelled"},
                            live : BOOLEAN]
        BY <3>3
      <3> QED BY <3>1, <3>2, <3>3
    <2>3. /\ msgs' = Becomes(m, [m EXCEPT !.state = "status", !.holds = FALSE])
          /\ UNCHANGED <<outbox, disp, faults, userRetries>>
      BY <1>5 DEF FinishRun
    <2> QED BY <1>3, <2>1, <2>2, <2>3 DEF TypeOK
  <1>6. CASE ReadStatus(m)
    <2> DEFINE n == [state |-> "delayed", retries |-> m.retries + 1, seen |-> TRUE, holds |-> FALSE]
    <2>1. RecheckAllowed(m) => n \in Message
      BY <1>1, DispatchAssumption DEF Message, RecheckAllowed
    <2>2. /\ UNCHANGED <<job, outbox, disp, faults, userRetries>>
          /\ msgs' = Gone(m) \/ (RecheckAllowed(m) /\ msgs' = Becomes(m, n))
      BY <1>6 DEF ReadStatus
    <2> QED BY <1>2, <1>3, <2>1, <2>2 DEF TypeOK
  <1>7. CASE CountdownEnds(m)
    <2>1. [m EXCEPT !.state = "ready", !.seen = FALSE] \in Message
      BY <1>1 DEF Message
    <2>2. /\ msgs' = Becomes(m, [m EXCEPT !.state = "ready", !.seen = FALSE])
          /\ UNCHANGED <<job, outbox, disp, faults, userRetries>>
      BY <1>7 DEF CountdownEnds
    <2> QED BY <1>3, <2>1, <2>2 DEF TypeOK
  <1>8. CASE Renew(m)
    <2>1. IsABag(Unseen(msgs)) /\ BagToSet(Unseen(msgs)) \subseteq Message
      BY <1>1, BitCleared
    <2>2. msgs' = Unseen(msgs) /\ UNCHANGED <<job, outbox, disp, faults, userRetries>>
      BY <1>8 DEF Renew
    <2> QED BY <2>1, <2>2 DEF TypeOK
  <1>9. CASE TaskRaises(m)
    <2> DEFINE n == [state |-> "delayed", retries |-> m.retries + 1,
                     seen |-> FALSE, holds |-> FALSE]
    <2>1. m.retries < ErrorRetries => n \in Message
      BY <1>1, DispatchAssumption DEF Message
    <2>2. /\ UNCHANGED <<job, outbox, disp, userRetries>> /\ Fault
          /\ msgs' = Gone(m) \/ (m.retries < ErrorRetries /\ msgs' = Becomes(m, n))
      BY <1>9 DEF TaskRaises
    <2>3. faults' \in 0..MaxFaults
      BY <2>2, FaultCounted
    <2> QED BY <1>2, <1>3, <2>1, <2>2, <2>3 DEF TypeOK
  <1>10. CASE WorkerDies(m)
    <2>1. [m EXCEPT !.state = "ready", !.holds = FALSE] \in Message
      BY <1>1 DEF Message
    <2>2. /\ msgs' = Becomes(m, [m EXCEPT !.state = "ready", !.holds = FALSE])
          /\ UNCHANGED <<job, outbox, disp, userRetries>> /\ Fault
      BY <1>10 DEF WorkerDies
    <2>3. faults' \in 0..MaxFaults
      BY <2>2, FaultCounted
    <2> QED BY <1>3, <2>1, <2>2, <2>3 DEF TypeOK
  <1> QED BY <1>4, <1>5, <1>6, <1>7, <1>8, <1>9, <1>10 DEF Task

LEMMA DispatcherTyped ==
    ASSUME TypeOK, NEW d \in Dispatchers,
           ClaimOutbox(d) \/ Dispatch(d) \/ SendFails(d) \/ DispatcherDies(d)
    PROVE  TypeOK'
  <1>1. CASE ClaimOutbox(d)
    BY <1>1 DEF ClaimOutbox, TypeOK
  <1>2. CASE Send(d)
    <2>1. NewMessage \in Message
      BY DispatchAssumption DEF NewMessage, Message
    <2>2. IsABag(msgs') /\ BagToSet(msgs') \subseteq Message
      <3>1. IsABag(msgs) /\ BagToSet(msgs) \subseteq Message
        BY DEF TypeOK
      <3>2. msgs' = msgs (+) SetToBag({NewMessage})
        BY <1>2 DEF Send
      <3>3. IsABag(msgs') /\ BagToSet(msgs') = BagToSet(msgs) \cup {NewMessage}
        BY <3>1, <3>2, OneMore, Zenon
      <3> QED BY <2>1, <3>1, <3>3
    <2> QED BY <1>2, <2>2 DEF Send, TypeOK
  <1>3. CASE MarkPublished(d) \/ MarkFailed(d)
    <2>1. /\ disp' = [disp EXCEPT ![d] = Idle] /\ UNCHANGED <<job, msgs, faults, userRetries>>
          /\ \/ outbox' = outbox
             \/ outbox' = [outbox EXCEPT !.status = "published", !.ready = FALSE]
             \/ outbox' = [outbox EXCEPT !.status = "failed", !.ready = FALSE]
      BY <1>3 DEF MarkPublished, MarkFailed, Mark
    <2>2. outbox' \in [status : {"pending", "publishing", "published", "failed"},
                       attempt : Nat, ready : BOOLEAN]
      BY <2>1 DEF TypeOK
    <2> QED BY <2>1, <2>2 DEF Idle, TypeOK
  <1>4. CASE SendFails(d)
    BY <1>4, FaultCounted DEF SendFails, TypeOK
  <1>5. CASE DispatcherDies(d)
    BY <1>5, FaultCounted DEF DispatcherDies, Idle, TypeOK
  <1> QED BY <1>1, <1>2, <1>3, <1>4, <1>5 DEF Dispatch

LEMMA DispatchTyped ==
    ASSUME TypeOK, [Next]_vars
    PROVE  TypeOK'
  <1>1. CASE \E m \in BagToSet(msgs) : Task(m) \/ Renew(m) \/ TaskRaises(m) \/ WorkerDies(m)
    BY <1>1, DispatchTaskTyped
  <1>2. CASE \E d \in Dispatchers :
                 ClaimOutbox(d) \/ Dispatch(d) \/ SendFails(d) \/ DispatcherDies(d)
    BY <1>2, DispatcherTyped
  <1>3. CASE OutboxDue \/ LeaseRunsOut
    BY <1>3 DEF OutboxDue, LeaseRunsOut, TypeOK
  <1>4. CASE OutboxDueEarly \/ LeaseRunsOutEarly
    BY <1>4, FaultCounted DEF OutboxDueEarly, LeaseRunsOutEarly, TypeOK
  <1>5. CASE UserRetry \/ UserCancel
    <2>1. job' \in [status : {"queued", "running", "succeeded", "failed", "cancelled"},
                    live : BOOLEAN]
      BY <1>5 DEF UserRetry, UserCancel, TypeOK
    <2>2. outbox' \in [status : {"pending", "publishing", "published", "failed"},
                       attempt : Nat, ready : BOOLEAN]
      BY <1>5 DEF UserRetry, UserCancel, TypeOK
    <2>3. userRetries' \in 0..MaxUserRetries
      BY <1>5, DispatchAssumption DEF UserRetry, UserCancel, TypeOK
    <2>4. UNCHANGED <<disp, msgs, faults>>
      BY <1>5 DEF UserRetry, UserCancel
    <2> QED BY <2>1, <2>2, <2>3, <2>4 DEF TypeOK
  <1>6. CASE UNCHANGED vars
    BY <1>6 DEF vars, TypeOK
  <1> QED BY <1>1, <1>2, <1>3, <1>4, <1>5, <1>6 DEF Next

\* Rows, dispatchers and messages keep their shapes, and no message is retried
\* beyond the recheck limit, however many faults.
THEOREM DispatchTypeCorrect == Spec => []TypeOK
  <1>1. Init => TypeOK
    <2>1. IsABag(EmptyBag) /\ BagToSet(EmptyBag) \subseteq Message
      BY OnlyOne
    <2> QED BY <2>1, DispatchAssumption DEF Init, Idle, TypeOK
  <1> QED BY <1>1, DispatchTyped, PTL DEF Spec

----------------------------------------------------------------------------
(* The carrier of a job in flight.                                         *)

\* The outbox row is marked as sent, or is about to be: its message is out.
Sent ==
    \/ outbox.status = "published"
    \/ /\ outbox.status = "publishing"
       /\ \E d \in Dispatchers : disp[d].pc = "sent" /\ disp[d].attempt = outbox.attempt

\* No dispatcher holds a claim newer than the row.
ClaimsBehind == \A d \in Dispatchers : disp[d].attempt <= outbox.attempt

HoldersWork == \A m \in BagToSet(msgs) : m.holds => m.state = "working"

\* Before the first fault and the first retry there is one dispatch and at most
\* one message, and the message is where the job is.
Unsent ==
    \/ outbox.status \in {"pending", "failed"}
    \/ \E d \in Dispatchers : disp[d].pc = "sending"

OnlyMessage(m) ==
    /\ msgs = SetToBag({m}) /\ m.retries = 0 /\ ~m.seen
    /\ job.status = "queued" => m.state = "ready"
    /\ job.status = "failed" => m.state = "status"

FirstLife ==
    /\ Unsent => msgs = EmptyBag /\ job.status \in {"queued", "cancelled"}
    /\ msgs = EmptyBag \/ \E m \in Message : OnlyMessage(m)
    /\ \A d \in Dispatchers : disp[d].pc # "idle" =>
          /\ disp[d].pc \in {"sending", "sent"}
          /\ outbox.status = "publishing" /\ disp[d].attempt = outbox.attempt
          /\ \A e \in Dispatchers : disp[e].pc # "idle" => e = d
    /\ outbox.status = "publishing" =>
          /\ ~outbox.ready
          /\ \E d \in Dispatchers : disp[d].pc # "idle"

\* Before the first fault a queued job that was sent has a message that will be
\* delivered, and a running job has the run that holds its lease; nothing has
\* been rechecked by whoever may come to hold it.
Fresh(m) == m.retries = 0 /\ m.state \in {"ready", "status"}
Undisturbed ==
    /\ job.status = "queued" =>
          /\ \A m \in BagToSet(msgs) : Fresh(m)
          /\ Sent => \E m \in BagToSet(msgs) : m.state = "ready"
    /\ job.status = "running" =>
          /\ job.live
          /\ \E m \in BagToSet(msgs) : m.holds /\ m.retries = 0

\* After it, a message that will claim the job, in time.
WillClaim(m) ==
    \/ m.state = "delayed" /\ (m.seen \/ ~job.live)
    \/ m.state = "ready" /\ ~job.live
    \/ m.retries < RecheckRetries
Carries(m) == (job.live /\ m.holds) \/ WillClaim(m)
OnItsWay ==
    /\ job.status = "queued" /\ Sent =>
          \E m \in BagToSet(msgs) : m.state \in {"ready", "delayed"}
    /\ job.status = "running" => \E m \in BagToSet(msgs) : Carries(m)

CarrierInv ==
    /\ ClaimsBehind /\ HoldersWork
    /\ faults = 0 /\ userRetries = 0 => FirstLife
    /\ faults = 0 /\ userRetries <= 1 => Undisturbed
    /\ faults = 1 /\ userRetries <= 1 => OnItsWay

----------------------------------------------------------------------------
(* Steps of messages.                                                      *)

\* What a message becomes at each step of its task.
Claimed(m) == [m EXCEPT !.state = "working", !.holds = TRUE]
Asks(m) == [m EXCEPT !.state = "status"]
Ended(m) == [m EXCEPT !.state = "status", !.holds = FALSE]
Rechecks(m) == [state |-> "delayed", retries |-> m.retries + 1, seen |-> TRUE, holds |-> FALSE]
Retries(m) == [state |-> "delayed", retries |-> m.retries + 1, seen |-> FALSE, holds |-> FALSE]
Awakes(m) == [m EXCEPT !.state = "ready", !.seen = FALSE]
Redelivered(m) == [m EXCEPT !.state = "ready", !.holds = FALSE]

LEMMA StepsOfMessage ==
    ASSUME NEW m \in Message
    PROVE  /\ Claimed(m).state = "working" /\ Claimed(m).holds
           /\ Claimed(m).retries = m.retries /\ Claimed(m).seen = m.seen
           /\ Asks(m).state = "status" /\ Asks(m).holds = m.holds
           /\ Asks(m).retries = m.retries /\ Asks(m).seen = m.seen
           /\ Ended(m).state = "status" /\ ~Ended(m).holds
           /\ Ended(m).retries = m.retries /\ Ended(m).seen = m.seen
           /\ Rechecks(m).state = "delayed" /\ Rechecks(m).seen /\ ~Rechecks(m).holds
           /\ Retries(m).state = "delayed" /\ Retries(m).retries = m.retries + 1
           /\ ~Retries(m).holds
           /\ Awakes(m).state = "ready" /\ Awakes(m).holds = m.holds
           /\ Awakes(m).retries = m.retries /\ ~Awakes(m).seen
           /\ Redelivered(m).state = "ready" /\ ~Redelivered(m).holds
           /\ Redelivered(m).retries = m.retries
  BY DEF Message, Claimed, Asks, Ended, Rechecks, Retries, Awakes, Redelivered

\* The only message stays the only one.
LEMMA OnlyMoved ==
    ASSUME NEW m, msgs = SetToBag({m}), NEW n
    PROVE  /\ Becomes(m, n) = SetToBag({n}) /\ Gone(m) = EmptyBag
           /\ Dispossessed(Gone(m)) (+) SetToBag({n}) = SetToBag({n})
  <1>1. Gone(m) = EmptyBag
    BY OnlyOne, Zenon DEF Gone
  <1>2. Becomes(m, n) = Gone(m) (+) SetToBag({n})
    BY Zenon DEF Becomes, Gone
  <1>3. Dispossessed(EmptyBag) = EmptyBag
    BY DEF Dispossessed, EmptyBag, SetToBag, BagToSet
  <1>4. EmptyBag (+) SetToBag({n}) = SetToBag({n})
    BY OnlyOne, Zenon
  <1> QED BY <1>1, <1>2, <1>3, <1>4, Zenon

LEMMA ClaimMoves ==
    ASSUME TypeOK, NEW m \in BagToSet(msgs), Deliver(m), MayClaim
    PROVE  /\ job' = [status |-> "running", live |-> TRUE]
           /\ UNCHANGED <<outbox, disp, faults, userRetries>>
           /\ msgs' = Dispossessed(Gone(m)) (+) SetToBag({Claimed(m)})
           /\ Claimed(m) \in BagToSet(msgs')
           /\ \A k \in BagToSet(msgs') : k.holds => k = Claimed(m)
  <1>1. IsABag(msgs) /\ BagToSet(msgs) \subseteq Message /\ m \in Message
    BY DEF TypeOK
  <1>2. /\ IsABag(Gone(m)) /\ BagToSet(Gone(m)) \subseteq Message
    BY <1>1, Moved
  <1> DEFINE b == Dispossessed(Gone(m))
  <1>3. IsABag(b) /\ BagToSet(b) = {[k EXCEPT !.holds = FALSE] : k \in BagToSet(Gone(m))}
    BY <1>2, BitCleared
  <1>4. \A k \in Message : ~[k EXCEPT !.holds = FALSE].holds
    BY DEF Message
  <1>5. \A k \in BagToSet(b) : ~k.holds
    BY <1>2, <1>3, <1>4
  <1>6. BagToSet(b (+) SetToBag({Claimed(m)})) = BagToSet(b) \cup {Claimed(m)}
    BY <1>3, OneMore, Zenon
  <1>7. /\ job' = [status |-> "running", live |-> TRUE]
        /\ UNCHANGED <<outbox, disp, faults, userRetries>>
        /\ msgs' = b (+) SetToBag({Claimed(m)})
    BY DEF Deliver, Claimed
  <1> QED BY <1>5, <1>6, <1>7

LEMMA AskMoves ==
    ASSUME NEW m, Deliver(m), ~MayClaim
    PROVE  /\ m.state = "ready" /\ msgs' = Becomes(m, Asks(m))
           /\ UNCHANGED <<job, outbox, disp, faults, userRetries>>
  BY DEF Deliver, Asks

LEMMA EndMoves ==
    ASSUME NEW m, FinishRun(m)
    PROVE  /\ m.state = "working" /\ msgs' = Becomes(m, Ended(m))
           /\ \/ UNCHANGED job /\ ~Holds(m)
              \/ job'.status \in {"succeeded", "failed"} /\ Holds(m)
           /\ UNCHANGED <<outbox, disp, faults, userRetries>>
  BY DEF FinishRun, Ended

LEMMA StatusMoves ==
    ASSUME NEW m, ReadStatus(m)
    PROVE  /\ m.state = "status"
           /\ IF job.status = "running" /\ RecheckAllowed(m)
              THEN msgs' = Becomes(m, Rechecks(m)) ELSE msgs' = Gone(m)
           /\ UNCHANGED <<job, outbox, disp, faults, userRetries>>
  BY DEF ReadStatus, Rechecks

LEMMA CountdownMoves ==
    ASSUME NEW m, CountdownEnds(m)
    PROVE  /\ m.state = "delayed" /\ ~(m.seen /\ job.status = "running" /\ job.live)
           /\ msgs' = Becomes(m, Awakes(m))
           /\ UNCHANGED <<job, outbox, disp, faults, userRetries>>
  BY DEF CountdownEnds, Awakes

LEMMA RaiseMoves ==
    ASSUME NEW m, TaskRaises(m)
    PROVE  /\ m.state \in {"ready", "working", "status"} /\ faults' = faults + 1
           /\ IF m.retries < ErrorRetries
              THEN msgs' = Becomes(m, Retries(m)) ELSE msgs' = Gone(m)
           /\ UNCHANGED <<job, outbox, disp, userRetries>>
  BY DEF TaskRaises, Retries, Fault

LEMMA DeathMoves ==
    ASSUME NEW m, WorkerDies(m)
    PROVE  /\ m.state \in {"working", "status"} /\ faults' = faults + 1
           /\ msgs' = Becomes(m, Redelivered(m))
           /\ UNCHANGED <<job, outbox, disp, userRetries>>
  BY DEF WorkerDies, Redelivered, Fault

LEMMA RenewMoves ==
    ASSUME TypeOK, NEW m \in BagToSet(msgs), Renew(m)
    PROVE  /\ Holds(m) /\ \E n \in BagToSet(msgs) : n.seen
           /\ [m EXCEPT !.seen = FALSE] \in BagToSet(msgs') /\ [m EXCEPT !.seen = FALSE].holds
           /\ [m EXCEPT !.seen = FALSE].retries = m.retries
           /\ \A k \in BagToSet(msgs') : \E n \in BagToSet(msgs) :
                 k.holds = n.holds /\ k.state = n.state /\ k.retries = n.retries
           /\ \A n \in BagToSet(msgs) : \E k \in BagToSet(msgs') :
                 k.holds = n.holds /\ k.state = n.state /\ k.retries = n.retries
           /\ UNCHANGED <<job, outbox, disp, faults, userRetries>>
  <1>1. IsABag(msgs) /\ BagToSet(msgs) \subseteq Message
    BY DEF TypeOK
  <1>2. BagToSet(msgs') = {[n EXCEPT !.seen = FALSE] : n \in BagToSet(msgs)}
    BY <1>1, BitCleared DEF Renew
  <1>3. \A n \in BagToSet(msgs) :
            LET k == [n EXCEPT !.seen = FALSE] IN
            k.holds = n.holds /\ k.state = n.state /\ k.retries = n.retries
    BY <1>1 DEF Message
  <1>4. /\ Holds(m) /\ \E n \in BagToSet(msgs) : n.seen
        /\ UNCHANGED <<job, outbox, disp, faults, userRetries>>
    BY DEF Renew
  <1>5. m.holds
    BY <1>4 DEF Holds
  <1> QED BY <1>2, <1>3, <1>4, <1>5

----------------------------------------------------------------------------
(* Steps of messages keep the invariant.                                   *)

\* The messages other than m stay.
LEMMA OthersStay ==
    ASSUME TypeOK, NEW m \in BagToSet(msgs), NEW n,
           msgs' = Becomes(m, n) \/ msgs' = Gone(m)
    PROVE  /\ m \in Message
           /\ \A k \in BagToSet(msgs) : k # m => k \in BagToSet(msgs')
           /\ \A k \in BagToSet(msgs') : k \in BagToSet(msgs) \/ (k = n /\ msgs' = Becomes(m, n))
           /\ msgs' = Becomes(m, n) => n \in BagToSet(msgs')
  <1>1. IsABag(msgs) /\ m \in Message
    BY DEF TypeOK
  <1> QED BY <1>1, Moved

LEMMA HoldersKept ==
    ASSUME TypeOK, HoldersWork, NEW m \in BagToSet(msgs),
           Task(m) \/ Renew(m) \/ TaskRaises(m) \/ WorkerDies(m)
    PROVE  HoldersWork'
  <1>1. m \in Message
    BY DEF TypeOK
  <1>2. CASE Deliver(m) /\ MayClaim
    <2>1. \A k \in BagToSet(msgs') : k.holds => k = Claimed(m)
      BY <1>2, ClaimMoves
    <2>2. Claimed(m).state = "working"
      BY <1>1, StepsOfMessage
    <2> QED BY <2>1, <2>2 DEF HoldersWork
  <1>3. CASE Deliver(m) /\ ~MayClaim
    BY <1>1, <1>3, AskMoves, OthersStay, StepsOfMessage DEF HoldersWork
  <1>4. CASE FinishRun(m)
    BY <1>1, <1>4, EndMoves, OthersStay, StepsOfMessage DEF HoldersWork
  <1>5. CASE ReadStatus(m)
    BY <1>1, <1>5, StatusMoves, OthersStay, StepsOfMessage DEF HoldersWork
  <1>6. CASE CountdownEnds(m)
    BY <1>1, <1>6, CountdownMoves, OthersStay, StepsOfMessage DEF HoldersWork
  <1>7. CASE Renew(m)
    <2>1. \A k \in BagToSet(msgs') : \E n \in BagToSet(msgs) :
              k.holds = n.holds /\ k.state = n.state /\ k.retries = n.retries
      BY <1>7, RenewMoves
    <2> QED BY <2>1 DEF HoldersWork
  <1>8. CASE TaskRaises(m)
    BY <1>1, <1>8, RaiseMoves, OthersStay, StepsOfMessage DEF HoldersWork
  <1>9. CASE WorkerDies(m)
    BY <1>1, <1>9, DeathMoves, OthersStay, StepsOfMessage DEF HoldersWork
  <1> QED BY <1>2, <1>3, <1>4, <1>5, <1>6, <1>7, <1>8, <1>9 DEF Task

\* A queued job is claimed by a message without retries; a running one keeps
\* the run that holds its lease.
LEMMA UndisturbedKept ==
    ASSUME TypeOK, HoldersWork, Undisturbed, NEW m \in BagToSet(msgs), Task(m) \/ Renew(m)
    PROVE  Undisturbed'
  <1>1. m \in Message /\ BagToSet(msgs) \subseteq Message
    BY DEF TypeOK
  <1>2. CASE Deliver(m) /\ MayClaim
    <2>1. m.retries = 0
      BY <1>2 DEF MayClaim, Undisturbed, Fresh
    <2>2. job' = [status |-> "running", live |-> TRUE] /\ Claimed(m) \in BagToSet(msgs')
      BY <1>2, ClaimMoves
    <2>3. Claimed(m).holds /\ Claimed(m).retries = 0
      BY <1>1, <2>1, StepsOfMessage
    <2> QED BY <2>2, <2>3 DEF Undisturbed
  <1>3. CASE Deliver(m) /\ ~MayClaim
    <2>1. job.status # "queued"
      BY <1>3 DEF MayClaim
    <2> QED BY <1>1, <1>3, <2>1, AskMoves, OthersStay DEF Undisturbed, HoldersWork
  <1>4. CASE FinishRun(m)
    <2>1. CASE UNCHANGED job /\ ~Holds(m)
      <3>1. job.status # "queued"
        BY <1>4, EndMoves DEF Undisturbed, Fresh
      <3>2. job.status = "running" => ~m.holds
        BY <2>1 DEF Holds, Undisturbed
      <3> QED BY <1>4, <2>1, <3>1, <3>2, EndMoves, OthersStay DEF Undisturbed
    <2>2. CASE job'.status \in {"succeeded", "failed"}
      BY <2>2 DEF Undisturbed
    <2> QED BY <1>4, <2>1, <2>2, EndMoves
  <1>5. CASE ReadStatus(m)
    <2>1. CASE job.status = "queued"
      <3>1. /\ msgs' = Gone(m) /\ m.state = "status"
            /\ UNCHANGED <<job, outbox, disp>>
        BY <1>5, <2>1, StatusMoves
      <3>2. /\ BagToSet(msgs') \subseteq BagToSet(msgs)
            /\ \A k \in BagToSet(msgs) : k # m => k \in BagToSet(msgs')
        BY <3>1, Moved DEF TypeOK
      <3> QED BY <2>1, <3>1, <3>2 DEF Undisturbed, Sent
    <2>2. CASE job.status = "running"
      <3>1. \A k \in BagToSet(msgs) : k # m => k \in BagToSet(msgs')
        BY <1>5, StatusMoves, OthersStay
      <3> QED BY <1>5, <2>2, <3>1, StatusMoves DEF Undisturbed, HoldersWork
    <2> QED BY <1>5, <2>1, <2>2, StatusMoves DEF Undisturbed
  <1>6. CASE CountdownEnds(m)
    <2>1. job.status # "queued"
      BY <1>6, CountdownMoves DEF Undisturbed, Fresh
    <2> QED BY <1>6, <2>1, CountdownMoves, OthersStay DEF Undisturbed, HoldersWork
  <1>7. CASE Renew(m)
    <2>1. job.status = "running" /\ job' = job
      BY <1>7, RenewMoves DEF Holds
    <2>2. \A n \in BagToSet(msgs) : \E k \in BagToSet(msgs') :
              k.holds = n.holds /\ k.state = n.state /\ k.retries = n.retries
      BY <1>7, RenewMoves
    <2> QED BY <2>1, <2>2 DEF Undisturbed
  <1> QED BY <1>2, <1>3, <1>4, <1>5, <1>6, <1>7 DEF Task

\* A message that will claim the job goes its way until one does.
LEMMA OnItsWayKept ==
    ASSUME TypeOK, HoldersWork, OnItsWay, NEW m \in BagToSet(msgs), Task(m) \/ Renew(m)
    PROVE  OnItsWay'
  <1>1. m \in Message
    BY DEF TypeOK
  <1>2. CASE Deliver(m) /\ MayClaim
    <2>1. job' = [status |-> "running", live |-> TRUE] /\ Claimed(m) \in BagToSet(msgs')
      BY <1>2, ClaimMoves
    <2>2. Claimed(m).holds
      BY <1>1, StepsOfMessage
    <2> QED BY <2>1, <2>2 DEF OnItsWay, Carries
  <1>3. CASE Deliver(m) /\ ~MayClaim
    <2>1. job.status # "queued" /\ (job.status = "running" => job.live)
      BY <1>3 DEF MayClaim, TypeOK
    <2>2. /\ m.state = "ready" /\ UNCHANGED job
          /\ Asks(m) \in BagToSet(msgs') /\ Asks(m).retries = m.retries
          /\ \A k \in BagToSet(msgs) : k # m => k \in BagToSet(msgs')
      BY <1>1, <1>3, AskMoves, OthersStay, StepsOfMessage
    <2> QED BY <2>1, <2>2 DEF OnItsWay, Carries, WillClaim, HoldersWork
  <1>4. CASE FinishRun(m)
    <2>1. CASE UNCHANGED job /\ ~Holds(m)
      <3>1. /\ m.state = "working" /\ UNCHANGED <<outbox, disp>>
            /\ Ended(m) \in BagToSet(msgs') /\ Ended(m).retries = m.retries
            /\ \A k \in BagToSet(msgs) : k # m => k \in BagToSet(msgs')
        BY <1>1, <1>4, EndMoves, OthersStay, StepsOfMessage
      <3>2. job.status = "running" => ~(job.live /\ m.holds)
        BY <2>1 DEF Holds
      <3> QED BY <2>1, <3>1, <3>2 DEF OnItsWay, Carries, WillClaim, Sent
    <2>2. CASE job'.status \in {"succeeded", "failed"}
      BY <2>2 DEF OnItsWay
    <2> QED BY <1>4, <2>1, <2>2, EndMoves
  <1>5. CASE ReadStatus(m)
    <2>1. /\ m.state = "status" /\ UNCHANGED <<job, outbox, disp>>
          /\ \A k \in BagToSet(msgs) : k # m => k \in BagToSet(msgs')
      BY <1>5, StatusMoves, OthersStay
    <2>2. job.status = "running" /\ m.retries < RecheckRetries =>
              /\ Rechecks(m) \in BagToSet(msgs')
              /\ Rechecks(m).state = "delayed" /\ Rechecks(m).seen
      BY <1>1, <1>5, StatusMoves, OthersStay, StepsOfMessage DEF RecheckAllowed
    <2> QED BY <2>1, <2>2 DEF OnItsWay, Carries, WillClaim, Sent, HoldersWork
  <1>6. CASE CountdownEnds(m)
    <2>1. /\ m.state = "delayed" /\ ~(m.seen /\ job.status = "running" /\ job.live)
          /\ UNCHANGED <<job, outbox, disp>>
          /\ Awakes(m) \in BagToSet(msgs') /\ Awakes(m).state = "ready"
          /\ Awakes(m).retries = m.retries
          /\ \A k \in BagToSet(msgs) : k # m => k \in BagToSet(msgs')
      BY <1>1, <1>6, CountdownMoves, OthersStay, StepsOfMessage
    <2> QED BY <2>1 DEF OnItsWay, Carries, WillClaim, Sent, HoldersWork
  <1>7. CASE Renew(m)
    <2>1. job.status = "running" /\ job.live /\ job' = job
      BY <1>7, RenewMoves DEF Holds
    <2>2. [m EXCEPT !.seen = FALSE] \in BagToSet(msgs') /\ [m EXCEPT !.seen = FALSE].holds
      BY <1>7, RenewMoves
    <2> QED BY <2>1, <2>2 DEF OnItsWay, Carries
  <1> QED BY <1>2, <1>3, <1>4, <1>5, <1>6, <1>7 DEF Task

\* In the first life of a job its only message goes from step to step.
LEMMA FirstLifeKept ==
    ASSUME TypeOK, HoldersWork, Undisturbed, FirstLife,
           NEW m \in BagToSet(msgs), Task(m) \/ Renew(m)
    PROVE  FirstLife'
  <1>1. msgs = SetToBag({m}) /\ OnlyMessage(m) /\ m \in Message /\ ~Unsent
    <2>1. msgs # EmptyBag
      BY OnlyOne
    <2>2. PICK n \in Message : OnlyMessage(n)
      BY <2>1 DEF FirstLife
    <2>3. m = n
      BY <2>2, OnlyOne DEF OnlyMessage
    <2> QED BY <2>1, <2>2, <2>3 DEF OnlyMessage, FirstLife
  <1>2. SUFFICES ASSUME UNCHANGED <<outbox, disp>>
                 PROVE  msgs' = EmptyBag \/ \E n \in Message : OnlyMessage(n)'
    <2>1. UNCHANGED <<outbox, disp>>
      BY ClaimMoves, AskMoves, EndMoves, StatusMoves, CountdownMoves, RenewMoves DEF Task
    <2>2. msgs' = EmptyBag \/ \E n \in Message : OnlyMessage(n)'
      BY <1>2, <2>1
    <2> QED BY <1>1, <2>1, <2>2 DEF FirstLife, Unsent
  <1>3. \A n \in Message : /\ Claimed(n) \in Message /\ Asks(n) \in Message
                           /\ Ended(n) \in Message /\ Awakes(n) \in Message
    BY DEF Message, Claimed, Asks, Ended, Awakes
  <1>4. m.retries = 0 /\ ~m.seen /\ (job.status = "queued" => m.state = "ready")
        /\ (job.status = "failed" => m.state = "status")
    BY <1>1 DEF OnlyMessage
  <1>5. job.status = "running" => m.holds /\ m.state = "working"
    BY <1>1, OnlyOne DEF Undisturbed, HoldersWork
  <1>6. ASSUME NEW n \in Message, msgs' = SetToBag({n}), n.retries = 0, ~n.seen,
               job'.status = "queued" => n.state = "ready",
               job'.status = "failed" => n.state = "status"
        PROVE  \E k \in Message : OnlyMessage(k)'
    BY <1>6 DEF OnlyMessage
  <1>7. /\ Claimed(m).retries = 0 /\ ~Claimed(m).seen
        /\ Asks(m).retries = 0 /\ ~Asks(m).seen /\ Asks(m).state = "status"
        /\ Ended(m).retries = 0 /\ ~Ended(m).seen /\ Ended(m).state = "status"
        /\ Awakes(m).retries = 0 /\ ~Awakes(m).seen
    BY <1>1, <1>4, StepsOfMessage
  <1>8. CASE Deliver(m) /\ MayClaim
    <2>1. job' = [status |-> "running", live |-> TRUE]
          /\ msgs' = Dispossessed(Gone(m)) (+) SetToBag({Claimed(m)})
      BY <1>8, ClaimMoves, Zenon
    <2>2. msgs' = SetToBag({Claimed(m)})
      BY <1>1, <2>1, OnlyMoved, Zenon
    <2>3. Claimed(m) \in Message
      BY <1>1, <1>3
    <2>4. job'.status # "queued" /\ job'.status # "failed"
      BY <2>1
    <2> QED BY <1>6, <1>7, <2>2, <2>3, <2>4
  <1>9. CASE Deliver(m) /\ ~MayClaim
    <2>1. job' = job /\ msgs' = SetToBag({Asks(m)}) /\ job.status # "queued"
      BY <1>1, <1>9, AskMoves, OnlyMoved DEF MayClaim
    <2> QED BY <1>1, <1>3, <1>6, <1>7, <2>1
  <1>10. CASE FinishRun(m)
    <2>1. /\ msgs' = SetToBag({Ended(m)}) /\ m.state = "working"
          /\ job' = job \/ job'.status \in {"succeeded", "failed"}
      BY <1>1, <1>10, EndMoves, OnlyMoved
    <2> QED BY <1>1, <1>3, <1>4, <1>6, <1>7, <2>1
  <1>11. CASE ReadStatus(m)
    <2>1. m.state = "status" /\ job.status # "running"
      BY <1>5, <1>11, StatusMoves
    <2> QED BY <1>1, <1>11, <2>1, StatusMoves, OnlyMoved
  <1>12. CASE CountdownEnds(m)
    <2>1. job' = job /\ msgs' = SetToBag({Awakes(m)}) /\ m.state = "delayed"
      BY <1>1, <1>12, CountdownMoves, OnlyMoved
    <2> QED BY <1>1, <1>3, <1>4, <1>6, <1>7, <2>1
  <1>13. CASE Renew(m)
    <2>1. \E n \in BagToSet(msgs) : n.seen
      BY <1>13, RenewMoves
    <2> QED BY <1>1, <1>4, <2>1, OnlyOne
  <1> QED BY <1>8, <1>9, <1>10, <1>11, <1>12, <1>13 DEF Task

----------------------------------------------------------------------------
(* The first fault finds the job undisturbed, and leaves it a carrier.      *)

LEMMA MessageFault ==
    ASSUME TypeOK, HoldersWork, Undisturbed, NEW m \in BagToSet(msgs),
           TaskRaises(m) \/ WorkerDies(m)
    PROVE  OnItsWay'
  <1>1. m \in Message /\ m.retries \in Nat
    BY DEF TypeOK, Message
  <1>2. \A k \in BagToSet(msgs) : k # m => k \in BagToSet(msgs')
    BY RaiseMoves, DeathMoves, OthersStay
  <1>3. CASE TaskRaises(m)
    <2>1. m.retries = 0 => /\ Retries(m) \in BagToSet(msgs')
                           /\ Retries(m).state = "delayed" /\ Retries(m).retries = 1
      BY <1>1, <1>3, RaiseMoves, OthersStay, StepsOfMessage, DispatchAssumption
    <2>2. UNCHANGED <<job, outbox, disp>>
      BY <1>3, RaiseMoves
    <2> QED BY <1>2, <2>1, <2>2, DispatchAssumption
            DEF Undisturbed, Fresh, OnItsWay, Carries, WillClaim, Sent
  <1>4. CASE WorkerDies(m)
    <2>1. /\ Redelivered(m) \in BagToSet(msgs') /\ Redelivered(m).state = "ready"
          /\ Redelivered(m).retries = m.retries
      BY <1>1, <1>4, DeathMoves, OthersStay, StepsOfMessage
    <2>2. UNCHANGED <<job, outbox, disp>>
      BY <1>4, DeathMoves
    <2> QED BY <1>2, <2>1, <2>2, DispatchAssumption
            DEF Undisturbed, OnItsWay, Carries, WillClaim, Sent
  <1> QED BY <1>3, <1>4

LEMMA OtherFault ==
    ASSUME TypeOK, Undisturbed, UNCHANGED msgs, job'.status = job.status, Sent' => Sent
    PROVE  OnItsWay'
  BY DispatchAssumption DEF Undisturbed, OnItsWay, Carries, WillClaim

----------------------------------------------------------------------------
(* Steps of dispatchers, of time and of users.                             *)

\* A new claim: the row is not sent any more, nor about to be.
LEMMA ClaimStep ==
    ASSUME TypeOK, CarrierInv, NEW d \in Dispatchers, ClaimOutbox(d)
    PROVE  CarrierInv'
  <1>1. /\ outbox' = [status |-> "publishing", attempt |-> outbox.attempt + 1, ready |-> FALSE]
        /\ disp' = [disp EXCEPT ![d] = [pc |-> "sending", attempt |-> outbox.attempt + 1]]
        /\ disp[d].pc = "idle" /\ Claimable
        /\ UNCHANGED <<job, msgs, faults, userRetries>>
    BY DEF ClaimOutbox
  <1>2. ClaimsBehind'
    BY <1>1 DEF CarrierInv, ClaimsBehind, TypeOK
  <1>3. ~Sent'
    BY <1>1 DEF CarrierInv, ClaimsBehind, TypeOK, Sent
  <1>4. ASSUME FirstLife PROVE FirstLife'
    <2>1. outbox.status \in {"pending", "failed"}
      BY <1>1, <1>4 DEF FirstLife, Claimable
    <2>2. \A e \in Dispatchers : disp[e].pc = "idle"
      BY <1>4, <2>1 DEF FirstLife
    <2>3. msgs = EmptyBag /\ job.status \in {"queued", "cancelled"}
      BY <1>4, <2>1 DEF FirstLife, Unsent
    <2>4. \A e \in Dispatchers :
            disp'[e] = IF e = d THEN [pc |-> "sending", attempt |-> outbox.attempt + 1] ELSE disp[e]
      BY <1>1 DEF TypeOK
    <2> QED BY <1>1, <2>2, <2>3, <2>4 DEF FirstLife
  <1>5. Undisturbed => Undisturbed'
    BY <1>1, <1>3 DEF Undisturbed
  <1>6. OnItsWay => OnItsWay'
    BY <1>1, <1>3 DEF OnItsWay, Carries, WillClaim
  <1> QED BY <1>1, <1>2, <1>4, <1>5, <1>6 DEF CarrierInv, HoldersWork

LEMMA SendStep ==
    ASSUME TypeOK, CarrierInv, NEW d \in Dispatchers, Send(d)
    PROVE  CarrierInv'
  <1>1. /\ msgs' = msgs (+) SetToBag({NewMessage}) /\ disp' = [disp EXCEPT ![d].pc = "sent"]
        /\ disp[d].pc = "sending"
        /\ UNCHANGED <<job, outbox, faults, userRetries>>
    BY DEF Send
  <1>2. BagToSet(msgs') = BagToSet(msgs) \cup {NewMessage}
    BY <1>1, OneMore, Zenon DEF TypeOK
  <1>3. /\ NewMessage \in Message /\ NewMessage.state = "ready" /\ NewMessage.retries = 0
        /\ ~NewMessage.seen /\ ~NewMessage.holds
    BY DispatchAssumption DEF NewMessage, Message
  <1>4. ClaimsBehind'
    BY <1>1 DEF CarrierInv, ClaimsBehind, TypeOK
  <1>5. HoldersWork'
    BY <1>2, <1>3 DEF CarrierInv, HoldersWork
  <1>6. ASSUME FirstLife PROVE FirstLife'
    <2>1. msgs = EmptyBag /\ job.status \in {"queued", "cancelled"}
      BY <1>1, <1>6 DEF FirstLife, Unsent
    <2>2. msgs' = SetToBag({NewMessage})
      BY <1>1, <2>1, OnlyOne, Zenon
    <2>3. OnlyMessage(NewMessage)'
      BY <1>1, <1>3, <2>1, <2>2 DEF OnlyMessage
    <2>4. \A e \in Dispatchers : e # d => disp'[e] = disp[e] /\ disp[e].pc = "idle"
      BY <1>1, <1>6 DEF FirstLife, TypeOK
    <2>5. disp'[d].pc = "sent" /\ disp'[d].attempt = outbox.attempt
          /\ outbox.status = "publishing" /\ ~outbox.ready
      BY <1>1, <1>6 DEF FirstLife, TypeOK
    <2>6. ~Unsent'
      BY <1>1, <2>4, <2>5 DEF Unsent
    <2> QED BY <1>1, <1>3, <2>3, <2>4, <2>5, <2>6 DEF FirstLife
  <1>7. Undisturbed => Undisturbed'
    BY <1>1, <1>2, <1>3 DEF Undisturbed, Fresh
  <1>8. OnItsWay => OnItsWay'
    BY <1>1, <1>2, <1>3 DEF OnItsWay, Carries, WillClaim
  <1> QED BY <1>1, <1>4, <1>5, <1>6, <1>7, <1>8 DEF CarrierInv

\* Steps that leave the messages and the job alone, and send nothing.
LEMMA RowStep ==
    ASSUME TypeOK, CarrierInv, UNCHANGED <<job, msgs, userRetries>>, ClaimsBehind',
           Sent' => Sent,
           \/ faults' = faults + 1
           \/ faults' = faults /\ (FirstLife => FirstLife')
    PROVE  CarrierInv'
  <1>1. HoldersWork'
    BY DEF CarrierInv, HoldersWork
  <1>2. Undisturbed => Undisturbed' /\ OnItsWay'
    BY OtherFault DEF Undisturbed
  <1>3. OnItsWay => OnItsWay'
    BY DEF OnItsWay, Carries, WillClaim
  <1>4. faults \in Nat
    BY DEF TypeOK
  <1> QED BY <1>1, <1>2, <1>3, <1>4 DEF CarrierInv

LEMMA MarkStep ==
    ASSUME TypeOK, CarrierInv, NEW d \in Dispatchers, MarkPublished(d) \/ MarkFailed(d)
    PROVE  CarrierInv'
  <1>1. /\ disp' = [disp EXCEPT ![d] = Idle] /\ UNCHANGED <<job, msgs, faults, userRetries>>
        /\ \/ outbox' = outbox /\ ~ClaimHeld(d)
           \/ ClaimHeld(d) /\ disp[d].pc = "sent"
              /\ outbox' = [outbox EXCEPT !.status = "published", !.ready = FALSE]
           \/ ClaimHeld(d) /\ disp[d].pc = "failed"
              /\ outbox' = [outbox EXCEPT !.status = "failed", !.ready = FALSE]
        /\ disp[d].pc \in {"sent", "failed"}
    BY DEF MarkPublished, MarkFailed, Mark
  <1>2. outbox'.attempt = outbox.attempt /\ outbox.attempt \in Nat
    BY <1>1 DEF TypeOK
  <1>3. \A e \in Dispatchers : disp'[e] = IF e = d THEN Idle ELSE disp[e]
    BY <1>1 DEF TypeOK
  <1>4. ClaimsBehind'
    BY <1>2, <1>3 DEF CarrierInv, ClaimsBehind, Idle
  <1>5. outbox'.status = IF outbox' = outbox THEN outbox.status
                         ELSE IF disp[d].pc = "sent" THEN "published" ELSE "failed"
    BY <1>1 DEF TypeOK
  <1>6. Sent' => Sent
    <2>1. CASE outbox' = outbox
      BY <1>3, <2>1 DEF Sent, Idle
    <2>2. CASE outbox' # outbox
      BY <1>1, <1>5, <2>2 DEF Sent, ClaimHeld
    <2> QED BY <2>1, <2>2
  <1>7. ASSUME FirstLife PROVE FirstLife'
    <2>1. /\ disp[d].pc = "sent" /\ outbox.status = "publishing" /\ disp[d].attempt = outbox.attempt
          /\ \A e \in Dispatchers : disp[e].pc # "idle" => e = d
      BY <1>1, <1>7 DEF FirstLife
    <2>2. outbox'.status = "published"
      BY <1>1, <2>1 DEF ClaimHeld, TypeOK
    <2>3. \A e \in Dispatchers : disp'[e].pc = "idle"
      BY <1>3, <2>1 DEF Idle
    <2>4. ~Unsent'
      BY <2>2, <2>3 DEF Unsent
    <2>5. (msgs = EmptyBag \/ \E m \in Message : OnlyMessage(m))'
      BY <1>1, <1>7 DEF FirstLife, OnlyMessage
    <2> QED BY <2>2, <2>3, <2>4, <2>5 DEF FirstLife
  <1> QED BY <1>1, <1>4, <1>6, <1>7, RowStep

LEMMA DispatcherFault ==
    ASSUME TypeOK, CarrierInv, NEW d \in Dispatchers, SendFails(d) \/ DispatcherDies(d)
    PROVE  CarrierInv'
  <1>1. /\ UNCHANGED <<job, outbox, msgs, userRetries>> /\ faults' = faults + 1
        /\ disp' = [disp EXCEPT ![d].pc = "failed"] \/ disp' = [disp EXCEPT ![d] = Idle]
    BY DEF SendFails, DispatcherDies, Fault
  <1>2. \A e \in Dispatchers :
            disp'[e] = disp[e] \/ (disp'[e].pc # "sent" /\ disp'[e].attempt <= outbox.attempt)
    BY <1>1 DEF TypeOK, Idle, CarrierInv, ClaimsBehind
  <1>3. ClaimsBehind'
    BY <1>1, <1>2 DEF CarrierInv, ClaimsBehind
  <1>4. Sent' => Sent
    BY <1>1, <1>2 DEF Sent
  <1> QED BY <1>1, <1>3, <1>4, RowStep

LEMMA DueStep ==
    ASSUME TypeOK, CarrierInv, OutboxDue \/ OutboxDueEarly
    PROVE  CarrierInv'
  <1>1. /\ outbox' = [outbox EXCEPT !.ready = TRUE] /\ UNCHANGED <<job, disp, msgs, userRetries>>
        /\ outbox.status \in {"failed", "publishing"}
        /\ \/ faults' = faults + 1
           \/ faults' = faults /\ (outbox.status = "publishing" => ~ClaimantAlive)
    BY DEF OutboxDue, OutboxDueEarly, Fault
  <1>2. outbox'.attempt = outbox.attempt /\ outbox'.status = outbox.status
    BY <1>1 DEF TypeOK
  <1>3. ClaimsBehind' /\ (Sent' => Sent)
    BY <1>1, <1>2 DEF CarrierInv, ClaimsBehind, Sent
  <1>4. ASSUME FirstLife, outbox.status = "publishing" => ~ClaimantAlive PROVE FirstLife'
    <2>1. outbox.status = "failed"
      BY <1>1, <1>4 DEF FirstLife, ClaimantAlive
    <2>2. Unsent' => Unsent
      BY <1>1, <1>2 DEF Unsent
    <2> QED BY <1>1, <1>2, <1>4, <2>1, <2>2 DEF FirstLife, OnlyMessage
  <1> QED BY <1>1, <1>3, <1>4, RowStep

LEMMA LeaseStep ==
    ASSUME TypeOK, CarrierInv, LeaseRunsOut \/ LeaseRunsOutEarly
    PROVE  CarrierInv'
  <1>1. /\ job.status = "running" /\ job' = [job EXCEPT !.live = FALSE]
        /\ UNCHANGED <<outbox, disp, msgs, userRetries>>
        /\ faults' = faults + 1 \/ (faults' = faults /\ ~HolderAlive)
    BY DEF LeaseRunsOut, LeaseRunsOutEarly, Fault
  <1>2. job'.status = "running" /\ ~job'.live
    BY <1>1 DEF TypeOK
  <1>3. ClaimsBehind' /\ HoldersWork'
    BY <1>1 DEF CarrierInv, ClaimsBehind, HoldersWork
  <1>4. Undisturbed => OnItsWay'
    BY <1>1, <1>2, OtherFault DEF Undisturbed, Sent
  <1>5. Undisturbed => HolderAlive
    BY <1>1 DEF Undisturbed, HolderAlive
  <1>6. OnItsWay /\ ~HolderAlive => OnItsWay'
    BY <1>1, <1>2 DEF OnItsWay, Carries, WillClaim, HolderAlive
  <1>7. faults \in Nat
    BY DEF TypeOK
  <1>8. CASE faults' = faults + 1
    BY <1>1, <1>3, <1>4, <1>7, <1>8 DEF CarrierInv
  <1>9. CASE faults' = faults /\ ~HolderAlive
    BY <1>1, <1>3, <1>5, <1>6, <1>7, <1>9, DispatchAssumption DEF CarrierInv, TypeOK
  <1> QED BY <1>1, <1>8, <1>9

LEMMA UserStep ==
    ASSUME TypeOK, CarrierInv, UserRetry \/ UserCancel
    PROVE  CarrierInv'
  <1>1. /\ UNCHANGED <<disp, msgs, faults>> /\ outbox'.attempt = outbox.attempt
        /\ userRetries \in Nat
    <2>1. userRetries \in Nat
      BY DEF TypeOK
    <2>2. UNCHANGED <<disp, msgs, faults>>
      BY DEF UserRetry, UserCancel
    <2>3. outbox'.attempt = outbox.attempt
      BY DEF UserRetry, UserCancel, TypeOK
    <2> QED BY <2>1, <2>2, <2>3
  <1>2. ClaimsBehind' /\ HoldersWork'
    BY <1>1 DEF CarrierInv, ClaimsBehind, HoldersWork
  <1>3. CASE UserRetry
    <2>1. /\ job.status = "failed" /\ job'.status = "queued" /\ outbox'.status = "pending"
          /\ userRetries' = userRetries + 1
      BY <1>3 DEF UserRetry, TypeOK
    <2>2. ~Sent'
      BY <2>1 DEF Sent
    <2>3. ASSUME FirstLife PROVE Undisturbed'
      <3>1. CASE msgs = EmptyBag
        BY <1>1, <2>1, <2>2, <3>1, OnlyOne DEF Undisturbed
      <3>2. ASSUME NEW n \in Message, OnlyMessage(n) PROVE Undisturbed'
        <4>1. n.retries = 0 /\ n.state = "status"
          BY <2>1, <3>2 DEF OnlyMessage
        <4>2. BagToSet(msgs') = {n}
          BY <1>1, <3>2, OnlyOne DEF OnlyMessage
        <4> QED BY <2>1, <2>2, <4>1, <4>2 DEF Undisturbed, Fresh
      <3> QED BY <2>3, <3>1, <3>2 DEF FirstLife
    <2>4. OnItsWay'
      BY <2>1, <2>2 DEF OnItsWay
    <2> QED BY <1>1, <1>2, <2>1, <2>3, <2>4 DEF CarrierInv
  <1>4. CASE UserCancel
    <2>1. /\ job.status = "queued" /\ job'.status = "cancelled" /\ userRetries' = userRetries
          /\ outbox' = outbox \/ (outbox.status = "pending" /\ outbox'.status = "failed")
      BY <1>4 DEF UserCancel, TypeOK
    <2>2. Undisturbed' /\ OnItsWay'
      BY <2>1 DEF Undisturbed, OnItsWay
    <2>3. ASSUME FirstLife PROVE FirstLife'
      <3>1. Unsent' => Unsent
        BY <1>1, <2>1 DEF Unsent
      <3>2. (msgs = EmptyBag \/ \E m \in Message : OnlyMessage(m))'
        BY <1>1, <2>1, <2>3 DEF FirstLife, OnlyMessage
      <3>3. outbox' = outbox \/ \A d \in Dispatchers : disp'[d].pc = "idle"
        BY <1>1, <2>1, <2>3 DEF FirstLife
      <3> QED BY <1>1, <2>1, <2>3, <3>1, <3>2, <3>3 DEF FirstLife
    <2> QED BY <1>1, <1>2, <2>1, <2>2, <2>3 DEF CarrierInv
  <1> QED BY <1>3, <1>4

LEMMA TaskStep ==
    ASSUME TypeOK, CarrierInv, NEW m \in BagToSet(msgs),
           Task(m) \/ Renew(m) \/ TaskRaises(m) \/ WorkerDies(m)
    PROVE  CarrierInv'
  <1>1. HoldersWork /\ HoldersWork'
    BY HoldersKept DEF CarrierInv
  <1>2. CASE Task(m) \/ Renew(m)
    <2>1. UNCHANGED <<outbox, disp, faults, userRetries>>
      BY <1>2, ClaimMoves, AskMoves, EndMoves, StatusMoves, CountdownMoves, RenewMoves DEF Task
    <2>2. ClaimsBehind'
      BY <2>1 DEF CarrierInv, ClaimsBehind
    <2>3. Undisturbed => Undisturbed'
      BY <1>1, <1>2, UndisturbedKept
    <2>4. OnItsWay => OnItsWay'
      BY <1>1, <1>2, OnItsWayKept
    <2>5. Undisturbed /\ FirstLife => FirstLife'
      BY <1>1, <1>2, FirstLifeKept
    <2> QED BY <1>1, <2>1, <2>2, <2>3, <2>4, <2>5 DEF CarrierInv
  <1>3. CASE TaskRaises(m) \/ WorkerDies(m)
    <2>1. UNCHANGED <<job, outbox, disp, userRetries>> /\ faults' = faults + 1
      BY <1>3, RaiseMoves, DeathMoves
    <2>2. ClaimsBehind'
      BY <2>1 DEF CarrierInv, ClaimsBehind
    <2>3. Undisturbed => OnItsWay'
      BY <1>1, <1>3, MessageFault
    <2>4. faults \in Nat
      BY DEF TypeOK
    <2> QED BY <1>1, <2>1, <2>2, <2>3, <2>4 DEF CarrierInv
  <1> QED BY <1>2, <1>3

LEMMA CarrierStep ==
    ASSUME TypeOK, CarrierInv, [Next]_vars
    PROVE  CarrierInv'
  <1>1. CASE \E d \in Dispatchers :
                 ClaimOutbox(d) \/ Dispatch(d) \/ SendFails(d) \/ DispatcherDies(d)
    BY <1>1, ClaimStep, SendStep, MarkStep, DispatcherFault DEF Dispatch
  <1>2. CASE \E m \in BagToSet(msgs) : Task(m) \/ Renew(m) \/ TaskRaises(m) \/ WorkerDies(m)
    BY <1>2, TaskStep
  <1>3. CASE OutboxDue \/ OutboxDueEarly \/ LeaseRunsOut \/ LeaseRunsOutEarly
    BY <1>3, DueStep, LeaseStep
  <1>4. CASE UserRetry \/ UserCancel
    BY <1>4, UserStep
  <1>5. CASE UNCHANGED vars
    BY <1>5 DEF vars, CarrierInv, ClaimsBehind, HoldersWork, FirstLife, Unsent, OnlyMessage,
                Undisturbed, Fresh, OnItsWay, Carries, WillClaim, Sent
  <1> QED BY <1>1, <1>2, <1>3, <1>4, <1>5 DEF Next

LEMMA CarrierInit == Init => CarrierInv
  <1> SUFFICES ASSUME Init PROVE CarrierInv
    OBVIOUS
  <1>1. BagToSet(msgs) = {} /\ msgs = EmptyBag
    BY OnlyOne DEF Init
  <1>2. /\ job.status = "queued" /\ outbox.status = "pending" /\ outbox.attempt = 0
        /\ \A d \in Dispatchers : disp[d].pc = "idle" /\ disp[d].attempt = 0
        /\ faults = 0 /\ userRetries = 0
    BY DEF Init, Idle
  <1>3. ~Sent
    BY <1>2 DEF Sent
  <1> QED BY <1>1, <1>2, <1>3 DEF CarrierInv, ClaimsBehind, HoldersWork, FirstLife, Undisturbed

\* Until the second fault and the second user retry a job in flight is never
\* forgotten, for any dispatchers and retry limits of the code's kind: one row or
\* one message will come back to it (dispatch_pending_outbox, generate_attachment_job).
THEOREM DispatchCarrier ==
    Spec => [](faults <= 1 /\ userRetries <= 1 => InFlightJobHasCarrier)
  <1>1. CarrierInv /\ TypeOK => (faults <= 1 /\ userRetries <= 1 => InFlightJobHasCarrier)
    <2> SUFFICES ASSUME CarrierInv, TypeOK, faults <= 1, userRetries <= 1, InFlight,
                        outbox.status = "published"
                 PROVE  msgs # EmptyBag
      BY DEF InFlightJobHasCarrier
    <2>1. Undisturbed \/ OnItsWay
      BY DEF CarrierInv, TypeOK
    <2>2. \E m \in BagToSet(msgs) : TRUE
      BY <2>1 DEF Undisturbed, OnItsWay, InFlight, Sent
    <2> QED BY <2>2, OnlyOne
  <1>2. Spec => []CarrierInv
    BY DispatchTypeCorrect, CarrierInit, CarrierStep, PTL DEF Spec
  <1> QED BY <1>1, <1>2, DispatchTypeCorrect, PTL
=============================================================================
