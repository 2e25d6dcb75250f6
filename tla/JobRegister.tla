---------------------------- MODULE JobRegister ----------------------------
(***************************************************************************)
(* What creating attachment jobs promises to its clients: a register that  *)
(* seems to be read and written in single steps.  A request is open until  *)
(* it is closed, once.  While it is open it may make the one entry of its  *)
(* own, if none stands for its input and none was made under its key; or   *)
(* be closed with an entry that was made for its very input; or be closed  *)
(* with none.  A request with an entry of its own is given no other, and   *)
(* entries are never unmade: they live on by themselves, and a cancelled   *)
(* one stands in nobody's way any more, except by its key.                 *)
(***************************************************************************)

CONSTANTS
    Requests,
    NoKey,     \* a request without a key
    NoJob      \* "no entry"

VARIABLES
    asked,     \* input and key of each request
    entry,     \* entry[r]: state of the entry r made, "none" before
    closed,    \* the requests that are closed
    given      \* given[r]: whose entry r was closed with

vars == <<asked, entry, closed, given>>

Made == {j \in Requests : entry[j] # "none"}
Standing == {j \in Made : entry[j] # "cancelled"}

\* Nothing stands in the way of an entry for r.
Vacant(r) ==
    /\ \A j \in Standing : asked[j].input # asked[r].input
    /\ asked[r].key # NoKey => \A j \in Made : asked[j].key # asked[r].key

Init ==
    /\ entry = [r \in Requests |-> "none"]
    /\ closed = {}
    /\ given = [r \in Requests |-> NoJob]

Close(r, j) ==
    /\ r \notin closed
    /\ closed' = closed \cup {r}
    /\ given' = [given EXCEPT ![r] = j]

\* The entry is made, and its request is told at once or left open.
Enter(r) ==
    /\ r \notin closed /\ r \notin Made /\ Vacant(r)
    /\ entry' = [entry EXCEPT ![r] = "queued"]
    /\ Close(r, r) \/ UNCHANGED <<closed, given>>
    /\ UNCHANGED asked

\* The request is told of an entry for its input, which somebody else made.
Join(r, j) ==
    /\ r \notin Made /\ j \in Made /\ asked[j].input = asked[r].input
    /\ Close(r, j)
    /\ UNCHANGED <<asked, entry>>

\* The request is turned away, or never answered.
GiveUp(r) == Close(r, NoJob) /\ UNCHANGED <<asked, entry>>

\* The life of a job after its creation.
LifeOn(j) ==
    /\ \E m \in {<<"queued", "running">>, <<"running", "succeeded">>, <<"running", "failed">>,
                 <<"failed", "queued">>, <<"queued", "cancelled">>} :
         entry[j] = m[1] /\ entry' = [entry EXCEPT ![j] = m[2]]
    /\ UNCHANGED <<asked, closed, given>>

Next == \E r \in Requests :
    \/ Enter(r) \/ GiveUp(r) \/ LifeOn(r)
    \/ \E j \in Requests : Join(r, j)

Spec == Init /\ [][Next]_vars
============================================================================
