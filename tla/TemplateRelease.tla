-------------------------- MODULE TemplateRelease --------------------------
(***************************************************************************)
(* What the governance of document templates promises to the jobs that     *)
(* render them: at any moment one version is released, or none, and what   *)
(* is released is fixed.                                                   *)
(*                                                                         *)
(* How a version comes to its content is nobody's business as long as it   *)
(* is open.  It is released with one content and keeps it, through any     *)
(* number of withdrawals and releases, until it is discarded as a whole.   *)
(* A job is handed the released content at some moment and records it,     *)
(* complete, at a later one, whatever has become of the version meanwhile. *)
(***************************************************************************)

CONSTANTS
    Versions, NoVersion,
    Contents,            \* what a version may say
    Sessions,            \* those who may be handed a content
    NoContent            \* the content of a version that is open or gone

VARIABLES
    stage,     \* "open", "released", "withdrawn" or "gone"
    content,   \* what the version says while it is released or withdrawn
    current,   \* the version released
    handed,    \* the version and content a session was handed, if any
    jobs       \* what jobs have recorded: version, content and its files

vars == <<stage, content, current, handed, jobs>>

Nothing == [ver |-> NoVersion, content |-> NoContent]

Init ==
    /\ stage = [v \in Versions |-> "open"]
    /\ content = [v \in Versions |-> NoContent]
    /\ current = NoVersion
    /\ handed = [s \in Sessions |-> Nothing]
    /\ jobs = {}

\* The version released before is withdrawn in the same step.
Release(v) ==
    /\ stage[v] \in {"open", "withdrawn"}
    /\ stage' = [w \in Versions |-> IF w = v THEN "released"
                                    ELSE IF w = current THEN "withdrawn" ELSE stage[w]]
    /\ \E c \in IF stage[v] = "open" THEN Contents ELSE {content[v]} :
          content' = [content EXCEPT ![v] = c]
    /\ current' = v
    /\ UNCHANGED <<handed, jobs>>

Withdraw(v) ==
    /\ current = v
    /\ stage' = [stage EXCEPT ![v] = "withdrawn"]
    /\ current' = NoVersion
    /\ UNCHANGED <<content, handed, jobs>>

\* A version on record with a job stays; one that was merely handed may go.
Discard(v) ==
    /\ stage[v] \in {"open", "withdrawn"}
    /\ \A j \in jobs : j.ver # v
    /\ stage' = [stage EXCEPT ![v] = "gone"]
    /\ content' = [content EXCEPT ![v] = NoContent]
    /\ UNCHANGED <<current, handed, jobs>>

Hand(s) ==
    /\ current # NoVersion
    /\ handed' = [handed EXCEPT ![s] = [ver |-> current, content |-> content[current]]]
    /\ UNCHANGED <<stage, content, current, jobs>>

GiveBack(s) ==
    /\ handed' = [handed EXCEPT ![s] = Nothing]
    /\ UNCHANGED <<stage, content, current, jobs>>

Record(s) ==
    /\ handed[s] # Nothing
    /\ jobs' = jobs \cup {[ver |-> handed[s].ver, sha |-> handed[s].content,
                           files |-> handed[s].content.files]}
    /\ handed' = [handed EXCEPT ![s] = Nothing]
    /\ UNCHANGED <<stage, content, current>>

Next ==
    \/ \E v \in Versions : Withdraw(v) \/ Discard(v) \/ Release(v)
    \/ \E s \in Sessions : Hand(s) \/ GiveBack(s) \/ Record(s)

Spec == Init /\ [][Next]_vars
============================================================================
