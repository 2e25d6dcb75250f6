------------------------- MODULE AttachmentPackage -------------------------
(***************************************************************************)
(* What a generation job promises to everyone who is not a worker.         *)
(*                                                                         *)
(* A job is a package of attachments, one per frozen template file.  The   *)
(* package is built behind closed doors: for each file at most one result  *)
(* is ever accepted, and it is never replaced.  The package is handed over *)
(* in one step, when every file has its result, or it is withdrawn before  *)
(* anything was handed over.  Both are final.                              *)
(***************************************************************************)

CONSTANTS
    Items,     \* the template files of the package
    Leases,    \* the processing attempts a result can come from
    NoLease    \* "no result yet"

VARIABLES
    phase,     \* what a reader of the package sees
    accepted   \* accepted[i]: the attempt whose result stands for file i

vars == <<phase, accepted>>

TypeOK ==
    /\ phase \in {"open", "delivered", "withdrawn"}
    /\ accepted \in [Items -> Leases \cup {NoLease}]

Init ==
    /\ phase = "open"
    /\ accepted = [i \in Items |-> NoLease]

\* One attempt's result becomes the result of one file, for good.
Accept(i, w) ==
    /\ phase = "open"
    /\ accepted[i] = NoLease
    /\ accepted' = [accepted EXCEPT ![i] = w]
    /\ UNCHANGED phase

\* The whole package is handed over at once.
Deliver ==
    /\ phase = "open"
    /\ \A i \in Items : accepted[i] # NoLease
    /\ phase' = "delivered"
    /\ UNCHANGED accepted

Withdraw ==
    /\ phase = "open"
    /\ phase' = "withdrawn"
    /\ UNCHANGED accepted

Next ==
    \/ \E i \in Items, w \in Leases : Accept(i, w)
    \/ Deliver
    \/ Withdraw

Spec == Init /\ [][Next]_vars
============================================================================
