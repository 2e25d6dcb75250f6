--------------------------- MODULE ArtifactTickets ---------------------------
(* Access to one published attachment: a ticket is issued for a download or  *)
(* for a preview, and consumed under its own URL until it expires.  A        *)
(* download is consumed once; a preview serves the several range requests of *)
(* a viewer.                                                                 *)
(*                                                                           *)
(* Grain of atomicity.  Issuing and consuming are chains of transactions and *)
(* of calls to MinIO, each an action; other requests, the publication of the *)
(* artifact and the expiry of the ticket happen between any two of them.     *)
(*                                                                           *)
(* Abstractions.  The caller is entitled to the case and the ticket is its   *)
(* own.  A ticket is live until expires_at.  The range asked for is one that *)
(* can be served.                                                            *)
EXTENDS Naturals, Sequences

CONSTANTS
    Holders,        \* requests under way
    MaxTickets,     \* bound: tickets issued
    MaxAccesses     \* bound: requests made

ASSUME TicketAssumption == MaxTickets \in Nat /\ MaxAccesses \in Nat

VARIABLES
    deliverable,    \* the purposes the published artifact has an object for
    tickets,        \* rows of annual_artifact_access_event
    access,         \* what every request is doing
    served,         \* history: objects opened under each ticket
    accesses        \* bound variable: requests so far

avars == <<deliverable, tickets, access, served, accesses>>

Purposes == {"download", "preview"}
Ticket == [purpose : Purposes, live : BOOLEAN, redeemed : BOOLEAN]
NoAccess == [stage |-> "idle", purpose |-> "download", ticket |-> 0]

\* Rows and requests have the shapes of their table and handlers.
TicketsTypeOK ==
    /\ deliverable \subseteq Purposes
    /\ tickets \in Seq(Ticket) /\ Len(tickets) <= MaxTickets
    /\ access \in [Holders -> [stage : {"idle", "found", "verified", "available", "redeemed"},
                               purpose : Purposes, ticket : 0..Len(tickets)]]
    /\ served \in [DOMAIN tickets -> 0..MaxAccesses]
    /\ accesses \in 0..MaxAccesses

TicketsInit ==
    /\ deliverable = {} /\ tickets = <<>> /\ served = <<>>
    /\ access = [h \in Holders |-> NoAccess]
    /\ accesses = 0

Moves(h, stage) == access' = [access EXCEPT ![h].stage = stage]
Refused(h) == access' = [access EXCEPT ![h] = NoAccess]

\* get_artifact: published, approved for delivery, with an object for it.
Available(purpose) == purpose \in deliverable

\* The job publishes its artifacts; a preview may be missing.
PublishArtifact ==
    /\ deliverable = {}
    /\ deliverable' \in {{"download"}, Purposes}
    /\ UNCHANGED <<tickets, access, served, accesses>>

Expire(t) ==
    /\ tickets[t].live
    /\ tickets' = [tickets EXCEPT ![t].live = FALSE]
    /\ UNCHANGED <<deliverable, access, served, accesses>>

----------------------------------------------------------------------------
(* issue_ticket.                                                           *)

AskTicket(h, purpose) ==
    /\ access[h].stage = "idle" /\ accesses < MaxAccesses
    /\ Available(purpose)
    /\ access' = [access EXCEPT ![h] = [NoAccess EXCEPT !.stage = "found", !.purpose = purpose]]
    /\ accesses' = accesses + 1
    /\ UNCHANGED <<deliverable, tickets, served>>

RecordTicket(h) ==
    /\ access[h].stage = "found" /\ Len(tickets) < MaxTickets
    /\ tickets' = Append(tickets, [purpose |-> access[h].purpose, live |-> TRUE,
                                   redeemed |-> FALSE])
    /\ served' = Append(served, 0)
    /\ Refused(h)
    /\ UNCHANGED <<deliverable, accesses>>

----------------------------------------------------------------------------
(* consume_artifact_ticket.                                                *)

\* verify_ticket looks at the expiry alone.
VerifyTicket(h, t) ==
    /\ access[h].stage = "idle" /\ accesses < MaxAccesses
    /\ tickets[t].live
    /\ access' = [access EXCEPT ![h] = [stage |-> "verified", ticket |-> t,
                                        purpose |-> tickets[t].purpose]]
    /\ accesses' = accesses + 1
    /\ UNCHANGED <<deliverable, tickets, served>>

FindArtifact(h) ==
    /\ access[h].stage = "verified"
    /\ IF Available(access[h].purpose) THEN Moves(h, "available") ELSE Refused(h)
    /\ UNCHANGED <<deliverable, tickets, served, accesses>>

\* Mutant: whether the download was redeemed is not part of the update.
RedeemableAgain(t) == tickets[t].live

\* The compare-and-set of a download; a preview is redeemed again and again.
Redeemable(t) ==
    tickets[t].live /\ (tickets[t].purpose = "download" => ~tickets[t].redeemed)

RedeemTicket(h) ==
    /\ access[h].stage = "available"
    /\ IF Redeemable(access[h].ticket)
       THEN /\ tickets' = [tickets EXCEPT ![access[h].ticket].redeemed = TRUE]
            /\ Moves(h, "redeemed")
       ELSE tickets' = tickets /\ Refused(h)
    /\ UNCHANGED <<deliverable, served, accesses>>

\* The object is opened at last; a failure leaves the ticket redeemed.
OpenObject(h) ==
    /\ access[h].stage = "redeemed"
    /\ \/ served' = [served EXCEPT ![access[h].ticket] = @ + 1]
       \/ served' = served
    /\ Refused(h)
    /\ UNCHANGED <<deliverable, tickets, accesses>>

\* The process dies.
Break(h) ==
    /\ access[h].stage # "idle" /\ Refused(h)
    /\ UNCHANGED <<deliverable, tickets, served, accesses>>

TicketsNext ==
    \/ PublishArtifact
    \/ \E t \in DOMAIN tickets : Expire(t)
    \/ \E h \in Holders :
        \/ \E purpose \in Purposes : AskTicket(h, purpose)
        \/ \E t \in DOMAIN tickets : VerifyTicket(h, t)
        \/ RecordTicket(h) \/ FindArtifact(h) \/ RedeemTicket(h) \/ OpenObject(h) \/ Break(h)

TicketsSpec == TicketsInit /\ [][TicketsNext]_avars

----------------------------------------------------------------------------
(* Properties.                                                             *)

\* A download ticket opens the object at most once, however many requests
\* have verified it before one of them redeems it (redeem_ticket); and a
\* ticket that has opened anything is on record as redeemed.
DownloadedOnce ==
    \A t \in DOMAIN tickets :
        /\ tickets[t].purpose = "download" => served[t] <= 1
        /\ served[t] > 0 => tickets[t].redeemed
=============================================================================
