------------------------------- MODULE Support -------------------------------
(***************************************************************************)
(* Support tickets (internal/support: Service over PostgresRepository).    *)
(* A ticket is created once per idempotency key; its time is taken before  *)
(* it is committed, so tickets may be committed in another order than      *)
(* their times, and several may have the same.  A list is read page by     *)
(* page, newest first, from the cursor of the last ticket of a page.       *)
(***************************************************************************)
EXTENDS Naturals, Sequences, SequencesExt, FiniteSets

CONSTANTS
  Tickets,         \* ids of the tickets, one per key; the database orders them
  Times,           \* creation times
  Digests,         \* contents of a request
  MessageKeys,
  Limit            \* tickets per page

VARIABLES
  ticket,      \* support.tickets: status, created_at, request_fingerprint
  message,     \* support.messages by ticket and key: the fingerprint
  page,        \* a reader: what it has listed, its cursor, whether it is through
  known        \* the tickets that were there when it began

vars == <<ticket, message, page, known>>

NoTicket == [status |-> "ABSENT", at |-> 0, digest |-> "NONE"]
Fresh == [listed |-> <<>>, after |-> <<>>, through |-> FALSE]
Stored == {t \in Tickets : ticket[t] # NoTicket}

Init ==
  /\ ticket = [t \in Tickets |-> NoTicket]
  /\ message = [t \in Tickets |-> [k \in MessageKeys |-> "NONE"]]
  /\ page = Fresh /\ known = {}

\* A key that is there is answered from the ticket, or refused.
Create(t, at, digest) ==
  /\ ticket[t] = NoTicket
  /\ ticket' = [ticket EXCEPT ![t] = [status |-> "OPEN", at |-> at, digest |-> digest]]
  /\ UNCHANGED <<message, page, known>>

\* A repeated key changes nothing; a new message hands the ticket to support.
AddMessage(t, k, digest) ==
  /\ ticket[t].status \notin {"ABSENT", "CLOSED"} /\ message[t][k] = "NONE"
  /\ message' = [message EXCEPT ![t][k] = digest]
  /\ ticket' = [ticket EXCEPT ![t].status = IF @ = "WAITING_FOR_REQUESTER" THEN "WAITING_FOR_SUPPORT" ELSE @]
  /\ UNCHANGED <<page, known>>

\* Support works on the ticket in its own tools.
SupportMoves(t, status) ==
  /\ ticket[t].status \notin {"ABSENT", "CLOSED", status}
  /\ ticket' = [ticket EXCEPT ![t].status = status]
  /\ UNCHANGED <<message, page, known>>

-----------------------------------------------------------------------------
(* List.                                                                   *)

Cursor(t) == <<ticket[t].at, t>>

\* Mutant: the cursor compares times only.
beforeCursorTime(t, after) == after = <<>> \/ ticket[t].at < after[1]

beforeCursor(t, after) ==
  after = <<>> \/ ticket[t].at < after[1] \/ (ticket[t].at = after[1] /\ t < after[2])

Newer(t, u) == ticket[t].at > ticket[u].at \/ (ticket[t].at = ticket[u].at /\ t > u)

\* One ticket more than the page is read, to know whether there is a next page.
List ==
  LET found == SetToSortSeq({t \in Stored : beforeCursor(t, page.after)}, Newer)
      more == Len(found) > Limit
      items == IF more THEN SubSeq(found, 1, Limit) ELSE found
  IN  /\ ~page.through
      /\ page' = [listed |-> page.listed \o items, through |-> ~more,
                  after |-> IF more THEN Cursor(Last(items)) ELSE page.after]
      /\ known' = IF page = Fresh THEN Stored ELSE known
      /\ UNCHANGED <<ticket, message>>

Restart ==
  /\ page.through /\ page' = Fresh /\ known' = {}
  /\ UNCHANGED <<ticket, message>>

Next ==
  \/ \E t \in Tickets, d \in Digests :
       \/ \E at \in Times : Create(t, at, d)
       \/ \E k \in MessageKeys : AddMessage(t, k, d)
  \/ \E t \in Tickets, s \in {"WAITING_FOR_REQUESTER", "RESOLVED", "CLOSED"} : SupportMoves(t, s)
  \/ List \/ Restart

Spec == Init /\ [][Next]_vars

-----------------------------------------------------------------------------
\* A reader who is through has listed every ticket that was there when it began,
\* and none twice, though tickets of the same time, and older ones that were
\* committed late, appear while it reads.
ListedOnce ==
  /\ \A i, j \in 1..Len(page.listed) : page.listed[i] = page.listed[j] => i = j
  /\ page.through => known \subseteq {page.listed[i] : i \in 1..Len(page.listed)}
=============================================================================
