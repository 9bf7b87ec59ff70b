------------------------------- MODULE Audit -------------------------------
(***************************************************************************)
(* The audit trail of a tenant (internal/audit: Service over               *)
(* PostgresRepository).  Entries form a hash chain.  A service reads the   *)
(* last entry, makes the next and appends it; other processes append in    *)
(* between, which the repository sees under the lock of the tenant, and    *)
(* the service starts over.                                                *)
(*                                                                         *)
(* A hash stands for everything it covers: the ids and the texts of its    *)
(* entry and of all entries before it.  It is taken before the entry is    *)
(* stored and checked against the entry as it is read back.                *)
(***************************************************************************)
EXTENDS Naturals, Sequences, SequencesExt, FiniteSets

CONSTANTS
  Requests,       \* record requests, each served by a process of its own
  Country,        \* of a request; a search may be limited to one
  Cut,            \* requests with a text that redact cuts in the middle of a rune
  Attempts,       \* how often a service tries (8)
  PageSize,       \* entries per page of a reader
  ExportLimit     \* entries that an export asks for (200)

VARIABLES
  events,      \* audit.events in the order of tenant_sequence
  request,     \* how far a request is, on which entry it builds, since when
  read,        \* what a reader going through the pages has collected
  cursor       \* its cursor

vars == <<events, request, read, cursor>>

Waiting == [step |-> "WAITING", last |-> 0, previous |-> <<>>, attempt |-> 0, since |-> 0]

Init ==
  /\ events = <<>> /\ request = [q \in Requests |-> Waiting]
  /\ read = <<>> /\ cursor = 0

\* An entry's hash covers the entry and the hash before it.
hashEntry(entry) == Append(entry.previous, <<entry.id, entry.text>>)

\* redact cuts a text at byte 512, wherever that is.
redact(q) == IF q \in Cut THEN "SPLIT" ELSE "WHOLE"

\* Through json.Marshal, jsonb and json.Unmarshal half a rune becomes U+FFFD, which
\* is not marshalled the way half a rune is.
stored(entry) == [entry EXCEPT !.text = IF @ = "SPLIT" THEN "REPLACED" ELSE @]

\* The last entry's sequence and hash; 0 and no hash when there is none.
lastEntry ==
  IF events = <<>> THEN [sequence |-> 0, hash |-> <<>>]
  ELSE [sequence |-> Last(events).sequence, hash |-> Last(events).hash]

\* The head of the loop of Record.
ReadLast(q) ==
  LET r == request[q]
  IN  /\ r.step \in {"WAITING", "AGAIN"} /\ r.attempt < Attempts
      /\ request' = [request EXCEPT ![q] =
           [step |-> "BUILT", last |-> lastEntry.sequence, previous |-> lastEntry.hash,
            attempt |-> r.attempt + 1, since |-> IF r.step = "WAITING" THEN Len(events) ELSE r.since]]
      /\ UNCHANGED <<events, read, cursor>>

Entry(q) ==
  LET entry == [sequence |-> request[q].last + 1, id |-> q, text |-> redact(q), previous |-> request[q].previous]
  IN  [sequence |-> entry.sequence, id |-> q, text |-> entry.text, previous |-> entry.previous,
       hash |-> hashEntry(entry)]

\* Mutant: the repository appends without looking at the last entry again.
AppendEntryUnseen(q) ==
  /\ request[q].step = "BUILT"
  /\ events' = Append(events, stored(Entry(q))) /\ request' = [request EXCEPT ![q].step = "RECORDED"]
  /\ UNCHANGED <<read, cursor>>

\* PostgresRepository.Append, under the advisory lock of the tenant.
AppendEntry(q) ==
  /\ request[q].step = "BUILT"
  /\ \/ /\ Entry(q).sequence = lastEntry.sequence + 1 /\ Entry(q).previous = lastEntry.hash
        /\ events' = Append(events, stored(Entry(q)))
        /\ request' = [request EXCEPT ![q].step = "RECORDED"]
     \/ /\ ~ (Entry(q).sequence = lastEntry.sequence + 1 /\ Entry(q).previous = lastEntry.hash)
        /\ request' = [request EXCEPT ![q].step = IF @ = "BUILT" /\ request[q].attempt < Attempts
                                                  THEN "AGAIN" ELSE "GIVEN_UP"]
        /\ UNCHANGED events
  /\ UNCHANGED <<read, cursor>>

\* The connection is lost in the commit: an error that is not tried again,
\* whether or not the entry is there.
CommitUnknown(q) ==
  /\ request[q].step = "BUILT" /\ request' = [request EXCEPT ![q].step = "FAILED"]
  /\ \/ UNCHANGED events
     \/ /\ Entry(q).sequence = lastEntry.sequence + 1 /\ Entry(q).previous = lastEntry.hash
        /\ events' = Append(events, stored(Entry(q)))
  /\ UNCHANGED <<read, cursor>>

-----------------------------------------------------------------------------
(* Reading.                                                                *)

Search(after, countries) ==
  SelectSeq(events, LAMBDA e : e.sequence > after /\ Country[e.id] \in countries)

Limited(entries, n) == SubSeq(entries, 1, IF Len(entries) < n THEN Len(entries) ELSE n)

\* The next page: the repository returns one entry more to tell there is more.  The
\* last page comes without a cursor, and whoever asks without one begins again.
ReadPage ==
  LET found == Search(cursor, {Country[q] : q \in Requests})
      page == Limited(found, PageSize)
  IN  /\ read' = IF cursor = 0 THEN page ELSE read \o page
      /\ cursor' = IF Len(found) > PageSize THEN Last(page).sequence ELSE 0
      /\ UNCHANGED <<events, request>>

verify(entries) ==
  \A i \in 1..Len(entries) :
    /\ entries[i].hash = hashEntry(entries[i])
    /\ i > 1 => entries[i].sequence = entries[i - 1].sequence + 1 /\ entries[i].previous = entries[i - 1].hash

\* The entry that would tell there is more is exported and verified with the others.
Export(countries) == Limited(Search(0, countries), ExportLimit + 1)

Next ==
  \/ \E q \in Requests : ReadLast(q) \/ AppendEntry(q) \/ CommitUnknown(q)
  \/ ReadPage

Spec == Init /\ [][Next]_vars

-----------------------------------------------------------------------------
\* Whichever processes append at a time, an export of all countries verifies unless
\* an entry in it was cut in the middle of a rune, and then it does not; what was
\* acknowledged is in the trail once; a request is given up only after others
\* appended as often as it tried; and a reader who goes through the pages while
\* entries are appended misses none and sees none twice.
TrailIsWhole ==
  /\ LET export == Export({Country[q] : q \in Requests})
     IN  verify(export) <=> \A i \in 1..Len(export) : export[i].id \notin Cut
  /\ \A q \in Requests :
       LET entries == {i \in 1..Len(events) : events[i].id = q}
       IN  /\ Cardinality(entries) <= 1
           /\ request[q].step = "RECORDED" => entries # {}
           /\ request[q].step = "GIVEN_UP" => Len(events) >= request[q].since + Attempts
  /\ read = SubSeq(events, 1, Len(read))

\* Does not hold.  An export verifies: the chain goes through all countries, so one
\* that is limited to a country has gaps, whatever its entries.
ExportVerifies == \A c \in {Country[q] : q \in Requests} : verify(Export({c}))
=============================================================================
