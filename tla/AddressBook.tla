---------------------------- MODULE AddressBook ----------------------------
(***************************************************************************)
(* A customer's delivery addresses and checkout quotes (internal/checkout: *)
(* the address and quote commands of Service and PostgresStore).           *)
(*                                                                         *)
(* A command is a READ COMMITTED transaction.  It locks the rows of        *)
(* tx[t].plan one after the other, the row it edits first, and what it     *)
(* writes is seen when it commits.  The customer sends what the book       *)
(* looked like when it was shown: tx[t].view.  Setting or giving up the    *)
(* default does not change the revision of the other addresses.            *)
(*                                                                         *)
(* Addresses are numbered in the order of created_at and of their ids.     *)
(***************************************************************************)
EXTENDS Naturals, FiniteSets, FiniteSetsExt, Sequences, SequencesExt

CONSTANTS
  Ids,           \* a set of numbers
  Contents,      \* what may be written on an address
  Commands,      \* address commands in progress
  Quotes,        \* idempotency keys of quotes
  Calls,         \* quote requests in progress
  MaxRevision

VARIABLES address, tx, quote, call, shown, placed

vars == <<address, tx, quote, call, shown, placed>>

None == 0
Missing == [state |-> "NONE", content |-> "none", default |-> FALSE, revision |-> 0]
NoTx == [op |-> "NONE", id |-> None, content |-> "none", default |-> FALSE, view |-> Missing,
         plan |-> <<>>, held |-> {}, stage |-> "NONE", promote |-> None]
NoCall == [stage |-> "NONE", key |-> "none", id |-> None, content |-> "none"]

\* The snapshot of a quote, as far as the address goes.
NoQuote == [id |-> None, content |-> "none"]

Init ==
  /\ address = [i \in Ids |-> Missing]
  /\ tx = [t \in Commands |-> NoTx]
  /\ quote = [q \in Quotes |-> NoQuote]
  /\ call = [c \in Calls |-> NoCall]
  /\ shown = [q \in Quotes |-> {}]
  /\ placed = [q \in Quotes |-> NoQuote]

Active == {i \in Ids : address[i].state = "ACTIVE"}
InOrder(S) == SetToSortSeq(S, <)
book == <<quote, call, shown, placed>>

----------------------------------------------------------------------------
(* Commands on the address book.                                           *)

\* Default clears every active address, otherwise the first one is default:
\* both are decided on the rows committed by then.
BeginCreate(t, i, content, default) ==
  /\ tx[t] = NoTx
  /\ address[i].state = "NONE"
  /\ \A j \in Ids : j < i => address[j].state # "NONE"
  /\ \A u \in Commands : tx[u].op = "CREATE" => tx[u].id # i
  /\ tx' = [tx EXCEPT ![t] = [NoTx EXCEPT
              !.op = "CREATE", !.id = i, !.content = content,
              !.default = default \/ Active = {},
              !.plan = IF default THEN InOrder(Active) ELSE <<>>, !.stage = "LOCK"]]
  /\ UNCHANGED <<address, book>>

\* An edit of an address as it was shown to the customer.
BeginEdit(t, op, i, content, default) ==
  /\ tx[t] = NoTx
  /\ i \in Active /\ address[i].revision < MaxRevision
  /\ op = "DELETE" => content = address[i].content /\ ~default
  /\ tx' = [tx EXCEPT ![t] = [NoTx EXCEPT
              !.op = op, !.id = i, !.content = content, !.default = default,
              !.view = address[i], !.plan = <<i>>, !.stage = "FIND"]]
  /\ UNCHANGED <<address, book>>

Free(t, i) == \A u \in Commands \ {t} : i \notin tx[u].held
Waits(t, u) == t # u /\ tx[t].plan # <<>> /\ Head(tx[t].plan) \in tx[u].held

Rollback(t) ==
  /\ tx[t] # NoTx
  /\ tx' = [tx EXCEPT ![t] = NoTx]
  /\ UNCHANGED <<address, book>>

\* Mutant: the revision is not compared.
FoundActive(t, i) == address[i].state = "ACTIVE"

\* loadCheckoutAddress FOR UPDATE, and the revision the customer saw.
FoundAsSeen(t, i) ==
  /\ address[i].state = "ACTIVE"
  /\ address[i].revision = tx[t].view.revision

\* The other rows a default edit clears; the address a delete promotes, chosen
\* among the rows committed when the statement starts.
Following(t, i) ==
  CASE tx[t].op = "UPDATE" /\ tx[t].default -> InOrder(Active \ {i})
    [] tx[t].op = "DELETE" /\ address[i].default /\ Active # {i} -> <<Min(Active \ {i})>>
    [] OTHER -> <<>>

FindAddress(t) ==
  LET i == tx[t].id
      next == Following(t, i)
  IN  /\ tx[t].stage = "FIND" /\ Free(t, i)
      /\ IF FoundAsSeen(t, i)
         THEN tx' = [tx EXCEPT ![t].stage = "LOCK", ![t].held = {i}, ![t].plan = next,
                               ![t].promote = IF tx[t].op = "DELETE" /\ next # <<>>
                                              THEN Head(next) ELSE None]
         ELSE tx' = [tx EXCEPT ![t] = NoTx]
      /\ UNCHANGED <<address, book>>

\* A row that was deleted while the UPDATE waited no longer matches "active"
\* and is left alone; the promoted row is matched by its id only.
LockRow(t) ==
  /\ tx[t].stage = "LOCK" /\ tx[t].plan # <<>>
  /\ Free(t, Head(tx[t].plan))
  /\ tx' = [tx EXCEPT ![t].plan = Tail(@), ![t].held = @ \cup {Head(tx[t].plan)}]
  /\ UNCHANGED <<address, book>>

Cleared(t) == IF tx[t].default THEN (tx[t].held \cap Active) \ {tx[t].id} ELSE {}

\* The index that admits one active default for a customer.
OneDefaultIndex(t) ==
  tx[t].default => \A i \in Active \ (Cleared(t) \cup {tx[t].id}) : ~address[i].default

Written(t, i) ==
  CASE i = tx[t].id /\ tx[t].op = "DELETE" ->
         [address[i] EXCEPT !.state = "DELETED", !.default = FALSE, !.revision = @ + 1]
    [] i = tx[t].id /\ tx[t].op # "DELETE" ->
         [state |-> "ACTIVE", content |-> tx[t].content, default |-> tx[t].default,
          revision |-> address[i].revision + 1]
    [] i # tx[t].id /\ i \in Cleared(t) -> [address[i] EXCEPT !.default = FALSE]
    [] i # tx[t].id /\ i = tx[t].promote -> [address[i] EXCEPT !.default = TRUE]
    [] OTHER -> address[i]

CommitAddress(t) ==
  /\ tx[t].stage = "LOCK" /\ tx[t].plan = <<>>
  /\ OneDefaultIndex(t)
  /\ address' = [i \in Ids |-> Written(t, i)]
  /\ tx' = [tx EXCEPT ![t] = NoTx]
  /\ UNCHANGED book

----------------------------------------------------------------------------
(* Quotes.                                                                 *)

\* A request with the key of a stored quote is answered from it; otherwise
\* calculate reads the address.
LoadQuote(c, q, i) ==
  /\ call[c] = NoCall
  /\ IF quote[q] # NoQuote
     THEN shown' = [shown EXCEPT ![q] = @ \cup {quote[q]}] /\ UNCHANGED call
     ELSE /\ i \in Active
          /\ call' = [call EXCEPT ![c] = [stage |-> "SAVE", key |-> q, id |-> i,
                                          content |-> address[i].content]]
          /\ UNCHANGED shown
  /\ UNCHANGED <<address, tx, quote, placed>>

Snapshot(c) == [id |-> call[c].id, content |-> call[c].content]

\* Mutant: the key is not looked up again under its lock.
SaveQuoteOver(c) ==
  LET q == call[c].key
  IN  /\ call[c].stage = "SAVE"
      /\ quote' = [quote EXCEPT ![q] = Snapshot(c)]
      /\ shown' = [shown EXCEPT ![q] = @ \cup {Snapshot(c)}]
      /\ call' = [call EXCEPT ![c] = NoCall]
      /\ UNCHANGED <<address, tx, placed>>

\* Under the advisory lock of the key the first quote stays: a second request
\* gets it if it asked for the same, a conflict if not.
SaveQuote(c) ==
  LET q == call[c].key
      kept == IF quote[q] = NoQuote THEN Snapshot(c) ELSE quote[q]
  IN  /\ call[c].stage = "SAVE"
      /\ quote' = [quote EXCEPT ![q] = kept]
      /\ shown' = [shown EXCEPT ![q] = IF kept.id = call[c].id THEN @ \cup {kept} ELSE @]
      /\ call' = [call EXCEPT ![c] = NoCall]
      /\ UNCHANGED <<address, tx, placed>>

CallDies(c) ==
  /\ call[c] # NoCall
  /\ call' = [call EXCEPT ![c] = NoCall]
  /\ UNCHANGED <<address, tx, quote, shown, placed>>

\* place calculates again with the address's id and compares prices: the
\* address must be there still, but need not be what it was.
Place(q) ==
  /\ quote[q] # NoQuote /\ placed[q] = NoQuote
  /\ quote[q].id \in Active
  /\ placed' = [placed EXCEPT ![q] = quote[q]]
  /\ UNCHANGED <<address, tx, quote, call, shown>>

----------------------------------------------------------------------------

Next ==
  \/ \E t \in Commands :
       \/ \E i \in Ids, content \in Contents, default \in BOOLEAN :
            \/ BeginCreate(t, i, content, default)
            \/ \E op \in {"UPDATE", "DELETE"} : BeginEdit(t, op, i, content, default)
       \/ FindAddress(t) \/ LockRow(t) \/ CommitAddress(t) \/ Rollback(t)
  \/ \E c \in Calls :
       \/ \E q \in Quotes, i \in Ids : LoadQuote(c, q, i)
       \/ SaveQuote(c) \/ CallDies(c)
  \/ \E q \in Quotes : Place(q)

Spec == Init /\ [][Next]_vars

----------------------------------------------------------------------------

\* An edit or deletion that commits replaces what its sender was shown,
\* whatever other commands committed between the showing and the lock.
EditsWhatWasSeen ==
  [][\A t \in Commands :
       CommitAddress(t) /\ tx[t].op # "CREATE"
         => address[tx[t].id].content = tx[t].view.content]_vars

\* An order goes where every answer for its quote said it would, although
\* requests with one key are calculated at the same time.
PlacedAsShown ==
  \A q \in Quotes : placed[q] # NoQuote => \A s \in shown[q] : s = placed[q]

\* A customer with addresses has a default one.  Not so: an edit may give it
\* up, and two deletions at once may promote an address that is gone.
HasDefault == Active # {} => \E i \in Active : address[i].default

\* Commands never wait for each other.  Not so: two edits that each make
\* another address the default lock their own rows first.
NoMutualWait == \A t, u \in Commands : ~(Waits(t, u) /\ Waits(u, t))

\* An order goes to the address as it stands.  Not so: a correction of the
\* address after the quote does not make the quote stale.
PlacedWhereItStands ==
  [][\A q \in Quotes : placed'[q] # placed[q] => placed'[q].content = address[placed'[q].id].content]_vars

=============================================================================
