------------------------------ MODULE Messaging ------------------------------
(***************************************************************************)
(* The outbox, its dispatchers and the inbox (internal/messaging: Service  *)
(* over PostgresStore, JetStreamPublisher).                                *)
(*                                                                         *)
(* The events of one aggregate, numbered by their version, are committed   *)
(* to the outbox with the change they tell of.  Dispatchers lease batches, *)
(* publish each event and mark it; the stream hands events to consumers,   *)
(* in any order and more than once.  A lease is for a time: it may run out *)
(* under a dispatcher or a handler that is merely slow.  Dispatch reads    *)
(* the clock once, before it claims, so its own marks never find the lease *)
(* expired, only taken over.                                               *)
(***************************************************************************)
EXTENDS Naturals, FiniteSets

CONSTANTS
  Last,              \* the aggregate's last version
  Workers,           \* dispatchers, by worker id
  Handlers,          \* processes that consume for the one consumer
  MaxAttempts,       \* of publishing an event, before it is a dead letter
  MaxFailures        \* bound on failures of publishing and of handling

VARIABLES
  outbox,      \* messaging.outbox: state, attempts and lease owner by version
  expired,     \* the leased events whose lease_until has passed
  worker,      \* the batch a dispatcher has in hand and the event it has tried
  stream,      \* the events JetStream has stored
  inbox,       \* messaging.inbox: state by version
  overdue,     \* the PROCESSING events whose lease_until has passed
  handler,     \* the event a process handles, and whether it has handled it
  applied,     \* how often the handler's effect of an event took place
  failures     \* failures so far

vars == <<outbox, expired, worker, stream, inbox, overdue, handler, applied, failures>>
outgoing == <<outbox, expired, worker>>
incoming == <<inbox, overdue, handler, applied>>

Versions == 1..Last
None == 0
Free == [batch |-> {}, event |-> None, outcome |-> "NONE"]
Waiting == [event |-> None, done |-> FALSE]

Init ==
  /\ outbox = [v \in Versions |-> [state |-> "ABSENT", attempts |-> 0, owner |-> "NONE"]]
  /\ expired = {} /\ worker = [w \in Workers |-> Free] /\ stream = {}
  /\ inbox = [v \in Versions |-> "ABSENT"] /\ overdue = {}
  /\ handler = [h \in Handlers |-> Waiting]
  /\ applied = [v \in Versions |-> 0] /\ failures = 0

-----------------------------------------------------------------------------
(* The outbox.                                                             *)

\* In the transaction of the change, so in the order of the versions.
Enqueue(v) ==
  /\ outbox[v].state = "ABSENT" /\ \A u \in 1..(v - 1) : outbox[u].state # "ABSENT"
  /\ outbox' = [outbox EXCEPT ![v].state = "PENDING"]
  /\ UNCHANGED <<expired, worker, stream, incoming, failures>>

Claimable == {v \in Versions : outbox[v].state = "PENDING" \/ v \in expired}

\* Up to the limit, by next_attempt_at, skipping what others claim just now.
Claim(w) ==
  \E batch \in SUBSET Claimable :
    /\ worker[w] = Free /\ batch # {}
    /\ outbox' = [v \in Versions |->
                    IF v \in batch THEN [outbox[v] EXCEPT !.state = "LEASED", !.owner = w]
                                   ELSE outbox[v]]
    /\ expired' = expired \ batch
    /\ worker' = [worker EXCEPT ![w] = [Free EXCEPT !.batch = batch]]
    /\ UNCHANGED <<stream, incoming, failures>>

\* The stream may have stored an event whose acknowledgement was lost.
Publish(w, v) ==
  /\ v \in worker[w].batch /\ worker[w].event = None
  /\ \/ /\ stream' = stream \union {v} /\ UNCHANGED failures
        /\ worker' = [worker EXCEPT ![w].event = v, ![w].outcome = "PUBLISHED"]
     \/ /\ failures < MaxFailures /\ failures' = failures + 1
        /\ stream' \in {stream, stream \union {v}}
        /\ worker' = [worker EXCEPT ![w].event = v, ![w].outcome = "FAILED"]
  /\ UNCHANGED <<outbox, expired, incoming>>

Holds(w, v) == outbox[v].state = "LEASED" /\ outbox[v].owner = w
Done(w) == [worker EXCEPT ![w] = [Free EXCEPT !.batch = worker[w].batch \ {worker[w].event}]]

MarkPublished(w) ==
  LET v == worker[w].event
  IN  /\ worker[w].outcome = "PUBLISHED" /\ Holds(w, v)
      /\ outbox' = [outbox EXCEPT ![v].state = "PUBLISHED", ![v].owner = "NONE"]
      /\ expired' = expired \ {v} /\ worker' = Done(w)
      /\ UNCHANGED <<stream, incoming, failures>>

MarkFailed(w) ==
  LET v == worker[w].event
      n == outbox[v].attempts + 1
  IN  /\ worker[w].outcome = "FAILED" /\ Holds(w, v)
      /\ outbox' = [outbox EXCEPT ![v] =
                      [state |-> IF n >= MaxAttempts THEN "DEAD_LETTER" ELSE "PENDING",
                       attempts |-> n, owner |-> "NONE"]]
      /\ expired' = expired \ {v} /\ worker' = Done(w)
      /\ UNCHANGED <<stream, incoming, failures>>

\* ErrConflict: the lease is another's.  Dispatch returns, and what is left of
\* its batch stays leased until the lease runs out.  So it is after a crash.
Abandon(w) ==
  /\ worker[w] # Free
  /\ \/ worker[w].event # None /\ ~Holds(w, worker[w].event) /\ UNCHANGED failures
     \/ failures < MaxFailures /\ failures' = failures + 1
  /\ worker' = [worker EXCEPT ![w] = Free]
  /\ UNCHANGED <<outbox, expired, stream, incoming>>

\* By the clock.  Under a dispatcher that still has the event in hand, which
\* has then been slow beyond the lease, it counts as a failure.
InHand(v) == \E w \in Workers : v \in worker[w].batch /\ Holds(w, v)

\* Mutant: what a dispatcher died with is never claimed again.
LeaseExpiresInHand(v) ==
  /\ outbox[v].state = "LEASED" /\ v \notin expired
  /\ InHand(v) /\ failures < MaxFailures
  /\ failures' = failures + 1
  /\ expired' = expired \union {v}
  /\ UNCHANGED <<outbox, worker, stream, incoming>>

LeaseExpires(v) ==
  /\ outbox[v].state = "LEASED" /\ v \notin expired
  /\ InHand(v) => failures < MaxFailures
  /\ failures' = IF InHand(v) THEN failures + 1 ELSE failures
  /\ expired' = expired \union {v}
  /\ UNCHANGED <<outbox, worker, stream, incoming>>

\* Service.Replay, after the audit record of it was written.
Replay(v) ==
  /\ outbox[v].state = "DEAD_LETTER" /\ failures < MaxFailures
  /\ outbox' = [outbox EXCEPT ![v].state = "PENDING", ![v].attempts = 0]
  /\ UNCHANGED <<expired, worker, stream, incoming, failures>>

-----------------------------------------------------------------------------
(* The inbox: Service.Consume of an event the stream delivers.             *)

DoneUpTo == IF \E v \in Versions : inbox[v] = "DONE"
            THEN CHOOSE v \in Versions : inbox[v] = "DONE" /\ \A u \in Versions : inbox[u] = "DONE" => u <= v
            ELSE 0

\* Mutant: the version is not compared with the last one done.
BeginAnyVersion(h, v) ==
  /\ handler[h] = Waiting /\ v \in stream
  /\ inbox[v] = "ABSENT" \/ v \in overdue
  /\ inbox' = [inbox EXCEPT ![v] = "PROCESSING"] /\ overdue' = overdue \ {v}
  /\ handler' = [handler EXCEPT ![h] = [event |-> v, done |-> FALSE]]
  /\ UNCHANGED <<outgoing, stream, applied, failures>>

\* A duplicate, a busy lease or a version out of order changes nothing.
Begin(h, v) ==
  /\ handler[h] = Waiting /\ v \in stream
  /\ inbox[v] = "ABSENT" \/ v \in overdue
  /\ v = DoneUpTo + 1
  /\ inbox' = [inbox EXCEPT ![v] = "PROCESSING"] /\ overdue' = overdue \ {v}
  /\ handler' = [handler EXCEPT ![h] = [event |-> v, done |-> FALSE]]
  /\ UNCHANGED <<outgoing, stream, applied, failures>>

Handle(h) ==
  LET v == handler[h].event
  IN  /\ v # None /\ ~handler[h].done
      /\ handler' = [handler EXCEPT ![h].done = TRUE]
      /\ applied' = [applied EXCEPT ![v] = @ + 1]
      /\ UNCHANGED <<outgoing, stream, inbox, overdue, failures>>

\* Complete, or ErrConflict when the lease has run out or the event is done.
Complete(h) ==
  LET v == handler[h].event
      own == inbox[v] = "PROCESSING" /\ v \notin overdue
  IN  /\ handler[h].done
      /\ inbox' = IF own THEN [inbox EXCEPT ![v] = "DONE"] ELSE inbox
      /\ handler' = [handler EXCEPT ![h] = Waiting]
      /\ UNCHANGED <<outgoing, stream, overdue, applied, failures>>

\* The handler failed.  The row is deleted whoever leases it by now.
Release(h) ==
  LET v == handler[h].event
  IN  /\ v # None /\ ~handler[h].done /\ failures < MaxFailures
      /\ failures' = failures + 1
      /\ IF inbox[v] = "PROCESSING"
         THEN inbox' = [inbox EXCEPT ![v] = "ABSENT"] /\ overdue' = overdue \ {v}
         ELSE UNCHANGED <<inbox, overdue>>
      /\ handler' = [handler EXCEPT ![h] = Waiting]
      /\ UNCHANGED <<outgoing, stream, applied>>

HandlerDies(h) ==
  /\ handler[h] # Waiting /\ failures < MaxFailures
  /\ failures' = failures + 1 /\ handler' = [handler EXCEPT ![h] = Waiting]
  /\ UNCHANGED <<outgoing, stream, inbox, overdue, applied>>

Handled(v) == \E h \in Handlers : handler[h].event = v

InboxLeaseExpires(v) ==
  /\ inbox[v] = "PROCESSING" /\ v \notin overdue
  /\ Handled(v) => failures < MaxFailures
  /\ failures' = IF Handled(v) THEN failures + 1 ELSE failures
  /\ overdue' = overdue \union {v}
  /\ UNCHANGED <<outgoing, stream, inbox, handler, applied>>

Dispatch(w) ==
  \/ Claim(w) \/ MarkPublished(w) \/ MarkFailed(w) \/ Abandon(w)
  \/ \E v \in Versions : Publish(w, v)
Consume(h) ==
  \/ Handle(h) \/ Complete(h) \/ Release(h) \/ HandlerDies(h)
  \/ \E v \in Versions : Begin(h, v)

Next ==
  \/ \E v \in Versions : Enqueue(v) \/ LeaseExpires(v) \/ Replay(v) \/ InboxLeaseExpires(v)
  \/ \E w \in Workers : Dispatch(w)
  \/ \E h \in Handlers : Consume(h)

Spec == Init /\ [][Next]_vars

(* A dispatcher and a consumer poll as long as the service is up, leases   *)
(* run out by the clock, JetStream redelivers what was not acknowledged.   *)
Fairness ==
  /\ \A w \in Workers : WF_vars(Dispatch(w))
  /\ \A v \in Versions : WF_vars(LeaseExpires(v)) /\ WF_vars(InboxLeaseExpires(v))
  /\ \A h \in Handlers : WF_vars(Consume(h))

-----------------------------------------------------------------------------
(* The effects of an aggregate's events take place in the order of their   *)
(* versions, none before it was committed to the outbox: whatever order    *)
(* dispatchers publish in, however often the stream delivers, and whoever  *)
(* takes over a lease that ran out (PostgresStore.Begin).                  *)
AppliedInOrder ==
  \A v \in Versions :
    applied[v] > 0 => /\ outbox[v].state # "ABSENT"
                      /\ \A u \in 1..(v - 1) : applied[u] > 0 /\ inbox[u] = "DONE"

(* An event of the outbox is published or ends among the dead letters,     *)
(* though dispatchers fail, crash and lose leases to each other.           *)
OutboxSettles ==
  \A v \in Versions :
    outbox[v].state \in {"PENDING", "LEASED"} ~> outbox[v].state \in {"PUBLISHED", "DEAD_LETTER"}

(* An event takes effect once.  It does not hold: Complete, and the        *)
(* handler's effect, are not one transaction, and a lease may run out.     *)
AppliedOnce == \A v \in Versions : applied[v] <= 1
=============================================================================
