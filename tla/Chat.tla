-------------------------------- MODULE Chat --------------------------------
(***************************************************************************)
(* The conversation of a delivery (internal/fulfillment, postgres_chat.go, *)
(* with what SeedTask, AcceptOffer and CompleteDelivery do to it): the     *)
(* customer, the counterparty, every rider who accepted the task and the   *)
(* operators may write until it is blocked or its time is over, and        *)
(* acknowledge what they received.                                         *)
(***************************************************************************)
EXTENDS Naturals, FiniteSets

CONSTANTS
  Parties,    \* the customer and the counterparty
  Riders,
  Operators,  \* those with the role OPS_ADMIN or SUPER_ADMIN
  Messages    \* idempotency keys of SendMessage

VARIABLES
  members,    \* participant_identity_ids
  closing,    \* "OPEN", "DELIVERED" (the shorter time runs), "OVER"
  blocked,
  message     \* fulfillment.chat_messages: sender and receipts, by key

vars == <<members, closing, blocked, message>>

People == Parties \cup Riders \cup Operators
NoMessage == [sender |-> "NOBODY", receipts |-> [p \in People |-> "NONE"]]

TypeOK ==
  /\ members \subseteq People /\ closing \in {"OPEN", "DELIVERED", "OVER"} /\ blocked \in BOOLEAN
  /\ message \in [Messages -> [sender : People \cup {"NOBODY"},
                               receipts : [People -> {"NONE", "SENT", "DELIVERED", "READ"}]]]

\* As SeedTask leaves it.
Init ==
  /\ members = Parties /\ closing = "OPEN" /\ blocked = FALSE
  /\ message = [m \in Messages |-> NoMessage]

authorizeConversation(p) == p \in members \cup Operators

\* AcceptOffer adds the rider; nothing ever removes one.
Join(r) ==
  /\ closing = "OPEN" /\ members' = members \cup {r}
  /\ UNCHANGED <<closing, blocked, message>>

\* Mutant: a blocked conversation can be written to.
SendBlocked(p, m) ==
  /\ message[m] = NoMessage /\ authorizeConversation(p) /\ closing # "OVER"
  /\ message' = [message EXCEPT ![m] = [sender |-> p, receipts |-> [@.receipts EXCEPT ![p] = "SENT"]]]
  /\ UNCHANGED <<members, closing, blocked>>

SendMessage(p, m) ==
  /\ message[m] = NoMessage /\ authorizeConversation(p) /\ ~blocked /\ closing # "OVER"
  /\ message' = [message EXCEPT ![m] = [sender |-> p, receipts |-> [@.receipts EXCEPT ![p] = "SENT"]]]
  /\ UNCHANGED <<members, closing, blocked>>

\* The last acknowledgement to arrive wins, whatever it replaces.
MessageReceipt(p, m, state) ==
  /\ message[m] # NoMessage /\ authorizeConversation(p) /\ closing # "OVER"
  /\ message' = [message EXCEPT ![m].receipts[p] = state]
  /\ UNCHANGED <<members, closing, blocked>>

BlockConversation(p) ==
  /\ authorizeConversation(p) /\ blocked' = TRUE
  /\ UNCHANGED <<members, closing, message>>

\* CompleteDelivery sets the expiry anew, even if it had passed already.
Delivered ==
  /\ closing \in {"OPEN", "OVER"} /\ closing' = "DELIVERED"
  /\ UNCHANGED <<members, blocked, message>>

Expires ==
  /\ closing # "OVER" /\ closing' = "OVER"
  /\ UNCHANGED <<members, blocked, message>>

Next ==
  \/ Delivered \/ Expires \/ \E r \in Riders : Join(r)
  \/ \E p \in People :
       \/ BlockConversation(p)
       \/ \E m \in Messages : SendMessage(p, m) \/ \E state \in {"DELIVERED", "READ"} : MessageReceipt(p, m, state)

Spec == Init /\ [][Next]_vars

----------------------------------------------------------------------------

\* A block is for good: once anyone has blocked the conversation nothing is
\* said in it any more; and only members and operators ever spoke or acknowledged.
BlockedIsSilent ==
  [][/\ blocked => blocked' /\ \A m \in Messages : message'[m].sender = message[m].sender
     /\ \A m \in Messages, p \in People : message'[m].receipts[p] # "NONE" => p \in members \cup Operators]_vars

\* What was read stays read.  It does not: a receipt DELIVERED that comes late
\* takes the place of READ.
ReadStaysRead ==
  [][\A m \in Messages, p \in People : message[m].receipts[p] = "READ" => message'[m].receipts[p] = "READ"]_vars
=============================================================================
