------------------------------ MODULE AdminOps ------------------------------
(***************************************************************************)
(* The administrator's changes (internal/adminops: PostgresService,        *)
(* PostgresDomainExecutor, PostgresControlPlaneExecutor and the            *)
(* AdminOperationExecutor of internal/configcms behind the RoutingExecutor *)
(* of cmd/admin).                                                          *)
(*                                                                         *)
(* A call reads the change, has its command executed, which is a           *)
(* transaction of its own keyed by the change, and then writes the change: *)
(* between the three, other calls and the death of the process intervene.  *)
(* A change's id is the digest of its content and its requester, so a      *)
(* repeated submission is the same change.                                 *)
(***************************************************************************)
EXTENDS Naturals, FiniteSets, Sequences

CONSTANTS
  Admins, CapabilitiesOf,     \* the domains an administrator may act on
  Changes, RequesterOf, CommandOf,   \* domain, action, target, expected revision, and
                                     \* the draft of a page or the decision on content
  Posts,                      \* the posts and the classified listings that exist
  Calls                       \* calls being served at a time

VARIABLES
  change,      \* admin.changes: status, revision and approved_by
  events,      \* admin.operation_events of a change: the reasons recorded
  record,      \* admin.domain_records: state, revision and updated_by, by target
  executed,    \* admin.domain_executions
  executor,    \* who had the command of a change executed
  control,     \* what the control plane publishes: by target, its value
  published,   \* configuration.publish_history: the snapshots, each with its pages,
               \* who published it and for which change
  call         \* the calls being served: who, which change, as read, how far

vars == <<change, events, record, executed, executor, control, published, call>>
effects == <<record, executed, executor, control, published>>

Nobody == "NOBODY"
NoChange == [status |-> "ABSENT", revision |-> 0, approvedBy |-> Nobody]
NoRecord == [state |-> "NONE", revision |-> 0, updatedBy |-> Nobody]
NoCall == [by |-> Nobody, change |-> "NONE", seen |-> NoChange, step |-> "IDLE"]
Targets == {CommandOf[c].target : c \in Changes}
Unpublished == [revision |-> 0, by |-> "NONE", status |-> "NONE"]
NoPages == [t \in Targets |-> "NONE"]

Init ==
  /\ change = [c \in Changes |-> NoChange] /\ events = [c \in Changes |-> {}]
  /\ record = [t \in Targets |-> NoRecord] /\ executed = {}
  /\ executor = [c \in Changes |-> Nobody]
  /\ control = [t \in Targets |-> IF t \in Posts THEN [Unpublished EXCEPT !.status = "PUBLISHED"]
                                                 ELSE Unpublished]
  /\ published = <<[pages |-> NoPages, by |-> Nobody, change |-> "NONE"]>>
  /\ call = [k \in Calls |-> NoCall]

commandRisk(command) ==
  IF <<command.domain, command.action>> \in
       {<<"CATALOG", "UPSERT">>, <<"CATALOG", "PUBLISH">>, <<"CAMPAIGN", "UPSERT">>, <<"CMS", "UPSERT">>,
        <<"SUPPORT", "UPDATE_CASE">>, <<"SUPPORT", "RESOLVE">>, <<"REPORTING", "EXPORT">>}
  THEN "STANDARD" ELSE "HIGH"

Standard == {c \in Changes : commandRisk(CommandOf[c]) = "STANDARD"}
Capable(a, c) == CommandOf[c].domain \in CapabilitiesOf[a]

-----------------------------------------------------------------------------
(* Executing a command: one transaction, under a lock on the change.       *)

\* The rest of the table, campaigns to insights, only names a state per action.
StatePerAction(command) == command.action

\* applyDomainCommand: the state an action leaves its target in.
StateAfter(command) ==
  CASE command.domain = "CATALOG" ->
         [UPSERT |-> "DRAFT", PUBLISH |-> "PUBLISHED", APPROVE |-> "PUBLISHED",
          UNPUBLISH |-> "UNPUBLISHED", REJECT |-> "REJECTED"][command.action]
    [] command.domain = "WALLET" ->
         [ADJUST |-> "ADJUSTED", REVERSE |-> "REVERSED", FREEZE |-> "FROZEN"][command.action]
    [] OTHER -> StatePerAction(command)

publishedControlState(command) ==
  CASE command.action = "MODERATE" -> "MODERATED"
    [] command.action = "RESTORE" -> "RESTORED"
    [] command.action = "DISMISS" -> "DISMISSED"
    [] OTHER -> "PUBLISHED"

\* A first publication inserts the row; any other is for the revision it expects.
publishCountry(c) ==
  LET t == CommandOf[c].target
  IN  /\ CommandOf[c].expected = control[t].revision
      /\ control' = [control EXCEPT ![t] = [@ EXCEPT !.revision = @ + 1, !.by = c]]

\* publishPolicy and publishEmergencySLA write over what is there.
publishPolicy(c) == control' = [control EXCEPT ![CommandOf[c].target].by = c]

publishInsight(c) ==
  LET t == CommandOf[c].target
  IN  IF CommandOf[c].action = "DISMISS"
      THEN control[t].status # "NONE" /\ control' = [control EXCEPT ![t].status = "WITHDRAWN"]
      ELSE control' = [control EXCEPT ![t] = [@ EXCEPT !.status = "PUBLISHED", !.by = c]]

moderateContent(c) ==
  LET t == CommandOf[c].target
  IN  /\ t \in Posts
      /\ control' = [control EXCEPT ![t] =
           [@ EXCEPT !.status = IF CommandOf[c].action = "RESTORE" \/ CommandOf[c].decision = "RESTORE"
                                THEN "PUBLISHED" ELSE "REMOVED", !.by = c]]

Published(c) ==
  LET domain == CommandOf[c].domain
  IN  \/ domain = "COUNTRY" /\ publishCountry(c)
      \/ domain = "POLICY" /\ publishPolicy(c)
      \/ domain = "EMERGENCY" /\ CommandOf[c].action # "ESCALATE" /\ publishPolicy(c)
      \/ domain = "INTELLIGENCE" /\ publishInsight(c)
      \/ domain = "CONTENT" /\ moderateContent(c)

ControlPlane == {"POLICY", "COUNTRY", "INTELLIGENCE", "CONTENT", "EMERGENCY"}

\* cmsRoute: a publication of a page is not the domain executor's.
PagePublished(c) == CommandOf[c].domain = "CMS" /\ CommandOf[c].action = "PUBLISH"
PageChanges == {c \in Changes : PagePublished(c)}

\* The snapshot that follows the one a change expects shows the change's draft.
PageShown(c) ==
  LET next == CommandOf[c].expected + 1
  IN  next <= Len(published) /\ published[next].pages[CommandOf[c].target] = CommandOf[c].draft

\* PublishPage, for the snapshot that it expects.  It keeps no record of the change:
\* a repeat is told by the page that is already there.
PublishPage(a, c) ==
  LET command == CommandOf[c]
      now == Len(published)
  IN  \/ now = command.expected + 1 /\ PageShown(c) /\ UNCHANGED published
      \/ /\ now = command.expected
         /\ published' = Append(published,
              [pages |-> [published[now].pages EXCEPT ![command.target] = command.draft],
               by |-> a, change |-> c])

\* RoutingExecutor, of the changes that are not pages.
Route(c) ==
  IF CommandOf[c].domain \in ControlPlane THEN Published(c) ELSE UNCHANGED control

persistPublishedDomainRecord(a, c) ==
  LET command == CommandOf[c]
  IN  record' = [record EXCEPT ![command.target] =
        [state |-> IF command.domain \in ControlPlane THEN publishedControlState(command)
                                                      ELSE StateAfter(command),
         revision |-> @.revision + 1, updatedBy |-> a]]

\* Mutant: the executions are not looked up.
ExecuteAgain(a, c) ==
  /\ c \notin PageChanges /\ UNCHANGED published
  /\ Route(c) /\ persistPublishedDomainRecord(a, c)
  /\ executed' = executed \union {c} /\ executor' = [executor EXCEPT ![c] = a]

Execute(a, c) ==
  \/ c \in PageChanges /\ PublishPage(a, c) /\ UNCHANGED <<record, executed, executor, control>>
  \/ c \notin PageChanges /\ c \in executed /\ UNCHANGED effects
  \/ /\ c \notin PageChanges /\ c \notin executed
     /\ Route(c) /\ persistPublishedDomainRecord(a, c)
     /\ executed' = executed \union {c} /\ executor' = [executor EXCEPT ![c] = a]
     /\ UNCHANGED published

\* The executor returns an error, whatever the reason, and nothing is written.
ExecuteRefused(k) ==
  /\ call[k].step \in {"SUBMITTING", "APPROVING"}
  /\ call' = [call EXCEPT ![k] = NoCall]
  /\ UNCHANGED <<change, events, effects>>

-----------------------------------------------------------------------------
(* The calls.                                                              *)

Serve(k, a, c, step) ==
  /\ call[k] = NoCall
  /\ call' = [call EXCEPT ![k] = [by |-> a, change |-> c, seen |-> change[c], step |-> step]]
  /\ UNCHANGED <<change, events, effects>>

\* Submit: a change that is there is returned.
Submit(k, c) ==
  LET a == RequesterOf[c]
  IN  /\ Capable(a, c) /\ change[c] = NoChange
      /\ Serve(k, a, c, IF c \in Standard THEN "SUBMITTING" ELSE "SUBMITTED")

\* Approve, up to the execution.
Approve(k, a, c, expected) ==
  /\ Capable(a, c) /\ a # RequesterOf[c]
  /\ change[c].revision = expected /\ change[c].status = "PENDING_APPROVAL"
  /\ Serve(k, a, c, "APPROVING")

\* The executor refuses a change that was read as rejected.
CallExecutes(k) ==
  LET step == call[k].step
  IN  /\ step \in {"SUBMITTING", "APPROVING"} /\ call[k].seen.status # "REJECTED"
      /\ Execute(call[k].by, call[k].change)
      /\ call' = [call EXCEPT ![k].step = IF step = "SUBMITTING" THEN "SUBMITTED" ELSE "APPROVED"]
      /\ UNCHANGED <<change, events>>

appendEvent(c, reason) == events' = [events EXCEPT ![c] = @ \union {reason}]

\* ON CONFLICT DO NOTHING: another call may have submitted it meanwhile.
SubmitPersists(k) ==
  LET c == call[k].change
      status == IF c \in Standard THEN "EXECUTED" ELSE "PENDING_APPROVAL"
  IN  /\ call[k].step = "SUBMITTED"
      /\ IF change[c] = NoChange
         THEN /\ change' = [change EXCEPT ![c] = [NoChange EXCEPT !.status = status, !.revision = 1]]
              /\ appendEvent(c, status)
         ELSE UNCHANGED <<change, events>>
      /\ call' = [call EXCEPT ![k] = NoCall]
      /\ UNCHANGED effects

\* Mutant: the update does not look at the status and the revision it read.
ApprovePersistsAnyway(k) ==
  LET c == call[k].change
  IN  /\ call[k].step = "APPROVED"
      /\ change' = [change EXCEPT ![c] = [status |-> "EXECUTED", revision |-> @.revision + 1,
                                          approvedBy |-> call[k].by]]
      /\ appendEvent(c, "FOUR_EYES_APPROVED")
      /\ call' = [call EXCEPT ![k] = NoCall]
      /\ UNCHANGED effects

ApprovePersists(k) ==
  LET c == call[k].change
  IN  /\ call[k].step = "APPROVED"
      /\ IF change[c].revision = call[k].seen.revision /\ change[c].status = "PENDING_APPROVAL"
         THEN /\ change' = [change EXCEPT ![c] = [status |-> "EXECUTED", revision |-> @.revision + 1,
                                                  approvedBy |-> call[k].by]]
              /\ appendEvent(c, "FOUR_EYES_APPROVED")
         ELSE UNCHANGED <<change, events>>
      /\ call' = [call EXCEPT ![k] = NoCall]
      /\ UNCHANGED effects

Reject(a, c, expected) ==
  /\ Capable(a, c) /\ a # RequesterOf[c]
  /\ change[c].revision = expected /\ change[c].status = "PENDING_APPROVAL"
  /\ change' = [change EXCEPT ![c] = [status |-> "REJECTED", revision |-> expected + 1, approvedBy |-> a]]
  /\ appendEvent(c, "FOUR_EYES_REJECTED")
  /\ UNCHANGED <<effects, call>>

\* The process dies, or the operation's timeout ends the call.
CallDies(k) ==
  /\ call[k] # NoCall /\ call' = [call EXCEPT ![k] = NoCall]
  /\ UNCHANGED <<change, events, effects>>

Next ==
  \/ \E k \in Calls :
       \/ \E c \in Changes : \/ Submit(k, c)
                             \/ \E a \in Admins, r \in 1..2 : Approve(k, a, c, r)
       \/ CallExecutes(k) \/ ExecuteRefused(k) \/ SubmitPersists(k) \/ ApprovePersists(k) \/ CallDies(k)
  \/ \E a \in Admins, c \in Changes, r \in 1..2 : Reject(a, c, r)

Spec == Init /\ [][Next]_vars

-----------------------------------------------------------------------------
\* However the calls interleave, repeat and die, the revision of a target is the
\* number of changes executed on it (no command is applied twice), a change
\* reported EXECUTED was executed, and a change of high risk was executed by
\* somebody other than the one who requested it.  For a page there is no record of
\* executions: the snapshot after the one the change expects shows its draft, each
\* snapshot is of one change, and its publisher is not the one who requested it.
EffectsExplained ==
  /\ \A t \in Targets :
       record[t].revision = Cardinality({c \in executed : CommandOf[c].target = t})
  /\ \A c \in Changes : change[c].status = "EXECUTED" =>
       IF c \in PageChanges THEN PageShown(c) ELSE c \in executed
  /\ \A c \in executed \ Standard : executor[c] \notin {Nobody, RequesterOf[c]}
  /\ \A n \in 2..Len(published) :
       LET c == published[n].change
       IN  c \in PageChanges /\ CommandOf[c].expected + 1 = n /\ published[n].by \notin {Nobody, RequesterOf[c]}

-----------------------------------------------------------------------------
(* What the changes promise, as the in-memory Service states it: a change  *)
(* of standard risk is executed as it is submitted; any other waits for    *)
(* one decision, by somebody other than its requester who holds the        *)
(* capability of its domain.  Each decision is taken under the mutex, on   *)
(* the change as it is then.                                               *)

MemoryInit == change = [c \in Changes |-> NoChange] /\ events = [c \in Changes |-> {}]

MemoryRecords(c, reason) == events' = [events EXCEPT ![c] = @ \union {reason}]

MemorySubmit(c) ==
  LET status == IF c \in Standard THEN "EXECUTED" ELSE "PENDING_APPROVAL"
  IN  /\ change[c] = NoChange /\ Capable(RequesterOf[c], c)
      /\ change' = [change EXCEPT ![c] = [NoChange EXCEPT !.status = status, !.revision = 1]]
      /\ MemoryRecords(c, status)

MemoryDecides(a, c, expected, status) ==
  /\ Capable(a, c) /\ a # RequesterOf[c]
  /\ change[c].revision = expected /\ change[c].status = "PENDING_APPROVAL"
  /\ change' = [change EXCEPT ![c] = [status |-> status, revision |-> expected + 1, approvedBy |-> a]]

MemoryApprove(a, c, expected) ==
  MemoryDecides(a, c, expected, "EXECUTED") /\ MemoryRecords(c, "FOUR_EYES_APPROVED")

MemoryReject(a, c, expected) ==
  MemoryDecides(a, c, expected, "REJECTED") /\ MemoryRecords(c, "FOUR_EYES_REJECTED")

\* What it refuses and what fails leaves an event too: nobody may, or not now, or
\* the executor returned an error.
MemoryRefuses(c) ==
  /\ \E reason \in {"CAPABILITY_OR_INPUT_INVALID", "FRESH_MFA_REQUIRED", "DOMAIN_EXECUTION_FAILED"} :
       MemoryRecords(c, reason)
  /\ UNCHANGED change

MemoryNext ==
  \E c \in Changes :
    \/ MemorySubmit(c) \/ MemoryRefuses(c)
    \/ \E a \in Admins : MemoryApprove(a, c, change[c].revision) \/ MemoryReject(a, c, change[c].revision)

\* The changes and their events are those the in-memory service could show when
\* nothing was refused and nothing failed: PostgresService writes no event of
\* either, so MemoryRefuses is the step it never takes.
ImplementsMemory == MemoryInit /\ [][MemoryNext]_<<change, events>>

\* Does not hold.  A rejected change was not executed: the approval may have read
\* it before the rejection, and executes it after.
RejectedIsNotExecuted ==
  \A c \in Changes : change[c].status = "REJECTED" => c \notin executed
=============================================================================
