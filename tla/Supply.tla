------------------------------- MODULE Supply -------------------------------
(***************************************************************************)
(* Vendors (internal/supply, PostgresService): an application that staff   *)
(* take from registration to approval, the catalog items of an approved    *)
(* vendor, each approved again after every edit, the vendor's work items   *)
(* and promotions.                                                         *)
(*                                                                         *)
(* Every command is one transaction that locks the row it changes, hence   *)
(* one step.  Staff decide on the row on their screens and send its        *)
(* revision; between the look and the decision the vendor may have changed *)
(* what they looked at.                                                    *)
(***************************************************************************)
EXTENDS Naturals, Sequences

CONSTANTS
  Vendors, Banks,
  Items, OwnerOf, Contents,   \* catalog items, their vendors, what they offer
  Works, Promotions,
  MaxRevision, MaxEdits       \* bounds on the revisions of an application and of an item

VARIABLES
  application,  \* supply.vendor_applications with documents, visit, zones, bank and timeline
  item,         \* supply.catalog_items
  work,         \* supply.work_items: status
  promotion,    \* supply.promotions, created as drafts and never changed
  seen,         \* the rows on the screens of staff
  vouched       \* what staff looked at when they last said yes: a bank account, an item's content

vars == <<application, item, work, promotion, seen, vouched>>

None == "NONE"
NoApplication == [revision |-> 0, status |-> None, ocr |-> None, visit |-> None, zones |-> FALSE,
                  bank |-> None, bankStatus |-> None, verified |-> FALSE, timeline |-> <<>>]
NoItem == [revision |-> 0, content |-> None, stock |-> 0, scheduled |-> FALSE, approval |-> None, active |-> FALSE]

Init ==
  /\ application = [v \in Vendors |-> NoApplication] /\ item = [i \in Items |-> NoItem]
  /\ work = [w \in Works |-> None] /\ promotion = {}
  /\ seen = [x \in Vendors \cup Items |-> [revision |-> 0, what |-> None]]
  /\ vouched = [x \in Vendors \cup Items |-> None]

----------------------------------------------------------------------------
(* The application.                                                        *)

appendApplicationTimeline(v, status) ==
  IF status = application[v].status THEN application[v].timeline ELSE Append(application[v].timeline, status)

saveApplication(v, value) == application' = [application EXCEPT ![v] = value]

\* The caller's revision is the row's; the row is saved as the next one.
mutateApplication(v, revision, value) ==
  /\ application[v] # NoApplication /\ revision = application[v].revision /\ revision < MaxRevision
  /\ saveApplication(v, [value EXCEPT !.revision = revision + 1, !.timeline = appendApplicationTimeline(v, value.status)])
  /\ UNCHANGED <<item, work, promotion, seen>>

Register(v) ==
  /\ application[v] = NoApplication
  /\ saveApplication(v, [NoApplication EXCEPT !.revision = 1, !.status = "REGISTERED", !.timeline = <<"REGISTERED">>])
  /\ UNCHANGED <<item, work, promotion, seen, vouched>>

SubmitDocuments(v) ==
  /\ application[v].status = "REGISTERED"
  /\ mutateApplication(v, application[v].revision, [application[v] EXCEPT !.status = "DOCUMENTS_SUBMITTED", !.ocr = "PENDING"])
  /\ UNCHANGED vouched

allowedApplicationTransition ==
  {<<"DOCUMENTS_SUBMITTED", "OCR_REVIEW">>, <<"OCR_REVIEW", "KYC_REVIEW">>, <<"OCR_REVIEW", "REJECTED">>,
   <<"KYC_REVIEW", "FIELD_VISIT_REQUIRED">>, <<"KYC_REVIEW", "REJECTED">>,
   <<"BANK_REVIEW", "APPROVED">>, <<"BANK_REVIEW", "REJECTED">>}

TransitionForVendor(v, status) ==
  /\ <<application[v].status, status>> \in allowedApplicationTransition
  /\ status = "APPROVED" => /\ application[v].bankStatus = "VERIFIED" /\ application[v].zones
                            /\ application[v].visit = "CHECKED_IN"
  /\ mutateApplication(v, seen[v].revision,
       [application[v] EXCEPT !.status = status, !.verified = status = "APPROVED",
                              !.ocr = CASE status = "OCR_REVIEW" -> "REVIEW_REQUIRED"
                                        [] status = "KYC_REVIEW" -> "VERIFIED" [] OTHER -> @])
  /\ UNCHANGED vouched

\* For the caller's own application, whatever the caller's role.
ScheduleVisit(v) ==
  /\ application[v].status \in {"FIELD_VISIT_REQUIRED", "FIELD_VISIT_SCHEDULED"}
  /\ mutateApplication(v, application[v].revision,
       [application[v] EXCEPT !.status = "FIELD_VISIT_SCHEDULED", !.visit = "SCHEDULED"])
  /\ UNCHANGED vouched

\* Within the allowed radius of the place of the visit.
FieldCheckIn(v) ==
  /\ application[v].status = "FIELD_VISIT_SCHEDULED"
  /\ mutateApplication(v, seen[v].revision,
       [application[v] EXCEPT !.status = "FIELD_VISIT_PASSED", !.visit = "CHECKED_IN"])
  /\ UNCHANGED vouched

SetZones(v) ==
  /\ application[v].status \in {"FIELD_VISIT_PASSED", "BANK_REVIEW"}
  /\ mutateApplication(v, application[v].revision, [application[v] EXCEPT !.zones = TRUE])
  /\ UNCHANGED vouched

\* Mutant: another account under the verification of the last one.
SubmitBankVerified(v, bank) ==
  /\ application[v].status \in {"FIELD_VISIT_PASSED", "BANK_REVIEW"}
  /\ mutateApplication(v, application[v].revision,
       [application[v] EXCEPT !.status = "BANK_REVIEW", !.bank = bank,
                              !.bankStatus = IF @ = None THEN "PENDING_VERIFICATION" ELSE @])
  /\ UNCHANGED vouched

\* Another account is to be verified again.
SubmitBank(v, bank) ==
  /\ application[v].status \in {"FIELD_VISIT_PASSED", "BANK_REVIEW"}
  /\ mutateApplication(v, application[v].revision,
       [application[v] EXCEPT !.status = "BANK_REVIEW", !.bank = bank, !.bankStatus = "PENDING_VERIFICATION"])
  /\ UNCHANGED vouched

VerifyBank(v) ==
  /\ application[v].status = "BANK_REVIEW" /\ application[v].bank # None
  /\ mutateApplication(v, seen[v].revision, [application[v] EXCEPT !.bankStatus = "VERIFIED"])
  /\ vouched' = [vouched EXCEPT ![v] = seen[v].what]

----------------------------------------------------------------------------
(* The catalog of a verified vendor.                                       *)

\* A new item or an edit: either way it waits for approval.
UpsertCatalog(i, content) ==
  /\ application[OwnerOf[i]].verified /\ item[i].revision < MaxEdits
  /\ item' = [item EXCEPT ![i].revision = @ + 1, ![i].content = content, ![i].approval = "PENDING_APPROVAL", ![i].active = FALSE]
  /\ UNCHANGED <<application, work, promotion, seen, vouched>>

\* Mutant: the approval is of whatever the item is by now.
mutateCatalogUnseen(i, revision, value) ==
  /\ item[i] # NoItem /\ item[i].revision < MaxEdits
  /\ item' = [item EXCEPT ![i] = [value EXCEPT !.revision = @ + 1]]
  /\ UNCHANGED <<application, work, promotion, seen>>

mutateCatalog(i, revision, value) ==
  /\ item[i] # NoItem /\ revision = item[i].revision /\ revision < MaxEdits
  /\ item' = [item EXCEPT ![i] = [value EXCEPT !.revision = @ + 1]]
  /\ UNCHANGED <<application, work, promotion, seen>>

\* Whatever the item's approval was before.
ApproveCatalog(i, approved) ==
  /\ mutateCatalog(i, seen[i].revision,
       [item[i] EXCEPT !.approval = IF approved THEN "APPROVED" ELSE "REJECTED", !.active = approved])
  /\ vouched' = [vouched EXCEPT ![i] = IF approved THEN seen[i].what ELSE None]

SetInventory(i, stock) ==
  /\ mutateCatalog(i, item[i].revision, [item[i] EXCEPT !.stock = stock])
  /\ UNCHANGED vouched

SetSchedule(i) ==
  /\ mutateCatalog(i, item[i].revision, [item[i] EXCEPT !.scheduled = TRUE])
  /\ UNCHANGED vouched

----------------------------------------------------------------------------
(* Work, promotions and the screens.                                       *)

\* Seeding again leaves the row as it is.
SeedWork(w) ==
  /\ work[w] = None
  /\ work' = [work EXCEPT ![w] = "NEW"]
  /\ UNCHANGED <<application, item, promotion, seen, vouched>>

allowedWorkTransition ==
  {<<"NEW", "ACCEPTED">>, <<"NEW", "REJECTED">>, <<"ACCEPTED", "PREPARING">>, <<"ACCEPTED", "EN_ROUTE">>,
   <<"PREPARING", "READY">>, <<"READY", "COMPLETED">>, <<"EN_ROUTE", "COMPLETED">>}

TransitionWork(w, status) ==
  /\ <<work[w], status>> \in allowedWorkTransition
  /\ work' = [work EXCEPT ![w] = status]
  /\ UNCHANGED <<application, item, promotion, seen, vouched>>

UpsertPromotion(p) ==
  /\ p \notin promotion
  /\ promotion' = promotion \cup {p}
  /\ UNCHANGED <<application, item, work, seen, vouched>>

\* A member of staff opens an application.
loadApplicationByVendor(v) ==
  /\ application[v].revision # seen[v].revision
  /\ seen' = [seen EXCEPT ![v] = [revision |-> application[v].revision, what |-> application[v].bank]]
  /\ UNCHANGED <<application, item, work, promotion, vouched>>

\* A member of staff opens the catalog.
Catalog(i) ==
  /\ item[i].revision # seen[i].revision
  /\ seen' = [seen EXCEPT ![i] = [revision |-> item[i].revision, what |-> item[i].content]]
  /\ UNCHANGED <<application, item, work, promotion, vouched>>

Next ==
  \/ \E v \in Vendors :
       \/ Register(v) \/ SubmitDocuments(v) \/ ScheduleVisit(v) \/ FieldCheckIn(v) \/ SetZones(v) \/ VerifyBank(v)
       \/ loadApplicationByVendor(v)
       \/ \E bank \in Banks : SubmitBank(v, bank)
       \/ \E t \in allowedApplicationTransition : TransitionForVendor(v, t[2])
  \/ \E i \in Items :
       \/ SetSchedule(i) \/ Catalog(i) \/ \E stock \in 0..1 : SetInventory(i, stock)
       \/ \E content \in Contents : UpsertCatalog(i, content)
       \/ \E approved \in BOOLEAN : ApproveCatalog(i, approved)
  \/ \E w \in Works : SeedWork(w) \/ \E t \in allowedWorkTransition : TransitionWork(w, t[2])
  \/ \E p \in Promotions : UpsertPromotion(p)

Spec == Init /\ [][Next]_vars

----------------------------------------------------------------------------

\* What is live was looked at: an approved vendor went through every stage in
\* order and is paid on the very account that was verified, and an active item
\* of an approved vendor offers the very content that an approver saw, however
\* the vendor's edits fell between the look and the decision.
LiveWasVouchedFor ==
  /\ \A v \in Vendors : application[v].verified =>
       /\ application[v].bank = vouched[v] /\ application[v].ocr = "VERIFIED"
       /\ application[v].timeline =
            <<"REGISTERED", "DOCUMENTS_SUBMITTED", "OCR_REVIEW", "KYC_REVIEW", "FIELD_VISIT_REQUIRED",
              "FIELD_VISIT_SCHEDULED", "FIELD_VISIT_PASSED", "BANK_REVIEW", "APPROVED">>
  /\ \A i \in Items : item[i].active => item[i].content = vouched[i] /\ application[OwnerOf[i]].verified
=============================================================================
