--------------------------- MODULE LocalVerticals ---------------------------
(***************************************************************************)
(* Homes and classifieds (internal/localverticals, PostgresService): home  *)
(* listings of verified owners with inquiries and visits, and classified   *)
(* listings that expire, are reposted by their owner, and are withheld for *)
(* a review when enough people report them.                                *)
(*                                                                         *)
(* Every command is one serializable transaction that locks the listing,   *)
(* hence one step.                                                         *)
(***************************************************************************)
EXTENDS Naturals, FiniteSets

CONSTANTS
  Homes, Listings, Customers,   \* customers other than the owner of a listing
  Threshold,                    \* report_review_threshold of the policy
  MaxRevision                   \* bound on the revisions of a row

VARIABLES
  verified,    \* local_verticals.owner_verifications of the owner
  home,        \* local_verticals.home_listings
  request,     \* local_verticals.home_inquiries and home_visits
  listing,     \* local_verticals.classified_listings
  over,        \* listings whose expires_at has passed
  reports,     \* local_verticals.reports: reporters by listing
  reposted     \* listings reposted since they were last withheld

vars == <<verified, home, request, listing, over, reports, reposted>>

None == "NONE"
NoHome == [status |-> None, revision |-> 0, kyc |-> FALSE, featured |-> FALSE]
NoListing == [status |-> None, revision |-> 0, featured |-> FALSE, reportCount |-> 0]

Init ==
  /\ verified = FALSE /\ home = [h \in Homes |-> NoHome] /\ request = {}
  /\ listing = [l \in Listings |-> NoListing] /\ over = {}
  /\ reports = [l \in Listings |-> {}] /\ reposted = {}

\* The verification of owners is kept by hand.
OwnerVerification(status) ==
  /\ verified # status /\ verified' = status
  /\ UNCHANGED <<home, request, listing, over, reports, reposted>>

----------------------------------------------------------------------------
(* Homes.                                                                  *)

\* The draft remembers whether its owner was verified.
CreateHome(h) ==
  /\ home[h] = NoHome
  /\ home' = [home EXCEPT ![h] = [NoHome EXCEPT !.status = "DRAFT", !.revision = 1, !.kyc = verified]]
  /\ UNCHANGED <<verified, request, listing, over, reports, reposted>>

mutateHome(h, value) ==
  /\ home[h] # NoHome /\ home[h].revision < MaxRevision
  /\ home' = [home EXCEPT ![h] = [value EXCEPT !.revision = @ + 1]]
  /\ UNCHANGED <<verified, request, listing, over, reports, reposted>>

\* By the owner at the last revision.
PublishHome(h) ==
  /\ home[h].status = "DRAFT" /\ home[h].kyc
  /\ mutateHome(h, [home[h] EXCEPT !.status = "ACTIVE"])

UpgradeHome(h, featured) == mutateHome(h, [home[h] EXCEPT !.featured = featured])

Inquire(c, h) ==
  /\ home[h].status = "ACTIVE" /\ <<"INQUIRY", c, h>> \notin request
  /\ request' = request \cup {<<"INQUIRY", c, h>>}
  /\ UNCHANGED <<verified, home, listing, over, reports, reposted>>

ScheduleVisit(c, h) ==
  /\ home[h].status = "ACTIVE" /\ <<"VISIT", c, h>> \notin request
  /\ request' = request \cup {<<"VISIT", c, h>>}
  /\ UNCHANGED <<verified, home, listing, over, reports, reposted>>

----------------------------------------------------------------------------
(* Classifieds.                                                            *)

\* Published at once, unless the text has a term that is to be reviewed.
CreateClassified(l, status) ==
  /\ listing[l] = NoListing /\ status \in {"PUBLISHED", "PENDING_REVIEW"}
  /\ listing' = [listing EXCEPT ![l].status = status, ![l].revision = 1]
  /\ UNCHANGED <<verified, home, request, over, reports, reposted>>

mutateClassified(l, value) ==
  /\ listing[l] # NoListing /\ listing[l].revision < MaxRevision
  /\ listing' = [listing EXCEPT ![l] = [value EXCEPT !.revision = @ + 1]]
  /\ UNCHANGED <<verified, home, request, reports>>

\* Of a listing that is EXPIRED, or whose time has passed in any other status:
\* also of one that waits for a review.
RepostClassified(l) ==
  /\ listing[l].status = "EXPIRED" \/ l \in over
  /\ mutateClassified(l, [listing[l] EXCEPT !.status = "PUBLISHED"])
  /\ over' = over \ {l} /\ reposted' = reposted \cup {l}

UpgradeClassified(l, featured) ==
  /\ mutateClassified(l, [listing[l] EXCEPT !.featured = featured])
  /\ UNCHANGED <<over, reposted>>

\* Mutant: the threshold is to be exceeded.
ReportClassifiedAbove(c, l) ==
  /\ listing[l].status = "PUBLISHED" /\ c \notin reports[l] /\ listing[l].revision < MaxRevision
  /\ reports' = [reports EXCEPT ![l] = @ \cup {c}]
  /\ LET n == listing[l].reportCount + 1
     IN  /\ listing' = [listing EXCEPT ![l].reportCount = n, ![l].revision = @ + 1,
                                       ![l].status = IF n > Threshold THEN "PENDING_REVIEW" ELSE @]
         /\ reposted' = IF n > Threshold THEN reposted \ {l} ELSE reposted
  /\ UNCHANGED <<verified, home, request, over>>

\* Once per person; the index on the reporter refuses another report.
ReportClassified(c, l) ==
  /\ listing[l].status = "PUBLISHED" /\ c \notin reports[l] /\ listing[l].revision < MaxRevision
  /\ reports' = [reports EXCEPT ![l] = @ \cup {c}]
  /\ LET n == listing[l].reportCount + 1
     IN  /\ listing' = [listing EXCEPT ![l].reportCount = n, ![l].revision = @ + 1,
                                       ![l].status = IF n >= Threshold THEN "PENDING_REVIEW" ELSE @]
         /\ reposted' = IF n >= Threshold THEN reposted \ {l} ELSE reposted
  /\ UNCHANGED <<verified, home, request, over>>

\* The sweep, and every reader of the classifieds.
ExpireClassifieds ==
  LET old == {l \in over : listing[l].status = "PUBLISHED"}
  IN  /\ old # {}
      /\ listing' = [l \in Listings |-> IF l \in old THEN [listing[l] EXCEPT !.status = "EXPIRED", !.revision = @ + 1] ELSE listing[l]]
      /\ UNCHANGED <<verified, home, request, over, reports, reposted>>

ListingExpires(l) ==
  /\ listing[l] # NoListing /\ l \notin over
  /\ over' = over \cup {l}
  /\ UNCHANGED <<verified, home, request, listing, reports, reposted>>

Next ==
  \/ \E status \in BOOLEAN : OwnerVerification(status)
  \/ \E h \in Homes :
       \/ CreateHome(h) \/ PublishHome(h) \/ \E featured \in BOOLEAN : UpgradeHome(h, featured)
       \/ \E c \in Customers : Inquire(c, h) \/ ScheduleVisit(c, h)
  \/ \E l \in Listings :
       \/ RepostClassified(l) \/ ListingExpires(l) \/ \E featured \in BOOLEAN : UpgradeClassified(l, featured)
       \/ \E status \in {"PUBLISHED", "PENDING_REVIEW"} : CreateClassified(l, status)
       \/ \E c \in Customers : ReportClassified(c, l)
  \/ ExpireClassifieds

Spec == Init /\ [][Next]_vars

----------------------------------------------------------------------------

\* A listing that Threshold people have reported is not shown, unless its owner
\* reposted it since, which takes its time to have passed; the counter that
\* decides is the number of people who reported, also across reposts.
ReportedIsWithheld ==
  \A l \in Listings :
    /\ listing[l].reportCount = Cardinality(reports[l])
    /\ listing[l].status \in {"PUBLISHED", "EXPIRED"} /\ listing[l].reportCount >= Threshold => l \in reposted

\* A listing that was withheld is shown again only after a review.  It does not
\* hold: there is no review, and its owner can repost it once its time is over.
WithheldIsReviewed ==
  [][\A l \in Listings : listing[l].status = "PENDING_REVIEW" => listing'[l].status # "PUBLISHED"]_vars

\* The owner of a home on show is verified.  It does not hold: the draft keeps
\* the verification of the day it was written.
ActiveIsVerified == \A h \in Homes : home[h].status = "ACTIVE" => verified
=============================================================================
