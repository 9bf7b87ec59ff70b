-------------------------------- MODULE Media --------------------------------
(***************************************************************************)
(* Uploaded media (internal/media: Service over PostgresRepository, an S3  *)
(* object store and a malware scanner).                                    *)
(*                                                                         *)
(* An asset is announced, its object uploaded to the store directly, and   *)
(* then completed: the object is compared with what was announced, and     *)
(* scanned.  Completion and deletion call the store and the scanner        *)
(* between the read of the asset and its update, which names the version   *)
(* that was read.                                                          *)
(***************************************************************************)
EXTENDS Naturals

CONSTANTS
  Assets,
  Calls,           \* calls being served at a time
  MaxVersion       \* bound on an asset's version

VARIABLES
  asset,       \* media.assets: lifecycle_state and version
  object,      \* the object store: what is under the asset's key
  overdue,     \* the assets whose upload_expires_at has passed
  call         \* calls being served: the asset as they last saw it, how far

vars == <<asset, object, overdue, call>>

NoAsset == [state |-> "ABSENT", version |-> 0]
NoCall == [asset |-> "NONE", seen |-> NoAsset, step |-> "IDLE"]
Uploads == {"GOOD", "OTHER", "INFECTED"}    \* as announced and clean, not as announced, infected

Init ==
  /\ asset = [a \in Assets |-> NoAsset] /\ object = [a \in Assets |-> "NONE"]
  /\ overdue = {} /\ call = [c \in Calls |-> NoCall]

Presign(a) ==
  /\ asset[a] = NoAsset
  /\ asset' = [asset EXCEPT ![a] = [state |-> "PENDING_UPLOAD", version |-> 1]]
  /\ UNCHANGED <<object, overdue, call>>

\* The owner uploads with the signed URL, which holds until the upload expires
\* and names the checksum: an object is put again only as it was.
Upload(a, content) ==
  /\ asset[a] # NoAsset /\ a \notin overdue /\ object[a] \in {"NONE", content}
  /\ object' = [object EXCEPT ![a] = content]
  /\ UNCHANGED <<asset, overdue, call>>

UploadExpires(a) ==
  /\ asset[a] # NoAsset /\ overdue' = overdue \union {a}
  /\ UNCHANGED <<asset, object, call>>

-----------------------------------------------------------------------------
Finish(c) == call' = [call EXCEPT ![c] = NoCall]
At(c, step) == call' = [call EXCEPT ![c].step = step]

\* Mutant: the update does not name a version.
UpdateAnyVersion(a, seen, state) ==
  asset' = [asset EXCEPT ![a] = [state |-> state, version |-> seen.version + 1]]

\* Only the version that was seen is replaced; otherwise ErrConflict.
Update(a, seen, state) ==
  IF asset[a].version = seen.version
  THEN asset' = [asset EXCEPT ![a] = [state |-> state, version |-> seen.version + 1]]
  ELSE UNCHANGED asset

Begin(c, a, step) ==
  /\ call[c] = NoCall /\ asset[a].state \notin {"ABSENT", "DELETED"} /\ asset[a].version < MaxVersion
  /\ call' = [call EXCEPT ![c] = [asset |-> a, seen |-> asset[a], step |-> step]]
  /\ UNCHANGED <<asset, object, overdue>>

\* Complete answers at once for an asset that is decided.
Complete(c, a) ==
  /\ asset[a].state \in {"PENDING_UPLOAD", "PENDING_SCAN"}
  /\ Begin(c, a, "COMPLETE")

\* Too late: the asset is marked expired, whatever comes of the update.
CompleteExpires(c) ==
  LET k == call[c]
  IN  /\ k.step = "COMPLETE" /\ k.asset \in overdue
      /\ Update(k.asset, k.seen, "EXPIRED")
      /\ Finish(c) /\ UNCHANGED <<object, overdue>>

\* The object is inspected; one that is not as announced is rejected and deleted.
Inspect(c) ==
  LET k == call[c]
  IN  /\ k.step = "COMPLETE" /\ k.asset \notin overdue
      /\ k.seen.state = "PENDING_UPLOAD" /\ object[k.asset] # "NONE"
      /\ IF object[k.asset] = "OTHER"
         THEN /\ Update(k.asset, k.seen, "REJECTED")
              /\ IF asset[k.asset].version = k.seen.version THEN At(c, "REMOVE") ELSE Finish(c)
         ELSE /\ Update(k.asset, k.seen, "PENDING_SCAN")
              /\ IF asset[k.asset].version = k.seen.version
                 THEN call' = [call EXCEPT ![c] = [@ EXCEPT !.step = "SCAN",
                                 !.seen = [state |-> "PENDING_SCAN", version |-> k.seen.version + 1]]]
                 ELSE Finish(c)
      /\ UNCHANGED <<object, overdue>>

\* Completion goes on where an earlier one stopped.
Resume(c) ==
  /\ call[c].step = "COMPLETE" /\ call[c].asset \notin overdue
  /\ call[c].seen.state = "PENDING_SCAN" /\ At(c, "SCAN")
  /\ UNCHANGED <<asset, object, overdue>>

\* The scanner answers; an infected object is deleted before the asset is updated,
\* and an error of the deletion is ignored.
Scan(c) ==
  LET a == call[c].asset
  IN  /\ call[c].step = "SCAN" /\ object[a] # "NONE"
      /\ \/ object[a] # "INFECTED" /\ At(c, "CLEAN") /\ UNCHANGED object
         \/ object[a] = "INFECTED" /\ At(c, "REJECT") /\ object' \in {object, [object EXCEPT ![a] = "NONE"]}
      /\ UNCHANGED <<asset, overdue>>

CompleteDecides(c) ==
  LET k == call[c]
  IN  /\ k.step \in {"CLEAN", "REJECT"}
      /\ Update(k.asset, k.seen, IF k.step = "CLEAN" THEN "READY" ELSE "REJECTED")
      /\ Finish(c) /\ UNCHANGED <<object, overdue>>

Remove(c) ==
  /\ call[c].step = "REMOVE"
  /\ object' = [object EXCEPT ![call[c].asset] = "NONE"]
  /\ Finish(c) /\ UNCHANGED <<asset, overdue>>

\* Delete: the object first, then the asset.
Delete(c, a) == Begin(c, a, "DELETE")

DeleteObject(c) ==
  /\ call[c].step = "DELETE"
  /\ object' = [object EXCEPT ![call[c].asset] = "NONE"]
  /\ At(c, "DELETED") /\ UNCHANGED <<asset, overdue>>

DeleteAsset(c) ==
  LET k == call[c]
  IN  /\ k.step = "DELETED" /\ Update(k.asset, k.seen, "DELETED")
      /\ Finish(c) /\ UNCHANGED <<object, overdue>>

\* The store or the scanner does not answer, or the process dies.
CallFails(c) ==
  /\ call[c] # NoCall /\ Finish(c)
  /\ UNCHANGED <<asset, object, overdue>>

Next ==
  \/ \E a \in Assets :
       \/ Presign(a) \/ UploadExpires(a)
       \/ \E content \in Uploads : Upload(a, content)
       \/ \E c \in Calls : Complete(c, a) \/ Delete(c, a)
  \/ \E c \in Calls :
       \/ CompleteExpires(c) \/ Inspect(c) \/ Resume(c) \/ Scan(c) \/ CompleteDecides(c)
       \/ Remove(c) \/ DeleteObject(c) \/ DeleteAsset(c) \/ CallFails(c)

Spec == Init /\ [][Next]_vars

-----------------------------------------------------------------------------
\* However completions and deletions overlap, an asset that is decided can only be
\* deleted, and what is deleted stays so: a late answer of the scanner does not
\* bring it back.
DecidedStays ==
  [][\A a \in Assets :
       /\ asset[a].state \in {"READY", "REJECTED", "EXPIRED"} =>
            asset'[a].state \in {asset[a].state, "DELETED"}
       /\ asset[a].state = "DELETED" => asset'[a].state = "DELETED"]_vars

\* Does not hold.  What is ready is in the store: a deletion removes the object and
\* then loses the update to a completion.
ReadyHasObject == \A a \in Assets : asset[a].state = "READY" => object[a] = "GOOD"
=============================================================================
