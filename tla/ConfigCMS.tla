----------------------------- MODULE ConfigCMS -----------------------------
(***************************************************************************)
(* Configuration and pages of a country (internal/configcms).              *)
(*                                                                         *)
(* Administrators save drafts of the workspace and of pages, each at the   *)
(* revision they saw.  An approved change publishes a draft: it names the  *)
(* revision of the draft and of the snapshot it replaces, reads both, and  *)
(* writes the snapshot with its history in one transaction.  Clients are   *)
(* served by another process, from a cache that is read, filled and        *)
(* expires on its own: the publisher invalidates the cache of its own      *)
(* process only, which no client reads.                                    *)
(***************************************************************************)
EXTENDS Naturals, Sequences

CONSTANTS
  Pages,             \* page ids
  Contents,          \* what a draft may say
  Calls,             \* publications being served at a time
  Readers,           \* client requests being served at a time
  MaxRevision        \* bound on revisions of drafts and of the snapshot

VARIABLES
  draft,       \* page_drafts and workspace_drafts: revision and content
  saved,       \* the contents a draft has had, in order
  snapshot,    \* snapshots: revision, and the content of every part
  history,     \* publish_history: which part, at which draft revision
  call,        \* publications: what they name and what they have read
  cache,       \* CachedRepository of the configuration service
  reader       \* its Get calls that missed the cache: the snapshot they read

vars == <<draft, saved, snapshot, history, call, cache, reader>>
cms == <<draft, saved, snapshot, history, call>>
serving == <<cache, reader>>

Workspace == "workspace"
Parts == Pages \union {Workspace}
Nothing == "NONE"
NoSnapshot == [revision |-> 0, document |-> [p \in Parts |-> Nothing]]
NoCall == [part |-> Nothing, expected |-> 0, from |-> 0, next |-> NoSnapshot, step |-> "IDLE"]

Init ==
  /\ draft = [p \in Parts |-> [revision |-> 0, content |-> Nothing]]
  /\ saved = [p \in Parts |-> <<>>]
  /\ snapshot = NoSnapshot /\ history = <<>>
  /\ call = [k \in Calls |-> NoCall]
  /\ cache = [state |-> "EMPTY", snapshot |-> NoSnapshot]
  /\ reader = [g \in Readers |-> NoSnapshot]

\* SavePageDraft and SaveWorkspaceDraft: the first revision inserts, any other
\* replaces the revision it expects.
Save(p, content, expected) ==
  /\ expected = draft[p].revision /\ expected < MaxRevision
  /\ draft' = [draft EXCEPT ![p] = [revision |-> expected + 1, content |-> content]]
  /\ saved' = [saved EXCEPT ![p] = Append(@, content)]
  /\ UNCHANGED <<snapshot, history, call, serving>>

-----------------------------------------------------------------------------
(* Publication.                                                            *)

\* PublishWorkspace and PublishPage, up to the publication: read the draft, then
\* the snapshot.  A page needs a snapshot to go into.
PublishReads(k, p, expected, from) ==
  /\ call[k] = NoCall
  /\ expected = draft[p].revision /\ expected >= 1
  /\ p \in Pages => from >= 1
  /\ snapshot.revision = from /\ from < MaxRevision
  /\ call' = [call EXCEPT ![k] =
       [part |-> p, expected |-> expected, from |-> from, step |-> "READ",
        next |-> [revision |-> from + 1, document |-> [snapshot.document EXCEPT ![p] = draft[p].content]]]]
  /\ UNCHANGED <<draft, saved, snapshot, history, serving>>

\* Mutant: the snapshot's revision is not looked at again.
PublishWithAuditUnseen(k) ==
  /\ call[k].step = "READ"
  /\ snapshot' = call[k].next
  /\ history' = Append(history, [part |-> call[k].part, draft |-> call[k].expected])
  /\ call' = [call EXCEPT ![k].step = "DONE"]
  /\ UNCHANGED <<draft, saved, serving>>

PublishWithAudit(k) ==
  /\ call[k].step = "READ" /\ snapshot.revision = call[k].from
  /\ snapshot' = call[k].next
  /\ history' = Append(history, [part |-> call[k].part, draft |-> call[k].expected])
  /\ call' = [call EXCEPT ![k].step = "DONE"]
  /\ UNCHANGED <<draft, saved, serving>>

\* The execution of the change is over, dies or is refused; it may be repeated.
PublishEnds(k) ==
  /\ call[k] # NoCall /\ call' = [call EXCEPT ![k] = NoCall]
  /\ UNCHANGED <<draft, saved, snapshot, history, serving>>

-----------------------------------------------------------------------------
(* Serving Bootstrap and Page from the cache.                              *)

\* Mutant: an expired entry is still served.
HitExpired == cache.state # "EMPTY"

Hit == cache.state = "LIVE"

\* Get misses the cache and reads the source.
GetReads(g) ==
  /\ ~Hit /\ reader[g] = NoSnapshot /\ snapshot.revision > 0
  /\ reader' = [reader EXCEPT ![g] = snapshot]
  /\ UNCHANGED <<cms, cache>>

\* It fills the cache, whatever has been put there meanwhile.
GetStores(g) ==
  /\ reader[g] # NoSnapshot
  /\ cache' = [state |-> "LIVE", snapshot |-> reader[g]]
  /\ reader' = [reader EXCEPT ![g] = NoSnapshot]
  /\ UNCHANGED cms

CacheExpires ==
  /\ cache.state = "LIVE" /\ cache' = [cache EXCEPT !.state = "EXPIRED"]
  /\ UNCHANGED <<cms, reader>>

Next ==
  \/ \E p \in Parts, c \in Contents, r \in 0..MaxRevision : Save(p, c, r)
  \/ \E k \in Calls :
       \/ \E p \in Parts, r \in 1..MaxRevision, f \in 0..MaxRevision : PublishReads(k, p, r, f)
       \/ PublishWithAudit(k) \/ PublishEnds(k)
  \/ \E g \in Readers : GetReads(g) \/ GetStores(g)
  \/ CacheExpires

Spec == Init /\ [][Next]_vars

\* The TTL of an entry passes, and a read of the database ends.
Fairness ==
  /\ WF_vars(CacheExpires)
  /\ \A g \in Readers : WF_vars(GetStores(g))

-----------------------------------------------------------------------------
\* The publications of a part, by their places in the history.
Published(p) == {i \in DOMAIN history : history[i].part = p}

\* No publication is lost and none publishes what was not approved: every part of
\* the snapshot says what its last publication in the history published, the
\* draft at the revision the change named, and the revision counts the history.
PublishedAsApproved ==
  /\ snapshot.revision = Len(history)
  /\ \A p \in Parts :
       /\ Published(p) = {} => snapshot.document[p] = Nothing
       /\ \A i \in Published(p) :
            (\A j \in Published(p) : j <= i) => snapshot.document[p] = saved[p][history[i].draft]

\* Whatever was read from the database before a publication and cached after it,
\* the cache ends up with what is published (the publications are bounded here,
\* so they end).
StaleEnds == <>[](Hit => cache.snapshot = snapshot)

\* Does not hold.  The cache never goes back: a slow read stores an older snapshot
\* over a newer one.
CacheNeverGoesBack ==
  [][cache'.snapshot.revision >= cache.snapshot.revision]_vars
=============================================================================
