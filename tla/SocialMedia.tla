----------------------------- MODULE SocialMedia -----------------------------
(***************************************************************************)
(* Media of the social service and the stories and reels made of them      *)
(* (internal/social, postgres_engagement.go): media are quarantined until  *)
(* a moderator clears them, a rejection can be appealed to another         *)
(* moderator, content expires unless it is highlighted, and the purge      *)
(* buries expired content with its media.  Also the owner's collections    *)
(* of posts.                                                               *)
(*                                                                         *)
(* Commands lock the row they change.  CreateEphemeral reads the media job *)
(* without a lock, so it is two steps.                                     *)
(***************************************************************************)
EXTENDS Naturals, FiniteSets

CONSTANTS Media, Moderators, Contents, Posts

VARIABLES
  media,       \* social.media_jobs: state, who moderated it, the appeal
  content,     \* social.ephemeral_content, with whether expires_at has passed
  chosen,      \* the ready media job that a request has read, before it inserts
  decided,     \* by whom the appeal of a media job was granted
  collection   \* a row of social.collections and its social.collection_posts

vars == <<media, content, chosen, decided, collection>>

None == "NONE"
NoMedia == [state |-> None, moderatedBy |-> None, appeal |-> None]
NoContent == [status |-> None, media |-> None, highlighted |-> FALSE, expired |-> FALSE]

Init ==
  /\ media = [m \in Media |-> NoMedia] /\ content = [c \in Contents |-> NoContent]
  /\ chosen = [c \in Contents |-> None] /\ decided = [m \in Media |-> None] /\ collection = [made |-> FALSE, posts |-> {}]

CreateMedia(m) ==
  /\ media[m] = NoMedia
  /\ media' = [media EXCEPT ![m].state = "QUARANTINED"]
  /\ UNCHANGED <<content, chosen, decided, collection>>

ProcessMedia(p, m, clean) ==
  /\ media[m].state = "QUARANTINED"
  /\ media' = [media EXCEPT ![m].state = IF clean THEN "READY" ELSE "REJECTED", ![m].moderatedBy = p]
  /\ UNCHANGED <<content, chosen, decided, collection>>

\* Once, by the owner.
AppealMedia(m) ==
  /\ media[m].state = "REJECTED" /\ media[m].appeal = None
  /\ media' = [media EXCEPT ![m].appeal = "PENDING"]
  /\ UNCHANGED <<content, chosen, decided, collection>>

\* Mutant: any moderator decides.
DecideMediaAppealAny(p, m, approve) ==
  /\ media[m].appeal = "PENDING"
  /\ media' = [media EXCEPT ![m].appeal = IF approve THEN "APPROVED" ELSE "REJECTED", ![m].state = IF approve THEN "READY" ELSE @]
  /\ decided' = [decided EXCEPT ![m] = IF approve THEN p ELSE @]
  /\ UNCHANGED <<content, chosen, collection>>

\* By another moderator than the one who rejected it.
DecideMediaAppeal(p, m, approve) ==
  /\ media[m].appeal = "PENDING" /\ media[m].moderatedBy # p
  /\ media' = [media EXCEPT ![m].appeal = IF approve THEN "APPROVED" ELSE "REJECTED", ![m].state = IF approve THEN "READY" ELSE @]
  /\ decided' = [decided EXCEPT ![m] = IF approve THEN p ELSE @]
  /\ UNCHANGED <<content, chosen, collection>>

CreateEphemeralReads(c, m) ==
  /\ content[c] = NoContent /\ chosen[c] = None /\ media[m].state = "READY"
  /\ chosen' = [chosen EXCEPT ![c] = m]
  /\ UNCHANGED <<media, content, decided, collection>>

CreateEphemeral(c) ==
  /\ chosen[c] # None
  /\ content' = [content EXCEPT ![c] = [NoContent EXCEPT !.status = "PUBLISHED", !.media = chosen[c]]]
  /\ chosen' = [chosen EXCEPT ![c] = None]
  /\ UNCHANGED <<media, decided, collection>>

\* A reader of the stories marks the expired ones first.
Ephemeral ==
  LET old == {c \in Contents : content[c].status = "PUBLISHED" /\ ~content[c].highlighted /\ content[c].expired}
  IN  /\ old # {}
      /\ content' = [c \in Contents |-> IF c \in old THEN [content[c] EXCEPT !.status = "EXPIRED"] ELSE content[c]]
      /\ UNCHANGED <<media, chosen, decided, collection>>

\* Also of content whose time has passed, as long as nobody has marked it.
SetHighlight(c, active) ==
  /\ content[c].status = "PUBLISHED" /\ content[c].highlighted # active
  /\ content' = [content EXCEPT ![c].highlighted = active]
  /\ UNCHANGED <<media, chosen, decided, collection>>

\* Content is buried with its media, whatever else is made of the same media.
PurgeExpired ==
  LET old == {c \in Contents : /\ content[c].status \in {"PUBLISHED", "EXPIRED"}
                               /\ ~content[c].highlighted /\ content[c].expired}
      with == {content[c].media : c \in old}
  IN  /\ old # {}
      /\ content' = [c \in Contents |-> IF c \in old THEN [content[c] EXCEPT !.status = "TOMBSTONED"] ELSE content[c]]
      /\ media' = [m \in Media |-> IF m \in with THEN [media[m] EXCEPT !.state = "TOMBSTONED"] ELSE media[m]]
      /\ UNCHANGED <<chosen, decided, collection>>

ContentExpires(c) ==
  /\ content[c] # NoContent /\ ~content[c].expired
  /\ content' = [content EXCEPT ![c].expired = TRUE]
  /\ UNCHANGED <<media, chosen, decided, collection>>

CreateCollection ==
  /\ ~collection.made /\ collection' = [collection EXCEPT !.made = TRUE]
  /\ UNCHANGED <<media, content, chosen, decided>>

\* Of a post that the owner can see.
SetCollectionPost(p, active) ==
  /\ collection.made /\ active # (p \in collection.posts)
  /\ collection' = [collection EXCEPT !.posts = IF active THEN @ \cup {p} ELSE @ \ {p}]
  /\ UNCHANGED <<media, content, chosen, decided>>

Next ==
  \/ \E m \in Media :
       \/ CreateMedia(m) \/ AppealMedia(m)
       \/ \E p \in Moderators, yes \in BOOLEAN : ProcessMedia(p, m, yes) \/ DecideMediaAppeal(p, m, yes)
  \/ \E c \in Contents :
       \/ CreateEphemeral(c) \/ ContentExpires(c) \/ \E active \in BOOLEAN : SetHighlight(c, active)
       \/ \E m \in Media : CreateEphemeralReads(c, m)
  \/ Ephemeral \/ PurgeExpired
  \/ CreateCollection \/ \E p \in Posts, active \in BOOLEAN : SetCollectionPost(p, active)

Spec == Init /\ [][Next]_vars

----------------------------------------------------------------------------

\* "manual four-eyes moderation": what is published was cleared by a moderator,
\* and if its media had been rejected, by one who is not the one who rejected it;
\* media that were rejected for good, or still wait, are in no story or reel.
PublishedIsCleared ==
  \A c \in Contents : content[c] # NoContent =>
    LET m == media[content[c].media]
    IN  /\ m.state \in {"READY", "TOMBSTONED"} /\ m.moderatedBy # None
        /\ m.appeal # None => m.appeal = "APPROVED" /\ decided[content[c].media] \notin {None, m.moderatedBy}

\* Content that is shown has its media.  It does not hold: one story of a media
\* job expires and is purged, and the highlight made of the same job loses it.
ShownHasMedia ==
  \A c \in Contents : content[c].status = "PUBLISHED" /\ (content[c].highlighted \/ ~content[c].expired) =>
    media[content[c].media].state = "READY"
=============================================================================
