------------------------------- MODULE Social -------------------------------
(***************************************************************************)
(* The social graph and its posts (internal/social, PostgresService):      *)
(* follows and blocks with counters on the profiles, posts with counters   *)
(* of likes, shares and comments, reports and their moderation.            *)
(*                                                                         *)
(* Commands run in READ COMMITTED transactions.  One that locks the row it *)
(* reads is one step.  Follow looks for a block and inserts its row with   *)
(* nothing locked, so it is two steps and a block may come in between.     *)
(* Every person has a profile (ensureProfile); whether it is private never *)
(* changes.  A caller of a post's engagement whose revision is stale is    *)
(* refused, so the step is taken by one who saw the last revision.         *)
(***************************************************************************)
EXTENDS Naturals, Sequences, FiniteSets

CONSTANTS
  People, Private,     \* those with a private profile
  Posts, AuthorOf,
  Channels,            \* what a post can be shared on
  MaxRevision          \* bound on the revisions of a post

VARIABLES
  follow,      \* social.follows: status by follower and followed
  control,     \* social.relationship_controls: by actor and target
  profile,     \* social.profiles: the two counters
  looked,      \* whom a request to follow has found unblocked, before it inserts
  post,        \* social.posts: status, revision and counters
  engaged,     \* social.post_engagement and social.post_shares
  comment,     \* social.comments: the depths of the comments of a post
  report,      \* social.reports: status by post and reporter
  queued       \* social.reward_events: references

vars == <<follow, control, profile, looked, post, engaged, comment, report, queued>>

None == "NONE"
Pairs == {q \in People \X People : q[1] # q[2]}
NoPost == [status |-> None, revision |-> 0, likes |-> 0, shares |-> 0, comments |-> 0]

Init ==
  /\ follow = [q \in Pairs |-> None] /\ control = [q \in Pairs |-> None]
  /\ profile = [a \in People |-> [followers |-> 0, following |-> 0]] /\ looked = [a \in People |-> None]
  /\ post = [p \in Posts |-> NoPost] /\ engaged = {} /\ comment = [p \in Posts |-> <<>>]
  /\ report = [r \in Posts \X People |-> None] /\ queued = {}

----------------------------------------------------------------------------
(* The graph.                                                              *)

Blocked(a, b) == a # b /\ (control[<<a, b>>] = "BLOCK" \/ control[<<b, a>>] = "BLOCK")

\* Counts one more follow at both of its ends.
updateFollowCounts(q) == profile' = [profile EXCEPT ![q[1]].following = @ + 1, ![q[2]].followers = @ + 1]

\* At most one event per reference; none while the policy, which staff may change
\* at any time, gives no points.
queueSocialReward(reference) == queued' \in {queued, queued \cup {reference}}

FollowLooks(a, b) ==
  /\ a # b /\ looked[a] = None /\ ~Blocked(a, b)
  /\ looked' = [looked EXCEPT ![a] = b]
  /\ UNCHANGED <<follow, control, profile, post, engaged, comment, report, queued>>

\* If the row is there by now, it is returned or the insert fails on its key.
Follow(a) ==
  LET b == looked[a]  q == <<a, b>>
  IN  /\ b # None /\ looked' = [looked EXCEPT ![a] = None]
      /\ \/ /\ follow[q] # None
            /\ UNCHANGED <<follow, profile, queued>>
         \/ /\ follow[q] = None /\ b \in Private
            /\ follow' = [follow EXCEPT ![q] = "PENDING"]
            /\ UNCHANGED <<profile, queued>>
         \/ /\ follow[q] = None /\ b \notin Private
            /\ follow' = [follow EXCEPT ![q] = "ACCEPTED"]
            /\ updateFollowCounts(q)
            /\ queueSocialReward(<<"social-follow", b, a>>)
      /\ UNCHANGED <<control, post, engaged, comment, report>>

AcceptFollow(b, a) ==
  /\ a # b /\ follow[<<a, b>>] = "PENDING" /\ ~Blocked(a, b)
  /\ follow' = [follow EXCEPT ![<<a, b>>] = "ACCEPTED"]
  /\ updateFollowCounts(<<a, b>>)
  /\ queueSocialReward(<<"social-follow", b, a>>)
  /\ UNCHANGED <<control, looked, post, engaged, comment, report>>

\* Mutant: a block deletes accepted follows too and leaves the counters.
SetRelationshipForgets(a, b, action) ==
  /\ a # b /\ control[<<b, a>>] # "BLOCK"
  /\ control' = [control EXCEPT ![<<a, b>>] = action]
  /\ follow' = [q \in Pairs |-> IF action = "BLOCK" /\ q \in {<<a, b>>, <<b, a>>} THEN None ELSE follow[q]]
  /\ UNCHANGED <<profile, looked, post, engaged, comment, report, queued>>

\* A profile that blocks the actor is not found.  A block deletes the requests of
\* both directions.  If one of them was accepted it fails as a whole and changes
\* nothing: the counters would be updated on a connection whose rows are still open.
SetRelationship(a, b, action) ==
  LET cut == IF action = "BLOCK" THEN {<<a, b>>, <<b, a>>} ELSE {}
  IN  /\ a # b /\ control[<<b, a>>] # "BLOCK" /\ \A q \in cut : follow[q] # "ACCEPTED"
      /\ control' = [control EXCEPT ![<<a, b>>] = action]
      /\ follow' = [q \in Pairs |-> IF q \in cut THEN None ELSE follow[q]]
      /\ UNCHANGED <<profile, looked, post, engaged, comment, report, queued>>

----------------------------------------------------------------------------
(* Posts.                                                                  *)

\* socialVisibleClause
loadSocialPost(a, p) ==
  LET b == AuthorOf[p]
  IN  /\ post[p].status = "PUBLISHED" \/ (a = b /\ post[p].status # None)
      /\ a # b => /\ ~Blocked(a, b) /\ control[<<a, b>>] # "MUTE"
                  /\ b \in Private => follow[<<a, b>>] = "ACCEPTED"

\* A body with a term of the policy waits for a review.
CreatePost(p, status) ==
  /\ post[p] = NoPost /\ status \in {"PUBLISHED", "PENDING_REVIEW"}
  /\ post' = [post EXCEPT ![p].status = status, ![p].revision = 1]
  /\ UNCHANGED <<follow, control, profile, looked, engaged, comment, report, queued>>

\* Mutant: the counter moves whether or not the row did.
setPostEngagementBlind(a, p, kind, active) ==
  LET row == <<kind, p, a>>
  IN  /\ post[p].status = "PUBLISHED" /\ loadSocialPost(a, p) /\ post[p].revision < MaxRevision
      /\ active \/ post[p].likes > 0
      /\ engaged' = IF active THEN engaged \cup {row} ELSE engaged \ {row}
      /\ post' = [post EXCEPT ![p].revision = @ + 1,
                              ![p].likes = IF kind = "LIKE" THEN (IF active THEN @ + 1 ELSE @ - 1) ELSE @]
      /\ IF kind = "LIKE" /\ active THEN queueSocialReward(<<"social-like", p, a>>) ELSE UNCHANGED queued
      /\ UNCHANGED <<follow, control, profile, looked, comment, report>>

\* A like or a save, set or taken back; the counter moves only with the row.
setPostEngagement(a, p, kind, active) ==
  LET row == <<kind, p, a>>
  IN  /\ post[p].status = "PUBLISHED" /\ loadSocialPost(a, p) /\ post[p].revision < MaxRevision
      /\ active # (row \in engaged)
      /\ engaged' = IF active THEN engaged \cup {row} ELSE engaged \ {row}
      /\ post' = [post EXCEPT ![p].revision = @ + 1,
                              ![p].likes = IF kind = "LIKE" THEN (IF active THEN @ + 1 ELSE @ - 1) ELSE @]
      /\ IF kind = "LIKE" /\ active THEN queueSocialReward(<<"social-like", p, a>>) ELSE UNCHANGED queued
      /\ UNCHANGED <<follow, control, profile, looked, comment, report>>

SetLike(a, p, active) == setPostEngagement(a, p, "LIKE", active)
SetSave(a, p, active) == setPostEngagement(a, p, "SAVE", active)

\* Once per person and channel.
SharePost(a, p, channel) ==
  LET row == <<"SHARE", p, a, channel>>
  IN  /\ post[p].status = "PUBLISHED" /\ loadSocialPost(a, p) /\ post[p].revision < MaxRevision
      /\ row \notin engaged
      /\ engaged' = engaged \cup {row}
      /\ post' = [post EXCEPT ![p].revision = @ + 1, ![p].shares = @ + 1]
      /\ queueSocialReward(<<"social-share", p, a, channel>>)
      /\ UNCHANGED <<follow, control, profile, looked, comment, report>>

\* On the post, or on a comment of depth 0 or 1.
CreateComment(a, p, depth) ==
  /\ loadSocialPost(a, p) /\ post[p].revision < MaxRevision
  /\ depth = 0 \/ \E i \in DOMAIN comment[p] : comment[p][i] < 2 /\ depth = comment[p][i] + 1
  /\ comment' = [comment EXCEPT ![p] = Append(@, depth)]
  /\ post' = [post EXCEPT ![p].revision = @ + 1, ![p].comments = @ + 1]
  /\ UNCHANGED <<follow, control, profile, looked, engaged, report, queued>>

\* Once per person and post.
ReportPost(a, p) ==
  /\ loadSocialPost(a, p) /\ a # AuthorOf[p] /\ report[<<p, a>>] = None
  /\ report' = [report EXCEPT ![<<p, a>>] = "OPEN"]
  /\ UNCHANGED <<follow, control, profile, looked, post, engaged, comment, queued>>

Moderate(p, a, decision) ==
  /\ report[<<p, a>>] = "OPEN" /\ post[p].revision <= MaxRevision
  /\ report' = [report EXCEPT ![<<p, a>>] = decision]
  /\ post' = IF decision = "REMOVE" THEN [post EXCEPT ![p].status = "REMOVED", ![p].revision = @ + 1] ELSE post
  /\ UNCHANGED <<follow, control, profile, looked, engaged, comment, queued>>

Next ==
  \/ \E a \in People : Follow(a)
  \/ \E a, b \in People :
       \/ FollowLooks(a, b) \/ AcceptFollow(a, b)
       \/ \E action \in {None, "MUTE", "BLOCK"} : SetRelationship(a, b, action)
  \/ \E p \in Posts, status \in {"PUBLISHED", "PENDING_REVIEW"} : CreatePost(p, status)
  \/ \E a \in People, p \in Posts :
       \/ \E active \in BOOLEAN : SetLike(a, p, active) \/ SetSave(a, p, active)
       \/ \E channel \in Channels : SharePost(a, p, channel)
       \/ \E depth \in 0..2 : CreateComment(a, p, depth)
       \/ ReportPost(a, p) \/ \E decision \in {"REMOVE", "DISMISS"} : Moderate(p, a, decision)

Spec == Init /\ [][Next]_vars

----------------------------------------------------------------------------

\* Every counter that is kept beside its rows agrees with them, whatever follows,
\* blocks, likes and shares were interleaved; and a reward is queued for a follow
\* that stands and a share that was made, never for a request that a block cut off.
CountsAgree ==
  /\ \A a \in People :
       /\ profile[a].followers = Cardinality({q \in Pairs : q[2] = a /\ follow[q] = "ACCEPTED"})
       /\ profile[a].following = Cardinality({q \in Pairs : q[1] = a /\ follow[q] = "ACCEPTED"})
  /\ \A q \in Pairs : <<"social-follow", q[2], q[1]>> \in queued => follow[q] = "ACCEPTED"
  /\ \A p \in Posts :
       /\ post[p].likes = Cardinality({a \in People : <<"LIKE", p, a>> \in engaged})
       /\ post[p].shares = Cardinality({s \in People \X Channels : <<"SHARE", p, s[1], s[2]>> \in engaged})
       /\ post[p].comments = Len(comment[p])
       /\ \A s \in People \X Channels : <<"social-share", p, s[1], s[2]>> \in queued => <<"SHARE", p, s[1], s[2]>> \in engaged

\* A block severs the follows between the two.  It does not hold: a request that
\* looked before the block inserts its row after it, and an accepted follow makes
\* every block fail.
BlockSevers == \A q \in Pairs : Blocked(q[1], q[2]) => follow[q] = None

\* A post that waits for a review gets one.  It does not hold: only a report
\* opens a decision, and nobody but the author sees a waiting post.
PendingIsReviewed == \A p \in Posts : post[p].status = "PENDING_REVIEW" ~> post[p].status # "PENDING_REVIEW"
=============================================================================
