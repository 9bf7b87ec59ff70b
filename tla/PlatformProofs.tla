--------------------------- MODULE PlatformProofs ---------------------------
(****************************************************************************)
(* Proofs about the platform components, for any number of people, posts,   *)
(* events, devices, processes and web sessions: the counters of the social  *)
(* graph are the numbers of its rows, an event takes effect after those     *)
(* before it, a device is notified once unless a failure excuses it, and    *)
(* the sessions of a browser neither spend a token twice nor lose a login.  *)
(****************************************************************************)
EXTENDS MCPlatform, Integers, Sequences, FiniteSetTheorems, WellFoundedInduction, TLAPS

----------------------------------------------------------------------------
(* The social graph (internal/social).  The invariant adds that whom a     *)
(* request has looked up is another person, and that counters stay numbers.*)

Links == Society!Pairs
Accepted(f, i, a) == {q \in Links : q[i] = a /\ f[q] = "ACCEPTED"}
Count(f, i, a) == Cardinality(Accepted(f, i, a))
Ends(P, i, a) == Cardinality({q \in P : q[i] = a})
Likers(rows, p) == {a \in Members : <<"LIKE", p, a>> \in rows}
Sharers(rows, p) == {s \in Members \X Channels : <<"SHARE", p, s[1], s[2]>> \in rows}
PostRow == [status : {"NONE", "PUBLISHED", "PENDING_REVIEW", "REMOVED"}, revision : Nat, likes : Nat, shares : Nat, comments : Nat]
Counters == [followers : Nat, following : Nat]

SocialTypes ==
  /\ socialFollow \in [Links -> {"NONE", "PENDING", "ACCEPTED"}]
  /\ socialProfile \in [Members -> Counters]
  /\ socialLooked \in [Members -> Members \cup {"NONE"}] /\ \A a \in Members : socialLooked[a] # a
  /\ socialPost \in [Updates -> PostRow] /\ socialComment \in [Updates -> Society!Seq(0..2)]
GraphCounted ==
  \A a \in Members : /\ socialProfile[a].followers = Count(socialFollow, 2, a)
                     /\ socialProfile[a].following = Count(socialFollow, 1, a)
PostCounted(p) ==
  /\ socialPost[p].likes = Cardinality(Likers(socialEngaged, p))
  /\ socialPost[p].shares = Cardinality(Sharers(socialEngaged, p))
  /\ socialPost[p].comments = Society!Len(socialComment[p])
FollowsRewarded == \A q \in Links : <<"social-follow", q[2], q[1]>> \in socialQueued => socialFollow[q] = "ACCEPTED"
SharesRewarded ==
  \A p \in Updates, s \in Members \X Channels :
    <<"social-share", p, s[1], s[2]>> \in socialQueued => <<"SHARE", p, s[1], s[2]>> \in socialEngaged

SocialInv == SocialTypes /\ GraphCounted /\ FollowsRewarded /\ SharesRewarded /\ \A p \in Updates : PostCounted(p)

\* The instance's cardinality is the one the library's theorems are about.
LEMMA SocialCardinality == \A S : Society!Cardinality(S) = Cardinality(S)
BY DEF Society!Cardinality, Cardinality, Society!IsFiniteSet, IsFiniteSet

LEMMA Finite ==
  /\ IsFiniteSet(Members) /\ IsFiniteSet(Links)
  /\ \A f, i, a : IsFiniteSet(Accepted(f, i, a)) /\ Cardinality(Accepted(f, i, a)) \in Nat
  /\ \A r, p : IsFiniteSet(Likers(r, p)) /\ Cardinality(Likers(r, p)) \in Nat
  /\ \A r, p : IsFiniteSet(Sharers(r, p)) /\ Cardinality(Sharers(r, p)) \in Nat
<1>1. IsFiniteSet(Members) /\ IsFiniteSet(Channels)
  BY PlatformAssumption
<1>2. IsFiniteSet(Members \X Members) /\ IsFiniteSet(Members \X Channels)
  BY <1>1, FS_Product
<1>3. IsFiniteSet(Links)
  <2>1. Links \subseteq Members \X Members
    BY DEF Links, Society!Pairs
  <2> QED BY <1>2, <2>1, FS_Subset
<1>4. \A f, i, a : Accepted(f, i, a) \subseteq Links
  BY DEF Accepted
<1>5. \A r, p : Likers(r, p) \subseteq Members /\ Sharers(r, p) \subseteq Members \X Channels
  BY DEF Likers, Sharers
<1> QED BY <1>1, <1>2, <1>3, <1>4, <1>5, FS_Subset, FS_CardinalityType

LEMMA SocialImplies == SocialInv => Society!CountsAgree
BY SocialCardinality DEF SocialInv, GraphCounted, FollowsRewarded, SharesRewarded, PostCounted, Society!CountsAgree, Count, Accepted, Likers, Sharers, Links

LEMMA SocialInit == Society!Init => SocialInv
<1> SUFFICES ASSUME Society!Init PROVE SocialInv
  OBVIOUS
<1>1. Society!NoPost \in PostRow /\ Society!NoPost.likes = 0 /\ Society!NoPost.shares = 0 /\ Society!NoPost.comments = 0
  BY DEF Society!NoPost, PostRow, Society!None
<1>2. [followers |-> 0, following |-> 0] \in Counters
  BY DEF Counters
<1>3. <<>> \in Society!Seq(0..2) /\ Society!Len(<<>>) = 0
  OBVIOUS
<1>4. SocialTypes
  BY <1>1, <1>2, <1>3, PlatformAssumption DEF Society!Init, SocialTypes, Links, Society!None
<1>5. GraphCounted
  <2>1. ASSUME NEW a, NEW i PROVE Cardinality(Accepted(socialFollow, i, a)) = 0
    <3>1. Accepted(socialFollow, i, a) = {}
      BY DEF Accepted, Society!Init, Links, Society!None
    <3> QED BY <3>1, FS_EmptySet
  <2> QED BY <2>1 DEF GraphCounted, Count, Society!Init
<1>6. ASSUME NEW p \in Updates PROVE PostCounted(p)
  <2>1. Likers(socialEngaged, p) = {} /\ Sharers(socialEngaged, p) = {} /\ socialEngaged = {}
    BY DEF Likers, Sharers, Society!Init
  <2>2. socialPost[p] = Society!NoPost /\ socialComment[p] = <<>>
    BY DEF Society!Init
  <2> QED BY <1>1, <1>3, <2>1, <2>2, FS_EmptySet DEF PostCounted
<1>7. FollowsRewarded /\ SharesRewarded
  BY DEF Society!Init, FollowsRewarded, SharesRewarded
<1> QED BY <1>4, <1>5, <1>6, <1>7 DEF SocialInv

\* The follows of a set are accepted in g and not in f; nothing else differs.
Joins(f, g, P) ==
  \A q \in Links : IF q \in P THEN f[q] # "ACCEPTED" /\ g[q] = "ACCEPTED" ELSE (g[q] = "ACCEPTED" <=> f[q] = "ACCEPTED")

LEMMA FollowsAdded ==
  ASSUME NEW f, NEW g, NEW P \in SUBSET Links, Joins(f, g, P), NEW i, NEW a
  PROVE  /\ Count(g, i, a) = Count(f, i, a) + Ends(P, i, a)
         /\ Count(g, i, a) \in Nat /\ Count(f, i, a) \in Nat /\ Ends(P, i, a) \in Nat
<1> DEFINE S == {q \in P : q[i] = a}
<1>1. IsFiniteSet(S) /\ IsFiniteSet(Accepted(f, i, a))
  BY Finite, FS_Subset
<1>2. Accepted(g, i, a) = Accepted(f, i, a) \cup S /\ Accepted(f, i, a) \cap S = {}
  BY DEF Accepted, Joins
<1>3. Cardinality({}) = 0
  BY FS_EmptySet
<1>4. Cardinality(Accepted(f, i, a)) \in Nat /\ Cardinality(S) \in Nat
  BY <1>1, FS_CardinalityType
<1>5. Cardinality(Accepted(f, i, a) \cup S) = Cardinality(Accepted(f, i, a)) + Cardinality(S) - Cardinality(Accepted(f, i, a) \cap S)
  BY <1>1, FS_Union
<1>6. Cardinality(Accepted(f, i, a) \cap S) = 0 /\ Cardinality(Accepted(g, i, a)) = Cardinality(Accepted(f, i, a) \cup S)
  BY <1>2, <1>3, Zenon
<1>7. \A x, y, z \in Nat : z = 0 => x + y - z = x + y
  OBVIOUS
<1> QED BY <1>4, <1>5, <1>6, <1>7, Finite DEF Count, Ends

\* A step that takes on a follow and counts it.
LEMMA GraphUp ==
  ASSUME SocialTypes, GraphCounted, NEW q \in Links, Joins(socialFollow, socialFollow', {q}),
         Society!updateFollowCounts(q)
  PROVE  socialProfile' \in [Members -> Counters] /\ GraphCounted'
<1>1. q[1] \in Members /\ q[2] \in Members /\ q[1] # q[2] /\ {q} \in SUBSET Links
  BY DEF Links, Society!Pairs
<1>2. /\ socialProfile' \in [Members -> Counters]
      /\ \A a \in Members : /\ socialProfile'[a].followers = socialProfile[a].followers + (IF q[2] = a THEN 1 ELSE 0)
                            /\ socialProfile'[a].following = socialProfile[a].following + (IF q[1] = a THEN 1 ELSE 0)
  <2> DEFINE x == q[1]
             y == q[2]
             f == [socialProfile EXCEPT ![x].following = @ + 1]
  <2>1. x \in Members /\ y \in Members /\ x # y /\ socialProfile \in [Members -> Counters]
    BY <1>1 DEF SocialTypes
  <2>2. socialProfile' = [f EXCEPT ![y].followers = @ + 1]
    BY DEF Society!updateFollowCounts
  <2> HIDE DEF x, y
  <2>3. f \in [Members -> Counters] /\ \A a \in Members : /\ f[a].followers = socialProfile[a].followers
                                                         /\ f[a].following = socialProfile[a].following + (IF x = a THEN 1 ELSE 0)
    BY <2>1 DEF Counters
  <2> HIDE DEF f
  <2>4. socialProfile' \in [Members -> Counters] /\ \A a \in Members : /\ socialProfile'[a].following = f[a].following
                                                         /\ socialProfile'[a].followers = f[a].followers + (IF y = a THEN 1 ELSE 0)
    BY <2>1, <2>2, <2>3 DEF Counters
  <2> QED BY <2>3, <2>4 DEF x, y
<1>3. ASSUME NEW i, NEW a PROVE Ends({q}, i, a) = IF q[i] = a THEN 1 ELSE 0
  <2>1. {x \in {q} : x[i] = a} = IF q[i] = a THEN {q} ELSE {}
    OBVIOUS
  <2> QED BY <2>1, FS_EmptySet, FS_Singleton DEF Ends
<1>4. ASSUME NEW a \in Members
      PROVE  /\ socialProfile'[a].followers = Count(socialFollow', 2, a)
             /\ socialProfile'[a].following = Count(socialFollow', 1, a)
  <2>1. Count(socialFollow', 1, a) = Count(socialFollow, 1, a) + Ends({q}, 1, a)
    BY <1>1, FollowsAdded
  <2>2. Count(socialFollow', 2, a) = Count(socialFollow, 2, a) + Ends({q}, 2, a)
    BY <1>1, FollowsAdded
  <2>3. Ends({q}, 1, a) = (IF q[1] = a THEN 1 ELSE 0) /\ Ends({q}, 2, a) = (IF q[2] = a THEN 1 ELSE 0)
    BY <1>3
  <2>4. socialProfile[a].followers = Count(socialFollow, 2, a) /\ socialProfile[a].following = Count(socialFollow, 1, a)
    BY DEF GraphCounted
  <2> QED BY <1>2, <2>1, <2>2, <2>3, <2>4, Zenon
<1> QED BY <1>2, <1>4 DEF GraphCounted

\* References of different kinds of rewards, or of different follows, differ.
LEMMA ReferencesApart ==
  /\ \A q, x \in Links : <<"social-follow", q[2], q[1]>> = <<"social-follow", x[2], x[1]>> => q = x
  /\ \A b, a, y, c, d, h : /\ <<"social-share", y, c, h>> # <<"social-follow", b, a>> /\ <<"social-share", y, c, h>> # <<"social-like", b, a>>
                           /\ <<"social-follow", b, a>> # <<"social-like", c, d>>
  /\ \A x, y, a, b, c, d : <<"social-share", x, a, c>> = <<"social-share", y, b, d>> <=> x = y /\ a = b /\ c = d
<1>1. \A q, x \in Links : <<"social-follow", q[2], q[1]>> = <<"social-follow", x[2], x[1]>> => q = x
  <2>1. \A q \in Links : q = <<q[1], q[2]>>
    BY DEF Links, Society!Pairs
  <2> QED BY <2>1
<1>2. \A b, a, y, c, h : <<"social-share", y, c, h>> # <<"social-follow", b, a>> /\ <<"social-share", y, c, h>> # <<"social-like", b, a>>
  <2>1. \A y, c, h : <<"social-share", y, c, h>>[1] = "social-share"
    OBVIOUS
  <2>2. \A b, a : <<"social-follow", b, a>>[1] = "social-follow" /\ <<"social-like", b, a>>[1] = "social-like"
    OBVIOUS
  <2>3. "social-share" # "social-follow" /\ "social-share" # "social-like"
    OBVIOUS
  <2> QED BY <2>1, <2>2, <2>3, Zenon
<1>3. \A b, a, c, d : <<"social-follow", b, a>> # <<"social-like", c, d>>
  OBVIOUS
<1>4. \A x, y, a, b, c, d : <<"social-share", x, a, c>> = <<"social-share", y, b, d>> <=> x = y /\ a = b /\ c = d
  OBVIOUS
<1> QED BY <1>1, <1>2, <1>3, <1>4

\* What is queued is only added to; a step that queues nothing new keeps the rewards.
LEMMA QueueFollow ==
  ASSUME SocialInv, NEW q \in Links, socialFollow'[q] = "ACCEPTED", UNCHANGED socialEngaged,
         \A x \in Links : socialFollow[x] = "ACCEPTED" => socialFollow'[x] = "ACCEPTED",
         Society!queueSocialReward(<<"social-follow", q[2], q[1]>>)
  PROVE  FollowsRewarded' /\ SharesRewarded'
<1>1. FollowsRewarded /\ SharesRewarded
  BY DEF SocialInv
<1>2. \A z : z \in socialQueued' => z \in socialQueued \/ z = <<"social-follow", q[2], q[1]>>
  BY DEF Society!queueSocialReward
<1>3. FollowsRewarded'
  BY <1>1, <1>2, ReferencesApart DEF FollowsRewarded
<1>4. SharesRewarded'
  BY <1>1, <1>2, ReferencesApart DEF SharesRewarded
<1> QED BY <1>3, <1>4

\* Follows, acceptances and blocks leave the posts alone.
LEMMA GraphStep ==
  ASSUME SocialInv, UNCHANGED <<socialPost, socialEngaged, socialComment>>, FollowsRewarded' /\ SharesRewarded',
         socialFollow' \in [Links -> {"NONE", "PENDING", "ACCEPTED"}],
         socialLooked' \in [Members -> Members \cup {"NONE"}], \A a \in Members : socialLooked'[a] # a,
         socialProfile' \in [Members -> Counters] /\ GraphCounted'
  PROVE  SocialInv'
<1>1. SocialTypes'
  BY DEF SocialInv, SocialTypes
<1>2. ASSUME NEW p \in Updates PROVE PostCounted(p)'
  BY DEF SocialInv, PostCounted, Likers, Sharers
<1> QED BY <1>1, <1>2 DEF SocialInv

\* A step that queues nothing and takes back no accepted follow keeps the rewards.
LEMMA QueueUntouched ==
  ASSUME SocialInv, UNCHANGED <<socialEngaged, socialQueued>>,
         \A q \in Links : socialFollow[q] = "ACCEPTED" => socialFollow'[q] = "ACCEPTED"
  PROVE  FollowsRewarded' /\ SharesRewarded'
BY DEF SocialInv, FollowsRewarded, SharesRewarded

LEMMA GraphUntouched ==
  ASSUME SocialInv, UNCHANGED socialProfile, \A q \in Links : socialFollow'[q] = "ACCEPTED" <=> socialFollow[q] = "ACCEPTED"
  PROVE  socialProfile' \in [Members -> Counters] /\ GraphCounted'
<1>1. \A i, a : Count(socialFollow', i, a) = Count(socialFollow, i, a)
  <2>1. \A i, a : Accepted(socialFollow', i, a) = Accepted(socialFollow, i, a)
    BY DEF Accepted
  <2> QED BY <2>1 DEF Count
<1>2. \A a \in Members : /\ socialProfile'[a].followers = Count(socialFollow', 2, a)
                         /\ socialProfile'[a].following = Count(socialFollow', 1, a)
  BY <1>1 DEF SocialInv, GraphCounted
<1> QED BY <1>2 DEF SocialInv, SocialTypes, GraphCounted

LEMMA AcceptKeeps ==
  ASSUME SocialInv, NEW q \in Links, socialFollow[q] # "ACCEPTED",
         socialFollow' = [socialFollow EXCEPT ![q] = "ACCEPTED"], Society!updateFollowCounts(q),
         UNCHANGED <<socialPost, socialEngaged, socialComment>>, Society!queueSocialReward(<<"social-follow", q[2], q[1]>>),
         socialLooked' \in [Members -> Members \cup {"NONE"}], \A x \in Members : socialLooked'[x] # x
  PROVE  SocialInv'
<1>1. SocialTypes /\ GraphCounted
  BY DEF SocialInv
<1>2. socialFollow' \in [Links -> {"NONE", "PENDING", "ACCEPTED"}]
  BY <1>1 DEF SocialTypes
<1>3. Joins(socialFollow, socialFollow', {q})
  BY <1>1 DEF SocialTypes, Joins
<1>4. socialProfile' \in [Members -> Counters] /\ GraphCounted'
  BY <1>1, <1>3, GraphUp
<1>5. socialFollow'[q] = "ACCEPTED" /\ \A x \in Links : socialFollow[x] = "ACCEPTED" => socialFollow'[x] = "ACCEPTED"
  BY <1>1 DEF SocialTypes
<1>6. FollowsRewarded' /\ SharesRewarded'
  BY <1>5, QueueFollow
<1> QED BY <1>2, <1>4, <1>6, GraphStep

LEMMA FollowKeeps ==
  ASSUME SocialInv, NEW a \in Members, Society!Follow(a)
  PROVE  SocialInv'
<1> DEFINE b == socialLooked[a]
           q == <<a, b>>
<1>1. SocialTypes /\ GraphCounted
  BY DEF SocialInv
<1>2. b \in Members /\ a # b /\ q \in Links
  BY <1>1 DEF SocialTypes, Society!Follow, Society!None, Links, Society!Pairs
<1>3. socialLooked' = [socialLooked EXCEPT ![a] = "NONE"] /\ UNCHANGED <<socialPost, socialEngaged, socialComment>>
  BY DEF Society!Follow, Society!None
<1>4. socialLooked' \in [Members -> Members \cup {"NONE"}] /\ \A x \in Members : socialLooked'[x] # x
  BY <1>1, <1>3, PlatformAssumption DEF SocialTypes
<1>5. CASE UNCHANGED <<socialFollow, socialProfile, socialQueued>>
  <2>1. socialProfile' \in [Members -> Counters] /\ GraphCounted'
    BY <1>5, GraphUntouched
  <2>2. FollowsRewarded' /\ SharesRewarded'
    BY <1>3, <1>5, QueueUntouched
  <2> QED BY <1>1, <1>3, <1>4, <1>5, <2>1, <2>2, GraphStep DEF SocialTypes
<1>6. CASE socialFollow[q] = "NONE" /\ socialFollow' = [socialFollow EXCEPT ![q] = "PENDING"] /\ UNCHANGED <<socialProfile, socialQueued>>
  <2>1. socialFollow' \in [Links -> {"NONE", "PENDING", "ACCEPTED"}]
    BY <1>1, <1>6 DEF SocialTypes
  <2>2. \A x \in Links : socialFollow'[x] = "ACCEPTED" <=> socialFollow[x] = "ACCEPTED"
    BY <1>1, <1>2, <1>6 DEF SocialTypes
  <2>3. socialProfile' \in [Members -> Counters] /\ GraphCounted'
    BY <1>6, <2>2, GraphUntouched
  <2>4. FollowsRewarded' /\ SharesRewarded'
    BY <1>3, <1>6, <2>2, QueueUntouched
  <2> QED BY <1>3, <1>4, <2>1, <2>3, <2>4, GraphStep
<1>7. CASE /\ socialFollow[q] = "NONE" /\ socialFollow' = [socialFollow EXCEPT ![q] = "ACCEPTED"] /\ Society!updateFollowCounts(q)
           /\ Society!queueSocialReward(<<"social-follow", b, a>>)
  <2>1. <<"social-follow", b, a>> = <<"social-follow", q[2], q[1]>> /\ socialFollow[q] # "ACCEPTED"
    BY <1>7
  <2>2. Society!queueSocialReward(<<"social-follow", q[2], q[1]>>)
    BY <1>7, <2>1, Zenon
  <2> QED BY <1>2, <1>3, <1>4, <1>7, <2>1, <2>2, AcceptKeeps
<1> QED BY <1>5, <1>6, <1>7 DEF Society!Follow, Society!None

LEMMA AcceptFollowKeeps ==
  ASSUME SocialInv, NEW a \in Members, NEW b \in Members, Society!AcceptFollow(b, a)
  PROVE  SocialInv'
<1> DEFINE q == <<a, b>>
<1>1. q \in Links /\ socialFollow[q] # "ACCEPTED" /\ q[1] = a /\ q[2] = b
  BY DEF Society!AcceptFollow, Links, Society!Pairs
<1>2. socialLooked' \in [Members -> Members \cup {"NONE"}] /\ \A x \in Members : socialLooked'[x] # x
  BY DEF Society!AcceptFollow, SocialInv, SocialTypes
<1>3. /\ socialFollow' = [socialFollow EXCEPT ![q] = "ACCEPTED"] /\ Society!updateFollowCounts(q)
      /\ Society!queueSocialReward(<<"social-follow", b, a>>) /\ UNCHANGED <<socialPost, socialEngaged, socialComment>>
  BY DEF Society!AcceptFollow
<1>4. Society!queueSocialReward(<<"social-follow", q[2], q[1]>>)
  BY <1>1, <1>3, Zenon
<1> QED BY <1>1, <1>2, <1>3, <1>4, AcceptKeeps

LEMMA RelationshipKeeps ==
  ASSUME SocialInv, NEW a \in Members, NEW b \in Members, NEW action, Society!SetRelationship(a, b, action)
  PROVE  SocialInv'
<1> DEFINE cut == IF action = "BLOCK" THEN {<<a, b>>, <<b, a>>} ELSE {}
<1>1. SocialTypes
  BY DEF SocialInv
<1>2. /\ socialFollow' = [q \in Links |-> IF q \in cut THEN "NONE" ELSE socialFollow[q]]
      /\ \A q \in cut : socialFollow[q] # "ACCEPTED"
      /\ UNCHANGED <<socialProfile, socialLooked, socialPost, socialEngaged, socialComment, socialQueued>>
  BY DEF Society!SetRelationship, Society!None, Links
<1>3. socialFollow' \in [Links -> {"NONE", "PENDING", "ACCEPTED"}]
  BY <1>1, <1>2 DEF SocialTypes
<1>4. \A q \in Links : socialFollow'[q] = "ACCEPTED" <=> socialFollow[q] = "ACCEPTED"
  BY <1>1, <1>2 DEF SocialTypes
<1>5. socialProfile' \in [Members -> Counters] /\ GraphCounted'
  BY <1>2, <1>4, GraphUntouched
<1>6. FollowsRewarded' /\ SharesRewarded'
  BY <1>2, <1>4, QueueUntouched
<1> QED BY <1>1, <1>2, <1>3, <1>5, <1>6, GraphStep DEF SocialTypes

----------------------------------------------------------------------------
(* Posts.                                                                  *)

\* One post changes, and its rows with it; the graph stays.
LEMMA PostStep ==
  ASSUME SocialInv, UNCHANGED <<socialFollow, socialProfile, socialLooked>>,
         NEW p \in Updates, NEW r \in PostRow, socialPost' = [socialPost EXCEPT ![p] = r],
         socialComment' \in [Updates -> Society!Seq(0..2)], FollowsRewarded' /\ SharesRewarded', PostCounted(p)',
         \A x \in Updates \ {p} : /\ socialComment'[x] = socialComment[x]
                                  /\ Likers(socialEngaged', x) = Likers(socialEngaged, x)
                                  /\ Sharers(socialEngaged', x) = Sharers(socialEngaged, x)
  PROVE  SocialInv'
<1>1. SocialTypes'
  BY DEF SocialInv, SocialTypes
<1>2. GraphCounted'
  BY DEF SocialInv, GraphCounted
<1>3. ASSUME NEW x \in Updates, x # p PROVE PostCounted(x)'
  <2>1. socialPost'[x] = socialPost[x]
    BY <1>3 DEF SocialInv, SocialTypes
  <2>2. PostCounted(x)
    BY DEF SocialInv
  <2> QED BY <1>3, <2>1, <2>2 DEF PostCounted
<1> QED BY <1>1, <1>2, <1>3 DEF SocialInv

LEMMA PostFields ==
  ASSUME SocialInv, NEW p \in Updates
  PROVE  /\ socialPost[p] \in PostRow /\ socialPost[p].revision \in Nat /\ socialPost[p].likes \in Nat
         /\ socialPost[p].shares \in Nat /\ socialPost[p].comments \in Nat
BY DEF SocialInv, SocialTypes, PostRow

\* Rows of different kinds, posts, people or channels are different.
LEMMA RowsApart ==
  /\ \A x, y, a, b : /\ <<"LIKE", x, a>> = <<"LIKE", y, b>> <=> x = y /\ a = b
                    /\ <<"LIKE", x, a>> # <<"SAVE", y, b>>
  /\ \A x, y, a, b, c : <<"SHARE", x, a, c>> # <<"LIKE", y, b>> /\ <<"SHARE", x, a, c>> # <<"SAVE", y, b>>
  /\ \A x, y, a, b, c, d : <<"SHARE", x, a, c>> = <<"SHARE", y, b, d>> <=> x = y /\ a = b /\ c = d
<1>1. \A x, y, a, b, c : <<"SHARE", x, a, c>> # <<"LIKE", y, b>> /\ <<"SHARE", x, a, c>> # <<"SAVE", y, b>>
  <2>1. \A x, a, c : <<"SHARE", x, a, c>>[1] = "SHARE"
    OBVIOUS
  <2>2. \A y, b : <<"LIKE", y, b>>[1] = "LIKE" /\ <<"SAVE", y, b>>[1] = "SAVE"
    OBVIOUS
  <2>3. "SHARE" # "LIKE" /\ "SHARE" # "SAVE"
    OBVIOUS
  <2> QED BY <2>1, <2>2, <2>3, Zenon
<1> QED BY <1>1

LEMMA EngagementKeeps ==
  ASSUME SocialInv, NEW a \in Members, NEW p \in Updates, NEW kind \in {"LIKE", "SAVE"}, NEW active \in BOOLEAN,
         Society!setPostEngagement(a, p, kind, active)
  PROVE  SocialInv'
<1> DEFINE k == socialPost[p]
           row == <<kind, p, a>>
           likes == IF kind = "LIKE" THEN (IF active THEN k.likes + 1 ELSE k.likes - 1) ELSE k.likes
           r == [[k EXCEPT !.revision = k.revision + 1] EXCEPT !.likes = likes]
<1>1. k \in PostRow /\ k.likes \in Nat /\ k.revision \in Nat /\ DOMAIN socialPost = Updates /\ PostCounted(p)
  BY PostFields DEF SocialInv, SocialTypes
<1>2. /\ (active => row \notin socialEngaged) /\ (~active => row \in socialEngaged)
      /\ socialEngaged' = IF active THEN socialEngaged \cup {row} ELSE socialEngaged \ {row}
      /\ socialPost' = [socialPost EXCEPT ![p].revision = @ + 1,
                          ![p].likes = IF kind = "LIKE" THEN (IF active THEN @ + 1 ELSE @ - 1) ELSE @]
      /\ socialQueued' \in {socialQueued, socialQueued \cup {<<"social-like", p, a>>}}
      /\ UNCHANGED <<socialFollow, socialProfile, socialLooked, socialComment>>
  BY DEF Society!setPostEngagement, Society!queueSocialReward
<1>3. \A x \in Updates : /\ x # p \/ kind = "SAVE" => Likers(socialEngaged', x) = Likers(socialEngaged, x)
                         /\ Sharers(socialEngaged', x) = Sharers(socialEngaged, x)
  <2>1. \A x \in Updates, c \in Members : x # p \/ kind = "SAVE" => <<"LIKE", x, c>> # row
    BY RowsApart
  <2>2. \A x, c, h : <<"SHARE", x, c, h>> # row
    BY RowsApart
  <2>3. \A z : z # row => (z \in socialEngaged' <=> z \in socialEngaged)
    BY <1>2
  <2> QED BY <2>1, <2>2, <2>3 DEF Likers, Sharers
<1>4. likes \in Nat /\ likes = Cardinality(Likers(socialEngaged', p))
  <2>1. k.likes = Cardinality(Likers(socialEngaged, p)) /\ IsFiniteSet(Likers(socialEngaged, p))
    BY <1>1, Finite DEF PostCounted
  <2>2. CASE kind = "SAVE"
    BY <1>1, <1>3, <2>1, <2>2
  <2>3. CASE kind = "LIKE" /\ active
    <3>1. row = <<"LIKE", p, a>> /\ row \notin socialEngaged /\ socialEngaged' = socialEngaged \cup {row} /\ likes = k.likes + 1
      BY <1>2, <2>3
    <3>2. \A c : <<"LIKE", p, c>> = row <=> c = a
      BY <3>1, RowsApart
    <3>3. Likers(socialEngaged', p) = Likers(socialEngaged, p) \cup {a} /\ a \notin Likers(socialEngaged, p)
      BY <3>1, <3>2 DEF Likers
    <3>4. Cardinality(Likers(socialEngaged', p)) = Cardinality(Likers(socialEngaged, p)) + 1
      BY <2>1, <3>3, FS_AddElement
    <3> QED BY <1>1, <2>1, <3>1, <3>4
  <2>4. CASE kind = "LIKE" /\ ~active
    <3>1. Likers(socialEngaged', p) = Likers(socialEngaged, p) \ {a} /\ a \in Likers(socialEngaged, p)
      BY <1>2, <2>4, RowsApart DEF Likers
    <3>2. Cardinality(Likers(socialEngaged', p)) = Cardinality(Likers(socialEngaged, p)) - 1 /\ Cardinality(Likers(socialEngaged', p)) \in Nat
      BY <2>1, <3>1, FS_RemoveElement, Finite
    <3> QED BY <2>1, <2>4, <3>2
  <2> QED BY <2>2, <2>3, <2>4
<1>5. /\ r \in PostRow /\ r.likes = likes /\ r.shares = k.shares /\ r.comments = k.comments
  <2> DEFINE r1 == [k EXCEPT !.revision = k.revision + 1]
  <2>1. r1 \in PostRow /\ r1.likes = k.likes /\ r1.shares = k.shares /\ r1.comments = k.comments
    BY <1>1 DEF PostRow
  <2> HIDE DEF r1, likes
  <2>2. /\ [r1 EXCEPT !.likes = likes] \in PostRow /\ [r1 EXCEPT !.likes = likes].likes = likes
        /\ [r1 EXCEPT !.likes = likes].shares = r1.shares /\ [r1 EXCEPT !.likes = likes].comments = r1.comments
    BY <1>4, <2>1 DEF PostRow
  <2> QED BY <2>1, <2>2 DEF r1
<1>6. socialPost' = [socialPost EXCEPT ![p] = r]
  <2>1. /\ DOMAIN socialPost' = Updates /\ \A x \in Updates \ {p} : socialPost'[x] = socialPost[x]
    BY <1>1, <1>2
  <2>2. socialPost'[p] = r
    BY <1>1, <1>2
  <2>3. socialPost' = [x \in Updates |-> socialPost'[x]]
    BY <1>1, <1>2
  <2> QED BY <1>1, <2>1, <2>2, <2>3
<1>7. socialPost'[p] = r
  BY <1>1, <1>6
<1>8. PostCounted(p)'
  BY <1>1, <1>2, <1>3, <1>4, <1>5, <1>7 DEF PostCounted
<1>9. socialComment' \in [Updates -> Society!Seq(0..2)]
  BY <1>2 DEF SocialInv, SocialTypes
<1>10. FollowsRewarded' /\ SharesRewarded'
  <2>1. FollowsRewarded /\ SharesRewarded
    BY DEF SocialInv
  <2>2. \A z : z \in socialQueued' => z \in socialQueued \/ z = <<"social-like", p, a>>
    BY <1>2
  <2>3. FollowsRewarded'
    BY <1>2, <2>1, <2>2, ReferencesApart DEF FollowsRewarded
  <2>4. \A x, c, h : <<"SHARE", x, c, h>> \in socialEngaged => <<"SHARE", x, c, h>> \in socialEngaged'
    <3>1. \A x, c, h : <<"SHARE", x, c, h>> # row
      BY RowsApart
    <3> QED BY <1>2, <3>1
  <2>5. SharesRewarded'
    BY <2>1, <2>2, <2>4, ReferencesApart DEF SharesRewarded
  <2> QED BY <2>3, <2>5
<1> QED BY <1>2, <1>3, <1>5, <1>6, <1>8, <1>9, <1>10, PostStep

LEMMA ShareKeeps ==
  ASSUME SocialInv, NEW a \in Members, NEW p \in Updates, NEW channel \in Channels, Society!SharePost(a, p, channel)
  PROVE  SocialInv'
<1> DEFINE k == socialPost[p]
           row == <<"SHARE", p, a, channel>>
           r == [[k EXCEPT !.revision = k.revision + 1] EXCEPT !.shares = k.shares + 1]
<1>1. k \in PostRow /\ k.shares \in Nat /\ k.revision \in Nat /\ DOMAIN socialPost = Updates /\ PostCounted(p)
  BY PostFields DEF SocialInv, SocialTypes
<1>2. /\ row \notin socialEngaged /\ socialEngaged' = socialEngaged \cup {row}
      /\ socialPost' = [socialPost EXCEPT ![p].revision = @ + 1, ![p].shares = @ + 1]
      /\ socialQueued' \in {socialQueued, socialQueued \cup {<<"social-share", p, a, channel>>}}
      /\ UNCHANGED <<socialFollow, socialProfile, socialLooked, socialComment>>
  BY DEF Society!SharePost, Society!queueSocialReward
<1>3. /\ \A x \in Updates : Likers(socialEngaged', x) = Likers(socialEngaged, x)
      /\ \A x \in Updates \ {p} : Sharers(socialEngaged', x) = Sharers(socialEngaged, x)
      /\ Sharers(socialEngaged', p) = Sharers(socialEngaged, p) \cup {<<a, channel>>}
      /\ <<a, channel>> \notin Sharers(socialEngaged, p)
  <2>1. \A z : z \in socialEngaged' <=> z \in socialEngaged \/ z = row
    BY <1>2
  <2>2. \A x, c : <<"LIKE", x, c>> # row
    BY RowsApart
  <2>3. \A x, c, h : <<"SHARE", x, c, h>> = row <=> x = p /\ c = a /\ h = channel
    BY RowsApart
  <2>4. \A s \in Members \X Channels : s = <<s[1], s[2]>>
    OBVIOUS
  <2> QED BY <1>2, <2>1, <2>2, <2>3, <2>4 DEF Likers, Sharers
<1>4. k.shares + 1 = Cardinality(Sharers(socialEngaged', p))
  <2>1. k.shares = Cardinality(Sharers(socialEngaged, p)) /\ IsFiniteSet(Sharers(socialEngaged, p))
    BY <1>1, Finite DEF PostCounted
  <2> QED BY <1>3, <2>1, FS_AddElement
<1>5. /\ r \in PostRow /\ r.likes = k.likes /\ r.shares = k.shares + 1 /\ r.comments = k.comments
  <2> DEFINE r1 == [k EXCEPT !.revision = k.revision + 1]
  <2>1. r1 \in PostRow /\ r1.likes = k.likes /\ r1.shares = k.shares /\ r1.comments = k.comments
    BY <1>1 DEF PostRow
  <2> HIDE DEF r1
  <2>2. /\ [r1 EXCEPT !.shares = k.shares + 1] \in PostRow /\ [r1 EXCEPT !.shares = k.shares + 1].shares = k.shares + 1
        /\ [r1 EXCEPT !.shares = k.shares + 1].likes = r1.likes /\ [r1 EXCEPT !.shares = k.shares + 1].comments = r1.comments
    BY <1>1, <2>1 DEF PostRow
  <2> QED BY <2>1, <2>2 DEF r1
<1>6. socialPost' = [socialPost EXCEPT ![p] = r] /\ socialPost'[p] = r
  <2>1. /\ DOMAIN socialPost' = Updates /\ \A x \in Updates \ {p} : socialPost'[x] = socialPost[x]
    BY <1>1, <1>2
  <2>2. socialPost'[p] = r
    BY <1>1, <1>2
  <2>3. socialPost' = [x \in Updates |-> socialPost'[x]]
    BY <1>1, <1>2
  <2> QED BY <1>1, <2>1, <2>2, <2>3
<1>7. PostCounted(p)'
  BY <1>1, <1>2, <1>3, <1>4, <1>5, <1>6 DEF PostCounted
<1>8. socialComment' \in [Updates -> Society!Seq(0..2)]
  BY <1>2 DEF SocialInv, SocialTypes
<1>9. FollowsRewarded' /\ SharesRewarded'
  <2>1. FollowsRewarded /\ SharesRewarded
    BY DEF SocialInv
  <2>2. \A z : z \in socialQueued' => z \in socialQueued \/ z = <<"social-share", p, a, channel>>
    BY <1>2
  <2>3. FollowsRewarded'
    BY <1>2, <2>1, <2>2, ReferencesApart DEF FollowsRewarded
  <2>4. SharesRewarded'
    BY <1>2, <2>1, <2>2, ReferencesApart DEF SharesRewarded
  <2> QED BY <2>3, <2>4
<1> QED BY <1>2, <1>3, <1>5, <1>6, <1>7, <1>8, <1>9, PostStep

LEMMA CommentKeeps ==
  ASSUME SocialInv, NEW a \in Members, NEW p \in Updates, NEW depth \in 0..2, Society!CreateComment(a, p, depth)
  PROVE  SocialInv'
<1> DEFINE k == socialPost[p]
           r == [[k EXCEPT !.revision = k.revision + 1] EXCEPT !.comments = k.comments + 1]
<1>1. k \in PostRow /\ k.comments \in Nat /\ k.revision \in Nat /\ DOMAIN socialPost = Updates /\ PostCounted(p)
  BY PostFields DEF SocialInv, SocialTypes
<1>2. /\ socialComment' = [socialComment EXCEPT ![p] = Society!Append(socialComment[p], depth)]
      /\ socialPost' = [socialPost EXCEPT ![p].revision = @ + 1, ![p].comments = @ + 1]
      /\ UNCHANGED <<socialFollow, socialProfile, socialLooked, socialEngaged, socialQueued>>
  BY DEF Society!CreateComment
<1>3. socialComment \in [Updates -> Society!Seq(0..2)]
  BY DEF SocialInv, SocialTypes
<1>4. Society!Append(socialComment[p], depth) \in Society!Seq(0..2) /\ Society!Len(Society!Append(socialComment[p], depth)) = k.comments + 1
  BY <1>1, <1>3 DEF PostCounted
<1>5. /\ r \in PostRow /\ r.likes = k.likes /\ r.shares = k.shares /\ r.comments = k.comments + 1
  <2> DEFINE r1 == [k EXCEPT !.revision = k.revision + 1]
  <2>1. r1 \in PostRow /\ r1.likes = k.likes /\ r1.shares = k.shares /\ r1.comments = k.comments
    BY <1>1 DEF PostRow
  <2> HIDE DEF r1
  <2>2. /\ [r1 EXCEPT !.comments = k.comments + 1] \in PostRow /\ [r1 EXCEPT !.comments = k.comments + 1].comments = k.comments + 1
        /\ [r1 EXCEPT !.comments = k.comments + 1].likes = r1.likes /\ [r1 EXCEPT !.comments = k.comments + 1].shares = r1.shares
    BY <1>1, <2>1 DEF PostRow
  <2> QED BY <2>1, <2>2 DEF r1
<1>6. socialPost' = [socialPost EXCEPT ![p] = r] /\ socialPost'[p] = r
  <2>1. /\ DOMAIN socialPost' = Updates /\ \A x \in Updates \ {p} : socialPost'[x] = socialPost[x]
    BY <1>1, <1>2
  <2>2. socialPost'[p] = r
    BY <1>1, <1>2
  <2>3. socialPost' = [x \in Updates |-> socialPost'[x]]
    BY <1>1, <1>2
  <2> QED BY <1>1, <2>1, <2>2, <2>3
<1>7. /\ socialComment' \in [Updates -> Society!Seq(0..2)] /\ socialComment'[p] = Society!Append(socialComment[p], depth)
      /\ \A x \in Updates \ {p} : socialComment'[x] = socialComment[x]
  BY <1>2, <1>3, <1>4
<1>8. \A x : Likers(socialEngaged', x) = Likers(socialEngaged, x) /\ Sharers(socialEngaged', x) = Sharers(socialEngaged, x)
  BY <1>2
<1>9. PostCounted(p)'
  BY <1>1, <1>2, <1>4, <1>5, <1>6, <1>7, <1>8 DEF PostCounted
<1>10. FollowsRewarded' /\ SharesRewarded'
  BY <1>2, QueueUntouched
<1> QED BY <1>2, <1>5, <1>6, <1>7, <1>8, <1>9, <1>10, PostStep

\* A post is made, or removed: its counters stay.
LEMMA StatusKeeps ==
  ASSUME SocialInv, NEW p \in Updates, NEW r \in PostRow, socialPost' = [socialPost EXCEPT ![p] = r],
         r.likes = socialPost[p].likes, r.shares = socialPost[p].shares, r.comments = socialPost[p].comments,
         UNCHANGED <<socialFollow, socialProfile, socialLooked, socialEngaged, socialComment, socialQueued>>
  PROVE  SocialInv'
<1>1. \A x : Likers(socialEngaged', x) = Likers(socialEngaged, x) /\ Sharers(socialEngaged', x) = Sharers(socialEngaged, x)
  OBVIOUS
<1>2. socialPost'[p] = r /\ PostCounted(p)
  BY DEF SocialInv, SocialTypes
<1>3. PostCounted(p)'
  BY <1>1, <1>2 DEF PostCounted
<1>4. socialComment' \in [Updates -> Society!Seq(0..2)]
  BY DEF SocialInv, SocialTypes
<1>5. FollowsRewarded' /\ SharesRewarded'
  BY QueueUntouched
<1> QED BY <1>1, <1>3, <1>4, <1>5, PostStep

LEMMA CreateModerateKeep ==
  ASSUME SocialInv, NEW p \in Updates,
         \/ \E s \in {"PUBLISHED", "PENDING_REVIEW"} : Society!CreatePost(p, s)
         \/ \E a \in Members, d \in {"REMOVE", "DISMISS"} : Society!Moderate(p, a, d)
  PROVE  SocialInv'
<1> DEFINE k == socialPost[p]
<1>1. k \in PostRow /\ k.revision \in Nat /\ DOMAIN socialPost = Updates
  BY PostFields DEF SocialInv, SocialTypes
<1>2. UNCHANGED <<socialFollow, socialProfile, socialLooked, socialEngaged, socialComment, socialQueued>>
  BY DEF Society!CreatePost, Society!Moderate
<1>3. CASE UNCHANGED socialPost
  BY <1>2, <1>3 DEF SocialInv, SocialTypes, GraphCounted, FollowsRewarded, SharesRewarded, PostCounted
<1>4. ASSUME NEW s \in {"PUBLISHED", "PENDING_REVIEW", "REMOVED"}, NEW n \in Nat,
             socialPost' = [socialPost EXCEPT ![p].status = s, ![p].revision = n]
      PROVE  SocialInv'
  <2> DEFINE r == [[k EXCEPT !.status = s] EXCEPT !.revision = n]
  <2>1. r \in PostRow /\ r.likes = k.likes /\ r.shares = k.shares /\ r.comments = k.comments
    BY <1>1 DEF PostRow
  <2>2. socialPost' = [socialPost EXCEPT ![p] = r]
    <3>1. /\ DOMAIN socialPost' = Updates /\ \A x \in Updates \ {p} : socialPost'[x] = socialPost[x]
      BY <1>1, <1>4
    <3>2. socialPost'[p] = r
      BY <1>1, <1>4
    <3>3. socialPost' = [x \in Updates |-> socialPost'[x]]
      BY <1>1, <1>4
    <3> QED BY <1>1, <3>1, <3>2, <3>3
  <2> QED BY <1>2, <2>1, <2>2, StatusKeeps
<1>5. ASSUME NEW s \in {"PUBLISHED", "PENDING_REVIEW"}, Society!CreatePost(p, s) PROVE SocialInv'
  BY <1>4, <1>5 DEF Society!CreatePost
<1>6. ASSUME NEW a \in Members, NEW d \in {"REMOVE", "DISMISS"}, Society!Moderate(p, a, d) PROVE SocialInv'
  <2>1. CASE d = "REMOVE"
    <3>1. socialPost' = [socialPost EXCEPT ![p].status = "REMOVED", ![p].revision = k.revision + 1]
      BY <1>6, <2>1 DEF Society!Moderate
    <3>2. k.revision + 1 \in Nat /\ "REMOVED" \in {"PUBLISHED", "PENDING_REVIEW", "REMOVED"}
      BY <1>1
    <3> QED BY <1>4, <3>1, <3>2, Zenon
  <2>2. CASE d # "REMOVE"
    BY <1>3, <1>6, <2>2 DEF Society!Moderate
  <2> QED BY <2>1, <2>2
<1> QED BY <1>5, <1>6

LEMMA SocialNext == SocialInv /\ [Society!Next]_(Society!vars) => SocialInv'
<1> SUFFICES ASSUME SocialInv, [Society!Next]_(Society!vars) PROVE SocialInv'
  OBVIOUS
<1>1. ASSUME NEW a \in Members, NEW b \in Members, Society!FollowLooks(a, b) PROVE SocialInv'
  <2>1. /\ a # b /\ socialLooked' = [socialLooked EXCEPT ![a] = b]
        /\ UNCHANGED <<socialFollow, socialProfile, socialPost, socialEngaged, socialComment, socialQueued>>
    BY <1>1 DEF Society!FollowLooks
  <2>2. socialLooked' \in [Members -> Members \cup {"NONE"}] /\ \A x \in Members : socialLooked'[x] # x
    BY <2>1 DEF SocialInv, SocialTypes
  <2>3. socialProfile' \in [Members -> Counters] /\ GraphCounted'
    BY <2>1, GraphUntouched
  <2>4. FollowsRewarded' /\ SharesRewarded'
    BY <2>1, QueueUntouched
  <2> QED BY <2>1, <2>2, <2>3, <2>4, GraphStep DEF SocialInv, SocialTypes
<1>2. ASSUME UNCHANGED <<socialFollow, socialProfile, socialLooked, socialPost, socialEngaged, socialComment, socialQueued>>
      PROVE  SocialInv'
  BY <1>2 DEF SocialInv, SocialTypes, GraphCounted, FollowsRewarded, SharesRewarded, PostCounted
<1>3. ASSUME NEW a \in Members, NEW p \in Updates, Society!ReportPost(a, p) PROVE SocialInv'
  BY <1>2, <1>3 DEF Society!ReportPost
<1>4. ASSUME UNCHANGED Society!vars PROVE SocialInv'
  BY <1>2, <1>4 DEF Society!vars
<1>5. ASSUME NEW a \in Members, NEW p \in Updates, NEW active \in BOOLEAN, Society!SetLike(a, p, active) \/ Society!SetSave(a, p, active)
      PROVE  SocialInv'
  BY <1>5, EngagementKeeps DEF Society!SetLike, Society!SetSave
<1>6. ASSUME NEW a \in Members, NEW b \in Members, NEW action \in {"NONE", "MUTE", "BLOCK"}, Society!SetRelationship(a, b, action)
      PROVE  SocialInv'
  BY <1>6, RelationshipKeeps
<1> QED BY <1>1, <1>3, <1>4, <1>5, <1>6, FollowKeeps, AcceptFollowKeeps, ShareKeeps, CommentKeeps, CreateModerateKeep
        DEF Society!Next, Society!None

\* internal/social: the counters on profiles and posts are the numbers of accepted
\* follows, likes, shares and comments, through follows, blocks, decisions and
\* repeated engagement; a reward is queued for a follow that stands and a share made.
THEOREM CountersKept == Society!Spec => []CountsAgree
<1>1. SocialInv => CountsAgree
  BY SocialImplies DEF CountsAgree
<1> QED BY <1>1, SocialInit, SocialNext, PTL DEF Society!Spec

----------------------------------------------------------------------------
(* The inbox (internal/messaging).  The invariant adds that what is done   *)
(* is a beginning of the versions, that an event is begun only after all   *)
(* before it are done, and that a handler that is done has had its effect. *)

Committed(v) == eventOutbox[v].state # "ABSENT"
AllBefore(v) == \A u \in 1..(v - 1) : eventInbox[u] = "DONE"

OutboxRow == [state : {"ABSENT", "PENDING", "LEASED", "PUBLISHED", "DEAD_LETTER"}, attempts : Nat,
              owner : Dispatchers \cup {"NONE"}]
WorkerRow == [batch : SUBSET (1..Last), event : 0..Last, outcome : {"NONE", "PUBLISHED", "FAILED"}]
HandlerRow == [event : 0..Last, done : BOOLEAN]

BusTypes ==
  /\ eventOutbox \in [1..Last -> OutboxRow]
  /\ eventInbox \in [1..Last -> {"ABSENT", "PROCESSING", "DONE"}]
  /\ eventHandler \in [Handlers -> HandlerRow]
  /\ eventApplied \in [1..Last -> Nat]
  /\ eventWorker \in [Dispatchers -> WorkerRow]
  /\ eventStream \subseteq 1..Last /\ eventExpired \subseteq 1..Last /\ eventOverdue \subseteq 1..Last
Outgoing ==
  /\ \A v \in eventStream \cup eventExpired : Committed(v)
  /\ \A w \in Dispatchers : \A v \in eventWorker[w].batch : Committed(v)
Incoming ==
  /\ \A v \in 1..Last : eventInbox[v] # "ABSENT" => v \in eventStream /\ AllBefore(v)
  /\ \A v \in eventOverdue : eventInbox[v] = "PROCESSING"
  /\ \A v \in 1..Last : eventInbox[v] = "DONE" => eventApplied[v] > 0
  /\ \A v \in 1..Last : eventApplied[v] > 0 => v \in eventStream /\ AllBefore(v)
  /\ \A h \in Handlers :
       /\ eventHandler[h].event # 0 => eventHandler[h].event \in eventStream /\ AllBefore(eventHandler[h].event)
       /\ eventHandler[h].done => eventHandler[h].event # 0 /\ eventApplied[eventHandler[h].event] > 0

BusInv == BusTypes /\ Outgoing /\ Incoming

\* What the steps make of a row.
LEMMA BusRows ==
  ASSUME Last \in Nat
  PROVE  /\ Bus!Free \in WorkerRow /\ Bus!Free.batch = {}
         /\ \A b \in SUBSET (1..Last) : [Bus!Free EXCEPT !.batch = b] \in WorkerRow /\ [Bus!Free EXCEPT !.batch = b].batch = b
         /\ \A r \in WorkerRow, v \in 0..Last, o \in {"PUBLISHED", "FAILED"} :
              [r EXCEPT !.event = v, !.outcome = o] \in WorkerRow /\ [r EXCEPT !.event = v, !.outcome = o].batch = r.batch
<1>1. \A b \in SUBSET (1..Last) : [batch |-> b, event |-> 0, outcome |-> "NONE"] \in WorkerRow
  BY DEF WorkerRow
<1>2. Bus!Free = [batch |-> {}, event |-> 0, outcome |-> "NONE"]
  BY DEF Bus!Free, Bus!None
<1>3. \A b : [Bus!Free EXCEPT !.batch = b] = [batch |-> b, event |-> 0, outcome |-> "NONE"]
  BY <1>2
<1>4. ASSUME NEW r \in WorkerRow, NEW v \in 0..Last, NEW o \in {"PUBLISHED", "FAILED"}
      PROVE  [r EXCEPT !.event = v, !.outcome = o] \in WorkerRow /\ [r EXCEPT !.event = v, !.outcome = o].batch = r.batch
  BY DEF WorkerRow
<1> QED BY <1>1, <1>2, <1>3, <1>4

LEMMA HandlerRows ==
  ASSUME Last \in Nat
  PROVE  /\ Bus!Waiting \in HandlerRow /\ Bus!Waiting.event = 0 /\ ~Bus!Waiting.done
         /\ \A v \in 0..Last : LET n == [event |-> v, done |-> FALSE] IN n \in HandlerRow /\ n.event = v /\ ~n.done
         /\ \A r \in HandlerRow : [r EXCEPT !.done = TRUE] \in HandlerRow /\ [r EXCEPT !.done = TRUE].event = r.event
<1>1. ASSUME NEW v \in 0..Last PROVE LET n == [event |-> v, done |-> FALSE] IN n \in HandlerRow /\ n.event = v /\ ~n.done
  BY DEF HandlerRow
<1>2. Bus!Waiting = [event |-> 0, done |-> FALSE] /\ 0 \in 0..Last
  BY DEF Bus!Waiting, Bus!None
<1>3. ASSUME NEW r \in HandlerRow PROVE [r EXCEPT !.done = TRUE] \in HandlerRow /\ [r EXCEPT !.done = TRUE].event = r.event
  BY DEF HandlerRow
<1>4. Bus!Waiting \in HandlerRow /\ Bus!Waiting.event = 0 /\ ~Bus!Waiting.done
  BY <1>1, <1>2, Zenon
<1> QED BY <1>1, <1>3, <1>4

LEMMA OutboxRows ==
  ASSUME NEW r \in OutboxRow, NEW s \in {"PENDING", "LEASED", "PUBLISHED", "DEAD_LETTER"}, NEW n \in Nat,
         NEW o \in Dispatchers \cup {"NONE"}
  PROVE  /\ r.attempts \in Nat
         /\ [r EXCEPT !.state = s] \in OutboxRow /\ [r EXCEPT !.state = s].state = s
         /\ [r EXCEPT !.state = s, !.owner = o] \in OutboxRow /\ [r EXCEPT !.state = s, !.owner = o].state = s
         /\ [r EXCEPT !.state = s, !.attempts = n] \in OutboxRow /\ [r EXCEPT !.state = s, !.attempts = n].state = s
         /\ [state |-> s, attempts |-> n, owner |-> o] \in OutboxRow
BY DEF OutboxRow

\* A row of the outbox is replaced by one that is committed.
LEMMA OutboxChange ==
  ASSUME eventOutbox \in [1..Last -> OutboxRow], NEW v \in 1..Last, NEW r \in OutboxRow, r.state # "ABSENT",
         eventOutbox' = [eventOutbox EXCEPT ![v] = r]
  PROVE  eventOutbox' \in [1..Last -> OutboxRow] /\ \A u \in 1..Last : Committed(u) => Committed(u)'
BY DEF Committed

LEMMA BusImplies == BusInv => Bus!AppliedInOrder
<1> SUFFICES ASSUME BusInv, NEW v \in 1..Last, eventApplied[v] > 0
             PROVE  /\ eventOutbox[v].state # "ABSENT"
                    /\ \A u \in 1..(v - 1) : eventApplied[u] > 0 /\ eventInbox[u] = "DONE"
  BY DEF Bus!AppliedInOrder, Bus!Versions
<1>1. v \in eventStream /\ AllBefore(v)
  BY DEF BusInv, Incoming
<1>2. eventOutbox[v].state # "ABSENT"
  BY <1>1 DEF BusInv, Outgoing, Committed
<1>3. ASSUME NEW u \in 1..(v - 1) PROVE eventApplied[u] > 0 /\ eventInbox[u] = "DONE"
  <2>1. u \in 1..Last
    BY PlatformAssumption
  <2> QED BY <1>1, <2>1 DEF BusInv, Incoming, AllBefore
<1> QED BY <1>2, <1>3

LEMMA BusInit == Bus!Init => BusInv
<1> SUFFICES ASSUME Bus!Init PROVE BusInv
  OBVIOUS
<1>1. BusTypes
  BY PlatformAssumption, BusRows, HandlerRows DEF Bus!Init, BusTypes, Bus!Versions, OutboxRow
<1>2. Outgoing /\ Incoming
  BY DEF Bus!Init, Outgoing, Incoming, Bus!Versions, Bus!Free, Bus!Waiting, Bus!None
<1> QED BY <1>1, <1>2 DEF BusInv

\* Among naturals there is a least, and in an interval a greatest.
LEMMA LeastOf ==
  ASSUME NEW T \in SUBSET Nat, T # {}
  PROVE  \E n \in T : \A m \in T : n <= m
<1>1. PICK n \in T : \A m \in T : ~(<<m, n>> \in OpToRel(<, Nat))
  BY NatLessThanWellFounded, WFMin, Zenon
<1>2. \A m \in T : ~(m < n)
  BY <1>1 DEF OpToRel
<1> QED BY <1>2

LEMMA GreatestOf ==
  ASSUME NEW n \in Nat, NEW D \in SUBSET (1..n), D # {}
  PROVE  \E x \in D : \A u \in D : u <= x
<1> DEFINE B == {m \in Nat : \A u \in D : u <= m}
<1>1. n \in B
  OBVIOUS
<1>2. PICK b \in B : \A m \in B : b <= m
  BY <1>1, LeastOf
<1>3. CASE b \in D
  BY <1>3
<1>4. CASE b \notin D
  <2>1. PICK u \in D : TRUE
    OBVIOUS
  <2>2. b - 1 \in B
    BY <1>4, <2>1
  <2> QED BY <1>2, <2>2
<1> QED BY <1>3, <1>4

\* The last version done, when what is done is a beginning of the versions.
LEMMA NextVersion ==
  ASSUME BusInv, NEW v \in 1..Last, v = Bus!DoneUpTo + 1
  PROVE  AllBefore(v) /\ eventInbox[v] # "DONE"
<1> DEFINE D == {u \in 1..Last : eventInbox[u] = "DONE"}
<1>1. Last \in Nat /\ eventInbox \in [1..Last -> {"ABSENT", "PROCESSING", "DONE"}]
  BY PlatformAssumption DEF BusInv, BusTypes
<1>2. \A u \in D : \A t \in 1..(u - 1) : t \in D
  BY <1>1 DEF BusInv, Incoming, AllBefore
<1>3. CASE D = {}
  <2>1. Bus!DoneUpTo = 0
    BY <1>3, Zenon DEF Bus!DoneUpTo, Bus!Versions
  <2> QED BY <1>1, <1>3, <2>1 DEF AllBefore
<1>4. CASE D # {}
  <2> DEFINE top(x) == x \in 1..Last /\ eventInbox[x] = "DONE" /\ \A u \in 1..Last : eventInbox[u] = "DONE" => u <= x
  <2>1. \E x : top(x)
    <3>1. \E x \in D : \A u \in D : u <= x
      BY <1>1, <1>4, GreatestOf
    <3> QED BY <3>1
  <2>2. Bus!DoneUpTo = CHOOSE x : top(x)
    BY <1>4 DEF Bus!DoneUpTo, Bus!Versions
  <2>3. top(Bus!DoneUpTo)
    BY <2>1, <2>2
  <2> QED BY <1>1, <1>2, <2>3 DEF AllBefore
<1> QED BY <1>3, <1>4

\* A step of the outbox: nothing it knows of is forgotten.
LEMMA OutgoingKeeps ==
  ASSUME BusInv, UNCHANGED <<eventInbox, eventOverdue, eventHandler, eventApplied>>,
         BusTypes', Outgoing', eventStream \subseteq eventStream'
  PROVE  BusInv'
BY DEF BusInv, Incoming, AllBefore

LEMMA OutboxKeeps ==
  ASSUME BusInv,
         \/ \E v \in 1..Last : Bus!Enqueue(v) \/ Bus!LeaseExpires(v) \/ Bus!Replay(v)
         \/ \E w \in Dispatchers : Bus!Dispatch(w)
  PROVE  BusInv'
<1>1. BusTypes /\ Outgoing /\ Last \in Nat
  BY PlatformAssumption DEF BusInv
<1>2. UNCHANGED <<eventInbox, eventOverdue, eventHandler, eventApplied>>
  BY DEF Bus!Enqueue, Bus!LeaseExpires, Bus!Replay, Bus!Dispatch, Bus!Claim, Bus!MarkPublished, Bus!MarkFailed,
         Bus!Abandon, Bus!Publish, Bus!incoming
<1>3. ASSUME NEW v \in 1..Last, Bus!Enqueue(v) \/ Bus!LeaseExpires(v) \/ Bus!Replay(v)
      PROVE  BusTypes' /\ Outgoing' /\ eventStream \subseteq eventStream'
  <2>1. CASE Bus!LeaseExpires(v)
    BY <1>1, <1>2, <2>1 DEF BusTypes, Outgoing, Committed, Bus!LeaseExpires
  <2>2. CASE Bus!Enqueue(v) \/ Bus!Replay(v)
    <3>1. PICK r \in OutboxRow : r.state = "PENDING" /\ eventOutbox' = [eventOutbox EXCEPT ![v] = r]
      <4>1. eventOutbox[v] \in OutboxRow
        BY <1>1 DEF BusTypes
      <4>2. CASE Bus!Enqueue(v)
        BY <1>1, <4>1, <4>2, OutboxRows, Zenon DEF Bus!Enqueue
      <4>3. CASE Bus!Replay(v)
        <5> DEFINE r == [eventOutbox[v] EXCEPT !.state = "PENDING", !.attempts = 0]
        <5>1. r \in OutboxRow /\ r.state = "PENDING"
          BY <4>1 DEF OutboxRow
        <5>2. eventOutbox' = [eventOutbox EXCEPT ![v] = r]
          <6>1. eventOutbox' = [eventOutbox EXCEPT ![v].state = "PENDING", ![v].attempts = 0] /\ DOMAIN eventOutbox = 1..Last
            BY <1>1, <4>3 DEF BusTypes, Bus!Replay
          <6>2. eventOutbox'[v] = r
            BY <6>1, Zenon
          <6> QED BY <6>1, <6>2
        <5> QED BY <5>1, <5>2
      <4> QED BY <2>2, <4>2, <4>3
    <3>2. eventOutbox' \in [1..Last -> OutboxRow] /\ \A u \in 1..Last : Committed(u) => Committed(u)'
      BY <1>1, <3>1, OutboxChange DEF BusTypes
    <3>3. UNCHANGED <<eventExpired, eventWorker, eventStream>>
      BY <2>2 DEF Bus!Enqueue, Bus!Replay
    <3> QED BY <1>1, <1>2, <3>2, <3>3 DEF BusTypes, Outgoing, WorkerRow
  <2> QED BY <1>3, <2>1, <2>2
<1>4. ASSUME NEW w \in Dispatchers, Bus!Claim(w)
      PROVE  BusTypes' /\ Outgoing' /\ eventStream \subseteq eventStream'
  <2>1. PICK batch \in SUBSET Bus!Claimable :
          /\ eventOutbox' = [v \in 1..Last |->
                IF v \in batch THEN [eventOutbox[v] EXCEPT !.state = "LEASED", !.owner = w] ELSE eventOutbox[v]]
          /\ eventExpired' = eventExpired \ batch
          /\ eventWorker' = [eventWorker EXCEPT ![w] = [Bus!Free EXCEPT !.batch = batch]]
          /\ eventStream' = eventStream
    BY <1>4 DEF Bus!Claim, Bus!Versions
  <2>2. batch \subseteq 1..Last /\ \A v \in batch : Committed(v)
    BY <1>1 DEF Bus!Claimable, Bus!Versions, Outgoing, Committed
  <2>3. \A v \in 1..Last : /\ [eventOutbox[v] EXCEPT !.state = "LEASED", !.owner = w] \in OutboxRow
                            /\ [eventOutbox[v] EXCEPT !.state = "LEASED", !.owner = w].state = "LEASED"
    <3>1. \A v \in 1..Last : eventOutbox[v] \in OutboxRow
      BY <1>1 DEF BusTypes
    <3>2. ASSUME NEW v \in 1..Last
          PROVE  /\ [eventOutbox[v] EXCEPT !.state = "LEASED", !.owner = w] \in OutboxRow
                 /\ [eventOutbox[v] EXCEPT !.state = "LEASED", !.owner = w].state = "LEASED"
      BY <3>1 DEF OutboxRow
    <3> QED BY <3>2
  <2>4. eventOutbox' \in [1..Last -> OutboxRow] /\ \A v \in 1..Last : Committed(v) => Committed(v)'
    <3>1. \A v \in 1..Last : eventOutbox'[v] \in OutboxRow /\ (Committed(v) => eventOutbox'[v].state # "ABSENT")
      BY <1>1, <2>1, <2>3 DEF BusTypes, Committed
    <3> QED BY <2>1, <3>1 DEF Committed
  <2>5. /\ eventWorker' \in [Dispatchers -> WorkerRow]
        /\ \A x \in Dispatchers : eventWorker'[x].batch \subseteq eventWorker[x].batch \cup batch
    BY <1>1, <2>1, <2>2, BusRows DEF BusTypes
  <2>6. BusTypes'
    BY <1>1, <1>2, <2>1, <2>4, <2>5 DEF BusTypes
  <2>7. Outgoing'
    BY <1>1, <2>1, <2>2, <2>4, <2>5 DEF BusTypes, Outgoing, WorkerRow
  <2> QED BY <2>1, <2>6, <2>7
<1>5. ASSUME NEW w \in Dispatchers, NEW v \in 1..Last, Bus!Publish(w, v)
      PROVE  BusTypes' /\ Outgoing' /\ eventStream \subseteq eventStream'
  <2>1. eventStream' \in {eventStream, eventStream \cup {v}} /\ UNCHANGED <<eventOutbox, eventExpired>>
    BY <1>5 DEF Bus!Publish
  <2>2. v \in eventWorker[w].batch
    BY <1>5 DEF Bus!Publish
  <2>3. PICK o \in {"PUBLISHED", "FAILED"} : eventWorker' = [eventWorker EXCEPT ![w] = [eventWorker[w] EXCEPT !.event = v, !.outcome = o]]
    BY <1>5 DEF Bus!Publish
  <2>4. eventWorker[w] \in WorkerRow /\ v \in 0..Last
    BY <1>1 DEF BusTypes
  <2>5. eventWorker' \in [Dispatchers -> WorkerRow] /\ \A x \in Dispatchers : eventWorker'[x].batch = eventWorker[x].batch
    BY <1>1, <2>3, <2>4, BusRows DEF BusTypes
  <2>6. BusTypes'
    BY <1>1, <1>2, <2>1, <2>5 DEF BusTypes
  <2> QED BY <1>1, <2>1, <2>2, <2>5, <2>6 DEF Outgoing, Committed
<1>6. ASSUME NEW w \in Dispatchers, Bus!MarkPublished(w) \/ Bus!MarkFailed(w) \/ Bus!Abandon(w)
      PROVE  BusTypes' /\ Outgoing' /\ eventStream \subseteq eventStream'
  <2>1. UNCHANGED eventStream /\ eventExpired' \subseteq eventExpired
    BY <1>6 DEF Bus!MarkPublished, Bus!MarkFailed, Bus!Abandon
  <2>2. eventWorker' = Bus!Done(w) \/ eventWorker' = [eventWorker EXCEPT ![w] = Bus!Free]
    BY <1>6 DEF Bus!MarkPublished, Bus!MarkFailed, Bus!Abandon
  <2>3. /\ eventWorker' \in [Dispatchers -> WorkerRow]
        /\ \A x \in Dispatchers : eventWorker'[x].batch \subseteq eventWorker[x].batch
    <3>1. eventWorker[w].batch \subseteq 1..Last
      BY <1>1 DEF BusTypes, WorkerRow
    <3>2. PICK b \in SUBSET eventWorker[w].batch : \E r \in WorkerRow : r.batch = b /\ eventWorker' = [eventWorker EXCEPT ![w] = r]
      BY <1>1, <2>2, <3>1, BusRows DEF Bus!Done
    <3> QED BY <1>1, <3>2 DEF BusTypes
  <2>4. eventOutbox' \in [1..Last -> OutboxRow] /\ \A v \in 1..Last : Committed(v) => Committed(v)'
    <3> DEFINE v == eventWorker[w].event
    <3>1. CASE Bus!Abandon(w)
      BY <1>1, <3>1 DEF BusTypes, Bus!Abandon, Committed
    <3>2. CASE v \notin 1..Last /\ (Bus!MarkPublished(w) \/ Bus!MarkFailed(w))
      BY <1>1, <3>2 DEF BusTypes, Bus!MarkPublished, Bus!MarkFailed, Committed
    <3>3. CASE v \in 1..Last /\ Bus!MarkPublished(w)
      <4>1. eventOutbox[v] \in OutboxRow
        BY <1>1, <3>3 DEF BusTypes
      <4>2. PICK r \in OutboxRow : r.state = "PUBLISHED" /\ eventOutbox' = [eventOutbox EXCEPT ![v] = r]
        <5> DEFINE r == [eventOutbox[v] EXCEPT !.state = "PUBLISHED", !.owner = "NONE"]
        <5>1. r \in OutboxRow /\ r.state = "PUBLISHED"
          BY <4>1 DEF OutboxRow
        <5>2. eventOutbox' = [eventOutbox EXCEPT ![v] = r]
          <6>1. eventOutbox' = [eventOutbox EXCEPT ![v].state = "PUBLISHED", ![v].owner = "NONE"] /\ DOMAIN eventOutbox = 1..Last
            BY <1>1, <3>3 DEF BusTypes, Bus!MarkPublished
          <6>2. eventOutbox'[v] = r
            BY <3>3, <6>1, Zenon
          <6> QED BY <3>3, <6>1, <6>2
        <5> QED BY <5>1, <5>2
      <4> QED BY <1>1, <3>3, <4>2, OutboxChange DEF BusTypes
    <3>4. CASE v \in 1..Last /\ Bus!MarkFailed(w)
      <4>1. eventOutbox[v].attempts + 1 \in Nat
        BY <1>1, <3>4 DEF BusTypes, OutboxRow
      <4>2. PICK r \in OutboxRow : r.state # "ABSENT" /\ eventOutbox' = [eventOutbox EXCEPT ![v] = r]
        <5>1. \A x \in {"PENDING", "DEAD_LETTER"}, n \in Nat : [state |-> x, attempts |-> n, owner |-> "NONE"] \in OutboxRow
          BY DEF OutboxRow
        <5>2. PICK x \in {"PENDING", "DEAD_LETTER"} :
                eventOutbox' = [eventOutbox EXCEPT ![v] = [state |-> x, attempts |-> eventOutbox[v].attempts + 1, owner |-> "NONE"]]
          BY <3>4 DEF Bus!MarkFailed
        <5> QED BY <4>1, <5>1, <5>2
      <4> QED BY <1>1, <3>4, <4>2, OutboxChange DEF BusTypes
    <3> QED BY <1>6, <3>1, <3>2, <3>3, <3>4
  <2>5. BusTypes'
    BY <1>1, <1>2, <2>1, <2>3, <2>4 DEF BusTypes
  <2>6. Outgoing'
    BY <1>1, <2>1, <2>3, <2>4 DEF BusTypes, Outgoing, WorkerRow
  <2> QED BY <2>1, <2>5, <2>6
<1>7. BusTypes' /\ Outgoing' /\ eventStream \subseteq eventStream'
  BY <1>3, <1>4, <1>5, <1>6 DEF Bus!Dispatch, Bus!Versions
<1> QED BY <1>2, <1>7, OutgoingKeeps

LEMMA InboxKeeps ==
  ASSUME BusInv,
         \/ \E v \in 1..Last : Bus!InboxLeaseExpires(v)
         \/ \E h \in Handlers : Bus!Consume(h)
  PROVE  BusInv'
<1>1. BusTypes /\ Outgoing /\ Incoming /\ Last \in Nat
  BY PlatformAssumption DEF BusInv
<1>2. UNCHANGED <<eventOutbox, eventExpired, eventWorker, eventStream>>
  BY DEF Bus!InboxLeaseExpires, Bus!Consume, Bus!Handle, Bus!Complete, Bus!Release, Bus!HandlerDies, Bus!Begin, Bus!outgoing
<1>3. Outgoing'
  BY <1>1, <1>2 DEF Outgoing, Committed
<1>4. ASSUME NEW v \in 1..Last, Bus!InboxLeaseExpires(v) PROVE BusTypes' /\ Incoming'
  BY <1>1, <1>2, <1>4 DEF BusTypes, Incoming, AllBefore, Bus!InboxLeaseExpires
<1>5. ASSUME NEW h \in Handlers, NEW v \in 1..Last, Bus!Begin(h, v) PROVE BusTypes' /\ Incoming'
  <2>1. AllBefore(v) /\ eventInbox[v] # "DONE" /\ v \in eventStream
    BY <1>5, NextVersion DEF Bus!Begin
  <2>2. /\ eventInbox' = [eventInbox EXCEPT ![v] = "PROCESSING"] /\ eventOverdue' = eventOverdue \ {v}
        /\ eventHandler' = [eventHandler EXCEPT ![h] = [event |-> v, done |-> FALSE]]
        /\ UNCHANGED <<eventStream, eventApplied>>
    BY <1>5 DEF Bus!Begin
  <2>3. \A u \in 1..Last : AllBefore(u) => AllBefore(u)'
    BY <1>1, <2>1, <2>2 DEF BusTypes, AllBefore
  <2>4. BusTypes'
    BY <1>1, <1>2, <2>2, HandlerRows DEF BusTypes
  <2> QED BY <1>1, <2>1, <2>2, <2>3, <2>4 DEF BusTypes, Incoming
<1>6. ASSUME NEW h \in Handlers, Bus!Handle(h) PROVE BusTypes' /\ Incoming'
  <2> DEFINE v == eventHandler[h].event
  <2>1. eventHandler[h] \in HandlerRow /\ v \in 1..Last
    BY <1>1, <1>6 DEF BusTypes, HandlerRow, Bus!Handle, Bus!None
  <2>2. /\ eventHandler' = [eventHandler EXCEPT ![h] = [eventHandler[h] EXCEPT !.done = TRUE]]
        /\ eventApplied' = [eventApplied EXCEPT ![v] = eventApplied[v] + 1]
        /\ UNCHANGED <<eventInbox, eventStream, eventOverdue>>
    BY <1>1, <1>6, <2>1, HandlerRows DEF Bus!Handle
  <2>3. \A u \in 1..Last : AllBefore(u) => AllBefore(u)'
    BY <2>2 DEF AllBefore
  <2>4. BusTypes'
    BY <1>1, <1>2, <2>1, <2>2, HandlerRows DEF BusTypes
  <2>5. \A u \in 1..Last : eventApplied[u] > 0 => eventApplied'[u] > 0
    BY <1>1, <2>1, <2>2 DEF BusTypes
  <2>6. eventApplied'[v] > 0 /\ \A u \in 1..Last : u # v => eventApplied'[u] = eventApplied[u]
    BY <1>1, <2>1, <2>2 DEF BusTypes
  <2>7. \A x \in Handlers : eventHandler'[x].event = eventHandler[x].event /\ (x # h => eventHandler'[x] = eventHandler[x])
    BY <1>1, <2>1, <2>2, HandlerRows DEF BusTypes
  <2>8. \A x \in Handlers : eventHandler[x].event \in 0..Last
    BY <1>1 DEF BusTypes, HandlerRow
  <2> QED BY <1>1, <2>1, <2>2, <2>3, <2>4, <2>5, <2>6, <2>7, <2>8 DEF Incoming
<1>7. ASSUME NEW h \in Handlers, Bus!Complete(h) PROVE BusTypes' /\ Incoming'
  <2> DEFINE v == eventHandler[h].event
  <2>1. v \in 1..Last /\ v \in eventStream /\ AllBefore(v) /\ eventApplied[v] > 0
    BY <1>1, <1>7 DEF BusTypes, HandlerRow, Incoming, Bus!Complete
  <2>2. /\ eventHandler' = [eventHandler EXCEPT ![h] = Bus!Waiting]
        /\ UNCHANGED <<eventStream, eventApplied, eventOverdue>>
        /\ \/ eventInbox' = eventInbox
           \/ v \notin eventOverdue /\ eventInbox' = [eventInbox EXCEPT ![v] = "DONE"]
    BY <1>7 DEF Bus!Complete
  <2>3. \A u \in 1..Last : AllBefore(u) => AllBefore(u)'
    BY <1>1, <2>1, <2>2 DEF BusTypes, AllBefore
  <2>4. BusTypes'
    BY <1>1, <1>2, <2>1, <2>2, HandlerRows DEF BusTypes
  <2> QED BY <1>1, <2>1, <2>2, <2>3, <2>4 DEF BusTypes, Incoming, Bus!Waiting, Bus!None
<1>8. ASSUME NEW h \in Handlers, Bus!Release(h) \/ Bus!HandlerDies(h) PROVE BusTypes' /\ Incoming'
  <2> DEFINE v == eventHandler[h].event
  <2>1. /\ eventHandler' = [eventHandler EXCEPT ![h] = Bus!Waiting]
        /\ UNCHANGED <<eventStream, eventApplied>>
        /\ \/ UNCHANGED <<eventInbox, eventOverdue>>
           \/ /\ v # 0 /\ eventInbox[v] = "PROCESSING"
              /\ eventInbox' = [eventInbox EXCEPT ![v] = "ABSENT"] /\ eventOverdue' = eventOverdue \ {v}
    BY <1>8 DEF Bus!Release, Bus!HandlerDies, Bus!None
  <2>2. \A u \in 1..Last : AllBefore(u) => AllBefore(u)'
    BY <1>1, <2>1 DEF BusTypes, AllBefore
  <2>3. BusTypes'
    BY <1>1, <1>2, <2>1, HandlerRows DEF BusTypes
  <2> QED BY <1>1, <2>1, <2>2, <2>3 DEF BusTypes, Incoming, Bus!Waiting, Bus!None
<1>9. BusTypes' /\ Incoming'
  BY <1>4, <1>5, <1>6, <1>7, <1>8 DEF Bus!Consume, Bus!Versions
<1> QED BY <1>3, <1>9 DEF BusInv

\* internal/messaging: effects take place in the order of the versions, none before
\* its event was committed.
THEOREM EffectsInOrder == Bus!Spec => []Bus!AppliedInOrder
<1>1. BusInv /\ [Bus!Next]_(Bus!vars) => BusInv'
  <2> SUFFICES ASSUME BusInv, [Bus!Next]_(Bus!vars) PROVE BusInv'
    OBVIOUS
  <2>1. CASE Bus!Next
    BY <2>1, OutboxKeeps, InboxKeeps DEF Bus!Next, Bus!Versions
  <2>2. CASE UNCHANGED Bus!vars
    BY <2>2 DEF BusInv, BusTypes, Outgoing, Incoming, Committed, AllBefore, Bus!vars
  <2> QED BY <2>1, <2>2
<1> QED BY <1>1, BusInit, BusImplies, PTL DEF Bus!Spec

----------------------------------------------------------------------------
(* Notifications (internal/notification).  A delivery may still be sent by *)
(* every process that has claimed it and has not sent it for good, and by  *)
(* the one that will claim it, when it is queued or its claim has lapsed.  *)
(* These chances and the messages sent are at most one and the doubts.     *)

NoticeRow == [status : {"ABSENT", "QUEUED", "SENDING", "SENT", "DELIVERED", "FAILED", "SUPPRESSED"}, attempts : Nat]
NoticeClaim == [delivery : Notices!DeviceSet \cup {"NONE"}, answer : {"NONE", "SENT", "FAILED", "RETRY"}]

NoticeTypes ==
  /\ noticeDelivery \in [Notices!DeviceSet -> NoticeRow] /\ noticeProcess \in [Notices!Processes -> NoticeClaim]
  /\ noticeSent \in [Notices!DeviceSet -> Nat] /\ noticeDoubts \in [Notices!DeviceSet -> Nat]
  /\ \A p \in Notices!Processes : noticeProcess[p].delivery = "NONE" => noticeProcess[p].answer = "NONE"

MaySend(c, d) == c.delivery = d /\ c.answer \in {"NONE", "RETRY"}
Senders(d) == {p \in Notices!Processes : MaySend(noticeProcess[p], d)}
Due(d) == noticeDelivery[d].status \in {"ABSENT", "QUEUED"} \/ (noticeDelivery[d].status = "SENDING" /\ d \in noticeLapsed)
One(b) == IF b THEN 1 ELSE 0
Accounted(d) == noticeSent[d] + Cardinality(Senders(d)) + One(Due(d)) <= 1 + noticeDoubts[d]

NoticeInv == NoticeTypes /\ \A d \in Notices!DeviceSet : Accounted(d)

LEMMA OneIs == \A b \in BOOLEAN : One(b) \in Nat /\ (b => One(b) = 1) /\ (~b => One(b) = 0)
BY DEF One

LEMMA SendersFinite == \A d : IsFiniteSet(Senders(d)) /\ Cardinality(Senders(d)) \in Nat
<1>1. IsFiniteSet(Notices!Processes)
  BY NoticeAssumption, FS_AddElement DEF Notices!Processes
<1>2. \A d : Senders(d) \subseteq Notices!Processes
  BY DEF Senders
<1> QED BY <1>1, <1>2, FS_Subset, FS_CardinalityType

LEMMA NoticeImplies == NoticeInv => Notices!SendsAccounted
<1> SUFFICES ASSUME NoticeInv, NEW d \in Notices!DeviceSet PROVE noticeSent[d] <= 1 + noticeDoubts[d]
  BY DEF Notices!SendsAccounted
<1>1. noticeSent[d] \in Nat /\ noticeDoubts[d] \in Nat /\ One(Due(d)) \in Nat
  BY OneIs DEF NoticeInv, NoticeTypes, Due
<1> QED BY <1>1, SendersFinite DEF NoticeInv, Accounted

LEMMA NoticeInit == Notices!Init => NoticeInv
<1> SUFFICES ASSUME Notices!Init PROVE NoticeInv
  OBVIOUS
<1>1. Notices!Idle \in NoticeClaim /\ Notices!Idle = [delivery |-> "NONE", answer |-> "NONE"]
  BY DEF Notices!Idle, NoticeClaim
<1>2. [status |-> "ABSENT", attempts |-> 0] \in NoticeRow
  BY DEF NoticeRow
<1>3. NoticeTypes
  BY <1>1, <1>2 DEF Notices!Init, NoticeTypes
<1>4. ASSUME NEW d \in Notices!DeviceSet PROVE Accounted(d)
  <2>1. d # "NONE"
    BY NoticeAssumption
  <2>2. Senders(d) = {}
    BY <1>1, <2>1 DEF Senders, MaySend, Notices!Init
  <2>3. Cardinality(Senders(d)) = 0
    BY <2>2, FS_EmptySet
  <2>4. noticeSent[d] = 0 /\ noticeDoubts[d] = 0
    BY DEF Notices!Init
  <2> QED BY <2>3, <2>4 DEF Accounted, One
<1> QED BY <1>3, <1>4 DEF NoticeInv

\* One process goes on to another claim or answer.
LEMMA SendersChange ==
  ASSUME NoticeTypes, NEW p \in Notices!Processes, NEW c, noticeProcess' = [noticeProcess EXCEPT ![p] = c], NEW d
  PROVE  Cardinality(Senders(d)') = Cardinality(Senders(d)) + One(MaySend(c, d)) - One(MaySend(noticeProcess[p], d))
<1>1. DOMAIN noticeProcess = Notices!Processes
  BY DEF NoticeTypes
<1>2. IsFiniteSet(Senders(d)) /\ Cardinality(Senders(d)) \in Nat
  BY SendersFinite
<1>3. \A q \in Notices!Processes : q # p => noticeProcess'[q] = noticeProcess[q]
  BY <1>1
<1>4. noticeProcess'[p] = c
  BY <1>1
<1>5. CASE MaySend(c, d) /\ MaySend(noticeProcess[p], d)
  <2>1. Senders(d)' = Senders(d)
    BY <1>3, <1>4, <1>5 DEF Senders, MaySend
  <2> QED BY <1>2, <1>5, <2>1 DEF One
<1>6. CASE MaySend(c, d) /\ ~MaySend(noticeProcess[p], d)
  <2>1. Senders(d)' = Senders(d) \cup {p} /\ p \notin Senders(d)
    BY <1>3, <1>4, <1>6 DEF Senders, MaySend
  <2> QED BY <1>2, <1>6, <2>1, FS_AddElement DEF One
<1>7. CASE ~MaySend(c, d) /\ MaySend(noticeProcess[p], d)
  <2>1. Senders(d)' = Senders(d) \ {p} /\ p \in Senders(d)
    BY <1>3, <1>4, <1>7 DEF Senders, MaySend
  <2> QED BY <1>2, <1>7, <2>1, FS_RemoveElement DEF One
<1>8. CASE ~MaySend(c, d) /\ ~MaySend(noticeProcess[p], d)
  <2>1. Senders(d)' = Senders(d)
    BY <1>3, <1>4, <1>8 DEF Senders, MaySend
  <2> QED BY <1>2, <1>8, <2>1 DEF One
<1> QED BY <1>5, <1>6, <1>7, <1>8

\* A step may move a chance to send, or lose it, or answer for it by a doubt.
LEMMA ChancesKept ==
  ASSUME NoticeInv, NoticeTypes', NEW p \in Notices!Processes, NEW c, noticeProcess' = [noticeProcess EXCEPT ![p] = c],
         \A d \in Notices!DeviceSet :
           noticeSent'[d] + One(MaySend(c, d)) + One(Due(d)') + noticeDoubts[d]
             <= noticeSent[d] + One(MaySend(noticeProcess[p], d)) + One(Due(d)) + noticeDoubts'[d]
  PROVE  NoticeInv'
<1>1. ASSUME NEW d \in Notices!DeviceSet PROVE Accounted(d)'
  <2>1. /\ noticeSent[d] \in Nat /\ noticeSent'[d] \in Nat /\ noticeDoubts[d] \in Nat /\ noticeDoubts'[d] \in Nat
    BY DEF NoticeInv, NoticeTypes
  <2>2. /\ One(MaySend(c, d)) \in Nat /\ One(MaySend(noticeProcess[p], d)) \in Nat
        /\ One(Due(d)) \in Nat /\ One(Due(d)') \in Nat
    BY DEF One
  <2>3. Cardinality(Senders(d)) \in Nat
    BY SendersFinite
  <2>4. Cardinality(Senders(d)') = Cardinality(Senders(d)) + One(MaySend(c, d)) - One(MaySend(noticeProcess[p], d))
    BY SendersChange DEF NoticeInv
  <2>5. noticeSent[d] + Cardinality(Senders(d)) + One(Due(d)) <= 1 + noticeDoubts[d]
    BY DEF NoticeInv, Accounted
  <2>6. noticeSent'[d] + Cardinality(Senders(d)') + One(Due(d)') <= 1 + noticeDoubts'[d]
    BY <2>1, <2>2, <2>3, <2>4, <2>5
  <2>7. One(Due(d))' = One(Due(d)')
    BY DEF One
  <2> QED BY <2>6, <2>7 DEF Accounted
<1> QED BY <1>1 DEF NoticeInv

\* A step of no process makes nothing due.
LEMMA RestKept ==
  ASSUME NoticeInv, UNCHANGED <<noticeProcess, noticeSent, noticeDoubts>>, noticeDelivery' \in [Notices!DeviceSet -> NoticeRow],
         \A d \in Notices!DeviceSet : Due(d)' => Due(d)
  PROVE  NoticeInv'
<1>1. NoticeTypes'
  BY DEF NoticeInv, NoticeTypes
<1>2. ASSUME NEW d \in Notices!DeviceSet PROVE Accounted(d)'
  <2>1. Senders(d)' = Senders(d)
    BY DEF Senders
  <2>2. One(Due(d)') <= One(Due(d)) /\ One(Due(d)) \in Nat /\ One(Due(d)') \in Nat
    BY DEF One
  <2>3. noticeSent[d] \in Nat /\ noticeDoubts[d] \in Nat /\ Cardinality(Senders(d)) \in Nat
    BY SendersFinite DEF NoticeInv, NoticeTypes
  <2>4. noticeSent[d] + Cardinality(Senders(d)) + One(Due(d)) <= 1 + noticeDoubts[d]
    BY DEF NoticeInv, Accounted
  <2>5. noticeSent'[d] + Cardinality(Senders(d)') + One(Due(d)') <= 1 + noticeDoubts'[d]
    BY <2>1, <2>2, <2>3, <2>4
  <2>6. One(Due(d))' = One(Due(d)')
    BY DEF One
  <2> QED BY <2>5, <2>6 DEF Accounted
<1> QED BY <1>1, <1>2 DEF NoticeInv

LEMMA ClaimKeeps ==
  ASSUME NoticeInv, NEW p \in Notices!Processes, NEW d \in Notices!DeviceSet, Notices!ClaimDelivery(p, d),
         UNCHANGED <<noticeSent, noticeDoubts>>
  PROVE  NoticeInv'
<1> DEFINE c == [delivery |-> d, answer |-> "NONE"]
<1>1. NoticeTypes /\ d # "NONE"
  BY NoticeAssumption DEF NoticeInv
<1>2. /\ noticeDelivery[d].status = "QUEUED" /\ noticeProcess[p] = [delivery |-> "NONE", answer |-> "NONE"]
      /\ noticeDelivery' = [noticeDelivery EXCEPT ![d] = [noticeDelivery[d] EXCEPT !.status = "SENDING"]]
      /\ noticeProcess' = [noticeProcess EXCEPT ![p] = c] /\ noticeLapsed' = noticeLapsed \ {d}
  BY DEF Notices!ClaimDelivery, Notices!Idle
<1>3. noticeDelivery' \in [Notices!DeviceSet -> NoticeRow]
  <2>1. noticeDelivery[d] \in NoticeRow
    BY <1>1 DEF NoticeTypes
  <2>2. [noticeDelivery[d] EXCEPT !.status = "SENDING"] \in NoticeRow
    BY <2>1 DEF NoticeRow
  <2> QED BY <1>1, <1>2, <2>2 DEF NoticeTypes
<1>4. c \in NoticeClaim
  BY DEF NoticeClaim
<1>5. NoticeTypes'
  BY <1>1, <1>2, <1>3, <1>4 DEF NoticeTypes
<1>6. ~(Due(d)') /\ Due(d) /\ MaySend(c, d) /\ ~MaySend(noticeProcess[p], d)
  <2>1. noticeDelivery[d] \in NoticeRow
    BY <1>1 DEF NoticeTypes
  <2>2. [noticeDelivery[d] EXCEPT !.status = "SENDING"].status = "SENDING"
    BY <2>1 DEF NoticeRow
  <2> QED BY <1>1, <1>2, <2>2 DEF NoticeTypes, Due, MaySend
<1>7. ASSUME NEW e \in Notices!DeviceSet, e # d
      PROVE  (Due(e)' <=> Due(e)) /\ ~MaySend(c, e) /\ ~MaySend(noticeProcess[p], e)
  <2>1. e # "NONE"
    BY NoticeAssumption
  <2> QED BY <1>1, <1>2, <1>7, <2>1 DEF NoticeTypes, Due, MaySend
<1>8. ASSUME NEW e \in Notices!DeviceSet
      PROVE  noticeSent'[e] + One(MaySend(c, e)) + One(Due(e)') + noticeDoubts[e]
               <= noticeSent[e] + One(MaySend(noticeProcess[p], e)) + One(Due(e)) + noticeDoubts'[e]
  <2>1. noticeSent[e] \in Nat /\ noticeDoubts[e] \in Nat
    BY <1>1 DEF NoticeTypes
  <2> QED BY <1>6, <1>7, <2>1 DEF One
<1> QED BY <1>2, <1>5, <1>8, ChancesKept

LEMMA SendKeeps ==
  ASSUME NoticeInv, NEW p \in Notices!Processes, Notices!Send(p)
  PROVE  NoticeInv'
<1> DEFINE d == noticeProcess[p].delivery
<1>1. NoticeTypes /\ noticeProcess[p] \in NoticeClaim
  BY DEF NoticeInv, NoticeTypes
<1>2. d \in Notices!DeviceSet /\ d # "NONE" /\ noticeProcess[p].answer = "NONE"
  BY <1>1 DEF NoticeClaim, Notices!Send
<1>3. UNCHANGED <<noticeDelivery, noticeLapsed>>
  BY DEF Notices!Send
<1>4. PICK a \in {"SENT", "FAILED", "RETRY"} :
        /\ noticeProcess' = [noticeProcess EXCEPT ![p] = [noticeProcess[p] EXCEPT !.answer = a]]
        /\ \/ a = "SENT" /\ noticeSent' = [noticeSent EXCEPT ![d] = noticeSent[d] + 1] /\ UNCHANGED noticeDoubts
           \/ UNCHANGED <<noticeSent, noticeDoubts>>
           \/ /\ a = "RETRY" /\ noticeSent' = [noticeSent EXCEPT ![d] = noticeSent[d] + 1]
              /\ noticeDoubts' = [noticeDoubts EXCEPT ![d] = noticeDoubts[d] + 1]
  BY DEF Notices!Send, Notices!Answered
<1> DEFINE c == [noticeProcess[p] EXCEPT !.answer = a]
<1>5. c \in NoticeClaim /\ c.delivery = d /\ c.answer = a
  BY <1>1 DEF NoticeClaim
<1>6. NoticeTypes'
  <2>1. noticeProcess' \in [Notices!Processes -> NoticeClaim]
    BY <1>1, <1>4, <1>5 DEF NoticeTypes
  <2>2. noticeSent' \in [Notices!DeviceSet -> Nat] /\ noticeDoubts' \in [Notices!DeviceSet -> Nat]
    BY <1>1, <1>2, <1>4 DEF NoticeTypes
  <2>3. \A q \in Notices!Processes : noticeProcess'[q].delivery = "NONE" => noticeProcess'[q].answer = "NONE"
    BY <1>1, <1>2, <1>4, <1>5 DEF NoticeTypes
  <2> QED BY <1>1, <1>3, <2>1, <2>2, <2>3 DEF NoticeTypes
<1>7. MaySend(noticeProcess[p], d) /\ (MaySend(c, d) <=> a = "RETRY")
  BY <1>2, <1>5 DEF MaySend
<1>8. ASSUME NEW e \in Notices!DeviceSet
      PROVE  noticeSent'[e] + One(MaySend(c, e)) + One(Due(e)') + noticeDoubts[e]
               <= noticeSent[e] + One(MaySend(noticeProcess[p], e)) + One(Due(e)) + noticeDoubts'[e]
  <2>1. noticeSent[e] \in Nat /\ noticeDoubts[e] \in Nat
    BY <1>1 DEF NoticeTypes
  <2>2. Due(e)' <=> Due(e)
    BY <1>3 DEF Due
  <2>3. One(Due(e)') = One(Due(e)) /\ One(Due(e)) \in Nat
    BY <2>2 DEF One
  <2>4. CASE e = d
    <3>1. /\ DOMAIN noticeSent = Notices!DeviceSet /\ DOMAIN noticeDoubts = Notices!DeviceSet
      BY <1>1 DEF NoticeTypes
    <3>2. One(MaySend(noticeProcess[p], e)) = 1 /\ One(MaySend(c, e)) = One(a = "RETRY")
      BY <1>7, <2>4 DEF One
    <3>3. \/ a = "SENT" /\ noticeSent'[e] = noticeSent[e] + 1 /\ noticeDoubts'[e] = noticeDoubts[e]
          \/ noticeSent'[e] = noticeSent[e] /\ noticeDoubts'[e] = noticeDoubts[e]
          \/ noticeSent'[e] = noticeSent[e] + 1 /\ noticeDoubts'[e] = noticeDoubts[e] + 1
      BY <1>2, <1>4, <2>4, <3>1
    <3> QED BY <2>1, <2>3, <3>2, <3>3 DEF One
  <2>5. CASE e # d
    <3>1. ~MaySend(noticeProcess[p], e) /\ ~MaySend(c, e)
      BY <1>5, <2>5 DEF MaySend
    <3>2. noticeSent'[e] = noticeSent[e] /\ noticeDoubts'[e] = noticeDoubts[e]
      BY <1>1, <1>4, <2>5 DEF NoticeTypes
    <3> QED BY <2>1, <2>3, <3>1, <3>2 DEF One
  <2> QED BY <2>4, <2>5
<1> QED BY <1>4, <1>6, <1>8, ChancesKept

LEMMA UpdateKeeps ==
  ASSUME NoticeInv, NEW p \in Notices!Processes, noticeProcess[p].answer # "NONE", Notices!UpdateDelivery(p),
         UNCHANGED <<noticeSent, noticeDoubts>>
  PROVE  NoticeInv'
<1> DEFINE d == noticeProcess[p].delivery
           a == noticeProcess[p].answer
           n == noticeDelivery[d].attempts
           c == Notices!Idle
<1>1. NoticeTypes /\ noticeProcess[p] \in NoticeClaim
  BY DEF NoticeInv, NoticeTypes
<1>2. d \in Notices!DeviceSet /\ d # "NONE" /\ a \in {"SENT", "FAILED", "RETRY"}
  BY <1>1 DEF NoticeClaim, NoticeTypes
<1>3. noticeDelivery[d] \in NoticeRow /\ n \in Nat
  BY <1>1, <1>2 DEF NoticeTypes, NoticeRow
<1>4. c \in NoticeClaim /\ c.delivery = "NONE" /\ c.answer = "NONE"
  BY DEF NoticeClaim, Notices!Idle
<1>5. noticeProcess' = [noticeProcess EXCEPT ![p] = c]
  BY DEF Notices!UpdateDelivery
<1>6. \/ UNCHANGED <<noticeDelivery, noticeLapsed>>
      \/ /\ noticeDelivery[d].status = "SENDING" /\ noticeLapsed' = noticeLapsed \ {d}
         /\ \E r \in NoticeRow : /\ noticeDelivery' = [noticeDelivery EXCEPT ![d] = r]
                                 /\ r.status = IF a = "RETRY" THEN "QUEUED" ELSE a
  <2>1. CASE noticeDelivery[d].status # "SENDING"
    BY <2>1 DEF Notices!UpdateDelivery
  <2>2. CASE noticeDelivery[d].status = "SENDING"
    <3> DEFINE r == IF a = "RETRY" THEN [status |-> "QUEUED", attempts |-> IF n < MaxClaims THEN n + 1 ELSE n]
                                   ELSE [status |-> a, attempts |-> n]
    <3>1. r \in NoticeRow /\ r.status = IF a = "RETRY" THEN "QUEUED" ELSE a
      BY <1>2, <1>3 DEF NoticeRow
    <3>2. noticeDelivery' = [noticeDelivery EXCEPT ![d] = r] /\ noticeLapsed' = noticeLapsed \ {d}
      BY <2>2 DEF Notices!UpdateDelivery
    <3> QED BY <2>2, <3>1, <3>2
  <2> QED BY <2>1, <2>2
<1>7. NoticeTypes'
  <2>1. noticeProcess' \in [Notices!Processes -> NoticeClaim]
    BY <1>1, <1>4, <1>5 DEF NoticeTypes
  <2>2. noticeDelivery' \in [Notices!DeviceSet -> NoticeRow]
    BY <1>1, <1>2, <1>6 DEF NoticeTypes
  <2>3. \A q \in Notices!Processes : noticeProcess'[q].delivery = "NONE" => noticeProcess'[q].answer = "NONE"
    BY <1>1, <1>4, <1>5 DEF NoticeTypes
  <2> QED BY <1>1, <2>1, <2>2, <2>3 DEF NoticeTypes
<1>8. ASSUME NEW e \in Notices!DeviceSet
      PROVE  noticeSent'[e] + One(MaySend(c, e)) + One(Due(e)') + noticeDoubts[e]
               <= noticeSent[e] + One(MaySend(noticeProcess[p], e)) + One(Due(e)) + noticeDoubts'[e]
  <2>1. noticeSent[e] \in Nat /\ noticeDoubts[e] \in Nat
    BY <1>1 DEF NoticeTypes
  <2>2. ~MaySend(c, e)
    BY <1>4, NoticeAssumption DEF MaySend
  <2>3. Due(e)' => Due(e) \/ MaySend(noticeProcess[p], e)
    <3>1. CASE UNCHANGED <<noticeDelivery, noticeLapsed>>
      BY <3>1 DEF Due
    <3>2. CASE e # d
      BY <1>1, <1>6, <3>2 DEF NoticeTypes, Due
    <3>3. CASE e = d /\ noticeLapsed' = noticeLapsed \ {d} /\ a = "RETRY"
      BY <3>3 DEF MaySend
    <3>4. CASE e = d /\ a # "RETRY" /\ \E r \in NoticeRow : noticeDelivery' = [noticeDelivery EXCEPT ![d] = r] /\ r.status = a
      BY <1>1, <1>2, <3>4 DEF NoticeTypes, Due
    <3> QED BY <1>2, <1>6, <3>1, <3>2, <3>3, <3>4
  <2> QED BY <2>1, <2>2, <2>3 DEF One
<1> QED BY <1>5, <1>7, <1>8, ChancesKept

LEMMA StrayKeeps ==
  ASSUME NoticeInv, NEW p \in Notices!Processes, Notices!Stray(p)
  PROVE  NoticeInv'
<1> DEFINE d == noticeProcess[p].delivery
<1>1. NoticeTypes /\ noticeProcess[p] \in NoticeClaim
  BY DEF NoticeInv, NoticeTypes
<1>2. d \in Notices!DeviceSet
  BY <1>1 DEF NoticeClaim, Notices!Stray
<1>3. Notices!Idle \in NoticeClaim /\ Notices!Idle.delivery = "NONE" /\ Notices!Idle.answer = "NONE"
  BY DEF NoticeClaim, Notices!Idle
<1>4. /\ noticeDoubts' = [noticeDoubts EXCEPT ![d] = noticeDoubts[d] + 1] /\ UNCHANGED <<noticeDelivery, noticeSent>>
      /\ noticeLapsed' \in {noticeLapsed, noticeLapsed \cup {d}}
  BY DEF Notices!Stray
<1>5. PICK c \in {noticeProcess[p], Notices!Idle} : noticeProcess' = [noticeProcess EXCEPT ![p] = c]
  <2>1. CASE noticeProcess' = [noticeProcess EXCEPT ![p] = Notices!Idle]
    BY <2>1
  <2>2. CASE noticeProcess' = noticeProcess
    BY <1>1, <2>2 DEF NoticeTypes
  <2> QED BY <2>1, <2>2 DEF Notices!Stray
<1>6. NoticeTypes'
  <2>1. noticeProcess' \in [Notices!Processes -> NoticeClaim]
    BY <1>1, <1>3, <1>5 DEF NoticeTypes
  <2>2. noticeDoubts' \in [Notices!DeviceSet -> Nat]
    BY <1>1, <1>2, <1>4 DEF NoticeTypes
  <2>3. \A q \in Notices!Processes : noticeProcess'[q].delivery = "NONE" => noticeProcess'[q].answer = "NONE"
    BY <1>1, <1>3, <1>5 DEF NoticeTypes
  <2> QED BY <1>1, <1>4, <2>1, <2>2, <2>3 DEF NoticeTypes
<1>7. ASSUME NEW e \in Notices!DeviceSet
      PROVE  noticeSent'[e] + One(MaySend(c, e)) + One(Due(e)') + noticeDoubts[e]
               <= noticeSent[e] + One(MaySend(noticeProcess[p], e)) + One(Due(e)) + noticeDoubts'[e]
  <2>1. noticeSent[e] \in Nat /\ noticeDoubts[e] \in Nat /\ noticeSent'[e] = noticeSent[e]
    BY <1>1, <1>4 DEF NoticeTypes
  <2>2. MaySend(c, e) => MaySend(noticeProcess[p], e)
    BY <1>3, <1>5, NoticeAssumption DEF MaySend
  <2>3. One(MaySend(c, e)) <= One(MaySend(noticeProcess[p], e)) /\ One(MaySend(c, e)) \in Nat /\ One(MaySend(noticeProcess[p], e)) \in Nat
    BY <2>2 DEF One
  <2>4. CASE e = d
    <3>1. noticeDoubts'[e] = noticeDoubts[e] + 1
      BY <1>1, <1>2, <1>4, <2>4 DEF NoticeTypes
    <3>2. One(Due(e)') \in 0..1 /\ One(Due(e)) \in 0..1
      BY DEF One
    <3> QED BY <2>1, <2>3, <3>1, <3>2
  <2>5. CASE e # d
    <3>1. noticeDoubts'[e] = noticeDoubts[e]
      BY <1>1, <1>4, <2>5 DEF NoticeTypes
    <3>2. Due(e)' <=> Due(e)
      BY <1>4, <2>5 DEF Due
    <3>3. One(Due(e)') = One(Due(e)) /\ One(Due(e)) \in Nat
      BY <3>2 DEF One
    <3> QED BY <2>1, <2>3, <3>1, <3>3
  <2> QED BY <2>4, <2>5
<1> QED BY <1>5, <1>6, <1>7, ChancesKept

\* Recovery, queueing, receipts, and what concerns no delivery.
LEMMA OthersKeep ==
  ASSUME NoticeInv,
         \/ Notices!Preference \/ Notices!Hand \/ UNCHANGED Notices!vars
         \/ \E e \in 0..1, on \in BOOLEAN : Notices!UpdatePreference(e, on)
         \/ \E d \in Notices!DeviceSet : \/ Notices!Recover(d) \/ Notices!Queue(d)
                                          \/ \E on \in BOOLEAN : Notices!SetDevice(d, on)
                                          \/ \E s \in {"DELIVERED", "FAILED"} : Notices!RecordReceipt(d, s)
  PROVE  NoticeInv'
<1>1. NoticeTypes
  BY DEF NoticeInv
<1>2. UNCHANGED <<noticeProcess, noticeSent, noticeDoubts>>
  BY DEF Notices!Preference, Notices!Hand, Notices!UpdatePreference, Notices!Recover, Notices!Queue, Notices!SetDevice,
         Notices!RecordReceipt, Notices!vars
<1>3. CASE UNCHANGED <<noticeDelivery, noticeLapsed>>
  <2>1. \A d \in Notices!DeviceSet : Due(d)' => Due(d)
    BY <1>3 DEF Due
  <2> QED BY <1>1, <1>2, <1>3, <2>1, RestKept DEF NoticeTypes
<1>4. ASSUME NEW d \in Notices!DeviceSet, NEW r \in NoticeRow, noticeDelivery' = [noticeDelivery EXCEPT ![d] = r],
             noticeLapsed' \subseteq noticeLapsed, Due(d) \/ r.status \in {"DELIVERED", "FAILED"}
      PROVE  NoticeInv'
  <2>1. noticeDelivery' \in [Notices!DeviceSet -> NoticeRow]
    BY <1>1, <1>4 DEF NoticeTypes
  <2>2. \A e \in Notices!DeviceSet : Due(e)' => Due(e)
    BY <1>1, <1>4 DEF NoticeTypes, Due
  <2> QED BY <1>2, <2>1, <2>2, RestKept
<1>5. \A d \in Notices!DeviceSet : noticeDelivery[d] \in NoticeRow
  BY <1>1 DEF NoticeTypes
<1>6. ASSUME NEW d \in Notices!DeviceSet, Notices!Recover(d) PROVE NoticeInv'
  <2> DEFINE k == noticeDelivery[d]
             r == [status |-> IF k.attempts >= MaxClaims - 1 THEN "FAILED" ELSE "QUEUED",
                   attempts |-> IF k.attempts < MaxClaims THEN k.attempts + 1 ELSE k.attempts]
  <2>1. r \in NoticeRow
    BY <1>5 DEF NoticeRow
  <2>2. noticeDelivery' = [noticeDelivery EXCEPT ![d] = r] /\ noticeLapsed' = noticeLapsed \ {d} /\ Due(d)
    BY <1>6 DEF Notices!Recover, Due
  <2> QED BY <1>4, <2>1, <2>2
<1>7. ASSUME NEW d \in Notices!DeviceSet, Notices!Queue(d) PROVE NoticeInv'
  <2> DEFINE r == [noticeDelivery[d] EXCEPT !.status = IF Notices!allowed THEN "QUEUED" ELSE "SUPPRESSED"]
  <2>1. r \in NoticeRow
    BY <1>5 DEF NoticeRow
  <2>2. noticeDelivery' = [noticeDelivery EXCEPT ![d] = r] /\ noticeLapsed' = noticeLapsed /\ Due(d)
    BY <1>7 DEF Notices!Queue, Due
  <2> QED BY <1>4, <2>1, <2>2
<1>8. ASSUME NEW d \in Notices!DeviceSet, NEW s \in {"DELIVERED", "FAILED"}, Notices!RecordReceipt(d, s) PROVE NoticeInv'
  <2> DEFINE r == [noticeDelivery[d] EXCEPT !.status = s]
  <2>1. r \in NoticeRow /\ r.status = s
    BY <1>5 DEF NoticeRow
  <2>2. noticeDelivery' = [noticeDelivery EXCEPT ![d] = r] /\ noticeLapsed' = noticeLapsed
    BY <1>8 DEF Notices!RecordReceipt
  <2> QED BY <1>4, <2>1, <2>2
<1>9. ASSUME \/ Notices!Preference \/ Notices!Hand \/ UNCHANGED Notices!vars
             \/ \E e \in 0..1, on \in BOOLEAN : Notices!UpdatePreference(e, on)
             \/ \E d \in Notices!DeviceSet, on \in BOOLEAN : Notices!SetDevice(d, on)
      PROVE  UNCHANGED <<noticeDelivery, noticeLapsed>>
  BY <1>9 DEF Notices!Preference, Notices!Hand, Notices!UpdatePreference, Notices!SetDevice, Notices!vars
<1> QED BY <1>3, <1>6, <1>7, <1>8, <1>9

LEMMA NoticeNext == NoticeInv /\ [Notices!Next]_(Notices!vars) => NoticeInv'
<1> SUFFICES ASSUME NoticeInv, [Notices!Next]_(Notices!vars) PROVE NoticeInv'
  OBVIOUS
<1>1. "NOTIFIER" \in Notices!Processes /\ Loops \subseteq Notices!Processes
  BY DEF Notices!Processes, Notices!Notifier
<1>2. ASSUME NEW d \in Notices!DeviceSet, Notices!NotifierProcesses(d) PROVE NoticeInv'
  <2>1. UNCHANGED <<noticeSent, noticeDoubts>>
    BY <1>2 DEF Notices!NotifierProcesses
  <2>2. CASE Notices!ClaimDelivery("NOTIFIER", d)
    BY <1>1, <2>1, <2>2, ClaimKeeps
  <2>3. CASE UNCHANGED <<noticeDelivery, noticeLapsed, noticeProcess>>
    <3>1. \A e \in Notices!DeviceSet : Due(e)' => Due(e)
      BY <2>3 DEF Due
    <3> QED BY <2>1, <2>3, <3>1, RestKept DEF NoticeInv, NoticeTypes
  <2> QED BY <1>2, <2>2, <2>3 DEF Notices!NotifierProcesses, Notices!Notifier
<1>3. ASSUME NEW p \in Notices!Processes, NEW d \in Notices!DeviceSet, Notices!LoopClaims(p, d) PROVE NoticeInv'
  BY <1>3, ClaimKeeps DEF Notices!LoopClaims
<1>4. ASSUME NEW p \in Notices!Processes, Notices!LoopUpdates(p) PROVE NoticeInv'
  BY <1>4, UpdateKeeps DEF Notices!LoopUpdates
<1>5. ASSUME Notices!NotifierUpdates PROVE NoticeInv'
  BY <1>1, <1>5, UpdateKeeps DEF Notices!NotifierUpdates, Notices!Notifier
<1> QED BY <1>2, <1>3, <1>4, <1>5, SendKeeps, StrayKeeps, OthersKeep DEF Notices!Next

\* internal/notification: a device gets a message once, and once more at most for
\* every answer, process or claim that was lost (ClaimDelivery, UpdateDelivery).
THEOREM SendsKept == Notices!Spec => []Notices!SendsAccounted
BY NoticeInit, NoticeNext, NoticeImplies, PTL DEF Notices!Spec

\* internal/messaging and internal/notification: events take effect in order (Begin),
\* and messages are sent once but for the doubts (ClaimDelivery).
THEOREM MessagesAccounted == Bus!Spec /\ Notices!Spec => []DeliveriesAccounted
BY EffectsInOrder, SendsKept, PTL DEF DeliveriesAccounted

----------------------------------------------------------------------------
(* The customer web session store (internal/customerweb).  The invariant   *)
(* is custody.  A login that is not settled, that is, that the identity    *)
(* service honours and that no crash, lost answer or outlived lease        *)
(* excuses, is in one row at most and, once granted and unless its answer  *)
(* was thrown away (then nobody has it), in a row or with a request that   *)
(* will write or revoke it.  The row has the token that the                *)
(* identity service expects, unless a request has the row's lease and is   *)
(* about to replace the row; so whoever presents a token has the lease and *)
(* presents the newest one.                                                *)


\* The shapes of requests, rows and logins.
Held == 0..MaxLogins
Asks == [at : {"ASK"}, op : {"CREATE"}, mode : {"GUEST", "AUTHENTICATED"}, cookie : 0..MaxCookies, login : Held]
Writes == [at : {"WRITE"}, op : {"CREATE"}, cookie : 0..MaxCookies, login : Held, new : Held]
Revokes == [at : {"REVOKE"}, op : {"CREATE"}, login : Held, made : Browsers!Cookies]
Refreshes == [at : {"ACQUIRE", "PRESENT", "REPLACE"}, op : {"REFRESH"}, cookie : Browsers!Cookies, login : Browsers!Logins, rotation : Nat]
Deletes == [at : {"REVOKE", "DELETE"}, op : {"DELETE"}, cookie : Browsers!Cookies, login : Held]
WebRequest == {Browsers!Idle} \cup Asks \cup Writes \cup Revokes \cup Refreshes \cup Deletes
FullRow == [is : {"ROW"}, login : Held, rotation : Nat, lease : {"FREE", "HELD", "LAPSED"}, expired : BOOLEAN]
WebRow == {Browsers!NoRow} \cup FullRow
WebLogin == [granted : BOOLEAN, rotation : Nat, ended : BOOLEAN]

\* What a request has: a login, a cookie, a lease on the row of that cookie,
\* a login that nobody else has.
Bearing(q) == q.at # "IDLE"
Revoking(q) == q.at = "REVOKE" /\ q.op = "CREATE"
Looking(q) == q.at # "IDLE" /\ ~Revoking(q)
Refreshing(q) == q.at \in {"ACQUIRE", "PRESENT", "REPLACE"}
Leased(q) == q.at \in {"PRESENT", "REPLACE"}
Has(q, l) == \/ q.at = "WRITE" /\ q.new = l
             \/ q.at = "REPLACE" /\ q.login = l
             \/ Revoking(q) /\ q.login = l
Row(c) == webRow[c].is = "ROW"

\* Everything has its shape; only excused logins were ended for reuse.
WebTypes ==
  /\ webRow \in [Browsers!Cookies -> WebRow] /\ webBrowser \in 0..webMinted /\ webMinted \in 0..MaxCookies
  /\ webLogin \in [Browsers!Logins -> WebLogin] /\ webRequest \in [WebRequests -> WebRequest]
  /\ webReused \subseteq webExcused /\ webExcused \subseteq Browsers!Logins /\ webDropped \subseteq Browsers!Logins

\* Rows and requests only know cookies that were minted.
Minted ==
  /\ \A c \in Browsers!Cookies : Row(c) => c <= webMinted
  /\ \A s \in WebRequests : /\ Looking(webRequest[s]) => webRequest[s].cookie <= webMinted
                            /\ Revoking(webRequest[s]) => webRequest[s].made <= webMinted

\* What a request read of its row, the login, is still the row's.
ReadOf ==
  \A s \in WebRequests : Looking(webRequest[s]) /\ webRequest[s].cookie # 0 /\ Row(webRequest[s].cookie) =>
    webRow[webRequest[s].cookie].login = webRequest[s].login

\* Nobody has a login that was not granted yet.
Granted ==
  \A l \in Browsers!Logins : webLogin[l].granted \/
    /\ webLogin[l].rotation = 0
    /\ \A c \in Browsers!Cookies : Row(c) => webRow[c].login # l
    /\ \A s \in WebRequests : /\ webRequest[s].at = "WRITE" => webRequest[s].new # l
                              /\ Bearing(webRequest[s]) => webRequest[s].login # l

\* The identity service no longer honours the login, or its loss is excused.
Settled(l) == l \in webExcused \/ webLogin[l].ended

\* The parts of custody, for a login that is not settled: one row has it;
\* a login that is about to be written is nowhere else; one request has the
\* lease of its row; that request read the newest token; the row has a newest
\* token, or its lease-holder is about to replace it; nobody deletes the row.
InOneRow(l) == \A c, d \in Browsers!Cookies : Row(c) /\ Row(d) /\ webRow[c].login = l /\ webRow[d].login = l => c = d
NewIsNew(l) ==
  \A s \in WebRequests : webRequest[s].at = "WRITE" /\ webRequest[s].new = l =>
    /\ webLogin[l].rotation = 0
    /\ \A c \in Browsers!Cookies : Row(c) => webRow[c].login # l
    /\ \A t \in WebRequests : /\ webRequest[t].at = "WRITE" /\ webRequest[t].new = l => s = t
                              /\ Bearing(webRequest[t]) => webRequest[t].login # l
OneLease(l) == \A s, t \in WebRequests : Leased(webRequest[s]) /\ Leased(webRequest[t])
                 /\ webRequest[s].login = l /\ webRequest[t].login = l => s = t
ReadFresh(l) ==
  \A s \in WebRequests : Refreshing(webRequest[s]) /\ webRequest[s].login = l =>
    /\ Row(webRequest[s].cookie) => webRow[webRequest[s].cookie].rotation = webRequest[s].rotation
    /\ webRequest[s].at = "PRESENT" => webRequest[s].rotation = webLogin[l].rotation
    /\ webRequest[s].at = "REPLACE" => webRequest[s].rotation + 1 = webLogin[l].rotation
LeaseHeld(l) ==
  \A s \in WebRequests : Leased(webRequest[s]) /\ webRequest[s].login = l =>
    /\ Row(webRequest[s].cookie) => webRow[webRequest[s].cookie].lease = "HELD"
    /\ ~Row(webRequest[s].cookie) => \A c \in Browsers!Cookies : Row(c) => webRow[c].login # l
RowFresh(l) ==
  \A c \in Browsers!Cookies : Row(c) /\ webRow[c].login = l =>
    /\ ~webRow[c].expired
    /\ \/ webRow[c].rotation = webLogin[l].rotation
       \/ webRow[c].lease = "HELD" /\ \E s \in WebRequests : webRequest[s].at = "REPLACE" /\ webRequest[s].cookie = c
NotDeleted(l) == \A s \in WebRequests : webRequest[s].at = "DELETE" => webRequest[s].login # l

\* Every login that is not settled is in one custody at a time.
Custody == \A l \in Browsers!Logins : ~Settled(l) =>
  InOneRow(l) /\ NewIsNew(l) /\ OneLease(l) /\ ReadFresh(l) /\ LeaseHeld(l) /\ RowFresh(l) /\ NotDeleted(l)

\* A granted login that is neither settled nor dropped is in a row or with a request.
Kept == \A l \in Browsers!Logins : ~Settled(l) /\ l \notin webDropped /\ webLogin[l].granted =>
  \/ \E c \in Browsers!Cookies : Row(c) /\ webRow[c].login = l
  \/ \E s \in WebRequests : Has(webRequest[s], l)

\* The inductive invariant.
WebInv == WebTypes /\ Minted /\ ReadOf /\ Granted /\ Custody /\ Kept

\* What the shapes say field by field, as the provers use them.
Facts(q) ==
  /\ q.at \in {"IDLE", "ASK", "WRITE", "REVOKE", "ACQUIRE", "PRESENT", "REPLACE", "DELETE"}
  /\ Bearing(q) => q.login \in Held
  /\ q.at \in {"ASK", "WRITE"} => q.cookie \in 0..MaxCookies
  /\ Looking(q) /\ q.at \notin {"ASK", "WRITE"} => q.cookie \in Browsers!Cookies
  /\ q.at = "WRITE" => q.new \in Held /\ q \in Writes
  /\ Revoking(q) => q.made \in Browsers!Cookies /\ q \in Revokes
  /\ q.at = "REVOKE" /\ q.op = "DELETE" => q \in Deletes
  /\ Refreshing(q) => q \in Refreshes /\ q.login \in Browsers!Logins /\ q.rotation \in Nat
  /\ q.at = "ASK" => q \in Asks
  /\ q.at = "IDLE" => q = Browsers!Idle
RowFacts(x) == x.is = "ROW" =>
  /\ x \in FullRow /\ x.login \in Held /\ x.rotation \in Nat /\ x.expired \in BOOLEAN
  /\ x.lease \in {"FREE", "HELD", "LAPSED"}

Light(q) ==
  /\ Refreshing(q) => q.cookie \in Browsers!Cookies /\ q.rotation \in Nat /\ q.login \in Browsers!Logins
  /\ Looking(q) => q.cookie \in 0..MaxCookies
  /\ q.at = "DELETE" => q.cookie \in Browsers!Cookies

\* A request in its shape has the fields that its step reads.
LEMMA Shapes ==
  ASSUME NEW q \in WebRequest
  PROVE  Facts(q)
<1>. USE PlatformAssumption DEF Facts, Bearing, Revoking, Looking, Refreshing, Browsers!Cookies, Browsers!Logins
<1>1. CASE q = Browsers!Idle
  BY <1>1 DEF Browsers!Idle
<1>2. CASE q \in Asks
  BY <1>2 DEF Asks, Held
<1>3. CASE q \in Writes
  BY <1>3 DEF Writes, Held
<1>4. CASE q \in Revokes
  BY <1>4 DEF Revokes, Held
<1>5. CASE q \in Refreshes
  BY <1>5 DEF Refreshes, Held
<1>6. CASE q \in Deletes
  BY <1>6 DEF Deletes, Held
<1>. QED BY <1>1, <1>2, <1>3, <1>4, <1>5, <1>6 DEF WebRequest

\* The few of these facts that most steps need.
LEMMA Lightly ==
  ASSUME NEW q, Facts(q)
  PROVE  Light(q)
BY PlatformAssumption DEF Facts, Light, Refreshing, Looking, Revoking, Browsers!Cookies

\* A row in its shape has a row's fields.
LEMMA RowShapes ==
  ASSUME NEW x \in WebRow
  PROVE  RowFacts(x)
BY DEF RowFacts, WebRow, FullRow, Browsers!NoRow

\* The requests that have a login alone are those the module says.
LEMMA Holds ==
  ASSUME NEW q \in WebRequest, NEW l \in Browsers!Logins
  PROVE  l \in Browsers!InHand(q) <=> Has(q, l)
BY Shapes, PlatformAssumption DEF Facts, Browsers!InHand, Has, Revoking

\* ReleaseRefresh leaves all but the lease of one row as it is.
LEMMA Leaseless ==
  ASSUME NEW f \in [Browsers!Cookies -> WebRow], NEW k \in Browsers!Cookies, NEW g, g = Browsers!Released(f, k)
  PROVE  /\ g \in [Browsers!Cookies -> WebRow]
         /\ \A d \in Browsers!Cookies :
              /\ g[d].is = f[d].is
              /\ f[d].is = "ROW" => g[d].login = f[d].login /\ g[d].rotation = f[d].rotation /\ (g[d].expired <=> f[d].expired)
         /\ \A d \in Browsers!Cookies : d # k => g[d] = f[d]
         /\ f[k].is # "ROW" => g = f
BY DEF Browsers!Released, WebRow, FullRow, Browsers!NoRow

\* Ending a login changes no other login and no token.
LEMMA Ended ==
  ASSUME NEW f \in [Browsers!Logins -> WebLogin], NEW k \in Browsers!Logins, NEW g, g = [f EXCEPT ![k].ended = TRUE]
  PROVE  /\ g \in [Browsers!Logins -> WebLogin] /\ g[k].ended
         /\ \A l \in Browsers!Logins :
                            /\ (g[l].granted <=> f[l].granted) /\ g[l].rotation = f[l].rotation
                            /\ f[l].ended => g[l].ended
                            /\ l # k => g[l] = f[l]
BY DEF WebLogin

\* Rotating the token of a login changes no other login.
LEMMA Rotated ==
  ASSUME NEW f \in [Browsers!Logins -> WebLogin], NEW k \in Browsers!Logins, NEW g, g = [f EXCEPT ![k].rotation = @ + 1]
  PROVE  /\ g \in [Browsers!Logins -> WebLogin] /\ g[k].rotation = f[k].rotation + 1
         /\ \A l \in Browsers!Logins :
                            /\ (g[l].granted <=> f[l].granted) /\ (g[l].ended <=> f[l].ended)
                            /\ l # k => g[l] = f[l]
BY DEF WebLogin

\* Granting a login changes no other login and no token.
LEMMA Given ==
  ASSUME NEW f \in [Browsers!Logins -> WebLogin], NEW k \in Browsers!Logins, NEW g, g = [f EXCEPT ![k].granted = TRUE]
  PROVE  /\ g \in [Browsers!Logins -> WebLogin] /\ g[k].granted
         /\ \A l \in Browsers!Logins :
                            /\ (g[l].ended <=> f[l].ended) /\ g[l].rotation = f[l].rotation
                            /\ f[l].granted => g[l].granted
                            /\ l # k => g[l] = f[l]
BY DEF WebLogin

\* The invariant holds when there are no rows and no requests.
LEMMA WebInit == Browsers!Init => WebInv
BY PlatformAssumption DEF Browsers!Init, WebInv, WebTypes, Minted, ReadOf, Granted, Custody, Kept,
   Settled, InOneRow, NewIsNew, OneLease,
   ReadFresh, LeaseHeld, RowFresh, NotDeleted, Row, Looking, Bearing, Leased, Refreshing,
   Revoking, WebRow, WebRequest, Browsers!Idle, Browsers!NoRow, Browsers!Logins, Browsers!Cookies,
   WebLogin

\* What a step lets go of: requests that end, rows that are deleted, leases
\* that are given up.  Nothing is lost as long as whoever held a login alone
\* settles it.
Unheld(l) ==
  /\ webLogin'[l].granted /\ \A d \in Browsers!Cookies : Row(d)' => webRow'[d].login # l
  /\ \A s \in WebRequests : /\ Leased(webRequest'[s]) => webRequest'[s].login # l
                            /\ webRequest'[s].at = "WRITE" => webRequest'[s].new # l
LetsGo ==
  /\ webMinted' = webMinted /\ webDropped \subseteq webDropped'
  /\ \A s \in WebRequests : \/ webRequest'[s] = webRequest[s]
                            \/ webRequest'[s].at = "IDLE" /\ \A l \in Browsers!Logins : ~Settled(l)' => ~Has(webRequest[s], l)
  /\ \A d \in Browsers!Cookies : Row(d)' => Row(d) /\ webRow'[d].login = webRow[d].login /\ webRow'[d].rotation = webRow[d].rotation
  /\ \A d \in Browsers!Cookies, l \in Browsers!Logins : Row(d) /\ ~Row(d)' /\ webRow[d].login = l => Settled(l)' \/ l \in webDropped'
  /\ \A d \in Browsers!Cookies, l \in Browsers!Logins : Row(d)' /\ webRow[d].login = l /\ ~Settled(l)' =>
       /\ webRow[d].expired \/ ~webRow'[d].expired
       /\ webRow'[d].lease = webRow[d].lease \/ \A s \in WebRequests : ~(Leased(webRequest'[s]) /\ webRequest'[s].cookie = d)
  /\ \A l \in Browsers!Logins : /\ webLogin[l].granted => webLogin'[l].granted
                                /\ webLogin'[l].granted => webLogin[l].granted \/ l \in webDropped'
                                /\ Settled(l) => Settled(l)'
                                /\ ~Settled(l)' \/ ~webLogin[l].granted => webLogin'[l].rotation = webLogin[l].rotation \/ Unheld(l)

\* A step that only lets go keeps the invariant.
LEMMA WebLets ==
  ASSUME WebInv, WebTypes', LetsGo
  PROVE  WebInv'
<1>. USE PlatformAssumption DEF LetsGo
<1>1. Minted /\ ReadOf /\ Granted /\ Custody /\ Kept /\ 0 \notin Browsers!Cookies
  BY DEF WebInv, Browsers!Cookies
<1>t. \A s \in WebRequests : Light(webRequest[s])
  BY Shapes, Lightly DEF WebInv, WebTypes
<1>2. Minted'
  BY <1>1 DEF Minted, Looking, Revoking
<1>3. ReadOf'
  <2>1. ASSUME NEW s \in WebRequests, Looking(webRequest'[s]), webRequest'[s].cookie # 0
        PROVE  webRequest'[s] = webRequest[s] /\ webRequest[s].cookie \in Browsers!Cookies
    BY <1>t, <2>1 DEF Looking, Light, Browsers!Cookies
  <2>. QED BY <1>1, <2>1 DEF ReadOf
<1>4. Granted'
  BY <1>1 DEF Granted, Bearing, Unheld
<1>5. ASSUME NEW l \in Browsers!Logins, ~Settled(l)'
      PROVE  /\ InOneRow(l) /\ NewIsNew(l) /\ OneLease(l) /\ ReadFresh(l) /\ LeaseHeld(l) /\ RowFresh(l) /\ NotDeleted(l)
             /\ webLogin'[l].rotation = webLogin[l].rotation \/ Unheld(l)
  BY <1>1, <1>5 DEF Custody
<1>6. ASSUME NEW l \in Browsers!Logins, ~Settled(l)'
      PROVE  InOneRow(l)' /\ NewIsNew(l)' /\ OneLease(l)' /\ NotDeleted(l)'
  <2>1. CASE webLogin'[l].rotation = webLogin[l].rotation
    BY <1>5, <1>6, <2>1 DEF InOneRow, NewIsNew, OneLease, NotDeleted, Leased, Bearing
  <2>2. CASE Unheld(l)
    BY <1>5, <1>6, <2>2 DEF InOneRow, NewIsNew, OneLease, NotDeleted, Leased, Bearing, Unheld
  <2>. QED BY <1>5, <1>6, <2>1, <2>2
<1>7. ASSUME NEW l \in Browsers!Logins, ~Settled(l)'
      PROVE  ReadFresh(l)'
  <2>1. CASE webLogin'[l].rotation = webLogin[l].rotation
    BY <1>t, <1>5, <1>7, <2>1 DEF ReadFresh, Refreshing, Light
  <2>2. CASE Unheld(l)
    <3>. SUFFICES ASSUME NEW s \in WebRequests, Refreshing(webRequest'[s]), webRequest'[s].login = l
                  PROVE  /\ ~Row(webRequest[s].cookie)' /\ webRequest'[s].cookie = webRequest[s].cookie
                         /\ webRequest'[s].at \notin {"PRESENT", "REPLACE"}
      BY DEF ReadFresh
    <3>1. webRequest'[s] = webRequest[s] /\ Looking(webRequest'[s]) /\ webRequest[s].cookie \in Browsers!Cookies
      BY <1>t DEF Refreshing, Looking, Revoking, Light
    <3>2. webRequest'[s].at \notin {"PRESENT", "REPLACE"}
      BY <2>2 DEF Unheld, Leased
    <3>3. ~Row(webRequest[s].cookie)'
      BY <1>1, <1>3, <2>2, <3>1 DEF ReadOf, Unheld, Row
    <3>. QED BY <3>1, <3>2, <3>3
  <2>. QED BY <1>5, <1>7, <2>1, <2>2
<1>8. ASSUME NEW l \in Browsers!Logins, ~Settled(l)'
      PROVE  LeaseHeld(l)'
  <2>. SUFFICES ASSUME NEW s \in WebRequests, Leased(webRequest'[s]), webRequest'[s].login = l, NEW k, k = webRequest'[s].cookie
                PROVE  /\ webRow'[k].is = "ROW" => webRow'[k].lease = "HELD"
                       /\ webRow'[k].is # "ROW" => \A d \in Browsers!Cookies : Row(d)' => webRow'[d].login # l
    BY DEF LeaseHeld, Row
  <2>1. webRequest'[s] = webRequest[s] /\ k \in Browsers!Cookies /\ Leased(webRequest[s]) /\ webRequest[s].login = l
    BY <1>t DEF Leased, Light, Refreshing
  <2>2. Row(k) => webRow[k].login = l
    BY <1>1, <2>1 DEF ReadOf, Leased, Looking, Revoking
  <2>3. (Row(k) => webRow[k].lease = "HELD") /\ (~Row(k) => \A d \in Browsers!Cookies : Row(d) => webRow[d].login # l)
    BY <1>5, <1>8, <2>1 DEF LeaseHeld
  <2>4. InOneRow(l)
    BY <1>5, <1>8
  <2>. QED BY <1>8, <2>1, <2>2, <2>3, <2>4 DEF InOneRow, Row
<1>9. ASSUME NEW l \in Browsers!Logins, ~Settled(l)'
      PROVE  RowFresh(l)'
  <2>1. CASE webLogin'[l].rotation = webLogin[l].rotation
    BY <1>1, <1>5, <1>9, <2>1 DEF RowFresh, ReadOf, Has, Looking, Revoking, Leased
  <2>2. CASE Unheld(l)
    BY <2>2 DEF RowFresh, Unheld
  <2>. QED BY <1>5, <1>9, <2>1, <2>2
<1>10. Kept'
  <2>. SUFFICES ASSUME NEW l \in Browsers!Logins, ~Settled(l)', l \notin webDropped', webLogin'[l].granted
                PROVE  \/ \E d \in Browsers!Cookies : Row(d)' /\ webRow'[d].login = l
                       \/ \E s \in WebRequests : Has(webRequest'[s], l)
    BY DEF Kept
  <2>1. CASE \E d \in Browsers!Cookies : Row(d) /\ webRow[d].login = l
    BY <2>1
  <2>2. CASE \E s \in WebRequests : Has(webRequest[s], l)
    BY <2>2
  <2>. QED BY <1>1, <2>1, <2>2 DEF Kept
<1>. QED BY <1>2, <1>3, <1>4, <1>6, <1>7, <1>8, <1>9, <1>10 DEF WebInv, Custody

\* A request begins: it reads the row of the browser's cookie, or none.
Begins(r) ==
  /\ UNCHANGED <<webRow, webLogin, webMinted, webExcused, webDropped>> /\ webRequest[r].at = "IDLE"
  /\ \A s \in WebRequests : s # r => webRequest'[s] = webRequest[s]
  /\ webRequest'[r].at \in {"ASK", "ACQUIRE"} \/ (webRequest'[r].at = "REVOKE" /\ webRequest'[r].op = "DELETE")
  /\ \/ webRequest'[r].at = "ASK" /\ webRequest'[r].cookie = 0 /\ webRequest'[r].login = 0
     \/ /\ webRequest'[r].cookie \in Browsers!Cookies /\ webRow[webRequest'[r].cookie].is = "ROW" /\ webRequest'[r].cookie <= webMinted
        /\ webRequest'[r].login = webRow[webRequest'[r].cookie].login
        /\ webRequest'[r].at = "ACQUIRE" => webRequest'[r].rotation = webRow[webRequest'[r].cookie].rotation

\* A request that begins keeps the invariant.
LEMMA WebStarts ==
  ASSUME WebInv, WebTypes', NEW r \in WebRequests, Begins(r)
  PROVE  WebInv'
<1>. USE PlatformAssumption DEF Begins
<1>1. Minted /\ ReadOf /\ Granted /\ Custody /\ Kept /\ 0 \notin Browsers!Cookies /\ 0 \notin Browsers!Logins
  BY DEF WebInv, Browsers!Cookies, Browsers!Logins
<1>2. Minted'
  BY <1>1 DEF Minted, Looking, Revoking, Row, WebInv, WebTypes
<1>3. ReadOf'
  BY <1>1 DEF ReadOf, Looking, Revoking, Row
<1>4. Granted'
  BY <1>1 DEF Granted, Bearing, Row
<1>5. ASSUME NEW l \in Browsers!Logins, ~Settled(l)'
      PROVE  InOneRow(l) /\ NewIsNew(l) /\ OneLease(l) /\ ReadFresh(l) /\ LeaseHeld(l) /\ RowFresh(l) /\ NotDeleted(l)
  BY <1>1, <1>5 DEF Custody, Settled
<1>6. ASSUME NEW l \in Browsers!Logins, ~Settled(l)'
      PROVE  InOneRow(l)' /\ OneLease(l)' /\ NotDeleted(l)'
  BY <1>5, <1>6 DEF InOneRow, OneLease, NotDeleted, Leased, Row
<1>7. ASSUME NEW l \in Browsers!Logins, ~Settled(l)'
      PROVE  NewIsNew(l)'
  BY <1>1, <1>5, <1>7 DEF NewIsNew, Bearing, Row
<1>8. ASSUME NEW l \in Browsers!Logins, ~Settled(l)'
      PROVE  ReadFresh(l)'
  BY <1>5, <1>8 DEF ReadFresh, Refreshing, Row
<1>9. ASSUME NEW l \in Browsers!Logins, ~Settled(l)'
      PROVE  LeaseHeld(l)' /\ RowFresh(l)'
  BY <1>5, <1>9 DEF LeaseHeld, RowFresh, Leased, Row
<1>10. Kept'
  BY <1>1 DEF Kept, Has, Row, Settled, Revoking
<1>. QED BY <1>2, <1>3, <1>4, <1>6, <1>7, <1>8, <1>9, <1>10 DEF WebInv, Custody

Shaped ==
  /\ \A s \in WebRequests : webRequest[s] \in WebRequest /\ Facts(webRequest[s]) /\ Light(webRequest[s])
  /\ \A d \in Browsers!Cookies : RowFacts(webRow[d])
  /\ 0 \notin Browsers!Cookies /\ \A l \in Browsers!Logins : l # 0 /\ webLogin[l].rotation \in Nat

\* Under the invariant everything has its shape.
LEMMA WebShaped == WebInv => Shaped
BY Shapes, Lightly, RowShapes, PlatformAssumption DEF WebInv, WebTypes, Shaped, Browsers!Cookies,
   Browsers!Logins, WebLogin

\* Revoke ends a login, or fails to and excuses it.
LEMMA Revoked ==
  ASSUME WebTypes, NEW k \in Held, NEW ok \in BOOLEAN, Browsers!Revoke(k, ok)
  PROVE  /\ webLogin' \in [Browsers!Logins -> WebLogin] /\ webExcused \subseteq webExcused' /\ webExcused' \subseteq Browsers!Logins
         /\ \A l \in Browsers!Logins : /\ webLogin'[l].granted <=> webLogin[l].granted
                                       /\ webLogin'[l].rotation = webLogin[l].rotation
                                       /\ Settled(l) \/ l = k => Settled(l)'
<1>1. CASE k \in Browsers!Logins /\ ok
  <2>1. webLogin' = [webLogin EXCEPT ![k].ended = TRUE] /\ webExcused' = webExcused /\ webLogin \in [Browsers!Logins -> WebLogin]
    BY <1>1 DEF Browsers!Revoke, WebTypes
  <2>2. /\ webLogin' \in [Browsers!Logins -> WebLogin] /\ webLogin'[k].ended
        /\ \A l \in Browsers!Logins : (webLogin'[l].granted <=> webLogin[l].granted) /\ webLogin'[l].rotation = webLogin[l].rotation
                             /\ (webLogin[l].ended => webLogin'[l].ended)
    <3>1. k \in Browsers!Logins
      BY <1>1
    <3>. QED BY <2>1, <3>1 DEF WebLogin
  <2>. QED BY <2>1, <2>2 DEF WebTypes, Settled
<1>2. CASE ~(k \in Browsers!Logins /\ ok)
  BY <1>2 DEF Browsers!Revoke, WebTypes, Settled
<1>. QED BY <1>1, <1>2

\* A sign-in that gets no login and a refresh that gets no lease just end.
LEMMA WebGivesUp ==
  ASSUME WebInv, NEW r \in WebRequests, Browsers!AskFails(r) \/ Browsers!AcquireRefused(r)
  PROVE  WebInv'
<1>1. /\ UNCHANGED <<webRow, webBrowser, webMinted, webLogin, webReused, webExcused, webDropped>>
      /\ webRequest' = [webRequest EXCEPT ![r] = Browsers!Idle] /\ webRequest[r].at \in {"ASK", "ACQUIRE"}
  BY DEF Browsers!AskFails, Browsers!AcquireRefused
<1>2. WebTypes'
  BY <1>1 DEF WebInv, WebTypes, WebRequest
<1>3. LetsGo
  BY <1>1 DEF WebInv, WebTypes, LetsGo, Settled, Has, Revoking, Browsers!Idle, Row
<1>. QED BY <1>2, <1>3, WebLets

\* createSession revokes the login of the row it replaced, or its own when
\* it could not write it.
LEMMA WebRevokes ==
  ASSUME WebInv, NEW r \in WebRequests, Browsers!CreateFails(r) \/ Browsers!CreateRevokes(r)
  PROVE  WebInv'
<1>. DEFINE k == IF webRequest[r].at = "WRITE" THEN webRequest[r].new ELSE webRequest[r].login
<1>1. Shaped /\ WebTypes /\ Minted
  BY WebShaped DEF WebInv
<1>2. /\ UNCHANGED <<webRow, webMinted, webReused, webDropped>> /\ (webBrowser' = webBrowser \/ webBrowser' = webRequest[r].made)
      /\ webRequest' = [webRequest EXCEPT ![r] = Browsers!Idle]
      /\ (webRequest[r].at = "WRITE" /\ webBrowser' = webBrowser) \/ Revoking(webRequest[r])
      /\ k \in Held
      /\ \E ok \in BOOLEAN : Browsers!Revoke(k, ok)
  BY <1>1 DEF Browsers!CreateFails, Browsers!CreateRevokes, Revoking, Shaped, Facts, Bearing
<1>. HIDE DEF k
<1>3. /\ webLogin' \in [Browsers!Logins -> WebLogin] /\ webExcused \subseteq webExcused' /\ webExcused' \subseteq Browsers!Logins
      /\ \A l \in Browsers!Logins : /\ webLogin'[l].granted <=> webLogin[l].granted
                                    /\ webLogin'[l].rotation = webLogin[l].rotation
                                    /\ Settled(l) \/ l = k => Settled(l)'
  BY <1>1, <1>2, Revoked
<1>4. webBrowser' \in 0..webMinted'
  BY <1>1, <1>2, PlatformAssumption DEF Minted, WebTypes, Shaped, Facts, Browsers!Cookies, Revoking
<1>5. WebTypes'
  BY <1>1, <1>2, <1>3, <1>4 DEF WebTypes, WebRequest
<1>6. \A l \in Browsers!Logins : Has(webRequest[r], l) => l = k
  BY <1>2 DEF k, Has, Revoking
<1>7. LetsGo
  BY <1>1, <1>2, <1>3, <1>6 DEF WebTypes, LetsGo, Browsers!Idle, Row
<1>. QED BY <1>5, <1>7, WebLets

\* A refresh that fails gives up its lease; it excuses what it may have spent.
LEMMA WebRefreshEnds ==
  ASSUME WebInv, NEW r \in WebRequests, Browsers!PresentFails(r) \/ Browsers!RefreshFails(r)
  PROVE  WebInv'
<1>1. Shaped /\ WebTypes /\ Custody /\ ReadOf
  BY WebShaped DEF WebInv
<1>2. /\ UNCHANGED <<webBrowser, webMinted, webReused, webDropped>> /\ Leased(webRequest[r])
      /\ webRequest' = [webRequest EXCEPT ![r] = Browsers!Idle] /\ webRow' = Browsers!Released(webRow, webRequest[r].cookie)
      /\ webRequest[r].cookie \in Browsers!Cookies /\ webRequest[r].login \in Browsers!Logins
  BY <1>1 DEF Browsers!PresentFails, Browsers!RefreshFails, Browsers!ReleaseRefresh, Leased,
     Shaped, Light, Refreshing
<1>3. /\ webLogin' \in [Browsers!Logins -> WebLogin] /\ webExcused \subseteq webExcused' /\ webExcused' \subseteq Browsers!Logins
      /\ \A l \in Browsers!Logins : /\ webLogin'[l].granted <=> webLogin[l].granted
                                    /\ webLogin'[l].rotation = webLogin[l].rotation
                                    /\ Settled(l) \/ (webRequest[r].at = "REPLACE" /\ l = webRequest[r].login) => Settled(l)'
  <2>1. CASE Browsers!PresentFails(r)
    BY <1>1, <2>1 DEF Browsers!PresentFails, WebTypes, Settled
  <2>2. CASE Browsers!RefreshFails(r)
    <3>1. webRequest[r].login \in Held /\ \E ok \in BOOLEAN : Browsers!Revoke(webRequest[r].login, ok)
      BY <1>2, <2>2, PlatformAssumption DEF Browsers!RefreshFails, Held, Browsers!Logins
    <3>. QED BY <1>1, <3>1, Revoked
  <2>. QED BY <2>1, <2>2
<1>4. /\ webRow' \in [Browsers!Cookies -> WebRow]
      /\ \A d \in Browsers!Cookies :
           /\ webRow'[d].is = webRow[d].is
           /\ Row(d) => webRow'[d].login = webRow[d].login /\ webRow'[d].rotation = webRow[d].rotation /\ (webRow'[d].expired <=> webRow[d].expired)
           /\ d # webRequest[r].cookie => webRow'[d] = webRow[d]
  BY <1>1, <1>2, Leaseless DEF WebTypes, Row
<1>5. WebTypes'
  BY <1>1, <1>2, <1>3, <1>4 DEF WebTypes, WebRequest
<1>6. ASSUME NEW l \in Browsers!Logins, ~Settled(l)', webRow[webRequest[r].cookie].is = "ROW", webRow[webRequest[r].cookie].login = l,
             NEW s \in WebRequests, Leased(webRequest'[s])
      PROVE  webRequest'[s].cookie # webRequest[r].cookie
  <2>1. s # r /\ webRequest'[s] = webRequest[s]
    BY <1>1, <1>2, <1>6 DEF WebTypes, Leased, Browsers!Idle
  <2>2. OneLease(l)
    BY <1>1, <1>3, <1>6 DEF Custody
  <2>. QED BY <1>1, <1>2, <1>6, <2>1, <2>2 DEF OneLease, ReadOf, Shaped, Looking, Leased,
              Revoking, Row
<1>7. LetsGo
  BY <1>1, <1>2, <1>3, <1>4, <1>6 DEF WebTypes, LetsGo, Browsers!Idle, Row, Has, Leased, Revoking
<1>. QED BY <1>5, <1>7, WebLets

\* A token was spent and the answer was lost: the login is excused.
LEMMA WebPresentLost ==
  ASSUME WebInv, NEW r \in WebRequests, Browsers!Present(r), webRequest'[r].at = "IDLE"
  PROVE  WebInv'
<1>1. Shaped /\ WebTypes /\ Granted
  BY WebShaped DEF WebInv
<1>2. webRequest[r].at = "PRESENT" /\ webRequest[r].cookie \in Browsers!Cookies /\ webRequest[r].login \in Browsers!Logins
  BY <1>1 DEF Browsers!Present, Shaped, Light, Refreshing
<1>3. /\ UNCHANGED <<webBrowser, webMinted, webReused, webDropped>>
      /\ webRequest' = [webRequest EXCEPT ![r] = Browsers!Idle] /\ webRow' = Browsers!Released(webRow, webRequest[r].cookie)
      /\ webExcused' = webExcused \cup {webRequest[r].login}
      /\ webLogin' = [webLogin EXCEPT ![webRequest[r].login].rotation = @ + 1]
  BY <1>1, <1>2 DEF Browsers!Present, Browsers!ReleaseRefresh, WebTypes, WebRequest, Shaped,
     Facts, Refreshing, Refreshes
<1>4. /\ webLogin' \in [Browsers!Logins -> WebLogin]
      /\ \A l \in Browsers!Logins : /\ (webLogin'[l].granted <=> webLogin[l].granted) /\ (webLogin'[l].ended <=> webLogin[l].ended)
                                    /\ l # webRequest[r].login => webLogin'[l] = webLogin[l]
  BY <1>1, <1>2, <1>3, Rotated DEF WebTypes
<1>5. /\ webRow' \in [Browsers!Cookies -> WebRow]
      /\ \A d \in Browsers!Cookies :
           /\ webRow'[d].is = webRow[d].is
           /\ Row(d) => webRow'[d].login = webRow[d].login /\ webRow'[d].rotation = webRow[d].rotation /\ (webRow'[d].expired <=> webRow[d].expired)
           /\ d # webRequest[r].cookie => webRow'[d] = webRow[d]
  BY <1>1, <1>2, <1>3, Leaseless DEF WebTypes, Row
<1>6. WebTypes'
  BY <1>1, <1>2, <1>3, <1>4, <1>5 DEF WebTypes, WebRequest
<1>7. webLogin[webRequest[r].login].granted /\ (Row(webRequest[r].cookie) => webRow[webRequest[r].cookie].login = webRequest[r].login)
  BY <1>1, <1>2 DEF Granted, Bearing, WebInv, ReadOf, Looking, Revoking, Shaped
<1>8. \A l \in Browsers!Logins : /\ Settled(l) => Settled(l)'
                                 /\ ~Settled(l)' => l # webRequest[r].login
  BY <1>3, <1>4 DEF Settled
<1>9. LetsGo
  BY <1>1, <1>2, <1>3, <1>4, <1>5, <1>7, <1>8 DEF WebTypes, LetsGo, Browsers!Idle, Row, Has,
     Revoking
<1>. QED BY <1>6, <1>9, WebLets

\* The row goes, and what it kept is settled: refused by the identity service,
\* or revoked before.
LEMMA WebDeletes ==
  ASSUME WebInv, NEW r \in WebRequests, Browsers!PresentRefused(r) \/ Browsers!DeleteSession(r)
  PROVE  WebInv'
<1>1. Shaped /\ WebTypes /\ Custody /\ ReadOf
  BY WebShaped DEF WebInv
<1>2. /\ webRequest[r].at \in {"PRESENT", "DELETE"} /\ webRequest[r].cookie \in Browsers!Cookies
      /\ webRequest[r].at = "PRESENT" => webRequest[r].login \in Browsers!Logins
      /\ webMinted' = webMinted /\ webExcused' = webExcused /\ webDropped' = webDropped /\ webBrowser' = 0
      /\ webRequest' = [webRequest EXCEPT ![r] = Browsers!Idle] /\ webRow' = [webRow EXCEPT ![webRequest[r].cookie] = Browsers!NoRow]
  BY <1>1 DEF Browsers!PresentRefused, Browsers!DeleteSession, Browsers!Delete, Shaped, Light,
     Refreshing
<1>3. /\ webLogin' \in [Browsers!Logins -> WebLogin] /\ webReused' \subseteq webExcused'
      /\ \A l \in Browsers!Logins : /\ webLogin'[l].granted <=> webLogin[l].granted
                                    /\ webLogin'[l].rotation = webLogin[l].rotation
                                    /\ Settled(l) \/ l = webRequest[r].login => Settled(l)'
  <2>1. CASE Browsers!PresentRefused(r)
    <3>1. webLogin' = [webLogin EXCEPT ![webRequest[r].login].ended = TRUE] /\ webRequest[r].login \in Browsers!Logins
      BY <1>2, <2>1 DEF Browsers!PresentRefused, Browsers!DeleteSession
    <3>2. /\ webLogin' \in [Browsers!Logins -> WebLogin] /\ webLogin'[webRequest[r].login].ended
          /\ \A l \in Browsers!Logins : (webLogin'[l].granted <=> webLogin[l].granted) /\ webLogin'[l].rotation = webLogin[l].rotation
                               /\ (webLogin[l].ended => webLogin'[l].ended)
      BY <1>1, <3>1, Ended DEF WebTypes
    <3>3. webReused' \subseteq webExcused'
      BY <1>1, <1>2, <2>1, <3>1 DEF Browsers!PresentRefused, WebTypes, Custody, Settled,
         ReadFresh, Refreshing
    <3>. QED BY <1>2, <3>2, <3>3 DEF Settled
  <2>2. CASE Browsers!DeleteSession(r)
    BY <1>1, <1>2, <2>2 DEF Browsers!DeleteSession, WebTypes, Settled, Custody, NotDeleted
  <2>. QED BY <2>1, <2>2
<1>4. WebTypes'
  BY <1>1, <1>2, <1>3, PlatformAssumption DEF WebTypes, WebRequest, WebRow
<1>5. \A d \in Browsers!Cookies : IF d = webRequest[r].cookie THEN webRow'[d].is # "ROW" ELSE webRow'[d] = webRow[d]
  BY <1>1, <1>2 DEF WebTypes, Browsers!NoRow
<1>6. Row(webRequest[r].cookie) => webRow[webRequest[r].cookie].login = webRequest[r].login
  BY <1>1, <1>2 DEF ReadOf, Looking, Revoking, Shaped
<1>7. LetsGo
  BY <1>1, <1>2, <1>3, <1>5, <1>6 DEF WebTypes, LetsGo, Browsers!Idle, Row, Has, Revoking
<1>. QED BY <1>4, <1>7, WebLets

\* An answer that is thrown away drops the login just granted: nobody has it.
LEMMA WebAskThrownAway ==
  ASSUME WebInv, NEW r \in WebRequests, Browsers!AskThrownAway(r)
  PROVE  WebInv'
<1>1. Shaped /\ WebTypes
  BY WebShaped DEF WebInv
<1>2. /\ UNCHANGED <<webRow, webBrowser, webMinted, webReused, webExcused>> /\ webRequest[r].at = "ASK"
      /\ webRequest' = [webRequest EXCEPT ![r] = Browsers!Idle]
  BY DEF Browsers!AskThrownAway
<1>3. PICK k \in Browsers!Logins : webLogin' = [webLogin EXCEPT ![k].granted = TRUE] /\ webDropped' = webDropped \cup {k}
  BY DEF Browsers!AskThrownAway
<1>4. /\ webLogin' \in [Browsers!Logins -> WebLogin]
      /\ \A l \in Browsers!Logins : /\ (webLogin'[l].ended <=> webLogin[l].ended) /\ webLogin'[l].rotation = webLogin[l].rotation
                                    /\ webLogin[l].granted => webLogin'[l].granted
                                    /\ l # k => webLogin'[l] = webLogin[l]
  <2>1. webLogin \in [Browsers!Logins -> WebLogin] /\ webLogin' = [webLogin EXCEPT ![k].granted = TRUE]
    BY <1>1, <1>3 DEF WebTypes
  <2>2. webLogin' \in [Browsers!Logins -> WebLogin]
    BY ONLY <2>1 DEF WebLogin
  <2>3. ASSUME NEW l \in Browsers!Logins
        PROVE  /\ l # k => webLogin'[l] = webLogin[l]
               /\ l = k => webLogin'[l] = [webLogin[l] EXCEPT !.granted = TRUE]
    BY ONLY <2>1, <2>3
  <2>4. ASSUME NEW l \in Browsers!Logins
        PROVE  /\ (webLogin'[l].ended <=> webLogin[l].ended) /\ webLogin'[l].rotation = webLogin[l].rotation
               /\ webLogin[l].granted => webLogin'[l].granted
    BY ONLY <2>1, <2>3, <2>4 DEF WebLogin
  <2>. QED BY ONLY <2>2, <2>3, <2>4
<1>5. WebTypes'
  BY <1>1, <1>2, <1>3, <1>4 DEF WebTypes, WebRequest
<1>6. LetsGo
  BY <1>1, <1>2, <1>3, <1>4 DEF WebTypes, LetsGo, Settled, Has, Revoking, Browsers!Idle, Row
<1>. QED BY <1>5, <1>6, WebLets

\* A refresh whose answer is thrown away deletes the only row of its login.
LEMMA WebPresentThrownAway ==
  ASSUME WebInv, NEW r \in WebRequests, Browsers!PresentThrownAway(r)
  PROVE  WebInv'
<1>. DEFINE k == webRequest[r].login
<1>1. Shaped /\ WebTypes /\ Granted /\ Custody /\ ReadOf
  BY WebShaped DEF WebInv
<1>2. /\ webRequest[r].at = "PRESENT" /\ webRequest[r].cookie \in Browsers!Cookies /\ k \in Browsers!Logins
      /\ UNCHANGED <<webMinted, webReused, webExcused>> /\ webBrowser' = 0 /\ webDropped' = webDropped \cup {k}
      /\ webRequest' = [webRequest EXCEPT ![r] = Browsers!Idle] /\ webRow' = [webRow EXCEPT ![webRequest[r].cookie] = Browsers!NoRow]
  BY <1>1 DEF Browsers!PresentThrownAway, Browsers!Delete, Shaped, Light, Refreshing
<1>3. /\ webLogin' \in [Browsers!Logins -> WebLogin]
      /\ \A l \in Browsers!Logins : /\ (webLogin'[l].granted <=> webLogin[l].granted) /\ (webLogin'[l].ended <=> webLogin[l].ended)
                                    /\ l # k => webLogin'[l] = webLogin[l]
  <2>1. CASE webLogin' = webLogin
    BY <1>1, <2>1 DEF WebTypes
  <2>2. CASE webLogin' = [webLogin EXCEPT ![k].rotation = @ + 1]
    BY <1>1, <1>2, <2>2, Rotated DEF WebTypes
  <2>. QED BY <2>1, <2>2 DEF Browsers!PresentThrownAway
<1>4. webLogin[k].granted /\ (Row(webRequest[r].cookie) => webRow[webRequest[r].cookie].login = k)
  BY <1>1, <1>2 DEF Granted, Bearing, ReadOf, Looking, Revoking, Shaped
<1>5. WebTypes'
  BY <1>1, <1>2, <1>3, PlatformAssumption DEF WebTypes, WebRequest, WebRow
<1>6. \A d \in Browsers!Cookies : IF d = webRequest[r].cookie THEN webRow'[d].is # "ROW" ELSE webRow'[d] = webRow[d]
  BY <1>1, <1>2 DEF WebTypes, Browsers!NoRow
<1>7. \A l \in Browsers!Logins : Settled(l)' <=> Settled(l)
  BY <1>2, <1>3 DEF Settled
<1>8. \A s \in WebRequests : IF s = r THEN webRequest'[s].at = "IDLE" ELSE webRequest'[s] = webRequest[s]
  BY <1>1, <1>2 DEF WebTypes, Browsers!Idle
<1>9. ~Settled(k) => Unheld(k)
  <2>. SUFFICES ASSUME ~Settled(k) PROVE Unheld(k)
    OBVIOUS
  <2>1. InOneRow(k) /\ NewIsNew(k) /\ OneLease(k) /\ LeaseHeld(k)
    BY <1>1, <1>2 DEF Custody
  <2>2. ASSUME NEW d \in Browsers!Cookies, webRow'[d].is = "ROW", webRow'[d].login = k PROVE FALSE
    BY <1>2, <1>4, <1>6, <2>1, <2>2 DEF InOneRow, LeaseHeld, Leased, Row
  <2>3. ASSUME NEW s \in WebRequests
        PROVE  /\ Leased(webRequest'[s]) => webRequest'[s].login # k
               /\ webRequest'[s].at = "WRITE" => webRequest'[s].new # k
    BY <1>2, <1>8, <2>1 DEF OneLease, NewIsNew, Leased, Bearing
  <2>. QED BY <1>3, <1>2, <1>4, <2>2, <2>3 DEF Unheld, Row
<1>10. LetsGo
  <2>1. \A s \in WebRequests : \/ webRequest'[s] = webRequest[s]
                               \/ webRequest'[s].at = "IDLE" /\ \A l \in Browsers!Logins : ~Settled(l)' => ~Has(webRequest[s], l)
    <3>1. \A l \in Browsers!Logins : ~Has(webRequest[r], l)
      BY <1>2 DEF Has, Revoking
    <3>2. ASSUME NEW s \in WebRequests, s # r PROVE webRequest'[s] = webRequest[s]
      BY ONLY <1>8, <3>2
    <3>3. webRequest'[r].at = "IDLE"
      BY ONLY <1>8, r \in WebRequests
    <3>4. ASSUME NEW s \in WebRequests
          PROVE  \/ webRequest'[s] = webRequest[s]
                 \/ webRequest'[s].at = "IDLE" /\ \A l \in Browsers!Logins : ~Settled(l)' => ~Has(webRequest[s], l)
      <4>1. CASE s = r
        BY ONLY <3>1, <3>3, <4>1
      <4>2. CASE s # r
        BY ONLY <3>2, <3>4, <4>2
      <4>. QED BY ONLY <4>1, <4>2
    <3>. QED BY ONLY <3>4
  <2>2. \A l \in Browsers!Logins : ~Settled(l)' \/ ~webLogin[l].granted => webLogin'[l].rotation = webLogin[l].rotation \/ Unheld(l)
    BY <1>2, <1>3, <1>4, <1>7, <1>9
  <2>3. \A d \in Browsers!Cookies : Row(d)' => Row(d) /\ webRow'[d] = webRow[d]
    BY <1>6 DEF Row
  <2>4. \A d \in Browsers!Cookies, l \in Browsers!Logins : Row(d) /\ ~Row(d)' /\ webRow[d].login = l => l \in webDropped'
    BY <1>2, <1>4, <1>6 DEF Row
  <2>5. \A l \in Browsers!Logins : webLogin[l].granted <=> webLogin'[l].granted
    BY <1>3
  <2>6. webMinted' = webMinted /\ webDropped \subseteq webDropped'
    BY <1>2
  <2>7. \A d \in Browsers!Cookies, l \in Browsers!Logins : Row(d)' /\ webRow[d].login = l /\ ~Settled(l)' =>
          /\ webRow[d].expired \/ ~webRow'[d].expired
          /\ webRow'[d].lease = webRow[d].lease \/ \A s \in WebRequests : ~(Leased(webRequest'[s]) /\ webRequest'[s].cookie = d)
    BY <2>3
  <2>8. \A l \in Browsers!Logins : Settled(l) => Settled(l)'
    BY <1>7
  <2>9. \A d \in Browsers!Cookies : Row(d)' => Row(d) /\ webRow'[d].login = webRow[d].login /\ webRow'[d].rotation = webRow[d].rotation
    BY <2>3
  <2>. HIDE DEF k
  <2>. QED BY ONLY <2>1, <2>2, <2>4, <2>5, <2>6, <2>7, <2>8, <2>9 DEF LetsGo
<1>. QED BY <1>5, <1>10, WebLets

\* A crash excuses the login that only the request had.
LEMMA WebCrash ==
  ASSUME WebInv, NEW r \in WebRequests, Browsers!Crash(r)
  PROVE  WebInv'
<1>1. Shaped /\ WebTypes
  BY WebShaped DEF WebInv
<1>2. /\ UNCHANGED <<webRow, webBrowser, webMinted, webLogin, webReused, webDropped>> /\ webRequest' = [webRequest EXCEPT ![r] = Browsers!Idle]
      /\ webExcused' = webExcused \cup Browsers!InHand(webRequest[r]) /\ Browsers!InHand(webRequest[r]) \subseteq Browsers!Logins
  BY DEF Browsers!Crash, Browsers!InHand
<1>3. WebTypes'
  BY <1>1, <1>2 DEF WebTypes, WebRequest
<1>4. \A l \in Browsers!Logins : Has(webRequest[r], l) => l \in webExcused'
  BY <1>1, <1>2, Holds DEF Shaped
<1>5. LetsGo
  BY <1>1, <1>2, <1>4 DEF WebTypes, LetsGo, Settled, Browsers!Idle, Row
<1>. QED BY <1>3, <1>5, WebLets

\* Sessions expire and are purged.
LEMMA WebExpires ==
  ASSUME WebInv, NEW c \in Browsers!Cookies, Browsers!Expire(c) \/ Browsers!PurgeExpired(c)
  PROVE  WebInv'
<1>1. Shaped /\ WebTypes /\ Custody
  BY WebShaped DEF WebInv
<1>2. UNCHANGED <<webBrowser, webMinted, webLogin, webRequest, webReused, webDropped>> /\ webRow[c].is = "ROW"
  BY DEF Browsers!Expire, Browsers!PurgeExpired, Browsers!resolve, Browsers!Known
<1>3. /\ webRow' \in [Browsers!Cookies -> WebRow] /\ webExcused \subseteq webExcused' /\ webExcused' \subseteq Browsers!Logins
      /\ \A d \in Browsers!Cookies : d # c => webRow'[d] = webRow[d]
      /\ \/ webRow'[c].is # "ROW"
         \/ webRow'[c].is = "ROW" /\ webRow'[c].login = webRow[c].login /\ webRow'[c].rotation = webRow[c].rotation /\ webRow'[c].lease = webRow[c].lease
      /\ webRow[c].login \in Browsers!Logins => Settled(webRow[c].login) \/ webRow[c].login \in webExcused'
  <2>1. CASE Browsers!Expire(c)
    BY <1>1, <1>2, <2>1 DEF Browsers!Expire, Shaped, RowFacts, WebTypes, WebRow, FullRow
  <2>2. CASE Browsers!PurgeExpired(c)
    BY <1>1, <1>2, <2>2 DEF Browsers!PurgeExpired, Browsers!Delete, WebTypes, WebRow,
       Browsers!NoRow, Custody, RowFresh, Row
  <2>. QED BY <2>1, <2>2
<1>4. WebTypes'
  BY <1>1, <1>2, <1>3 DEF WebTypes
<1>5. LetsGo
  BY <1>1, <1>2, <1>3 DEF WebTypes, LetsGo, Settled, Row
<1>. QED BY <1>4, <1>5, WebLets

\* A lease that is outlived excuses the login of its row.
LEMMA WebLapses ==
  ASSUME WebInv, NEW c \in Browsers!Cookies, Browsers!LeaseLapses(c)
  PROVE  WebInv'
<1>1. Shaped /\ WebTypes /\ ReadOf
  BY WebShaped DEF WebInv
<1>2. /\ UNCHANGED <<webBrowser, webMinted, webLogin, webRequest, webReused, webDropped>> /\ webRow[c].is = "ROW"
      /\ webRow' = [webRow EXCEPT ![c].lease = "LAPSED"]
      /\ webExcused' = IF \E s \in WebRequests : Leased(webRequest[s]) /\ webRequest[s].cookie = c
                    THEN webExcused \cup {webRow[c].login} ELSE webExcused
  BY DEF Browsers!LeaseLapses, Browsers!Known, Leased
<1>3. ASSUME NEW s \in WebRequests, Leased(webRequest[s]), webRequest[s].cookie = c
      PROVE  webRow[c].login \in Browsers!Logins
  BY <1>1, <1>2, <1>3 DEF Shaped, Light, ReadOf, Leased, Refreshing, Looking, Revoking, Row
<1>4. /\ webRow' \in [Browsers!Cookies -> WebRow]
      /\ webRow'[c].is = "ROW" /\ webRow'[c].login = webRow[c].login /\ webRow'[c].rotation = webRow[c].rotation /\ (webRow'[c].expired <=> webRow[c].expired)
      /\ \A d \in Browsers!Cookies : d # c => webRow'[d] = webRow[d]
  BY <1>1, <1>2 DEF WebTypes, Shaped, RowFacts, WebRow, FullRow
<1>5. WebTypes'
  BY <1>1, <1>2, <1>3, <1>4 DEF WebTypes
<1>6. LetsGo
  BY <1>1, <1>2, <1>4 DEF LetsGo, Settled, Row
<1>. QED BY <1>5, <1>6, WebLets

\* A request reads the session that its cookie names.
LEMMA WebReads ==
  ASSUME WebInv, NEW r \in WebRequests,
         Browsers!RefreshStarts(r) \/ Browsers!DeleteStarts(r) \/ \E mode \in {"GUEST", "AUTHENTICATED"} : Browsers!CreateStarts(r, mode)
  PROVE  WebInv'
<1>. USE PlatformAssumption
<1>1. Shaped /\ WebTypes /\ Minted
  BY WebShaped DEF WebInv
<1>2. UNCHANGED <<webRow, webBrowser, webMinted, webLogin, webReused, webExcused, webDropped>> /\ webRequest[r] = Browsers!Idle
  BY DEF Browsers!CreateStarts, Browsers!RefreshStarts, Browsers!DeleteStarts
<1>3. Browsers!resolve(webBrowser) => webBrowser \in Browsers!Cookies /\ webRow[webBrowser].is = "ROW" /\ webRow[webBrowser].login \in Held /\ webRow[webBrowser].rotation \in Nat
  BY <1>1 DEF Browsers!resolve, Browsers!Known, Shaped, RowFacts
<1>4. webRequest'[r] \in WebRequest /\ webRequest' = [webRequest EXCEPT ![r] = webRequest'[r]] /\ Begins(r)
  <2>1. ASSUME NEW mode \in {"GUEST", "AUTHENTICATED"}, Browsers!CreateStarts(r, mode)
        PROVE  webRequest'[r] \in Asks /\ webRequest' = [webRequest EXCEPT ![r] = webRequest'[r]] /\ Begins(r)
    BY <1>1, <1>2, <1>3, <2>1 DEF Browsers!CreateStarts, Begins, WebTypes, Asks, Browsers!Guest,
       Held, Browsers!Idle, Browsers!Cookies
  <2>2. CASE Browsers!RefreshStarts(r)
    BY <1>1, <1>2, <1>3, <2>2 DEF Browsers!RefreshStarts, Begins, WebTypes, WebRequest, Refreshes,
       Browsers!Guest, Held, Browsers!Logins, Browsers!Idle
  <2>3. CASE Browsers!DeleteStarts(r)
    BY <1>1, <1>2, <1>3, <2>3 DEF Browsers!DeleteStarts, Begins, WebTypes, WebRequest, Deletes,
       Browsers!Idle
  <2>. QED BY <2>1, <2>2, <2>3 DEF WebRequest
<1>5. WebTypes'
  BY <1>1, <1>2, <1>4 DEF WebTypes
<1>. QED BY <1>4, <1>5, WebStarts

\* Signing out ends the login before the row is deleted.
LEMMA WebDeleteRevokes ==
  ASSUME WebInv, NEW r \in WebRequests, Browsers!DeleteRevokes(r)
  PROVE  WebInv'
<1>. USE PlatformAssumption
<1>1. Shaped /\ WebTypes /\ Minted /\ ReadOf /\ Granted /\ Custody /\ Kept
  BY WebShaped DEF WebInv
<1>a. /\ UNCHANGED <<webRow, webBrowser, webMinted, webReused, webDropped>> /\ webRequest[r].at = "REVOKE" /\ webRequest[r].op = "DELETE"
      /\ webRequest'[r] \in Deletes /\ webRequest'[r].at = "DELETE" /\ webRequest'[r].cookie = webRequest[r].cookie
      /\ webRequest'[r].login = webRequest[r].login
      /\ webRequest' = [webRequest EXCEPT ![r] = webRequest'[r]] /\ \A s \in WebRequests : s # r => webRequest'[s] = webRequest[s]
      /\ webRequest[r].login \in Held /\ \E ok \in BOOLEAN : Browsers!Revoke(webRequest[r].login, ok)
  BY <1>1 DEF Browsers!DeleteRevokes, WebTypes, Shaped, Facts, Deletes, Bearing
<1>b. /\ webLogin' \in [Browsers!Logins -> WebLogin] /\ webExcused \subseteq webExcused' /\ webExcused' \subseteq Browsers!Logins
      /\ \A l \in Browsers!Logins : /\ webLogin'[l].granted <=> webLogin[l].granted
                                    /\ webLogin'[l].rotation = webLogin[l].rotation
                                    /\ Settled(l) \/ l = webRequest[r].login => Settled(l)'
  BY <1>1, <1>a, Revoked
<1>2. WebTypes'
  BY <1>1, <1>a, <1>b DEF WebTypes, WebRequest
<1>3. Minted'
  BY <1>1, <1>a, <1>b DEF Minted, Looking, Revoking, Row
<1>4. ReadOf'
  BY <1>1, <1>a, <1>b DEF ReadOf, Looking, Revoking, Row
<1>5. Granted'
  BY <1>1, <1>a, <1>b DEF Granted, Bearing, Row
<1>6. ASSUME NEW l \in Browsers!Logins, ~Settled(l)'
      PROVE  /\ InOneRow(l) /\ NewIsNew(l) /\ OneLease(l) /\ ReadFresh(l) /\ LeaseHeld(l) /\ RowFresh(l) /\ NotDeleted(l)
             /\ webLogin'[l].rotation = webLogin[l].rotation /\ l # webRequest[r].login
  BY <1>1, <1>6, <1>a, <1>b DEF Custody
<1>7. ASSUME NEW l \in Browsers!Logins, ~Settled(l)'
      PROVE  InOneRow(l)' /\ NewIsNew(l)' /\ OneLease(l)' /\ NotDeleted(l)'
  BY <1>6, <1>7, <1>a DEF InOneRow, NewIsNew, OneLease, NotDeleted, Leased, Bearing, Row
<1>8. ASSUME NEW l \in Browsers!Logins, ~Settled(l)'
      PROVE  ReadFresh(l)' /\ LeaseHeld(l)' /\ RowFresh(l)'
  BY <1>6, <1>8, <1>a DEF ReadFresh, LeaseHeld, RowFresh, Leased, Refreshing, Row
<1>9. Kept'
  <2>. SUFFICES ASSUME NEW l \in Browsers!Logins, ~Settled(l)', l \notin webDropped', webLogin'[l].granted
                PROVE  \/ \E d \in Browsers!Cookies : Row(d)' /\ webRow'[d].login = l
                       \/ \E s \in WebRequests : Has(webRequest'[s], l)
    BY DEF Kept
  <2>. QED BY <1>1, <1>a, <1>b DEF Kept, Has, Row, Revoking
<1>. QED BY <1>2, <1>3, <1>4, <1>5, <1>7, <1>8, <1>9 DEF WebInv, Custody

\* A login just granted is in the hands of the request that asked for it, alone.
LEMMA WebAsk ==
  ASSUME WebInv, NEW r \in WebRequests, Browsers!Ask(r)
  PROVE  WebInv'
<1>. USE PlatformAssumption
<1>1. Shaped /\ WebTypes /\ Minted /\ ReadOf /\ Granted /\ Custody /\ Kept
  BY WebShaped DEF WebInv
<1>a. /\ UNCHANGED <<webRow, webBrowser, webMinted, webReused, webExcused, webDropped>> /\ webRequest[r].at = "ASK"
      /\ webRequest'[r] \in Writes /\ webRequest'[r].at = "WRITE" /\ webRequest'[r].cookie = webRequest[r].cookie
      /\ webRequest'[r].login = webRequest[r].login
      /\ webRequest' = [webRequest EXCEPT ![r] = webRequest'[r]] /\ \A s \in WebRequests : s # r => webRequest'[s] = webRequest[s]

  BY <1>1 DEF Browsers!Ask, WebTypes, Shaped, Facts, Asks, Writes, Browsers!Guest, Held,
     Browsers!Logins
<1>b. \/ webRequest'[r].new = 0 /\ webLogin' = webLogin
      \/ /\ webRequest'[r].new \in Browsers!Logins /\ ~webLogin[webRequest'[r].new].granted
         /\ webLogin' = [webLogin EXCEPT ![webRequest'[r].new].granted = TRUE]
  <2>1. \/ webRequest'[r].new = 0 /\ webLogin' = webLogin
        \/ \E l \in Browsers!Logins : ~webLogin[l].granted /\ webLogin' = [webLogin EXCEPT ![l].granted = TRUE] /\ webRequest'[r].new = l
    BY <1>1 DEF Browsers!Ask, WebTypes, Browsers!Guest
  <2>. QED BY <2>1
<1>c. /\ webLogin' \in [Browsers!Logins -> WebLogin]
      /\ \A l \in Browsers!Logins : /\ webLogin'[l].ended <=> webLogin[l].ended
                                    /\ webLogin'[l].rotation = webLogin[l].rotation
                                    /\ webLogin[l].granted => webLogin'[l].granted
                                    /\ l # webRequest'[r].new => webLogin'[l] = webLogin[l]
      /\ webRequest'[r].new = 0 \/ (webLogin'[webRequest'[r].new].granted /\ ~webLogin[webRequest'[r].new].granted)
  BY <1>1, <1>b, Given DEF WebTypes
<1>2. WebTypes'
  BY <1>1, <1>a, <1>c DEF WebTypes, WebRequest
<1>3. Minted'
  BY <1>1, <1>a, <1>c DEF Minted, Looking, Revoking, Row
<1>4. ReadOf'
  BY <1>1, <1>a, <1>c DEF ReadOf, Looking, Revoking, Row
<1>5. Granted'
  BY <1>1, <1>a, <1>c DEF Granted, Bearing, Row, Shaped
<1>6. ASSUME NEW l \in Browsers!Logins, ~Settled(l)'
      PROVE  /\ InOneRow(l) /\ NewIsNew(l) /\ OneLease(l) /\ ReadFresh(l) /\ LeaseHeld(l) /\ RowFresh(l) /\ NotDeleted(l)
             /\ webLogin'[l].rotation = webLogin[l].rotation /\ l # 0
  BY <1>1, <1>6, <1>a, <1>c DEF Custody, Settled, Shaped
<1>7. ASSUME NEW l \in Browsers!Logins, ~Settled(l)'
      PROVE  InOneRow(l)' /\ OneLease(l)' /\ NotDeleted(l)'
  BY <1>6, <1>7, <1>a DEF InOneRow, OneLease, NotDeleted, Leased, Row
<1>8. ASSUME NEW l \in Browsers!Logins, ~Settled(l)'
      PROVE  NewIsNew(l)'
  BY <1>1, <1>6, <1>8, <1>a, <1>c DEF NewIsNew, Granted, Bearing, Row
<1>9. ASSUME NEW l \in Browsers!Logins, ~Settled(l)'
      PROVE  ReadFresh(l)' /\ LeaseHeld(l)' /\ RowFresh(l)'
  BY <1>6, <1>9, <1>a DEF ReadFresh, LeaseHeld, RowFresh, Leased, Refreshing, Row
<1>10. Kept'
  <2>. SUFFICES ASSUME NEW l \in Browsers!Logins, ~Settled(l)', l \notin webDropped', webLogin'[l].granted
                PROVE  \/ \E d \in Browsers!Cookies : Row(d)' /\ webRow'[d].login = l
                       \/ \E s \in WebRequests : Has(webRequest'[s], l)
    BY DEF Kept
  <2>1. CASE l = webRequest'[r].new
    BY <2>1, <1>a DEF Has
  <2>. QED BY <1>1, <2>1, <1>a, <1>c DEF Kept, Has, Row, Revoking, Settled
<1>. QED BY <1>2, <1>3, <1>4, <1>5, <1>7, <1>8, <1>9, <1>10 DEF WebInv, Custody

\* Whoever gets the lease found the row with no lease, so nobody else refreshes.
LEMMA WebAcquire ==
  ASSUME WebInv, NEW r \in WebRequests, Browsers!Acquire(r)
  PROVE  WebInv'
<1>. USE PlatformAssumption
<1>1. Shaped /\ WebTypes /\ Minted /\ ReadOf /\ Granted /\ Custody /\ Kept
  BY WebShaped DEF WebInv
<1>a. /\ UNCHANGED <<webBrowser, webMinted, webLogin, webReused, webExcused, webDropped>> /\ webRequest[r].at = "ACQUIRE"
      /\ webRequest'[r] \in Refreshes /\ webRequest'[r].at = "PRESENT"
      /\ webRequest'[r].cookie = webRequest[r].cookie /\ webRequest'[r].login = webRequest[r].login /\ webRequest'[r].rotation = webRequest[r].rotation
      /\ webRequest' = [webRequest EXCEPT ![r] = webRequest'[r]] /\ \A s \in WebRequests : s # r => webRequest'[s] = webRequest[s]
      /\ webRequest[r].cookie \in Browsers!Cookies /\ webRequest[r].login \in Browsers!Logins
      /\ webRow[webRequest[r].cookie].is = "ROW" /\ webRow[webRequest[r].cookie].lease # "HELD"
      /\ webRow' = [webRow EXCEPT ![webRequest[r].cookie].lease = "HELD"]
  BY <1>1 DEF Browsers!Acquire, Browsers!AcquireRefresh, Browsers!resolve, Browsers!Known,
     WebTypes, Shaped, Facts, Light, Refreshing, Refreshes
<1>b. /\ webRow' \in [Browsers!Cookies -> WebRow] /\ webRow'[webRequest[r].cookie].lease = "HELD"
      /\ \A d \in Browsers!Cookies :
           /\ webRow'[d].is = webRow[d].is
           /\ Row(d) => webRow'[d].login = webRow[d].login /\ webRow'[d].rotation = webRow[d].rotation /\ (webRow'[d].expired <=> webRow[d].expired)
           /\ d # webRequest[r].cookie => webRow'[d] = webRow[d]
  BY <1>1, <1>a DEF WebTypes, Shaped, RowFacts, WebRow, FullRow, Row
<1>c. webRow[webRequest[r].cookie].login = webRequest[r].login
      /\ \A s \in WebRequests : Refreshing(webRequest[s]) => webRequest[s].cookie \in Browsers!Cookies
  BY <1>1, <1>a DEF ReadOf, Looking, Revoking, Row, Shaped, Light
<1>2. WebTypes'
  BY <1>1, <1>a, <1>b, <1>c DEF WebTypes, WebRequest
<1>3. Minted'
  BY <1>1, <1>a, <1>b, <1>c DEF Minted, Looking, Revoking, Row
<1>4. ReadOf'
  BY <1>1, <1>a, <1>b, <1>c DEF ReadOf, Looking, Revoking, Row, Shaped, Light, Browsers!Cookies
<1>5. Granted'
  BY <1>1, <1>a, <1>b, <1>c DEF Granted, Bearing, Row
<1>6. ASSUME NEW l \in Browsers!Logins, ~Settled(l)'
      PROVE  /\ InOneRow(l) /\ NewIsNew(l) /\ OneLease(l) /\ ReadFresh(l) /\ LeaseHeld(l) /\ RowFresh(l) /\ NotDeleted(l)
             /\ webLogin'[l].rotation = webLogin[l].rotation
  BY <1>1, <1>6, <1>a, <1>b, <1>c DEF Custody, Settled
<1>7. ASSUME NEW l \in Browsers!Logins, ~Settled(l)'
      PROVE  InOneRow(l)' /\ NewIsNew(l)' /\ NotDeleted(l)'
  BY <1>6, <1>7, <1>a, <1>b, <1>c DEF InOneRow, NewIsNew, NotDeleted, Bearing, Row
<1>8. ASSUME NEW l \in Browsers!Logins, ~Settled(l)'
      PROVE  OneLease(l)'
  <2>1. ASSUME NEW s \in WebRequests, s # r, Leased(webRequest[s]), webRequest[s].login = l, webRequest[r].login = l
        PROVE  FALSE
    BY <1>1, <1>6, <1>8, <1>a, <1>c, <2>1 DEF ReadOf, Shaped, Looking, Revoking, LeaseHeld,
       InOneRow, Leased, Refreshing, Row
  <2>. QED BY <1>6, <1>8, <1>a, <2>1 DEF OneLease, Leased
<1>9. ASSUME NEW l \in Browsers!Logins, ~Settled(l)'
      PROVE  ReadFresh(l)'
  BY <1>6, <1>9, <1>a, <1>b, <1>c DEF ReadFresh, RowFresh, Refreshing, Row
<1>10. ASSUME NEW l \in Browsers!Logins, ~Settled(l)'
      PROVE  LeaseHeld(l)'
  BY <1>6, <1>10, <1>a, <1>b, <1>c DEF LeaseHeld, Leased, Refreshing, Row
<1>11. ASSUME NEW l \in Browsers!Logins, ~Settled(l)'
      PROVE  RowFresh(l)'
  BY <1>6, <1>11, <1>a, <1>b, <1>c DEF RowFresh, Row
<1>12. Kept'
  <2>. SUFFICES ASSUME NEW l \in Browsers!Logins, ~Settled(l)', l \notin webDropped', webLogin'[l].granted
                PROVE  \/ \E d \in Browsers!Cookies : Row(d)' /\ webRow'[d].login = l
                       \/ \E s \in WebRequests : Has(webRequest'[s], l)
    BY DEF Kept
  <2>. QED BY <1>1, <1>a, <1>b, <1>c DEF Kept, Has, Row, Revoking, Settled
<1>. QED BY <1>2, <1>3, <1>4, <1>5, <1>7, <1>8, <1>9, <1>10, <1>11, <1>12 DEF WebInv, Custody

\* The identity service rotates the token of the one refresh that holds the lease.
LEMMA WebPresented ==
  ASSUME WebInv, NEW r \in WebRequests, Browsers!Present(r), webRequest'[r].at # "IDLE"
  PROVE  WebInv'
<1>. USE PlatformAssumption
<1>1. Shaped /\ WebTypes /\ Minted /\ ReadOf /\ Granted /\ Custody /\ Kept
  BY WebShaped DEF WebInv
<1>a. /\ UNCHANGED <<webRow, webBrowser, webMinted, webReused, webExcused, webDropped>> /\ webRequest[r].at = "PRESENT"
      /\ webRequest'[r] \in Refreshes /\ webRequest'[r].at = "REPLACE"
      /\ webRequest'[r].cookie = webRequest[r].cookie /\ webRequest'[r].login = webRequest[r].login /\ webRequest'[r].rotation = webRequest[r].rotation
      /\ webRequest' = [webRequest EXCEPT ![r] = webRequest'[r]] /\ \A s \in WebRequests : s # r => webRequest'[s] = webRequest[s]
      /\ webRequest[r].cookie \in Browsers!Cookies /\ webRequest[r].login \in Browsers!Logins /\ webRequest[r].rotation \in Nat
      /\ webLogin[webRequest[r].login].rotation = webRequest[r].rotation
      /\ webLogin' = [webLogin EXCEPT ![webRequest[r].login].rotation = @ + 1]
  BY <1>1 DEF Browsers!Present, WebTypes, Shaped, Facts, Light, Refreshing, Refreshes, Browsers!Idle
<1>b. /\ webLogin' \in [Browsers!Logins -> WebLogin] /\ webLogin'[webRequest[r].login].rotation = webRequest[r].rotation + 1
      /\ \A l \in Browsers!Logins : /\ (webLogin'[l].granted <=> webLogin[l].granted) /\ (webLogin'[l].ended <=> webLogin[l].ended)
                                    /\ l # webRequest[r].login => webLogin'[l] = webLogin[l]
  BY <1>1, <1>a, Rotated DEF WebTypes
<1>c. (Row(webRequest[r].cookie) => webRow[webRequest[r].cookie].login = webRequest[r].login)
  BY <1>1, <1>a DEF ReadOf, Looking, Revoking, Shaped
<1>2. WebTypes'
  BY <1>1, <1>a, <1>b, <1>c DEF WebTypes, WebRequest
<1>3. Minted'
  BY <1>1, <1>a, <1>b, <1>c DEF Minted, Looking, Revoking, Row
<1>4. ReadOf'
  BY <1>1, <1>a, <1>b, <1>c DEF ReadOf, Looking, Revoking, Row
<1>5. Granted'
  BY <1>1, <1>a, <1>b, <1>c DEF Granted, Bearing, Row
<1>6. ASSUME NEW l \in Browsers!Logins, ~Settled(l)'
      PROVE  /\ InOneRow(l) /\ NewIsNew(l) /\ OneLease(l) /\ ReadFresh(l) /\ LeaseHeld(l) /\ RowFresh(l) /\ NotDeleted(l)
  BY <1>1, <1>6, <1>a, <1>b, <1>c DEF Custody, Settled
<1>7. ASSUME NEW l \in Browsers!Logins, ~Settled(l)'
      PROVE  InOneRow(l)' /\ OneLease(l)' /\ NotDeleted(l)'
  BY <1>6, <1>7, <1>a DEF InOneRow, OneLease, NotDeleted, Leased, Row
<1>8. ASSUME NEW l \in Browsers!Logins, ~Settled(l)'
      PROVE  NewIsNew(l)'
  BY <1>6, <1>8, <1>a, <1>b, <1>c DEF NewIsNew, Bearing, Row
<1>9. ASSUME NEW l \in Browsers!Logins, ~Settled(l)'
      PROVE  ReadFresh(l)'
  BY <1>6, <1>9, <1>a, <1>b, <1>c DEF ReadFresh, OneLease, Leased, Refreshing, Row
<1>10. ASSUME NEW l \in Browsers!Logins, ~Settled(l)'
      PROVE  LeaseHeld(l)'
  BY <1>6, <1>10, <1>a DEF LeaseHeld, Leased, Row
<1>11. ASSUME NEW l \in Browsers!Logins, ~Settled(l)'
      PROVE  RowFresh(l)'
  BY <1>6, <1>11, <1>a, <1>b, <1>c DEF RowFresh, InOneRow, LeaseHeld, Leased, Row
<1>12. Kept'
  <2>. SUFFICES ASSUME NEW l \in Browsers!Logins, ~Settled(l)', l \notin webDropped', webLogin'[l].granted
                PROVE  \/ \E d \in Browsers!Cookies : Row(d)' /\ webRow'[d].login = l
                       \/ \E s \in WebRequests : Has(webRequest'[s], l)
    BY DEF Kept
  <2>. QED BY <1>1, <1>a, <1>b, <1>c DEF Kept, Has, Row, Revoking, Settled
<1>. QED BY <1>2, <1>3, <1>4, <1>5, <1>7, <1>8, <1>9, <1>10, <1>11, <1>12 DEF WebInv, Custody

\* The new login moves from the request into a row, and the old one from its row
\* into the hands of the request.
LEMMA WebCreateWrites ==
  ASSUME WebInv, NEW r \in WebRequests, Browsers!CreateWrites(r)
  PROVE  WebInv'
<1>. USE PlatformAssumption
<1>1. Shaped /\ WebTypes /\ Minted /\ ReadOf /\ Granted /\ Custody /\ Kept
  BY WebShaped DEF WebInv
<1>a. /\ UNCHANGED <<webBrowser, webLogin, webReused, webExcused, webDropped>> /\ webRequest[r].at = "WRITE"
      /\ webRequest[r].cookie \in 0..webMinted /\ webRequest[r].new \in Held /\ webRequest[r].login \in Held
      /\ webMinted \in 0..MaxCookies - 1 /\ webMinted' = webMinted + 1 /\ webMinted' \in Browsers!Cookies
      /\ webRequest'[r] \in Revokes /\ webRequest'[r].at = "REVOKE" /\ webRequest'[r].op = "CREATE"
      /\ webRequest'[r].login = webRequest[r].login /\ webRequest'[r].made = webMinted'
      /\ webRequest' = [webRequest EXCEPT ![r] = webRequest'[r]] /\ \A s \in WebRequests : s # r => webRequest'[s] = webRequest[s]
  BY <1>1 DEF Browsers!CreateWrites, Browsers!Create, Browsers!Replace, Browsers!Known, WebTypes,
     Shaped, Facts, Minted, Writes, Revokes, Held, Browsers!Cookies, Looking, Revoking, Bearing
<1>b. /\ Browsers!NewSession(webRequest[r].new, 0) \in FullRow
      /\ \/ webRequest[r].cookie = 0 /\ webRow' = [webRow EXCEPT ![webMinted'] = Browsers!NewSession(webRequest[r].new, 0)]
         \/ /\ webRequest[r].cookie \in Browsers!Cookies /\ webRow[webRequest[r].cookie].is = "ROW"
            /\ webRow' = [webRow EXCEPT ![webRequest[r].cookie] = Browsers!NoRow, ![webMinted'] = Browsers!NewSession(webRequest[r].new, 0)]
  BY <1>1, <1>a DEF Browsers!CreateWrites, Browsers!Create, Browsers!Replace, Browsers!NewSession,
     Browsers!Known, FullRow
<1>c. webRow' \in [Browsers!Cookies -> WebRow]
  BY <1>1, <1>a, <1>b DEF WebTypes, WebRow
<1>d. webRow[webMinted'].is # "ROW" /\ webRequest[r].cookie # webMinted'
  BY <1>1, <1>a DEF Minted, Row
<1>e. /\ webRow'[webMinted'].is = "ROW" /\ webRow'[webMinted'].login = webRequest[r].new /\ webRow'[webMinted'].rotation = 0
      /\ webRow'[webMinted'].lease = "FREE" /\ ~webRow'[webMinted'].expired
      /\ \A d \in Browsers!Cookies : Row(d)' => d = webMinted' \/ (Row(d) /\ webRow'[d] = webRow[d] /\ d # webRequest[r].cookie)
      /\ \A d \in Browsers!Cookies : d # webMinted' /\ d # webRequest[r].cookie => webRow'[d] = webRow[d]
  <2>1. CASE webRow' = [webRow EXCEPT ![webMinted'] = Browsers!NewSession(webRequest[r].new, 0)] /\ webRequest[r].cookie = 0
    BY <1>1, <1>a, <1>d, <2>1 DEF WebTypes, Browsers!NewSession, Row, Browsers!Cookies
  <2>2. CASE webRow' = [webRow EXCEPT ![webRequest[r].cookie] = Browsers!NoRow, ![webMinted'] = Browsers!NewSession(webRequest[r].new, 0)] /\ webRequest[r].cookie \in Browsers!Cookies
    BY <1>1, <1>a, <1>d, <2>2 DEF WebTypes, Browsers!NewSession, Browsers!NoRow, Row
  <2>. QED BY <1>b, <2>1, <2>2
<1>f. /\ \A s \in WebRequests : Looking(webRequest[s]) => webRequest[s].cookie # webMinted'
      /\ \A s \in WebRequests : Looking(webRequest[s]) /\ webRequest[s].cookie \in Browsers!Cookies /\ webRow[webRequest[s].cookie].is = "ROW" =>
           webRow[webRequest[s].cookie].login = webRequest[s].login
      /\ \A s \in WebRequests : Refreshing(webRequest[s]) => webRequest[s].cookie \in Browsers!Cookies
  BY <1>1, <1>a DEF Minted, ReadOf, Shaped, Light, Row
<1>2. WebTypes'
  <2>1. webRequest' \in [WebRequests -> WebRequest] /\ webBrowser' \in 0..webMinted' /\ webMinted' \in 0..MaxCookies
    BY <1>1, <1>a DEF WebTypes, WebRequest, Browsers!Cookies
  <2>. QED BY <1>1, <1>a, <1>c, <2>1 DEF WebTypes
<1>3. Minted'
  <2>1. \A d \in Browsers!Cookies : Row(d)' => d <= webMinted'
    BY <1>1, <1>a, <1>c, <1>d, <1>e, <1>f DEF Minted, Browsers!Cookies
  <2>2. ASSUME NEW s \in WebRequests
        PROVE  /\ Looking(webRequest'[s]) => webRequest'[s].cookie <= webMinted'
               /\ Revoking(webRequest'[s]) => webRequest'[s].made <= webMinted'
    BY <1>1, <1>a, <1>c, <1>d, <1>e, <1>f, <2>2 DEF Minted, Shaped, Light, Facts, Looking,
       Revoking, Browsers!Cookies
  <2>. QED BY <2>1, <2>2 DEF Minted
<1>4. ReadOf'
  BY <1>1, <1>a, <1>c, <1>d, <1>e, <1>f DEF ReadOf, Looking, Revoking, Row, Shaped, Light,
     Browsers!Cookies
<1>5. Granted'
  <2>1. Granted
    BY <1>1
  <2>. QED BY <1>a, <1>e, <2>1 DEF Granted, Bearing, Row
<1>6. ASSUME NEW l \in Browsers!Logins, ~Settled(l)'
      PROVE  /\ InOneRow(l) /\ NewIsNew(l) /\ OneLease(l) /\ ReadFresh(l) /\ LeaseHeld(l) /\ RowFresh(l) /\ NotDeleted(l)
             /\ webLogin'[l].rotation = webLogin[l].rotation
  BY <1>1, <1>6, <1>a, <1>c, <1>d, <1>e, <1>f DEF Custody, Settled
<1>7. ASSUME NEW l \in Browsers!Logins, ~Settled(l)'
      PROVE  InOneRow(l)'
  BY <1>6, <1>7, <1>a, <1>c, <1>d, <1>e, <1>f DEF InOneRow, NewIsNew, Row
<1>8. ASSUME NEW l \in Browsers!Logins, ~Settled(l)'
      PROVE  NewIsNew(l)'
  BY <1>6, <1>8, <1>a, <1>c, <1>d, <1>e, <1>f DEF NewIsNew, Bearing, Row
<1>9. ASSUME NEW l \in Browsers!Logins, ~Settled(l)'
      PROVE  OneLease(l)' /\ NotDeleted(l)'
  BY <1>6, <1>9, <1>a DEF OneLease, NotDeleted, Leased
<1>10. ASSUME NEW l \in Browsers!Logins, ~Settled(l)'
      PROVE  ReadFresh(l)'
  <2>1. \A s \in WebRequests : Refreshing(webRequest'[s]) => s # r /\ webRequest'[s] = webRequest[s] /\ Looking(webRequest[s])
    BY <1>a DEF Refreshing, Looking, Revoking
  <2>2. \A s \in WebRequests : Refreshing(webRequest'[s]) /\ Row(webRequest[s].cookie)' =>
          Row(webRequest[s].cookie) /\ webRow'[webRequest[s].cookie] = webRow[webRequest[s].cookie]
    BY <2>1, <1>a, <1>e, <1>f
  <2>. QED BY <1>6, <1>10, <1>a, <2>1, <2>2 DEF ReadFresh
<1>11. ASSUME NEW l \in Browsers!Logins, ~Settled(l)'
      PROVE  LeaseHeld(l)'
  <2>1. InOneRow(l) /\ NewIsNew(l) /\ LeaseHeld(l)
    BY <1>6, <1>11
  <2>2. ASSUME NEW s \in WebRequests, Leased(webRequest'[s]), webRequest'[s].login = l
        PROVE  /\ webRequest'[s] = webRequest[s] /\ webRequest[s].cookie \in Browsers!Cookies
               /\ webRequest[s].cookie # webMinted' /\ Looking(webRequest[s]) /\ Bearing(webRequest[s])
    BY <1>a, <1>f, <2>2 DEF Leased, Refreshing, Looking, Revoking, Bearing
  <2>3. ASSUME NEW s \in WebRequests, Leased(webRequest'[s]), webRequest'[s].login = l,
               NEW d \in Browsers!Cookies, d = webRequest'[s].cookie, Row(d)'
        PROVE  webRow'[d].lease = "HELD"
    BY <1>e, <2>1, <2>2, <2>3 DEF LeaseHeld
  <2>4. ASSUME NEW s \in WebRequests, Leased(webRequest'[s]), webRequest'[s].login = l,
               NEW d \in Browsers!Cookies, d = webRequest'[s].cookie, ~Row(d)',
               NEW c \in Browsers!Cookies, Row(c)', webRow'[c].login = l
        PROVE  FALSE
    <3>1. /\ webRequest[s] = webRequest'[s] /\ webRequest[s].cookie = d /\ d # webMinted'
          /\ Looking(webRequest[s]) /\ Bearing(webRequest[s])
      BY <2>2, <2>4
    <3>2. c # webMinted'
      BY <1>a, <1>e, <2>1, <2>4, <3>1 DEF NewIsNew
    <3>3. Row(c) /\ webRow[c].login = l
      BY <1>e, <2>4, <3>2
    <3>4. Row(d)
      BY <2>1, <2>4, <3>1, <3>3 DEF LeaseHeld
    <3>5. webRow[d].login = l
      BY <1>f, <2>4, <3>1, <3>4 DEF Row
    <3>6. d = c
      BY <2>1, <3>3, <3>4, <3>5 DEF InOneRow
    <3>. QED BY <2>4, <3>6
  <2>. QED BY <2>2, <2>3, <2>4 DEF LeaseHeld, Row
<1>12. ASSUME NEW l \in Browsers!Logins, ~Settled(l)'
      PROVE  RowFresh(l)'
  BY <1>6, <1>12, <1>a, <1>c, <1>d, <1>e, <1>f DEF RowFresh, NewIsNew, Row
<1>13. Kept'
  <2>. SUFFICES ASSUME NEW l \in Browsers!Logins, ~Settled(l)', l \notin webDropped', webLogin'[l].granted
                PROVE  \/ \E d \in Browsers!Cookies : Row(d)' /\ webRow'[d].login = l
                       \/ \E s \in WebRequests : Has(webRequest'[s], l)
    BY DEF Kept
  <2>. QED BY <1>1, <1>a, <1>c, <1>d, <1>e, <1>f DEF Kept, Has, Row, Looking, Revoking, Settled
<1>. QED BY <1>2, <1>3, <1>4, <1>5, <1>7, <1>8, <1>9, <1>10, <1>11, <1>12, <1>13 DEF WebInv, Custody

\* The session moves to a new cookie, with the token just received.
LEMMA WebRefreshReplaces ==
  ASSUME WebInv, NEW r \in WebRequests, Browsers!RefreshReplaces(r)
  PROVE  WebInv'
<1>. USE PlatformAssumption
<1>1. Shaped /\ WebTypes /\ Minted /\ ReadOf /\ Granted /\ Custody /\ Kept
  BY WebShaped DEF WebInv
<1>a. /\ UNCHANGED <<webLogin, webReused, webExcused, webDropped>> /\ webRequest[r].at = "REPLACE" /\ webBrowser' = webMinted'
      /\ webRequest[r].cookie \in Browsers!Cookies /\ webRequest[r].login \in Browsers!Logins /\ webRequest[r].rotation \in Nat
      /\ webRow[webRequest[r].cookie].is = "ROW"
      /\ webMinted \in 0..MaxCookies - 1 /\ webMinted' = webMinted + 1 /\ webMinted' \in Browsers!Cookies /\ webRequest[r].cookie # webMinted'
      /\ webRequest'[r] = Browsers!Idle /\ webRequest'[r].at = "IDLE"
      /\ webRequest' = [webRequest EXCEPT ![r] = webRequest'[r]] /\ \A s \in WebRequests : s # r => webRequest'[s] = webRequest[s]
  BY <1>1 DEF Browsers!RefreshReplaces, Browsers!Replace, Browsers!Known, WebTypes, Shaped, Light,
     Minted, Browsers!Cookies, Looking, Refreshing, Revoking, Browsers!Idle, Row
<1>b. /\ Browsers!NewSession(webRequest[r].login, webRequest[r].rotation + 1) \in FullRow
      /\ webRow' = [webRow EXCEPT ![webRequest[r].cookie] = Browsers!NoRow, ![webMinted'] = Browsers!NewSession(webRequest[r].login, webRequest[r].rotation + 1)]
  BY <1>1, <1>a DEF Browsers!RefreshReplaces, Browsers!Replace, Browsers!NewSession, FullRow,
     Held, Browsers!Logins
<1>c. webRow' \in [Browsers!Cookies -> WebRow]
  BY <1>1, <1>a, <1>b DEF WebTypes, WebRow
<1>d. webRow[webMinted'].is # "ROW"
  BY <1>1, <1>a DEF Minted, Row
<1>e. /\ webRow'[webMinted'].is = "ROW" /\ webRow'[webMinted'].login = webRequest[r].login /\ webRow'[webMinted'].rotation = webRequest[r].rotation + 1
      /\ webRow'[webMinted'].lease = "FREE" /\ ~webRow'[webMinted'].expired
      /\ \A d \in Browsers!Cookies : Row(d)' => d = webMinted' \/ (Row(d) /\ webRow'[d] = webRow[d] /\ d # webRequest[r].cookie)
      /\ \A d \in Browsers!Cookies : d # webMinted' /\ d # webRequest[r].cookie => webRow'[d] = webRow[d]
  BY <1>1, <1>a, <1>b, <1>d DEF WebTypes, Browsers!NewSession, Browsers!NoRow, Row
<1>f. /\ \A s \in WebRequests : Looking(webRequest[s]) => webRequest[s].cookie # webMinted'
      /\ \A s \in WebRequests : Looking(webRequest[s]) /\ webRequest[s].cookie \in Browsers!Cookies /\ webRow[webRequest[s].cookie].is = "ROW" =>
           webRow[webRequest[s].cookie].login = webRequest[s].login
      /\ \A s \in WebRequests : Refreshing(webRequest[s]) => webRequest[s].cookie \in Browsers!Cookies
  BY <1>1, <1>a DEF Minted, ReadOf, Shaped, Light, Row
<1>2. WebTypes'
  <2>1. webRequest' \in [WebRequests -> WebRequest] /\ webBrowser' \in 0..webMinted' /\ webMinted' \in 0..MaxCookies
    BY <1>1, <1>a DEF WebTypes, WebRequest, Browsers!Cookies
  <2>. QED BY <1>1, <1>a, <1>c, <2>1 DEF WebTypes
<1>3. Minted'
  <2>1. \A d \in Browsers!Cookies : Row(d)' => d <= webMinted'
    BY <1>1, <1>a, <1>c, <1>d, <1>e, <1>f DEF Minted, Browsers!Cookies
  <2>2. ASSUME NEW s \in WebRequests
        PROVE  /\ Looking(webRequest'[s]) => webRequest'[s].cookie <= webMinted'
               /\ Revoking(webRequest'[s]) => webRequest'[s].made <= webMinted'
    BY <1>1, <1>a, <1>c, <1>d, <1>e, <1>f, <2>2 DEF Minted, Shaped, Light, Facts, Looking,
       Revoking, Browsers!Cookies
  <2>. QED BY <2>1, <2>2 DEF Minted
<1>4. ReadOf'
  BY <1>1, <1>a, <1>c, <1>d, <1>e, <1>f DEF ReadOf, Looking, Revoking, Row, Shaped, Light,
     Browsers!Cookies
<1>5. Granted'
  BY <1>1, <1>a, <1>c, <1>d, <1>e, <1>f DEF Granted, Bearing, Row
<1>6. ASSUME NEW l \in Browsers!Logins, ~Settled(l)'
      PROVE  /\ InOneRow(l) /\ NewIsNew(l) /\ OneLease(l) /\ ReadFresh(l) /\ LeaseHeld(l) /\ RowFresh(l) /\ NotDeleted(l)
             /\ webLogin'[l].rotation = webLogin[l].rotation
  BY <1>1, <1>6, <1>a, <1>c, <1>d, <1>e, <1>f DEF Custody, Settled
<1>7. ASSUME NEW l \in Browsers!Logins, ~Settled(l)'
      PROVE  InOneRow(l)'
  <2>1. webRow[webRequest[r].cookie].login = webRequest[r].login
    BY <1>a, <1>f DEF Looking, Revoking
  <2>2. \A c \in Browsers!Cookies : Row(c)' /\ webRow'[c].login = l => c = webMinted' \/ (Row(c) /\ webRow[c].login = l)
    BY <1>e
  <2>3. ASSUME webRequest[r].login = l, NEW c \in Browsers!Cookies, Row(c), webRow[c].login = l
        PROVE  c = webRequest[r].cookie
    <3>1. InOneRow(l)
      BY <1>6, <1>7
    <3>2. Row(webRequest[r].cookie) /\ webRequest[r].cookie \in Browsers!Cookies
      BY <1>a DEF Row
    <3>. QED BY <2>1, <2>3, <3>1, <3>2 DEF InOneRow
  <2>4. InOneRow(l)
    BY <1>6, <1>7
  <2>. QED BY <1>a, <1>e, <2>2, <2>3, <2>4 DEF InOneRow
<1>8. ASSUME NEW l \in Browsers!Logins, ~Settled(l)'
      PROVE  NewIsNew(l)'
  <2> SUFFICES ASSUME NEW s \in WebRequests, webRequest'[s].at = "WRITE", webRequest'[s].new = l
               PROVE  /\ webLogin'[l].rotation = 0
                      /\ \A c \in Browsers!Cookies : Row(c)' => webRow'[c].login # l
                      /\ \A t \in WebRequests : /\ webRequest'[t].at = "WRITE" /\ webRequest'[t].new = l => s = t
                                                /\ Bearing(webRequest'[t]) => webRequest'[t].login # l
    BY DEF NewIsNew
  <2>1. NewIsNew(l) /\ webLogin'[l].rotation = webLogin[l].rotation
    BY <1>6, <1>8
  <2>2. s # r /\ webRequest[s].at = "WRITE" /\ webRequest[s].new = l
    BY <1>a
  <2>3. Bearing(webRequest[r]) /\ ~Bearing(webRequest'[r])
    BY <1>a DEF Bearing
  <2>4. webLogin[l].rotation = 0 /\ webRequest[r].login # l
    BY <2>1, <2>2, <2>3 DEF NewIsNew
  <2>5. \A c \in Browsers!Cookies : Row(c)' => webRow'[c].login # l
    <3>1. \A c \in Browsers!Cookies : Row(c) => webRow[c].login # l
      BY <2>1, <2>2 DEF NewIsNew
    <3> QED BY <1>e, <2>4, <3>1
  <2>6. ASSUME NEW t \in WebRequests
        PROVE  /\ webRequest'[t].at = "WRITE" /\ webRequest'[t].new = l => s = t
               /\ Bearing(webRequest'[t]) => webRequest'[t].login # l
    <3>1. CASE t = r
      BY <1>a, <2>3, <3>1
    <3>2. CASE t # r
      <4>1. webRequest'[t] = webRequest[t]
        BY <1>a, <3>2
      <4> QED BY <2>1, <2>2, <4>1 DEF NewIsNew
    <3> QED BY <3>1, <3>2
  <2> QED BY <2>1, <2>4, <2>5, <2>6
<1>9. ASSUME NEW l \in Browsers!Logins, ~Settled(l)'
      PROVE  OneLease(l)' /\ NotDeleted(l)'
  BY <1>6, <1>9, <1>a DEF OneLease, NotDeleted, Leased
<1>10. ASSUME NEW l \in Browsers!Logins, ~Settled(l)'
      PROVE  ReadFresh(l)'
  <2>1. ASSUME NEW s \in WebRequests, Refreshing(webRequest'[s])
        PROVE  webRequest'[s] = webRequest[s] /\ Refreshing(webRequest[s]) /\ webRequest[s].cookie \in Browsers!Cookies /\ webRequest[s].cookie # webMinted'
    BY <1>a, <1>f, <2>1 DEF Refreshing, Looking, Revoking
  <2>. QED BY <1>6, <1>10, <1>e, <2>1 DEF ReadFresh, Row
<1>11. ASSUME NEW l \in Browsers!Logins, ~Settled(l)'
      PROVE  LeaseHeld(l)'
  <2> SUFFICES ASSUME NEW s \in WebRequests, Leased(webRequest'[s]), webRequest'[s].login = l
               PROVE  /\ webRow'[webRequest'[s].cookie].is = "ROW" => webRow'[webRequest'[s].cookie].lease = "HELD"
                      /\ webRow'[webRequest'[s].cookie].is # "ROW" => \A c \in Browsers!Cookies : Row(c)' => webRow'[c].login # l
    BY DEF LeaseHeld, Row
  <2>1. s # r /\ webRequest'[s] = webRequest[s] /\ Leased(webRequest[s]) /\ Leased(webRequest[r])
    BY <1>a DEF Leased
  <2>2. webRequest[r].login # l
    BY <1>6, <1>11, <2>1 DEF OneLease
  <2>3. /\ Looking(webRequest[s]) /\ Looking(webRequest[r])
        /\ webRequest[s].cookie \in Browsers!Cookies /\ webRequest[s].cookie # webMinted'
    BY <1>f, <2>1 DEF Looking, Refreshing, Revoking, Leased
  <2>4. webRequest[s].cookie # webRequest[r].cookie /\ webRow'[webRequest[s].cookie] = webRow[webRequest[s].cookie]
    <3>1. webRow[webRequest[r].cookie].login = webRequest[r].login
      BY <1>a, <1>f, <2>3
    <3>2. webRequest[s].cookie = webRequest[r].cookie => webRow[webRequest[r].cookie].login = webRequest[s].login
      BY <1>a, <1>f, <2>3
    <3> QED BY <1>e, <2>1, <2>2, <2>3, <3>1, <3>2
  <2>5. \A c \in Browsers!Cookies : Row(c)' /\ webRow'[c].login = l => Row(c) /\ webRow[c].login = l
    BY <1>e, <2>2
  <2> QED BY <1>6, <1>11, <2>1, <2>4, <2>5 DEF LeaseHeld, Row
<1>12. ASSUME NEW l \in Browsers!Logins, ~Settled(l)'
      PROVE  RowFresh(l)'
  <2>1. webRequest[r].login = l => webRequest[r].rotation + 1 = webLogin[l].rotation
    BY <1>6, <1>12, <1>a DEF ReadFresh, Refreshing
  <2>2. ASSUME NEW d \in Browsers!Cookies, d # webMinted', Row(d)', webRow'[d].login = l
        PROVE  /\ ~webRow'[d].expired
               /\ \/ webRow'[d].rotation = webLogin'[l].rotation
                  \/ webRow'[d].lease = "HELD" /\ \E s \in WebRequests : webRequest'[s].at = "REPLACE" /\ webRequest'[s].cookie = d
    <3>1. Row(d) /\ webRow'[d] = webRow[d] /\ d # webRequest[r].cookie
      BY <1>e, <2>2
    <3>. QED BY <3>1, <1>6, <1>12, <1>a, <2>2 DEF RowFresh
  <2>. QED BY <2>1, <2>2, <1>6, <1>12, <1>a, <1>c, <1>d, <1>e, <1>f DEF RowFresh, Row
<1>13. Kept'
  <2>. SUFFICES ASSUME NEW l \in Browsers!Logins, ~Settled(l)', l \notin webDropped', webLogin'[l].granted
                PROVE  \/ \E d \in Browsers!Cookies : Row(d)' /\ webRow'[d].login = l
                       \/ \E s \in WebRequests : Has(webRequest'[s], l)
    BY DEF Kept
  <2>. QED BY <1>1, <1>a, <1>c, <1>d, <1>e, <1>f DEF Kept, Has, Row, Looking, Revoking, Settled
<1>. QED BY <1>2, <1>3, <1>4, <1>5, <1>7, <1>8, <1>9, <1>10, <1>11, <1>12, <1>13 DEF WebInv, Custody

\* Every step keeps the invariant.
LEMMA WebNext == WebInv /\ [Browsers!Next]_(Browsers!vars) => WebInv'
<1>. SUFFICES ASSUME WebInv, [Browsers!Next]_(Browsers!vars) PROVE WebInv'
  OBVIOUS
<1>1. CASE UNCHANGED Browsers!vars
  BY <1>1 DEF Browsers!vars, WebInv, WebTypes, Minted, ReadOf, Granted, Custody, Kept, Settled,
     InOneRow, NewIsNew, OneLease,
     ReadFresh, LeaseHeld, RowFresh, NotDeleted, Row
<1>2. CASE Browsers!Next
  BY <1>2, WebAskThrownAway, WebPresentThrownAway, WebGivesUp, WebRevokes, WebRefreshEnds, WebPresentLost, WebDeletes, WebCrash,
     WebExpires, WebLapses, WebReads,
     WebDeleteRevokes, WebAsk, WebAcquire, WebPresented, WebCreateWrites, WebRefreshReplaces DEF Browsers!Next
<1>. QED BY <1>1, <1>2

\* Two requests of one browser never spend the same refresh token, and no login
\* is left that nobody can end, but for crashes, lost answers, outlived leases and
\* answers thrown away: createSession and refreshSession hand a login from request
\* to row to request, AcquireRefresh lets one of them rotate it, and Revoke ends
\* what a row no longer has.
THEOREM SessionsKept == Browsers!Spec => []SessionsAccounted
<1>1. Browsers!Init => WebInv
  BY WebInit
<1>2. WebInv /\ [Browsers!Next]_(Browsers!vars) => WebInv'
  BY WebNext
<1>3. WebInv => SessionsAccounted
  <2>. SUFFICES ASSUME WebInv PROVE SessionsAccounted
    OBVIOUS
  <2>1. WebTypes /\ Kept
    BY DEF WebInv
  <2>2. Browsers!TypeOK /\ Browsers!ReuseIsExcused
    BY <2>1, PlatformAssumption DEF WebTypes, Browsers!TypeOK, Browsers!ReuseIsExcused
  <2>3. Browsers!NoOrphans
    <3>. SUFFICES ASSUME NEW l \in Browsers!Logins, l \notin webExcused, l \notin webDropped,
                         webLogin[l].granted, ~webLogin[l].ended
                  PROVE  \/ \E c \in Browsers!Cookies : Browsers!Known(c) /\ webRow[c].login = l
                         \/ \E r \in WebRequests : l \in Browsers!InHand(webRequest[r])
      BY DEF Browsers!NoOrphans
    <3>1. CASE \E c \in Browsers!Cookies : Row(c) /\ webRow[c].login = l
      BY <3>1, PlatformAssumption DEF Row, Browsers!Known, Browsers!Cookies
    <3>2. CASE \E s \in WebRequests : Has(webRequest[s], l)
      BY <2>1, <3>2, Holds DEF WebTypes
    <3>. QED BY <2>1, <3>1, <3>2 DEF Kept, Settled
  <2>. QED BY <2>2, <2>3 DEF SessionsAccounted
<1>. QED BY <1>1, <1>2, <1>3, PTL DEF Browsers!Spec
=============================================================================
