---------------------------- MODULE ServiceProofs ----------------------------
(***************************************************************************)
(* Safety of the smaller services, for any number of users, workers and    *)
(* calls.  Each section takes one module, whole and by itself, and states  *)
(* the property its run checks on a small instance.                        *)
(***************************************************************************)
EXTENDS MCPlatform, Integers, Sequences, FiniteSets, FiniteSetTheorems, TLAPS

----------------------------------------------------------------------------
(* internal/media.  A completion that was overtaken must not decide again: *)
(* it holds an older version, or the asset is as it saw it, and pending.   *)

AssetStates == {"ABSENT", "PENDING_UPLOAD", "PENDING_SCAN", "READY", "REJECTED", "EXPIRED", "DELETED"}
AssetRows == [state : AssetStates, version : Nat]
CompletionSteps == {"COMPLETE", "SCAN", "CLEAN", "REJECT"}
MediaCalls == [asset : Assets \cup {"NONE"}, seen : AssetRows,
               step : CompletionSteps \cup {"IDLE", "REMOVE", "DELETE", "DELETED"}]

\* What a call saw of its asset is what is there, or older.
SeenInTime(k, rows) ==
  k.step # "IDLE" =>
    /\ k.asset \in Assets
    /\ k.seen.version <= rows[k.asset].version
    /\ k.seen.version = rows[k.asset].version => k.seen.state = rows[k.asset].state
    /\ k.step \in CompletionSteps => k.seen.state \in {"PENDING_UPLOAD", "PENDING_SCAN"}

MediaInv ==
  /\ uploadAsset \in [Assets -> AssetRows] /\ uploadCall \in [Calls -> MediaCalls]
  /\ \A c \in Calls : SeenInTime(uploadCall[c], uploadAsset)

DecidedStep ==
  \A a \in Assets :
    /\ uploadAsset[a].state \in {"READY", "REJECTED", "EXPIRED"} =>
         uploadAsset'[a].state \in {uploadAsset[a].state, "DELETED"}
    /\ uploadAsset[a].state = "DELETED" => uploadAsset'[a].state = "DELETED"

\* An update by a call that saw the asset as SeenInTime says: versions grow, what
\* was seen before is still no newer, and only the asset's owner row changes.
LEMMA UpdateInTime ==
  ASSUME MediaInv, NEW c \in Calls, uploadCall[c].step # "IDLE", NEW state \in AssetStates \ {"ABSENT"},
         Uploads!Update(uploadCall[c].asset, uploadCall[c].seen, state),
         uploadCall[c].step \in CompletionSteps \/ state = "DELETED"
  PROVE  /\ uploadAsset' \in [Assets -> AssetRows]
         /\ \A a \in Assets : uploadAsset[a].version <= uploadAsset'[a].version
         /\ \A a \in Assets : uploadAsset[a].version = uploadAsset'[a].version => uploadAsset'[a] = uploadAsset[a]
         /\ DecidedStep
<1>1. /\ uploadCall[c] \in MediaCalls /\ SeenInTime(uploadCall[c], uploadAsset) /\ uploadAsset \in [Assets -> AssetRows]
  BY DEF MediaInv
<1>2. uploadCall[c].asset \in Assets /\ uploadCall[c].seen \in AssetRows
  BY <1>1 DEF SeenInTime, MediaCalls
<1>3. CASE uploadAsset[uploadCall[c].asset].version # uploadCall[c].seen.version
  <2>1. uploadAsset' = uploadAsset
    BY <1>3 DEF Uploads!Update
  <2>2. QED
    BY <1>1, <2>1 DEF DecidedStep, AssetRows
<1>4. CASE uploadAsset[uploadCall[c].asset].version = uploadCall[c].seen.version
  <2> DEFINE new == [state |-> state, version |-> uploadCall[c].seen.version + 1]
  <2>1. uploadAsset' = [uploadAsset EXCEPT ![uploadCall[c].asset] = new]
    BY <1>4 DEF Uploads!Update
  <2>2. new \in AssetRows /\ new.version = uploadAsset[uploadCall[c].asset].version + 1 /\ new.state = state
    BY <1>2, <1>4 DEF AssetRows
  <2>3. /\ uploadAsset[uploadCall[c].asset].state = uploadCall[c].seen.state
        /\ uploadCall[c].step \in CompletionSteps =>
             uploadAsset[uploadCall[c].asset].state \in {"PENDING_UPLOAD", "PENDING_SCAN"}
    BY <1>1, <1>4 DEF SeenInTime
  <2> HIDE DEF new
  <2>4. \A a \in Assets : uploadAsset[a].version \in Nat
    BY <1>1 DEF AssetRows
  <2>5. DecidedStep
    BY <1>1, <1>2, <2>1, <2>2, <2>3 DEF DecidedStep
  <2>6. QED
    BY <1>1, <1>2, <2>1, <2>2, <2>4, <2>5
<1>5. QED
  BY <1>3, <1>4

\* What was seen stays in time while versions grow and a call goes on.
LEMMA StillInTime ==
  ASSUME NEW old \in [Assets -> AssetRows], NEW new \in [Assets -> AssetRows],
         \A a \in Assets : old[a].version <= new[a].version,
         \A a \in Assets : old[a].version = new[a].version => new[a] = old[a],
         NEW k \in MediaCalls, SeenInTime(k, old), k.step # "IDLE",
         NEW j, j.asset = k.asset, j.seen = k.seen,
         j.step \in CompletionSteps => k.step \in CompletionSteps
  PROVE  SeenInTime(j, new)
<1>1. /\ k.asset \in Assets /\ k.seen.version <= old[k.asset].version
      /\ k.seen.version = old[k.asset].version => k.seen.state = old[k.asset].state
      /\ k.step \in CompletionSteps => k.seen.state \in {"PENDING_UPLOAD", "PENDING_SCAN"}
  BY DEF SeenInTime
<1>2. /\ old[k.asset].version <= new[k.asset].version
      /\ old[k.asset].version = new[k.asset].version => new[k.asset] = old[k.asset]
  BY <1>1
<1>3. k.seen.version \in Nat /\ old[k.asset].version \in Nat /\ new[k.asset].version \in Nat
  BY <1>1 DEF MediaCalls, AssetRows
<1>4. k.seen.version <= new[k.asset].version
  BY <1>1, <1>2, <1>3
<1>5. k.seen.version = new[k.asset].version => old[k.asset].version = new[k.asset].version /\ k.seen.version = old[k.asset].version
  BY <1>1, <1>2, <1>3
<1>6. k.seen.version = new[k.asset].version => k.seen.state = new[k.asset].state
  BY <1>1, <1>2, <1>5
<1>7. QED
  BY <1>1, <1>4, <1>6 DEF SeenInTime

\* The call's own next state: what the other calls saw needs only that versions grow.
LEMMA OtherCallsInTime ==
  ASSUME MediaInv, uploadAsset' \in [Assets -> AssetRows],
         \A a \in Assets : uploadAsset[a].version <= uploadAsset'[a].version,
         \A a \in Assets : uploadAsset[a].version = uploadAsset'[a].version => uploadAsset'[a] = uploadAsset[a],
         NEW c \in Calls, NEW k \in MediaCalls, uploadCall' = [uploadCall EXCEPT ![c] = k], SeenInTime(k, uploadAsset')
  PROVE  MediaInv'
<1>1. uploadCall' \in [Calls -> MediaCalls]
  BY DEF MediaInv
<1>2. ASSUME NEW d \in Calls PROVE SeenInTime(uploadCall'[d], uploadAsset')
  <2>1. CASE d = c
    <3>1. uploadCall'[d] = k
      BY <2>1 DEF MediaInv
    <3>2. QED
      BY <3>1
  <2>2. CASE d # c
    <3>1. uploadCall'[d] = uploadCall[d] /\ uploadCall[d] \in MediaCalls /\ SeenInTime(uploadCall[d], uploadAsset)
      BY <2>2 DEF MediaInv
    <3>2. CASE uploadCall[d].step = "IDLE"
      BY <3>1, <3>2 DEF SeenInTime
    <3>3. CASE uploadCall[d].step # "IDLE"
      BY <3>1, <3>3, StillInTime DEF MediaInv
    <3>4. QED
      BY <3>2, <3>3
  <2>3. QED
    BY <2>1, <2>2
<1>3. QED
  BY <1>1, <1>2 DEF MediaInv

\* Every step keeps what calls saw in time, and leaves decided assets alone.
LEMMA MediaStep ==
  ASSUME MediaInv, [Uploads!Next]_(Uploads!vars)
  PROVE  MediaInv' /\ DecidedStep
<1> USE DEF Uploads!NoAsset, Uploads!NoCall
<1>0. /\ uploadAsset \in [Assets -> AssetRows] /\ uploadCall \in [Calls -> MediaCalls]
      /\ \A c \in Calls : SeenInTime(uploadCall[c], uploadAsset)
  BY DEF MediaInv
<1>i. Uploads!NoCall \in MediaCalls /\ SeenInTime(Uploads!NoCall, uploadAsset')
  BY DEF MediaCalls, AssetRows, AssetStates, SeenInTime
<1>s. ASSUME uploadAsset' = uploadAsset
      PROVE  /\ uploadAsset' \in [Assets -> AssetRows] /\ DecidedStep
             /\ \A a \in Assets : uploadAsset[a].version <= uploadAsset'[a].version
             /\ \A a \in Assets : uploadAsset[a].version = uploadAsset'[a].version => uploadAsset'[a] = uploadAsset[a]
  BY <1>0, <1>s DEF DecidedStep, AssetRows
\* A step that leaves the assets and changes how far a call is.
<1>t. ASSUME uploadAsset' = uploadAsset, NEW c \in Calls, uploadCall[c].step # "IDLE", NEW s \in CompletionSteps \cup {"REMOVE", "DELETE", "DELETED"},
             s \in CompletionSteps => uploadCall[c].step \in CompletionSteps,
             Uploads!At(c, s)
      PROVE  MediaInv' /\ DecidedStep
  <2> DEFINE k == [uploadCall[c] EXCEPT !.step = s]
  <2>1. uploadCall' = [uploadCall EXCEPT ![c] = k]
    BY <1>t DEF Uploads!At
  <2>2. uploadCall[c] \in MediaCalls /\ SeenInTime(uploadCall[c], uploadAsset)
    BY <1>0
  <2>3. k \in MediaCalls /\ k.asset = uploadCall[c].asset /\ k.seen = uploadCall[c].seen /\ k.step = s
    BY <2>2 DEF MediaCalls
  <2> HIDE DEF k
  <2>4. SeenInTime(k, uploadAsset')
    BY <2>2, <2>3, <1>t DEF SeenInTime, CompletionSteps
  <2>5. QED
    BY <1>s, <1>t, <2>1, <2>3, <2>4, OtherCallsInTime
\* A step that leaves the assets and ends a call.
<1>e. ASSUME uploadAsset' = uploadAsset, NEW c \in Calls, Uploads!Finish(c)
      PROVE  MediaInv' /\ DecidedStep
  BY <1>s, <1>e, <1>i, OtherCallsInTime DEF Uploads!Finish
\* A step that updates the call's asset and ends the call.
<1>u. ASSUME NEW c \in Calls, uploadCall[c].step # "IDLE", NEW state \in AssetStates \ {"ABSENT"},
             Uploads!Update(uploadCall[c].asset, uploadCall[c].seen, state),
             uploadCall[c].step \in CompletionSteps \/ state = "DELETED", Uploads!Finish(c)
      PROVE  MediaInv' /\ DecidedStep
  BY <1>u, <1>i, UpdateInTime, OtherCallsInTime DEF Uploads!Finish
<1>1. CASE UNCHANGED Uploads!vars
  BY <1>0, <1>1, <1>s DEF Uploads!vars, MediaInv, SeenInTime
<1>2. ASSUME NEW a \in Assets, Uploads!Presign(a) PROVE MediaInv' /\ DecidedStep
  <2>1. /\ uploadAsset' = [uploadAsset EXCEPT ![a] = [state |-> "PENDING_UPLOAD", version |-> 1]]
        /\ uploadAsset[a] = [state |-> "ABSENT", version |-> 0] /\ uploadCall' = uploadCall
    BY <1>2 DEF Uploads!Presign
  <2>2. [state |-> "PENDING_UPLOAD", version |-> 1] \in AssetRows
    BY DEF AssetRows, AssetStates
  <2>3. uploadAsset' \in [Assets -> AssetRows] /\ DecidedStep
    BY <1>0, <2>1, <2>2 DEF DecidedStep
  <2>4. ASSUME NEW c \in Calls PROVE SeenInTime(uploadCall'[c], uploadAsset')
    <3>1. uploadCall[c] \in MediaCalls /\ SeenInTime(uploadCall[c], uploadAsset)
      BY <1>0
    <3>2. CASE uploadCall[c].asset = a
      BY <1>0, <2>1, <3>1, <3>2 DEF SeenInTime, MediaCalls, AssetRows
    <3>3. CASE uploadCall[c].asset # a
      BY <1>0, <2>1, <3>1, <3>3 DEF SeenInTime
    <3>4. QED
      BY <3>2, <3>3
  <2>5. QED
    BY <1>0, <2>1, <2>3, <2>4 DEF MediaInv
<1>3. ASSUME NEW a \in Assets, Uploads!UploadExpires(a) \/ \E u \in Uploads!Uploads : Uploads!Upload(a, u)
      PROVE  MediaInv' /\ DecidedStep
  <2>1. uploadAsset' = uploadAsset /\ uploadCall' = uploadCall
    BY <1>3 DEF Uploads!UploadExpires, Uploads!Upload
  <2>2. QED
    BY <1>0, <1>s, <2>1 DEF MediaInv, SeenInTime
<1>4. ASSUME NEW a \in Assets, NEW c \in Calls, Uploads!Complete(c, a) \/ Uploads!Delete(c, a)
      PROVE  MediaInv' /\ DecidedStep
  <2>1. PICK s \in {"COMPLETE", "DELETE"} :
          /\ Uploads!Begin(c, a, s)
          /\ s = "COMPLETE" => uploadAsset[a].state \in {"PENDING_UPLOAD", "PENDING_SCAN"}
    BY <1>4 DEF Uploads!Complete, Uploads!Delete
  <2> DEFINE k == [asset |-> a, seen |-> uploadAsset[a], step |-> s]
  <2>2. uploadCall' = [uploadCall EXCEPT ![c] = k] /\ uploadAsset' = uploadAsset
    BY <2>1 DEF Uploads!Begin
  <2>3. k \in MediaCalls /\ k.asset = a /\ k.seen = uploadAsset[a] /\ k.step = s
    BY <1>0 DEF MediaCalls, CompletionSteps
  <2> HIDE DEF k
  <2>4. SeenInTime(k, uploadAsset')
    BY <1>0, <2>1, <2>2, <2>3 DEF SeenInTime, CompletionSteps, AssetRows
  <2>5. QED
    BY <1>s, <2>2, <2>3, <2>4, OtherCallsInTime
<1>5. ASSUME NEW c \in Calls, Uploads!CompleteExpires(c) PROVE MediaInv' /\ DecidedStep
  <2>1. /\ uploadCall[c].step = "COMPLETE" /\ Uploads!Finish(c)
        /\ Uploads!Update(uploadCall[c].asset, uploadCall[c].seen, "EXPIRED")
    BY <1>5 DEF Uploads!CompleteExpires
  <2>2. QED
    BY <1>u, <2>1 DEF AssetStates, CompletionSteps
<1>6. ASSUME NEW c \in Calls, Uploads!Inspect(c) PROVE MediaInv' /\ DecidedStep
  <2>0. uploadCall[c] \in MediaCalls /\ SeenInTime(uploadCall[c], uploadAsset) /\ uploadCall[c].step = "COMPLETE"
    BY <1>0, <1>6 DEF Uploads!Inspect
  <2>k. uploadCall[c].asset \in Assets /\ uploadCall[c].seen \in AssetRows
    BY <2>0 DEF SeenInTime, MediaCalls
  <2>1. CASE Uploads!Update(uploadCall[c].asset, uploadCall[c].seen, "REJECTED") /\ Uploads!At(c, "REMOVE")
    <3>1. /\ uploadAsset' \in [Assets -> AssetRows] /\ DecidedStep
          /\ \A a \in Assets : uploadAsset[a].version <= uploadAsset'[a].version
          /\ \A a \in Assets : uploadAsset[a].version = uploadAsset'[a].version => uploadAsset'[a] = uploadAsset[a]
      BY <2>0, <2>1, UpdateInTime DEF AssetStates, CompletionSteps
    <3> DEFINE k == [uploadCall[c] EXCEPT !.step = "REMOVE"]
    <3>2. uploadCall' = [uploadCall EXCEPT ![c] = k]
      BY <2>1 DEF Uploads!At
    <3>3. k \in MediaCalls /\ k.asset = uploadCall[c].asset /\ k.seen = uploadCall[c].seen /\ k.step = "REMOVE"
      BY <2>0 DEF MediaCalls
    <3> HIDE DEF k
    <3>4. SeenInTime(k, uploadAsset')
      BY <1>0, <2>0, <3>1, <3>3, StillInTime DEF CompletionSteps
    <3>5. QED
      BY <3>1, <3>2, <3>3, <3>4, OtherCallsInTime
  <2>2. CASE \E s \in {"REJECTED", "PENDING_SCAN"} :
               Uploads!Update(uploadCall[c].asset, uploadCall[c].seen, s) /\ Uploads!Finish(c)
    BY <2>0, <2>2, <1>u DEF AssetStates, CompletionSteps
  <2>3. CASE /\ Uploads!Update(uploadCall[c].asset, uploadCall[c].seen, "PENDING_SCAN")
             /\ uploadAsset[uploadCall[c].asset].version = uploadCall[c].seen.version
             /\ uploadCall' = [uploadCall EXCEPT ![c] = [@ EXCEPT !.step = "SCAN",
                           !.seen = [state |-> "PENDING_SCAN", version |-> uploadCall[c].seen.version + 1]]]
    <3>1. /\ uploadAsset' \in [Assets -> AssetRows] /\ DecidedStep
          /\ \A a \in Assets : uploadAsset[a].version <= uploadAsset'[a].version
          /\ \A a \in Assets : uploadAsset[a].version = uploadAsset'[a].version => uploadAsset'[a] = uploadAsset[a]
      BY <2>0, <2>3, UpdateInTime DEF AssetStates, CompletionSteps
    <3> DEFINE row == [state |-> "PENDING_SCAN", version |-> uploadCall[c].seen.version + 1]
               k == [uploadCall[c] EXCEPT !.step = "SCAN", !.seen = row]
    <3>2. uploadCall' = [uploadCall EXCEPT ![c] = k]
      BY <2>3
    <3>3. row \in AssetRows /\ row.state = "PENDING_SCAN"
      BY <2>k DEF AssetRows, AssetStates
    <3>4. uploadAsset'[uploadCall[c].asset] = row
      BY <1>0, <2>k, <2>3 DEF Uploads!Update
    <3> HIDE DEF row
    <3>5. k \in MediaCalls /\ k.asset = uploadCall[c].asset /\ k.seen = row /\ k.step = "SCAN"
      BY <2>0, <3>3 DEF MediaCalls, CompletionSteps
    <3> HIDE DEF k
    <3>6. SeenInTime(k, uploadAsset')
      BY <2>k, <3>3, <3>4, <3>5 DEF SeenInTime, AssetRows
    <3>7. QED
      BY <3>1, <3>2, <3>5, <3>6, OtherCallsInTime
  <2>4. QED
    BY <1>6, <2>1, <2>2, <2>3 DEF Uploads!Inspect
<1>7. ASSUME NEW c \in Calls, Uploads!Resume(c) \/ Uploads!Scan(c) \/ Uploads!DeleteObject(c)
      PROVE  MediaInv' /\ DecidedStep
  BY <1>7, <1>t DEF Uploads!Resume, Uploads!Scan, Uploads!DeleteObject, CompletionSteps
<1>8. ASSUME NEW c \in Calls, Uploads!CompleteDecides(c) \/ Uploads!DeleteAsset(c)
      PROVE  MediaInv' /\ DecidedStep
  <2>1. \E s \in {"READY", "REJECTED", "DELETED"} :
          /\ Uploads!Update(uploadCall[c].asset, uploadCall[c].seen, s) /\ Uploads!Finish(c)
          /\ uploadCall[c].step # "IDLE" /\ (uploadCall[c].step \in CompletionSteps \/ s = "DELETED")
    BY <1>8 DEF Uploads!CompleteDecides, Uploads!DeleteAsset, CompletionSteps
  <2>2. QED
    BY <2>1, <1>u DEF AssetStates
<1>9. ASSUME NEW c \in Calls, Uploads!Remove(c) \/ Uploads!CallFails(c)
      PROVE  MediaInv' /\ DecidedStep
  BY <1>9, <1>e DEF Uploads!Remove, Uploads!CallFails
<1>10. QED
  BY <1>1, <1>2, <1>3, <1>4, <1>5, <1>6, <1>7, <1>8, <1>9 DEF Uploads!Next

\* DecidedStays of Media (Complete, Delete): however completions and deletions
\* overlap, a decided asset is only ever deleted, and a deleted one never comes back.
THEOREM MediaDecides == Uploads!Spec => DecidedStays
<1>1. Uploads!Init => MediaInv
  BY DEF Uploads!Init, Uploads!NoAsset, Uploads!NoCall, MediaInv, SeenInTime, AssetRows,
         AssetStates, MediaCalls
<1>2. MediaInv /\ [Uploads!Next]_(Uploads!vars) => MediaInv'
  BY MediaStep
<1>3. MediaInv /\ [Uploads!Next]_(Uploads!vars) =>
        [DecidedStep]_(Uploads!vars)
  BY MediaStep
<1>4. QED
  BY <1>1, <1>2, <1>3, PTL DEF Uploads!Spec, DecidedStays, Uploads!DecidedStays, DecidedStep

----------------------------------------------------------------------------
(* internal/social, rewards.  Two workers can have the same event only if  *)
(* the lease of one lapsed: whoever has an event and not its lease         *)
(* outlived it.                                                            *)

Outcomes == {"APPLIED", "REJECTED", "ERROR"}

RewardTypes ==
  /\ rewardEvent \in [RewardEvents -> {"NONE", "PENDING", "APPLIED", "REJECTED"}]
  /\ rewardLease \in [RewardEvents -> Workers \cup {"NONE"}]
  /\ rewardBatch \in [Workers -> SUBSET RewardEvents]
  /\ rewardAnswer \in [Workers -> [RewardEvents -> Outcomes \cup {"NONE"}]]
  /\ rewardCredited \in [RewardEvents -> {0, 1}]
  /\ rewardLapsed \subseteq rewardOverran /\ rewardDue \subseteq RewardEvents

\* The state of one event.
Excused(e) == e \in rewardLate \cup rewardOverran

RewardSound(e) ==
  /\ rewardEvent[e] # "PENDING" => rewardLease[e] = "NONE"
  /\ rewardEvent[e] = "APPLIED" => rewardCredited[e] = 1
  /\ rewardEvent[e] = "REJECTED" => rewardCredited[e] = 0 \/ Excused(e)
  /\ \A w \in Workers :
       /\ e \in rewardBatch[w] /\ rewardLease[e] # w => e \in rewardOverran
       /\ rewardAnswer[w][e] = "APPLIED" => rewardCredited[e] = 1
       /\ rewardAnswer[w][e] = "REJECTED" /\ rewardLease[e] = w => rewardCredited[e] = 0 \/ Excused(e)

RewardInv == RewardTypes /\ \A e \in RewardEvents : RewardSound(e)

LEMMA RewardStep ==
  ASSUME "NONE" \notin Workers, RewardInv, [Rewards!Next]_(Rewards!vars)
  PROVE  RewardInv'
<1> USE DEF Rewards!None
<1>0. RewardTypes /\ \A e \in RewardEvents : RewardSound(e)
  BY DEF RewardInv
<1>1. CASE UNCHANGED Rewards!vars
  BY <1>0, <1>1 DEF Rewards!vars, RewardInv, RewardTypes, RewardSound, Excused
<1>2. ASSUME NEW e \in RewardEvents,
             Rewards!queueSocialReward(e) \/ Rewards!LeaseLapses(e) \/ Rewards!PauseEnds(e) \/ Rewards!PointsExpire(e)
      PROVE  RewardInv'
  <2>1. /\ UNCHANGED <<rewardLease, rewardBatch, rewardAnswer, rewardCredited>> /\ rewardLate \subseteq rewardLate' /\ rewardOverran \subseteq rewardOverran'
        /\ rewardLapsed' \subseteq rewardOverran' /\ rewardDue' \subseteq RewardEvents
        /\ rewardEvent' = rewardEvent \/ (rewardEvent[e] = "NONE" /\ rewardEvent' = [rewardEvent EXCEPT ![e] = "PENDING"])
    BY <1>0, <1>2 DEF Rewards!queueSocialReward, Rewards!LeaseLapses, Rewards!PauseEnds, Rewards!PointsExpire, RewardTypes
  <2>2. RewardTypes'
    BY <1>0, <2>1 DEF RewardTypes
  <2>3. ASSUME NEW f \in RewardEvents PROVE RewardSound(f)'
    <3>1. RewardSound(f) /\ rewardEvent'[f] \in {rewardEvent[f], "PENDING"}
      BY <1>0, <2>1 DEF RewardTypes
    <3>2. Excused(f) => Excused(f)'
      BY <2>1 DEF Excused
    <3>3. QED
      BY <2>1, <3>1, <3>2 DEF RewardSound
  <2>4. QED
    BY <2>2, <2>3 DEF RewardInv
<1>3. ASSUME NEW w \in Workers, Rewards!Claim(w) PROVE RewardInv'
  <2>1. /\ rewardBatch[w] = {} /\ UNCHANGED <<rewardEvent, rewardDue, rewardCredited, rewardLate, rewardOverran>>
        /\ rewardLease' = [e \in RewardEvents |-> IF e \in Rewards!Claimable THEN w ELSE rewardLease[e]]
        /\ rewardLapsed' = rewardLapsed \ Rewards!Claimable
        /\ rewardBatch' = [rewardBatch EXCEPT ![w] = Rewards!Claimable]
        /\ rewardAnswer' = [rewardAnswer EXCEPT ![w] = [e \in RewardEvents |-> "NONE"]]
    BY <1>3 DEF Rewards!Claim
  <2>c. \A e \in Rewards!Claimable : rewardEvent[e] = "PENDING" /\ (rewardLease[e] = "NONE" \/ e \in rewardLapsed)
    BY DEF Rewards!Claimable
  <2>d. Rewards!Claimable \subseteq RewardEvents
    BY <1>0 DEF Rewards!Claimable, RewardTypes
  <2>2. RewardTypes'
    BY <1>0, <2>1, <2>d DEF RewardTypes
  <2>3. ASSUME NEW f \in RewardEvents PROVE RewardSound(f)'
    <3>1. RewardSound(f)
      BY <1>0
    <3>2. Excused(f) <=> Excused(f)'
      BY <2>1 DEF Excused
    <3>3. ASSUME NEW v \in Workers
          PROVE  /\ f \in rewardBatch'[v] /\ rewardLease'[f] # v => f \in rewardOverran'
                 /\ rewardAnswer'[v][f] = "APPLIED" => rewardCredited'[f] = 1
                 /\ rewardAnswer'[v][f] = "REJECTED" /\ rewardLease'[f] = v => rewardCredited'[f] = 0 \/ Excused(f)'
      <4>1. CASE v = w
        <5>1. rewardBatch'[v] = Rewards!Claimable /\ rewardAnswer'[v][f] = "NONE"
          BY <1>0, <2>1, <4>1 DEF RewardTypes
        <5>2. QED
          BY <2>1, <5>1, <4>1
      <4>2. CASE v # w
        <5>1. rewardBatch'[v] = rewardBatch[v] /\ rewardAnswer'[v] = rewardAnswer[v]
          BY <1>0, <2>1, <4>2 DEF RewardTypes
        <5>2. CASE f \in Rewards!Claimable
          BY <1>0, <2>1, <2>c, <3>1, <3>2, <4>2, <5>1, <5>2 DEF RewardSound, RewardTypes
        <5>3. CASE f \notin Rewards!Claimable
          BY <2>1, <3>1, <3>2, <5>1, <5>3 DEF RewardSound
        <5>4. QED
          BY <5>2, <5>3
      <4>3. QED
        BY <4>1, <4>2
    <3>4. QED
      BY <2>1, <2>c, <3>1, <3>2, <3>3 DEF RewardSound
  <2>4. QED
    BY <2>2, <2>3 DEF RewardInv
<1>4. ASSUME NEW w \in Workers, Rewards!Crash(w) PROVE RewardInv'
  <2>1. rewardBatch' = [rewardBatch EXCEPT ![w] = {}] /\ UNCHANGED <<rewardEvent, rewardLease, rewardLapsed, rewardDue, rewardAnswer, rewardCredited, rewardLate, rewardOverran>>
    BY <1>4 DEF Rewards!Crash
  <2>2. RewardTypes'
    BY <1>0, <2>1 DEF RewardTypes
  <2>3. \A v \in Workers : rewardBatch'[v] \subseteq rewardBatch[v]
    BY <1>0, <2>1 DEF RewardTypes
  <2>4. QED
    BY <1>0, <2>1, <2>2, <2>3 DEF RewardInv, RewardSound, Excused
<1>5. ASSUME NEW w \in Workers, NEW e \in RewardEvents, Rewards!Settle(w, e) PROVE RewardInv'
  <2>1. /\ e \in rewardBatch[w] /\ rewardAnswer[w][e] # "NONE" /\ rewardBatch' = [rewardBatch EXCEPT ![w] = @ \ {e}]
        /\ UNCHANGED <<rewardAnswer, rewardCredited, rewardLate, rewardOverran>>
    BY <1>5 DEF Rewards!Settle
  <2>2. /\ \A v \in Workers : rewardBatch'[v] \subseteq rewardBatch[v]
        /\ rewardBatch' \in [Workers -> SUBSET RewardEvents] /\ e \notin rewardBatch'[w]
    BY <1>0, <2>1 DEF RewardTypes
  <2>3. CASE rewardEvent[e] = "PENDING" /\ rewardLease[e] = w
    <3> DEFINE to == IF rewardAnswer[w][e] = "ERROR" THEN "PENDING" ELSE rewardAnswer[w][e]
    <3>1. /\ rewardLease' = [rewardLease EXCEPT ![e] = "NONE"] /\ rewardLapsed' = rewardLapsed \ {e}
          /\ rewardEvent' = [rewardEvent EXCEPT ![e] = to] /\ rewardDue' \subseteq rewardDue
      BY <1>5, <2>3 DEF Rewards!Settle
    <3>2. to \in {"PENDING", "APPLIED", "REJECTED"} /\ (to # "PENDING" => to = rewardAnswer[w][e])
      BY <1>0, <2>1 DEF RewardTypes, Outcomes
    <3> HIDE DEF to
    <3>3. RewardTypes'
      BY <1>0, <2>1, <2>2, <3>1, <3>2 DEF RewardTypes
    <3>4. ASSUME NEW f \in RewardEvents PROVE RewardSound(f)'
      <4>1. RewardSound(f) /\ (Excused(f) <=> Excused(f)')
        BY <1>0, <2>1 DEF Excused
      <4>2. CASE f = e
        <5>1. rewardLease'[f] = "NONE" /\ rewardEvent'[f] = to
          BY <1>0, <3>1, <4>2 DEF RewardTypes
        <5>2. to = "APPLIED" => rewardCredited'[f] = 1
          BY <2>1, <3>2, <4>1, <4>2 DEF RewardSound
        <5>3. to = "REJECTED" => rewardCredited'[f] = 0 \/ Excused(f)'
          BY <2>1, <2>3, <3>2, <4>1, <4>2 DEF RewardSound
        <5>4. ASSUME NEW v \in Workers, f \in rewardBatch'[v] PROVE f \in rewardOverran'
          <6>1. v # w /\ f \in rewardBatch[v] /\ rewardLease[f] # v
            BY <2>2, <2>3, <4>2, <5>4
          <6>2. QED
            BY <2>1, <4>1, <6>1 DEF RewardSound
        <5>5. QED
          BY <2>1, <4>1, <5>1, <5>2, <5>3, <5>4 DEF RewardSound
      <4>3. CASE f # e
        <5>1. rewardLease'[f] = rewardLease[f] /\ rewardEvent'[f] = rewardEvent[f]
          BY <1>0, <3>1, <4>3 DEF RewardTypes
        <5>2. QED
          BY <2>1, <2>2, <4>1, <5>1 DEF RewardSound
      <4>4. QED
        BY <4>2, <4>3
    <3>5. QED
      BY <3>3, <3>4 DEF RewardInv
  <2>4. CASE ~(rewardEvent[e] = "PENDING" /\ rewardLease[e] = w)
    <3>1. UNCHANGED <<rewardEvent, rewardLease, rewardLapsed, rewardDue>>
      BY <1>5, <2>4 DEF Rewards!Settle
    <3>2. RewardTypes'
      BY <1>0, <2>1, <2>2, <3>1 DEF RewardTypes
    <3>3. QED
      BY <1>0, <2>1, <2>2, <3>1, <3>2 DEF RewardInv, RewardSound, Excused
  <2>5. QED
    BY <2>3, <2>4
<1>6. ASSUME NEW w \in Workers, NEW e \in RewardEvents, NEW r \in Outcomes, Rewards!RewardEngagement(w, e, r)
      PROVE  RewardInv'
  <2>1. /\ e \in rewardBatch[w] /\ rewardAnswer[w][e] = "NONE" /\ rewardAnswer' = [rewardAnswer EXCEPT ![w][e] = r]
        /\ rewardCredited' = [rewardCredited EXCEPT ![e] = IF r = "APPLIED" /\ @ = 0 THEN @ + 1 ELSE @]
        /\ r = "REJECTED" => e \in rewardLate \/ rewardCredited[e] = 0
        /\ UNCHANGED <<rewardEvent, rewardLease, rewardLapsed, rewardDue, rewardBatch, rewardLate, rewardOverran>>
    BY <1>6 DEF Rewards!RewardEngagement
  <2>2. /\ rewardCredited' \in [RewardEvents -> {0, 1}] /\ (r = "APPLIED" => rewardCredited'[e] = 1)
        /\ r # "APPLIED" => rewardCredited' = rewardCredited
        /\ \A f \in RewardEvents : (f # e => rewardCredited'[f] = rewardCredited[f]) /\ (rewardCredited[f] = 1 => rewardCredited'[f] = 1)
    BY <1>0, <2>1 DEF RewardTypes
  <2>3. /\ rewardAnswer' \in [Workers -> [RewardEvents -> Outcomes \cup {"NONE"}]] /\ rewardAnswer'[w][e] = r
        /\ \A v \in Workers, f \in RewardEvents : rewardAnswer'[v][f] = rewardAnswer[v][f] \/ (v = w /\ f = e)
    BY <1>0, <2>1 DEF RewardTypes
  <2>4. RewardTypes'
    BY <1>0, <2>1, <2>2, <2>3 DEF RewardTypes
  <2>5. ASSUME NEW f \in RewardEvents PROVE RewardSound(f)'
    <3>1. RewardSound(f) /\ (Excused(f) <=> Excused(f)') /\ RewardSound(e)
      BY <1>0, <2>1 DEF Excused
    <3>2. CASE f # e
      BY <2>1, <2>2, <2>3, <3>1, <3>2 DEF RewardSound
    <3>3. CASE f = e
      <4>1. rewardLease[e] # w => e \in rewardOverran
        BY <2>1, <3>1 DEF RewardSound
      <4>2. rewardEvent[e] = "REJECTED" => rewardCredited'[e] = 0 \/ Excused(e)'
        BY <2>1, <3>1, <3>3, <4>1 DEF RewardSound, Excused
      <4>3. ASSUME NEW v \in Workers
            PROVE  /\ rewardAnswer'[v][e] = "APPLIED" => rewardCredited'[e] = 1
                   /\ rewardAnswer'[v][e] = "REJECTED" /\ rewardLease[e] = v => rewardCredited'[e] = 0 \/ Excused(e)'
        <5>1. CASE v = w
          BY <2>1, <2>2, <2>3, <5>1 DEF Excused
        <5>2. CASE v # w
          <6>1. rewardAnswer'[v][e] = rewardAnswer[v][e]
            BY <2>3, <5>2
          <6>2. rewardAnswer'[v][e] = "APPLIED" => rewardCredited'[e] = 1
            BY <2>2, <3>1, <6>1 DEF RewardSound
          <6>3. rewardLease[e] = v => Excused(e)'
            BY <2>1, <4>1, <5>2 DEF Excused
          <6>4. QED
            BY <6>2, <6>3
        <5>3. QED
          BY <5>1, <5>2
      <4>4. QED
        BY <2>1, <2>2, <3>1, <3>3, <4>2, <4>3 DEF RewardSound
    <3>4. QED
      BY <3>2, <3>3
  <2>6. QED
    BY <2>4, <2>5 DEF RewardInv
<1>7. QED
  BY <1>1, <1>2, <1>3, <1>4, <1>5, <1>6 DEF Rewards!Next, Outcomes

\* SettledAsCredited of SocialRewards (ProcessRewards): an event says APPLIED only
\* if the wallet credited it, REJECTED only if it did not, but for a lease that was
\* outlived or points that expired, and it is credited at most once.
THEOREM RewardsSettled == Rewards!Spec => []SettledAsCredited
<1>1. Rewards!Init => RewardInv
  BY DEF Rewards!Init, Rewards!None, RewardInv, RewardTypes, RewardSound, Outcomes
<1>2. RewardInv /\ [Rewards!Next]_(Rewards!vars) => RewardInv'
  BY RewardStep, PlatformAssumption
<1>3. RewardInv => Rewards!SettledAsCredited
  <2> SUFFICES ASSUME RewardInv, NEW e \in RewardEvents
               PROVE  /\ rewardCredited[e] <= 1
                      /\ rewardEvent[e] = "APPLIED" => rewardCredited[e] = 1
                      /\ rewardEvent[e] = "REJECTED" => rewardCredited[e] = 0 \/ e \in rewardLate \cup rewardOverran
    BY DEF Rewards!SettledAsCredited
  <2>1. RewardSound(e) /\ rewardCredited[e] \in {0, 1}
    BY DEF RewardInv, RewardTypes
  <2>2. QED
    BY <2>1 DEF RewardSound, Excused
<1>4. QED
  BY <1>1, <1>2, <1>3, PTL DEF Rewards!Spec, SettledAsCredited

----------------------------------------------------------------------------
(* internal/configcms.  A publication builds the next snapshot before the  *)
(* transaction that stores it: as long as the revision it read is the      *)
(* current one, what it built is the current snapshot with one part new.   *)

Texts == Contents \cup {"NONE"}
Snapshots == [revision : Nat, document : [CMS!Parts -> Texts]]

CMSTypes ==
  /\ cmsDraft \in [CMS!Parts -> [revision : Nat, content : Texts]]
  /\ cmsSaved \in [CMS!Parts -> Seq(Contents)]
  /\ cmsSnapshot \in Snapshots
  /\ cmsHistory \in Seq([part : CMS!Parts, draft : Nat])
  /\ cmsCall \in [Publishers -> [part : CMS!Parts \cup {"NONE"}, expected : Nat, from : Nat,
                                     next : Snapshots, step : {"IDLE", "READ", "DONE"}]]

\* A draft is the last content saved.
DraftSaved(p) ==
  /\ cmsDraft[p].revision = Len(cmsSaved[p])
  /\ cmsDraft[p].revision >= 1 => cmsDraft[p].content = cmsSaved[p][cmsDraft[p].revision]

\* What a publication will store, if nobody was faster.
BuiltOn(k) ==
  cmsCall[k].step = "READ" =>
    /\ cmsCall[k].part \in CMS!Parts
    /\ cmsCall[k].expected \in 1..Len(cmsSaved[cmsCall[k].part])
    /\ cmsCall[k].from <= cmsSnapshot.revision
    /\ cmsCall[k].next.revision = cmsCall[k].from + 1
    /\ cmsCall[k].from = cmsSnapshot.revision =>
         cmsCall[k].next.document =
           [cmsSnapshot.document EXCEPT ![cmsCall[k].part] = cmsSaved[cmsCall[k].part][cmsCall[k].expected]]

CMSInv ==
  /\ CMSTypes /\ CMS!PublishedAsApproved
  /\ \A p \in CMS!Parts : DraftSaved(p)
  /\ \A i \in DOMAIN cmsHistory : cmsHistory[i].draft \in 1..Len(cmsSaved[cmsHistory[i].part])
  /\ \A k \in Publishers : BuiltOn(k)

\* Saving again does not change what was saved before.
LEMMA SaveKeeps ==
  ASSUME CMSTypes, NEW p \in CMS!Parts, NEW c \in Contents, cmsSaved' = [cmsSaved EXCEPT ![p] = Append(@, c)]
  PROVE  /\ cmsSaved' \in [CMS!Parts -> Seq(Contents)]
         /\ Len(cmsSaved'[p]) = Len(cmsSaved[p]) + 1 /\ cmsSaved'[p][Len(cmsSaved[p]) + 1] = c
         /\ \A q \in CMS!Parts : q # p => cmsSaved'[q] = cmsSaved[q]
         /\ \A q \in CMS!Parts : \A n \in 1..Len(cmsSaved[q]) : n \in 1..Len(cmsSaved'[q]) /\ cmsSaved'[q][n] = cmsSaved[q][n]
<1>1. cmsSaved \in [CMS!Parts -> Seq(Contents)] /\ cmsSaved[p] \in Seq(Contents)
  BY DEF CMSTypes
<1>2. cmsSaved'[p] = Append(cmsSaved[p], c) /\ \A q \in CMS!Parts : q # p => cmsSaved'[q] = cmsSaved[q]
  BY <1>1
<1>3. /\ Append(cmsSaved[p], c) \in Seq(Contents) /\ Len(Append(cmsSaved[p], c)) = Len(cmsSaved[p]) + 1
      /\ Append(cmsSaved[p], c)[Len(cmsSaved[p]) + 1] = c /\ Len(cmsSaved[p]) \in Nat
      /\ \A n \in 1..Len(cmsSaved[p]) : Append(cmsSaved[p], c)[n] = cmsSaved[p][n]
  BY <1>1
<1>4. cmsSaved' \in [CMS!Parts -> Seq(Contents)]
  BY <1>1, <1>3
<1>5. ASSUME NEW q \in CMS!Parts, NEW n \in 1..Len(cmsSaved[q])
      PROVE  n \in 1..Len(cmsSaved'[q]) /\ cmsSaved'[q][n] = cmsSaved[q][n]
  BY <1>2, <1>3, <1>5
<1>6. QED
  BY <1>2, <1>3, <1>4, <1>5

LEMMA CMSStep ==
  ASSUME CMSInv, [CMS!Next]_(CMS!vars)
  PROVE  CMSInv'
<1> USE DEF CMS!Nothing
<1>0. /\ CMSTypes /\ CMS!PublishedAsApproved /\ \A p \in CMS!Parts : DraftSaved(p)
      /\ \A i \in DOMAIN cmsHistory : cmsHistory[i].draft \in 1..Len(cmsSaved[cmsHistory[i].part])
      /\ \A k \in Publishers : BuiltOn(k)
  BY DEF CMSInv
\* Steps of readers, and those that leave everything.
<1>1. ASSUME UNCHANGED CMS!cms PROVE CMSInv'
  <2>1. UNCHANGED <<cmsDraft, cmsSaved, cmsSnapshot, cmsHistory, cmsCall>>
    BY <1>1 DEF CMS!cms
  <2>2. CMSTypes'
    BY <1>0, <2>1 DEF CMSTypes
  <2>3. CMS!PublishedAsApproved'
    BY <1>0, <2>1 DEF CMS!PublishedAsApproved, CMS!Published
  <2>4. (\A p \in CMS!Parts : DraftSaved(p)') /\ (\A k \in Publishers : BuiltOn(k)')
    BY <1>0, <2>1, Zenon DEF DraftSaved, BuiltOn
  <2>5. QED
    BY <1>0, <2>1, <2>2, <2>3, <2>4 DEF CMSInv
<1>2. ASSUME NEW p \in CMS!Parts, NEW c \in Contents, NEW r \in 0..MaxRevision, CMS!Save(p, c, r)
      PROVE  CMSInv'
  <2>1. /\ r = cmsDraft[p].revision /\ cmsDraft' = [cmsDraft EXCEPT ![p] = [revision |-> r + 1, content |-> c]]
        /\ cmsSaved' = [cmsSaved EXCEPT ![p] = Append(@, c)] /\ UNCHANGED <<cmsSnapshot, cmsHistory, cmsCall>>
    BY <1>2 DEF CMS!Save
  <2>2. /\ cmsSaved' \in [CMS!Parts -> Seq(Contents)]
        /\ Len(cmsSaved'[p]) = Len(cmsSaved[p]) + 1 /\ cmsSaved'[p][Len(cmsSaved[p]) + 1] = c
        /\ \A q \in CMS!Parts : q # p => cmsSaved'[q] = cmsSaved[q]
        /\ \A q \in CMS!Parts : \A n \in 1..Len(cmsSaved[q]) : n \in 1..Len(cmsSaved'[q]) /\ cmsSaved'[q][n] = cmsSaved[q][n]
    BY <1>0, <2>1, SaveKeeps
  <2>3. CMSTypes'
    BY <1>0, <2>1, <2>2 DEF CMSTypes, Texts
  <2>4. ASSUME NEW q \in CMS!Parts PROVE DraftSaved(q)'
    <3>1. DraftSaved(q) /\ DraftSaved(p)
      BY <1>0
    <3>2. CASE q = p
      <4>1. cmsDraft'[p].revision = Len(cmsSaved'[p]) /\ cmsDraft'[p].content = c
        BY <1>0, <2>1, <2>2, <3>1 DEF CMSTypes, DraftSaved
      <4>2. QED
        BY <2>1, <2>2, <3>1, <3>2, <4>1 DEF DraftSaved
    <3>3. CASE q # p
      BY <1>0, <2>1, <2>2, <3>1, <3>3 DEF CMSTypes, DraftSaved
    <3>4. QED
      BY <3>2, <3>3
  <2>5. \A i \in DOMAIN cmsHistory : cmsHistory[i] \in [part : CMS!Parts, draft : Nat]
    <3>1. cmsHistory \in Seq([part : CMS!Parts, draft : Nat])
      BY <1>0 DEF CMSTypes
    <3>2. ASSUME NEW S, NEW h \in Seq(S) PROVE \A i \in DOMAIN h : h[i] \in S
      OBVIOUS
    <3>3. QED
      BY <3>1, <3>2
  <2>6. \A i \in DOMAIN cmsHistory : /\ cmsHistory[i].draft \in 1..Len(cmsSaved'[cmsHistory[i].part])
                                  /\ cmsSaved'[cmsHistory[i].part][cmsHistory[i].draft] = cmsSaved[cmsHistory[i].part][cmsHistory[i].draft]
    BY <1>0, <2>2, <2>5
  <2>7. CMS!PublishedAsApproved'
    BY <1>0, <2>1, <2>6 DEF CMS!PublishedAsApproved, CMS!Published
  <2>8. ASSUME NEW k \in Publishers PROVE BuiltOn(k)'
    <3>1. BuiltOn(k) /\ cmsCall' = cmsCall /\ cmsSnapshot' = cmsSnapshot
      BY <1>0, <2>1
    <3>2. ASSUME cmsCall[k].step = "READ"
          PROVE  /\ cmsCall[k].expected \in 1..Len(cmsSaved'[cmsCall[k].part])
                 /\ cmsSaved'[cmsCall[k].part][cmsCall[k].expected] = cmsSaved[cmsCall[k].part][cmsCall[k].expected]
      BY <2>2, <3>1, <3>2 DEF BuiltOn
    <3>3. QED
      BY <3>1, <3>2, Zenon DEF BuiltOn
  <2>9. QED
    BY <2>1, <2>3, <2>4, <2>6, <2>7, <2>8 DEF CMSInv
<1>3. ASSUME NEW k \in Publishers, NEW p \in CMS!Parts, NEW r \in 1..MaxRevision, NEW f \in 0..MaxRevision,
             CMS!PublishReads(k, p, r, f)
      PROVE  CMSInv'
  <2> DEFINE next == [revision |-> f + 1, document |-> [cmsSnapshot.document EXCEPT ![p] = cmsDraft[p].content]]
             new == [part |-> p, expected |-> r, from |-> f, step |-> "READ", next |-> next]
  <2>1. /\ r = cmsDraft[p].revision /\ cmsSnapshot.revision = f /\ cmsCall' = [cmsCall EXCEPT ![k] = new]
        /\ UNCHANGED <<cmsDraft, cmsSaved, cmsSnapshot, cmsHistory>>
    BY <1>3 DEF CMS!PublishReads
  <2>2. DraftSaved(p) /\ r \in Nat /\ f \in Nat /\ r >= 1
    BY <1>0
  <2>3. cmsDraft[p].content = cmsSaved[p][r] /\ r \in 1..Len(cmsSaved[p]) /\ cmsDraft[p].content \in Texts
    BY <1>0, <2>1, <2>2 DEF DraftSaved, CMSTypes
  <2>4. next \in Snapshots /\ next.revision = f + 1 /\ next.document = [cmsSnapshot.document EXCEPT ![p] = cmsSaved[p][r]]
    BY <1>0, <2>2, <2>3 DEF CMSTypes, Snapshots
  <2> HIDE DEF next
  <2>5. /\ new \in [part : CMS!Parts \cup {"NONE"}, expected : Nat, from : Nat,
                    next : Snapshots, step : {"IDLE", "READ", "DONE"}]
        /\ new.part = p /\ new.expected = r /\ new.from = f /\ new.step = "READ" /\ new.next = next
    BY <2>2, <2>4
  <2> HIDE DEF new
  <2>6. CMSTypes'
    BY <1>0, <2>1, <2>5 DEF CMSTypes
  <2>7. ASSUME NEW l \in Publishers PROVE BuiltOn(l)'
    <3>1. CASE l = k
      <4>1. cmsCall'[l] = new
        BY <1>0, <2>1, <3>1 DEF CMSTypes
      <4>2. QED
        BY <2>1, <2>2, <2>3, <2>4, <2>5, <4>1 DEF BuiltOn
    <3>2. CASE l # k
      <4>1. cmsCall'[l] = cmsCall[l]
        BY <1>0, <2>1, <3>2 DEF CMSTypes
      <4>2. QED
        BY <1>0, <2>1, <4>1 DEF BuiltOn
    <3>3. QED
      BY <3>1, <3>2
  <2>8. CMS!PublishedAsApproved' /\ (\A q \in CMS!Parts : DraftSaved(q)')
    BY <1>0, <2>1 DEF CMS!PublishedAsApproved, CMS!Published, DraftSaved
  <2>9. QED
    BY <1>0, <2>1, <2>6, <2>7, <2>8 DEF CMSInv
<1>4. ASSUME NEW k \in Publishers, CMS!PublishWithAudit(k) PROVE CMSInv'
  <2> DEFINE pub == cmsCall[k]
             row == [part |-> pub.part, draft |-> pub.expected]
  <2>1. /\ pub.step = "READ" /\ cmsSnapshot.revision = pub.from /\ cmsSnapshot' = pub.next
        /\ cmsHistory' = Append(cmsHistory, row) /\ cmsCall' = [cmsCall EXCEPT ![k].step = "DONE"]
        /\ UNCHANGED <<cmsDraft, cmsSaved>>
    BY <1>4 DEF CMS!PublishWithAudit
  <2>2. /\ pub \in [part : CMS!Parts \cup {"NONE"}, expected : Nat, from : Nat,
                    next : Snapshots, step : {"IDLE", "READ", "DONE"}]
        /\ BuiltOn(k)
    BY <1>0 DEF CMSTypes
  <2>3. /\ pub.part \in CMS!Parts /\ pub.expected \in 1..Len(cmsSaved[pub.part])
        /\ cmsSnapshot'.revision = cmsSnapshot.revision + 1
        /\ cmsSnapshot'.document = [cmsSnapshot.document EXCEPT ![pub.part] = cmsSaved[pub.part][pub.expected]]
        /\ cmsSnapshot' \in Snapshots
    BY <2>1, <2>2 DEF BuiltOn
  <2>4. row \in [part : CMS!Parts, draft : Nat] /\ row.part = pub.part /\ row.draft = pub.expected
    BY <2>2, <2>3
  <2> HIDE DEF row
  <2>5. /\ cmsHistory \in Seq([part : CMS!Parts, draft : Nat]) /\ Len(cmsHistory) \in Nat
        /\ cmsHistory' \in Seq([part : CMS!Parts, draft : Nat]) /\ Len(cmsHistory') = Len(cmsHistory) + 1
        /\ cmsHistory'[Len(cmsHistory) + 1] = row /\ DOMAIN cmsHistory' = 1..(Len(cmsHistory) + 1)
        /\ DOMAIN cmsHistory = 1..Len(cmsHistory)
        /\ \A i \in 1..Len(cmsHistory) : cmsHistory'[i] = cmsHistory[i]
    BY <1>0, <2>1, <2>4 DEF CMSTypes
  <2>6. CMSTypes'
    <3>1. [pub EXCEPT !.step = "DONE"] \in
            [part : CMS!Parts \cup {"NONE"}, expected : Nat, from : Nat, next : Snapshots, step : {"IDLE", "READ", "DONE"}]
      BY <2>2
    <3>2. QED
      BY <1>0, <2>1, <2>3, <2>5, <3>1 DEF CMSTypes
  <2>7. \A i \in DOMAIN cmsHistory' : cmsHistory'[i].draft \in 1..Len(cmsSaved'[cmsHistory'[i].part])
    BY <1>0, <2>1, <2>3, <2>4, <2>5
  <2>8. CMS!PublishedAsApproved'
    <3>1. cmsSnapshot'.revision = Len(cmsHistory')
      BY <1>0, <2>3, <2>5 DEF CMS!PublishedAsApproved
    <3>2. ASSUME NEW p \in CMS!Parts
          PROVE  /\ CMS!Published(p)' = {} => cmsSnapshot'.document[p] = "NONE"
                 /\ \A i \in CMS!Published(p)' : (\A j \in CMS!Published(p)' : j <= i) =>
                      cmsSnapshot'.document[p] = cmsSaved'[p][cmsHistory'[i].draft]
      <4> DEFINE old == {i \in DOMAIN cmsHistory : cmsHistory[i].part = p}
      <4>0. /\ old = {} => cmsSnapshot.document[p] = "NONE"
            /\ \A i \in old : (\A j \in old : j <= i) => cmsSnapshot.document[p] = cmsSaved[p][cmsHistory[i].draft]
        BY <1>0 DEF CMS!PublishedAsApproved, CMS!Published
      <4>1. CASE p = pub.part
        <5>1. CMS!Published(p)' = old \cup {Len(cmsHistory) + 1}
          BY <2>4, <2>5, <4>1 DEF CMS!Published
        <5>2. cmsSnapshot'.document[p] = cmsSaved[p][pub.expected]
          BY <1>0, <2>3, <4>1 DEF CMSTypes, Snapshots
        <5>3. ASSUME NEW i \in old \cup {Len(cmsHistory) + 1}, \A j \in old \cup {Len(cmsHistory) + 1} : j <= i
              PROVE  i = Len(cmsHistory) + 1
          BY <2>5, <5>3
        <5>4. QED
          BY <2>1, <2>4, <2>5, <5>1, <5>2, <5>3
      <4>2. CASE p # pub.part
        <5>1. CMS!Published(p)' = old
          BY <2>4, <2>5, <4>2 DEF CMS!Published
        <5>2. cmsSnapshot'.document[p] = cmsSnapshot.document[p]
          BY <1>0, <2>3, <4>2 DEF CMSTypes, Snapshots
        <5>3. QED
          BY <2>1, <2>5, <4>0, <5>1, <5>2
      <4>3. QED
        BY <4>1, <4>2
    <3>3. QED
      BY <3>1, <3>2 DEF CMS!PublishedAsApproved
  <2>9. ASSUME NEW l \in Publishers PROVE BuiltOn(l)'
    <3>1. CASE l = k
      <4>1. cmsCall'[l].step = "DONE"
        BY <1>0, <2>1, <3>1 DEF CMSTypes
      <4>2. QED
        BY <4>1 DEF BuiltOn
    <3>2. CASE l # k
      <4>1. cmsCall'[l] = cmsCall[l] /\ cmsCall[l].from \in Nat /\ cmsSnapshot.revision \in Nat
        BY <1>0, <2>1, <3>2 DEF CMSTypes, Snapshots
      <4>2. BuiltOn(l) /\ cmsSaved' = cmsSaved /\ cmsSnapshot'.revision = cmsSnapshot.revision + 1
        BY <1>0, <2>1, <2>3
      <4>3. cmsCall[l].from <= cmsSnapshot.revision =>
              cmsCall[l].from <= cmsSnapshot'.revision /\ cmsCall[l].from # cmsSnapshot'.revision
        BY <4>1, <4>2
      <4>4. QED
        BY <4>1, <4>2, <4>3, Zenon DEF BuiltOn
    <3>3. QED
      BY <3>1, <3>2
  <2>10. \A q \in CMS!Parts : DraftSaved(q)'
    BY <1>0, <2>1 DEF DraftSaved
  <2>11. QED
    BY <2>6, <2>7, <2>8, <2>9, <2>10 DEF CMSInv
<1>5. ASSUME NEW k \in Publishers, CMS!PublishEnds(k) PROVE CMSInv'
  <2>1. /\ cmsCall' = [cmsCall EXCEPT ![k] = CMS!NoCall] /\ UNCHANGED <<cmsDraft, cmsSaved, cmsSnapshot, cmsHistory>>
    BY <1>5 DEF CMS!PublishEnds
  <2>2. /\ CMS!NoCall \in [part : CMS!Parts \cup {"NONE"}, expected : Nat, from : Nat,
                           next : Snapshots, step : {"IDLE", "READ", "DONE"}]
        /\ CMS!NoCall.step = "IDLE"
    BY DEF CMS!NoCall, CMS!NoSnapshot, Snapshots, Texts
  <2>3. CMSTypes'
    BY <1>0, <2>1, <2>2 DEF CMSTypes
  <2>4. ASSUME NEW l \in Publishers PROVE BuiltOn(l)'
    <3>1. cmsCall'[l] = cmsCall[l] \/ cmsCall'[l].step = "IDLE"
      BY <1>0, <2>1, <2>2 DEF CMSTypes
    <3>2. QED
      BY <1>0, <2>1, <3>1 DEF BuiltOn
  <2>5. QED
    BY <1>0, <2>1, <2>3, <2>4 DEF CMSInv, CMS!PublishedAsApproved, CMS!Published, DraftSaved
<1>6. CASE UNCHANGED CMS!vars \/ CMS!CacheExpires \/ \E g \in Readers : CMS!GetReads(g) \/ CMS!GetStores(g)
  <2>1. UNCHANGED CMS!cms
    BY <1>6 DEF CMS!vars, CMS!cms, CMS!CacheExpires, CMS!GetReads, CMS!GetStores
  <2>2. QED
    BY <1>1, <2>1
<1>7. QED
  BY <1>2, <1>3, <1>4, <1>5, <1>6 DEF CMS!Next

\* PublishedAsApproved of ConfigCMS (PublishWithAudit): no publication is lost, and
\* every part says what the draft said at the revision its last change named.
THEOREM PublicationsKept == CMS!Spec => []PublishedAsApproved
<1>1. CMS!Init => CMSInv
  <2> SUFFICES ASSUME CMS!Init PROVE CMSInv
    OBVIOUS
  <2> USE DEF CMS!Init, CMS!Nothing, CMS!NoSnapshot, CMS!NoCall
  <2>1. cmsSnapshot \in Snapshots /\ cmsHistory = <<>> /\ DOMAIN cmsHistory = {} /\ Len(cmsHistory) = 0
    BY DEF Snapshots, Texts
  <2>2. CMSTypes
    BY <2>1 DEF CMSTypes, Snapshots, Texts
  <2>3. CMS!PublishedAsApproved
    BY <2>1 DEF CMS!PublishedAsApproved, CMS!Published
  <2>4. \A p \in CMS!Parts : DraftSaved(p)
    BY DEF DraftSaved
  <2>5. QED
    BY <2>1, <2>2, <2>3, <2>4 DEF CMSInv, BuiltOn
<1>2. CMSInv /\ [CMS!Next]_(CMS!vars) => CMSInv'
  BY CMSStep
<1>3. CMSInv => PublishedAsApproved
  BY DEF CMSInv, PublishedAsApproved
<1>4. QED
  BY <1>1, <1>2, <1>3, PTL DEF CMS!Spec

----------------------------------------------------------------------------
(* internal/social, media moderation.                                      *)

MediaRows == [state : {"NONE", "QUARANTINED", "READY", "REJECTED", "TOMBSTONED"},
              moderatedBy : Moderators \cup {"NONE"}, appeal : {"NONE", "PENDING", "APPROVED", "REJECTED"}]
StoryRows == [status : {"NONE", "PUBLISHED", "EXPIRED", "TOMBSTONED"}, media : MediaJobs \cup {"NONE"},
              highlighted : BOOLEAN, expired : BOOLEAN]

GalleryTypes ==
  /\ galleryMedia \in [MediaJobs -> MediaRows] /\ galleryContent \in [Stories -> StoryRows]
  /\ galleryChosen \in [Stories -> MediaJobs \cup {"NONE"}] /\ galleryDecided \in [MediaJobs -> Moderators \cup {"NONE"}]

\* What may be shown: a moderator let it pass, or another one did on appeal.
Cleared(row, by) ==
  /\ row.state \in {"READY", "TOMBSTONED"} /\ row.moderatedBy # "NONE"
  /\ row.appeal # "NONE" => row.appeal = "APPROVED" /\ by \notin {"NONE", row.moderatedBy}

\* The life of a media job, of which only the last line concerns what is shown.
Moderated(row, by) ==
  /\ row.state \in {"NONE", "QUARANTINED"} => row.appeal = "NONE"
  /\ row.state = "REJECTED" => row.moderatedBy # "NONE"
  /\ row.appeal = "PENDING" => row.state = "REJECTED"
  /\ row.state \in {"READY", "TOMBSTONED"} => Cleared(row, by)

GalleryInv ==
  /\ GalleryTypes
  /\ \A m \in MediaJobs : Moderated(galleryMedia[m], galleryDecided[m])
  /\ \A c \in Stories : /\ galleryChosen[c] # "NONE" => Cleared(galleryMedia[galleryChosen[c]], galleryDecided[galleryChosen[c]])
                        /\ galleryContent[c] # Gallery!NoContent =>
                             /\ galleryContent[c].media \in MediaJobs
                             /\ Cleared(galleryMedia[galleryContent[c].media], galleryDecided[galleryContent[c].media])

\* A change of one media job: its row must be sound, and cleared if it was.
LEMMA MediaRowStep ==
  ASSUME GalleryInv, NEW m \in MediaJobs, NEW row \in MediaRows, NEW by \in Moderators \cup {"NONE"},
         galleryMedia' = [galleryMedia EXCEPT ![m] = row], galleryDecided' = [galleryDecided EXCEPT ![m] = by],
         UNCHANGED <<galleryContent, galleryChosen>>,
         Moderated(row, by), Cleared(galleryMedia[m], galleryDecided[m]) => Cleared(row, by)
  PROVE  GalleryInv'
<1>1. GalleryTypes'
  BY DEF GalleryInv, GalleryTypes
<1>2. ASSUME NEW n \in MediaJobs
      PROVE  Moderated(galleryMedia'[n], galleryDecided'[n]) /\ (Cleared(galleryMedia[n], galleryDecided[n]) => Cleared(galleryMedia'[n], galleryDecided'[n]))
  <2>1. CASE n = m
    <3>1. galleryMedia'[n] = row /\ galleryDecided'[n] = by
      BY <2>1 DEF GalleryInv, GalleryTypes
    <3>2. QED
      BY <2>1, <3>1
  <2>2. CASE n # m
    <3>1. galleryMedia'[n] = galleryMedia[n] /\ galleryDecided'[n] = galleryDecided[n]
      BY <2>2 DEF GalleryInv, GalleryTypes
    <3>2. QED
      BY <3>1 DEF GalleryInv
  <2>3. QED
    BY <2>1, <2>2
<1>3. ASSUME NEW c \in Stories, galleryChosen[c] # "NONE"
      PROVE  Cleared(galleryMedia'[galleryChosen[c]], galleryDecided'[galleryChosen[c]])
  BY <1>2, <1>3 DEF GalleryInv, GalleryTypes
<1>4. ASSUME NEW c \in Stories, galleryContent[c] # Gallery!NoContent
      PROVE  galleryContent[c].media \in MediaJobs /\ Cleared(galleryMedia'[galleryContent[c].media], galleryDecided'[galleryContent[c].media])
  BY <1>2, <1>4 DEF GalleryInv
<1>5. galleryChosen' = galleryChosen /\ galleryContent' = galleryContent /\ Gallery!NoContent' = Gallery!NoContent
  BY DEF Gallery!NoContent
<1>6. QED
  BY <1>1, <1>2, <1>3, <1>4, <1>5 DEF GalleryInv

\* A step of stories that leaves the media: every story keeps its media or is new
\* with media that are cleared.
LEMMA StoryStep ==
  ASSUME GalleryInv, UNCHANGED <<galleryMedia, galleryDecided>>, galleryContent' \in [Stories -> StoryRows],
         galleryChosen' \in [Stories -> MediaJobs \cup {"NONE"}],
         \A c \in Stories :
           /\ galleryChosen'[c] \in {galleryChosen[c], "NONE"} \/ Cleared(galleryMedia[galleryChosen'[c]], galleryDecided[galleryChosen'[c]])
           /\ galleryContent'[c] = galleryContent[c]
                \/ (galleryContent[c] # Gallery!NoContent /\ galleryContent'[c].media = galleryContent[c].media)
                \/ (galleryChosen[c] # "NONE" /\ galleryContent'[c].media = galleryChosen[c])
  PROVE  GalleryInv'
<1>1. GalleryTypes'
  BY DEF GalleryInv, GalleryTypes
<1>2. \A m \in MediaJobs : Moderated(galleryMedia'[m], galleryDecided'[m])
  BY DEF GalleryInv
<1>3. ASSUME NEW c \in Stories, galleryChosen'[c] # "NONE" PROVE Cleared(galleryMedia'[galleryChosen'[c]], galleryDecided'[galleryChosen'[c]])
  BY <1>3 DEF GalleryInv
<1>4. ASSUME NEW c \in Stories, galleryContent'[c] # Gallery!NoContent
      PROVE  galleryContent'[c].media \in MediaJobs /\ Cleared(galleryMedia'[galleryContent'[c].media], galleryDecided'[galleryContent'[c].media])
  <2>1. galleryChosen[c] \in MediaJobs \cup {"NONE"}
    BY DEF GalleryInv, GalleryTypes
  <2>2. QED
    BY <1>4, <2>1 DEF GalleryInv
<1>5. QED
  BY <1>1, <1>2, <1>3, <1>4 DEF GalleryInv, Gallery!NoContent

LEMMA GalleryStep ==
  ASSUME "NONE" \notin Moderators, GalleryInv, [Gallery!Next]_(Gallery!vars)
  PROVE  GalleryInv'
<1> USE DEF Gallery!None
<1>0. /\ galleryMedia \in [MediaJobs -> MediaRows] /\ galleryContent \in [Stories -> StoryRows]
      /\ galleryChosen \in [Stories -> MediaJobs \cup {"NONE"}] /\ galleryDecided \in [MediaJobs -> Moderators \cup {"NONE"}]
      /\ \A m \in MediaJobs : Moderated(galleryMedia[m], galleryDecided[m])
  BY DEF GalleryInv, GalleryTypes
<1>n. \A c \in Stories : galleryContent[c].status # "NONE" => galleryContent[c] # Gallery!NoContent
  BY DEF Gallery!NoContent
<1>1. CASE UNCHANGED <<galleryMedia, galleryContent, galleryChosen, galleryDecided>>
  BY <1>0, <1>1, StoryStep
\* A change of a media job that leaves the appeals decided as they are.
<1>j. ASSUME NEW m \in MediaJobs, NEW row \in MediaRows, galleryMedia' = [galleryMedia EXCEPT ![m] = row],
             UNCHANGED <<galleryContent, galleryChosen, galleryDecided>>,
             Moderated(row, galleryDecided[m]), Cleared(galleryMedia[m], galleryDecided[m]) => Cleared(row, galleryDecided[m])
      PROVE  GalleryInv'
  <2>1. galleryDecided' = [galleryDecided EXCEPT ![m] = galleryDecided[m]] /\ galleryDecided[m] \in Moderators \cup {"NONE"}
    BY <1>0, <1>j
  <2>2. QED
    BY <1>j, <2>1, MediaRowStep
<1>2. ASSUME NEW m \in MediaJobs, Gallery!CreateMedia(m) PROVE GalleryInv'
  <2>1. /\ galleryMedia[m] = Gallery!NoMedia /\ galleryMedia' = [galleryMedia EXCEPT ![m] = [galleryMedia[m] EXCEPT !.state = "QUARANTINED"]]
        /\ UNCHANGED <<galleryContent, galleryChosen, galleryDecided>>
    BY <1>2 DEF Gallery!CreateMedia
  <2> DEFINE row == [galleryMedia[m] EXCEPT !.state = "QUARANTINED"]
  <2>2. row \in MediaRows /\ row.state = "QUARANTINED" /\ row.appeal = "NONE" /\ galleryMedia[m].state = "NONE"
    BY <1>0, <2>1 DEF Gallery!NoMedia, MediaRows
  <2>3. galleryMedia' = [galleryMedia EXCEPT ![m] = row]
    BY <2>1
  <2> HIDE DEF row
  <2>4. QED
    BY <1>j, <2>1, <2>2, <2>3 DEF Moderated, Cleared
<1>3. ASSUME NEW m \in MediaJobs, Gallery!AppealMedia(m) PROVE GalleryInv'
  <2> DEFINE row == [galleryMedia[m] EXCEPT !.appeal = "PENDING"]
  <2>1. /\ galleryMedia[m].state = "REJECTED" /\ galleryMedia' = [galleryMedia EXCEPT ![m] = row]
        /\ UNCHANGED <<galleryContent, galleryChosen, galleryDecided>>
    BY <1>3 DEF Gallery!AppealMedia
  <2>2. /\ row \in MediaRows /\ row.state = "REJECTED" /\ row.appeal = "PENDING"
        /\ row.moderatedBy = galleryMedia[m].moderatedBy
    BY <1>0, <2>1 DEF MediaRows
  <2> HIDE DEF row
  <2>3. QED
    BY <1>0, <1>j, <2>1, <2>2 DEF Moderated, Cleared
<1>4. ASSUME NEW m \in MediaJobs, NEW p \in Moderators, NEW yes \in BOOLEAN, Gallery!ProcessMedia(p, m, yes)
      PROVE  GalleryInv'
  <2> DEFINE row == [galleryMedia[m] EXCEPT !.state = IF yes THEN "READY" ELSE "REJECTED", !.moderatedBy = p]
  <2>1. /\ galleryMedia[m].state = "QUARANTINED" /\ galleryMedia' = [galleryMedia EXCEPT ![m] = row]
        /\ UNCHANGED <<galleryContent, galleryChosen, galleryDecided>>
    BY <1>4 DEF Gallery!ProcessMedia
  <2>2. /\ row \in MediaRows /\ row.state \in {"READY", "REJECTED"} /\ row.appeal = galleryMedia[m].appeal
        /\ row.moderatedBy = p
    BY <1>0, <2>1 DEF MediaRows
  <2> HIDE DEF row
  <2>3. galleryMedia[m].appeal = "NONE" /\ p # "NONE"
    BY <1>0, <2>1 DEF Moderated
  <2>4. QED
    BY <1>j, <2>1, <2>2, <2>3 DEF Moderated, Cleared
<1>5. ASSUME NEW m \in MediaJobs, NEW p \in Moderators, NEW yes \in BOOLEAN, Gallery!DecideMediaAppeal(p, m, yes)
      PROVE  GalleryInv'
  <2> DEFINE row == [galleryMedia[m] EXCEPT !.appeal = IF yes THEN "APPROVED" ELSE "REJECTED",
                                     !.state = IF yes THEN "READY" ELSE @]
             by == IF yes THEN p ELSE galleryDecided[m]
  <2>1. /\ galleryMedia[m].appeal = "PENDING" /\ galleryMedia[m].moderatedBy # p /\ galleryMedia' = [galleryMedia EXCEPT ![m] = row]
        /\ galleryDecided' = [galleryDecided EXCEPT ![m] = by] /\ UNCHANGED <<galleryContent, galleryChosen>>
    BY <1>5 DEF Gallery!DecideMediaAppeal
  <2>2. /\ row \in MediaRows /\ row.moderatedBy = galleryMedia[m].moderatedBy
        /\ row.state = (IF yes THEN "READY" ELSE galleryMedia[m].state)
        /\ row.appeal = (IF yes THEN "APPROVED" ELSE "REJECTED")
        /\ by \in Moderators \cup {"NONE"} /\ (yes => by = p /\ p # "NONE")
    BY <1>0, <2>1 DEF MediaRows
  <2>3. galleryMedia[m].state = "REJECTED" /\ galleryMedia[m].moderatedBy # "NONE"
    BY <1>0, <2>1 DEF Moderated
  <2> HIDE DEF row, by
  <2>4. Moderated(row, by) /\ ~Cleared(galleryMedia[m], galleryDecided[m])
    BY <2>1, <2>2, <2>3 DEF Moderated, Cleared
  <2>5. QED
    BY <2>1, <2>2, <2>4, MediaRowStep
<1>6. ASSUME NEW c \in Stories, NEW m \in MediaJobs, Gallery!CreateEphemeralReads(c, m) PROVE GalleryInv'
  <2>1. /\ galleryMedia[m].state = "READY" /\ galleryChosen' = [galleryChosen EXCEPT ![c] = m] /\ UNCHANGED <<galleryMedia, galleryContent, galleryDecided>>
    BY <1>6 DEF Gallery!CreateEphemeralReads
  <2>2. Cleared(galleryMedia[m], galleryDecided[m])
    BY <1>0, <2>1 DEF Moderated
  <2>3. QED
    BY <1>0, <2>1, <2>2, StoryStep
<1>7. ASSUME NEW c \in Stories, Gallery!CreateEphemeral(c) PROVE GalleryInv'
  <2> DEFINE row == [Gallery!NoContent EXCEPT !.status = "PUBLISHED", !.media = galleryChosen[c]]
  <2>1. /\ galleryChosen[c] # "NONE" /\ galleryContent' = [galleryContent EXCEPT ![c] = row] /\ galleryChosen' = [galleryChosen EXCEPT ![c] = "NONE"]
        /\ UNCHANGED <<galleryMedia, galleryDecided>>
    BY <1>7 DEF Gallery!CreateEphemeral
  <2>2. row \in StoryRows /\ row.media = galleryChosen[c]
    BY <1>0 DEF Gallery!NoContent, StoryRows
  <2> HIDE DEF row
  <2>3. QED
    BY <1>0, <2>1, <2>2, StoryStep
\* A change of one story that keeps its media.
<1>k. ASSUME NEW c \in Stories, galleryContent[c] # Gallery!NoContent, NEW row \in StoryRows, row.media = galleryContent[c].media,
             galleryContent' = [galleryContent EXCEPT ![c] = row], UNCHANGED <<galleryMedia, galleryChosen, galleryDecided>>
      PROVE  GalleryInv'
  BY <1>0, <1>k, StoryStep
<1>8. ASSUME NEW c \in Stories, NEW active \in BOOLEAN, Gallery!SetHighlight(c, active) PROVE GalleryInv'
  <2> DEFINE row == [galleryContent[c] EXCEPT !.highlighted = active]
  <2>1. /\ galleryContent[c].status = "PUBLISHED" /\ galleryContent' = [galleryContent EXCEPT ![c] = row]
        /\ UNCHANGED <<galleryMedia, galleryChosen, galleryDecided>>
    BY <1>8 DEF Gallery!SetHighlight
  <2>2. row \in StoryRows /\ row.media = galleryContent[c].media
    BY <1>0 DEF StoryRows
  <2> HIDE DEF row
  <2>3. QED
    BY <1>n, <1>k, <2>1, <2>2
<1>9. ASSUME NEW c \in Stories, Gallery!ContentExpires(c) PROVE GalleryInv'
  <2> DEFINE row == [galleryContent[c] EXCEPT !.expired = TRUE]
  <2>1. /\ galleryContent[c] # Gallery!NoContent /\ galleryContent' = [galleryContent EXCEPT ![c] = row]
        /\ UNCHANGED <<galleryMedia, galleryChosen, galleryDecided>>
    BY <1>9 DEF Gallery!ContentExpires
  <2>2. row \in StoryRows /\ row.media = galleryContent[c].media
    BY <1>0 DEF StoryRows
  <2> HIDE DEF row
  <2>3. QED
    BY <1>k, <2>1, <2>2
\* A new status for a set of stories that are there.
<1>m. ASSUME NEW old \in SUBSET Stories, \A c \in old : galleryContent[c].status # "NONE",
             NEW s \in {"EXPIRED", "TOMBSTONED"},
             galleryContent' = [c \in Stories |-> IF c \in old THEN [galleryContent[c] EXCEPT !.status = s] ELSE galleryContent[c]]
      PROVE  /\ galleryContent' \in [Stories -> StoryRows]
             /\ \A c \in Stories : galleryContent'[c] = galleryContent[c]
                  \/ (galleryContent[c] # Gallery!NoContent /\ galleryContent'[c].media = galleryContent[c].media)
  <2>1. ASSUME NEW c \in Stories
        PROVE  /\ [galleryContent[c] EXCEPT !.status = s] \in StoryRows
               /\ [galleryContent[c] EXCEPT !.status = s].media = galleryContent[c].media
    <3>1. galleryContent[c] \in StoryRows
      BY <1>0
    <3>2. QED
      BY <3>1 DEF StoryRows
  <2>2. \A c \in Stories : galleryContent'[c] = IF c \in old THEN [galleryContent[c] EXCEPT !.status = s] ELSE galleryContent[c]
    BY <1>m
  <2>3. galleryContent' \in [Stories -> StoryRows]
    BY <1>0, <1>m, <2>1
  <2>4. QED
    BY <1>m, <1>n, <2>1, <2>2, <2>3
<1>10. CASE Gallery!Ephemeral
  <2> DEFINE old == {c \in Stories : galleryContent[c].status = "PUBLISHED" /\ ~galleryContent[c].highlighted /\ galleryContent[c].expired}
  <2>1. /\ galleryContent' = [c \in Stories |-> IF c \in old THEN [galleryContent[c] EXCEPT !.status = "EXPIRED"] ELSE galleryContent[c]]
        /\ UNCHANGED <<galleryMedia, galleryChosen, galleryDecided>> /\ old \in SUBSET Stories /\ \A c \in old : galleryContent[c].status # "NONE"
    BY <1>10 DEF Gallery!Ephemeral
  <2> HIDE DEF old
  <2>2. /\ galleryContent' \in [Stories -> StoryRows]
        /\ \A c \in Stories : galleryContent'[c] = galleryContent[c]
             \/ (galleryContent[c] # Gallery!NoContent /\ galleryContent'[c].media = galleryContent[c].media)
    BY <1>m, <2>1
  <2>3. QED
    BY <1>0, <2>1, <2>2, StoryStep
<1>11. CASE Gallery!PurgeExpired
  <2> DEFINE old == {c \in Stories : /\ galleryContent[c].status \in {"PUBLISHED", "EXPIRED"}
                                     /\ ~galleryContent[c].highlighted /\ galleryContent[c].expired}
             with == {galleryContent[c].media : c \in old}
  <2>1. /\ galleryContent' = [c \in Stories |-> IF c \in old THEN [galleryContent[c] EXCEPT !.status = "TOMBSTONED"] ELSE galleryContent[c]]
        /\ galleryMedia' = [m \in MediaJobs |-> IF m \in with THEN [galleryMedia[m] EXCEPT !.state = "TOMBSTONED"] ELSE galleryMedia[m]]
        /\ UNCHANGED <<galleryChosen, galleryDecided>> /\ old \in SUBSET Stories /\ \A c \in old : galleryContent[c].status # "NONE"
        /\ \A m \in with : \E c \in old : m = galleryContent[c].media
    BY <1>11 DEF Gallery!PurgeExpired
  <2> HIDE DEF old, with
  <2>2. /\ galleryContent' \in [Stories -> StoryRows]
        /\ \A c \in Stories : galleryContent'[c] = galleryContent[c]
             \/ (galleryContent[c] # Gallery!NoContent /\ galleryContent'[c].media = galleryContent[c].media)
    BY <1>m, <2>1
  <2>3. ASSUME NEW m \in MediaJobs
        PROVE  /\ galleryMedia'[m] \in MediaRows /\ Moderated(galleryMedia'[m], galleryDecided[m])
               /\ Cleared(galleryMedia[m], galleryDecided[m]) => Cleared(galleryMedia'[m], galleryDecided[m])
    <3>1. CASE m \notin with
      BY <1>0, <2>1, <3>1
    <3>2. CASE m \in with
      <4>1. Cleared(galleryMedia[m], galleryDecided[m])
        BY <1>n, <2>1, <3>2 DEF GalleryInv
      <4>2. /\ galleryMedia'[m] = [galleryMedia[m] EXCEPT !.state = "TOMBSTONED"] /\ galleryMedia[m] \in MediaRows
        BY <1>0, <2>1, <3>2
      <4>3. /\ galleryMedia'[m] \in MediaRows /\ galleryMedia'[m].state = "TOMBSTONED" /\ galleryMedia'[m].appeal = galleryMedia[m].appeal
            /\ galleryMedia'[m].moderatedBy = galleryMedia[m].moderatedBy
        BY <4>2 DEF MediaRows
      <4>4. QED
        BY <4>1, <4>3 DEF Moderated, Cleared
    <3>3. QED
      BY <3>1, <3>2
  <2>4. GalleryTypes'
    BY <1>0, <2>1, <2>2, <2>3 DEF GalleryTypes
  <2>5. ASSUME NEW c \in Stories, galleryChosen[c] # "NONE" PROVE Cleared(galleryMedia'[galleryChosen[c]], galleryDecided[galleryChosen[c]])
    BY <1>0, <2>3, <2>5 DEF GalleryInv
  <2>6. ASSUME NEW c \in Stories, galleryContent'[c] # Gallery!NoContent
        PROVE  galleryContent'[c].media \in MediaJobs /\ Cleared(galleryMedia'[galleryContent'[c].media], galleryDecided[galleryContent'[c].media])
    <3>1. galleryContent[c] # Gallery!NoContent /\ galleryContent'[c].media = galleryContent[c].media
      BY <2>2, <2>6
    <3>2. galleryContent[c].media \in MediaJobs /\ Cleared(galleryMedia[galleryContent[c].media], galleryDecided[galleryContent[c].media])
      BY <3>1 DEF GalleryInv
    <3>3. QED
      BY <2>3, <3>1, <3>2
  <2>7. QED
    BY <2>1, <2>3, <2>4, <2>5, <2>6 DEF GalleryInv, Gallery!NoContent
<1>12. CASE Gallery!CreateCollection \/ \E p \in Posts, active \in BOOLEAN : Gallery!SetCollectionPost(p, active)
  BY <1>1, <1>12 DEF Gallery!CreateCollection, Gallery!SetCollectionPost
<1>13. QED
  BY <1>1, <1>2, <1>3, <1>4, <1>5, <1>6, <1>7, <1>8, <1>9, <1>10, <1>11, <1>12 DEF Gallery!Next, Gallery!vars

LEMMA GallerySafe ==
  ASSUME "NONE" \notin Moderators
  PROVE  Gallery!Spec => []Gallery!PublishedIsCleared
<1>1. Gallery!Init => GalleryInv
  BY DEF Gallery!Init, Gallery!None, Gallery!NoMedia, Gallery!NoContent, GalleryInv, GalleryTypes, MediaRows,
         StoryRows, Moderated
<1>2. GalleryInv /\ [Gallery!Next]_(Gallery!vars) => GalleryInv'
  BY GalleryStep
<1>3. GalleryInv => Gallery!PublishedIsCleared
  BY DEF GalleryInv, Cleared, Gallery!PublishedIsCleared, Gallery!None
<1>4. QED
  BY <1>1, <1>2, <1>3, PTL DEF Gallery!Spec

----------------------------------------------------------------------------
(* internal/localverticals, classifieds.                                   *)

ListingRows == [status : {"NONE", "PUBLISHED", "PENDING_REVIEW", "EXPIRED"}, revision : Nat,
                featured : BOOLEAN, reportCount : Nat]

Withheld(row, by, again) ==
  /\ IsFiniteSet(by) /\ row.reportCount = Cardinality(by)
  /\ row.status \in {"PUBLISHED", "EXPIRED"} /\ row.reportCount >= Threshold => again

LocalsInv ==
  /\ localListing \in [Listings -> ListingRows] /\ localReports \in [Listings -> SUBSET Customers] /\ localOver \subseteq Listings
  /\ \A l \in Listings : Withheld(localListing[l], localReports[l], l \in localReposted)

\* A change of one listing and of who reported it.
LEMMA ListingStep ==
  ASSUME LocalsInv, NEW l \in Listings, NEW row \in ListingRows, localListing' = [localListing EXCEPT ![l] = row],
         NEW by \in SUBSET Customers, localReports' = [localReports EXCEPT ![l] = by], localOver' \subseteq Listings,
         \A k \in Listings : k # l => (k \in localReposted' <=> k \in localReposted),
         Withheld(row, by, l \in localReposted')
  PROVE  LocalsInv'
<1>1. localListing' \in [Listings -> ListingRows] /\ localReports' \in [Listings -> SUBSET Customers]
  BY DEF LocalsInv
<1>2. ASSUME NEW k \in Listings PROVE Withheld(localListing'[k], localReports'[k], k \in localReposted')
  <2>1. CASE k = l
    BY <2>1 DEF LocalsInv
  <2>2. CASE k # l
    <3>1. localListing'[k] = localListing[k] /\ localReports'[k] = localReports[k] /\ (k \in localReposted' <=> k \in localReposted)
      BY <2>2 DEF LocalsInv
    <3>2. QED
      BY <3>1 DEF LocalsInv, Withheld
  <2>3. QED
    BY <2>1, <2>2
<1>3. QED
  BY <1>1, <1>2 DEF LocalsInv

\* What the operations make of a row: a status or a feature, and the next revision.
LEMMA ListingStatusChange ==
  ASSUME NEW r \in ListingRows, NEW s \in {"PUBLISHED", "PENDING_REVIEW", "EXPIRED"}
  PROVE  /\ [r EXCEPT !.status = s, !.revision = 1] \in ListingRows
         /\ [r EXCEPT !.status = s, !.revision = 1].reportCount = r.reportCount
         /\ [r EXCEPT !.status = s, !.revision = @ + 1] \in ListingRows
         /\ [r EXCEPT !.status = s, !.revision = @ + 1].reportCount = r.reportCount
         /\ [[r EXCEPT !.status = s] EXCEPT !.revision = @ + 1] \in ListingRows
         /\ [[r EXCEPT !.status = s] EXCEPT !.revision = @ + 1].reportCount = r.reportCount
<1>1. r.revision + 1 \in Nat
  BY DEF ListingRows
<1>2. ASSUME NEW v \in Nat
      PROVE  /\ [r EXCEPT !.status = s, !.revision = v] \in ListingRows
             /\ [r EXCEPT !.status = s, !.revision = v].reportCount = r.reportCount
  BY DEF ListingRows
<1>3. /\ [r EXCEPT !.status = s, !.revision = @ + 1] = [r EXCEPT !.status = s, !.revision = r.revision + 1]
      /\ [[r EXCEPT !.status = s] EXCEPT !.revision = @ + 1] = [r EXCEPT !.status = s, !.revision = r.revision + 1]
  BY DEF ListingRows
<1>4. /\ [r EXCEPT !.status = s, !.revision = r.revision + 1] \in ListingRows
      /\ [r EXCEPT !.status = s, !.revision = r.revision + 1].reportCount = r.reportCount
  BY <1>1, <1>2
<1>5. /\ [r EXCEPT !.status = s, !.revision = 1] \in ListingRows
      /\ [r EXCEPT !.status = s, !.revision = 1].reportCount = r.reportCount
  BY <1>2
<1>6. QED
  BY <1>3, <1>4, <1>5

LEMMA ListingFeatureChange ==
  ASSUME NEW r \in ListingRows, NEW b \in BOOLEAN
  PROVE  /\ [[r EXCEPT !.featured = b] EXCEPT !.revision = @ + 1] \in ListingRows
         /\ [[r EXCEPT !.featured = b] EXCEPT !.revision = @ + 1].reportCount = r.reportCount
         /\ [[r EXCEPT !.featured = b] EXCEPT !.revision = @ + 1].status = r.status
<1>1. r.revision + 1 \in Nat
  BY DEF ListingRows
<1>2. ASSUME NEW v \in Nat
      PROVE  /\ [r EXCEPT !.featured = b, !.revision = v] \in ListingRows
             /\ [r EXCEPT !.featured = b, !.revision = v].reportCount = r.reportCount
             /\ [r EXCEPT !.featured = b, !.revision = v].status = r.status
  BY DEF ListingRows
<1>3. [[r EXCEPT !.featured = b] EXCEPT !.revision = @ + 1] = [r EXCEPT !.featured = b, !.revision = r.revision + 1]
  BY DEF ListingRows
<1>4. /\ [r EXCEPT !.featured = b, !.revision = r.revision + 1] \in ListingRows
      /\ [r EXCEPT !.featured = b, !.revision = r.revision + 1].reportCount = r.reportCount
      /\ [r EXCEPT !.featured = b, !.revision = r.revision + 1].status = r.status
  BY <1>1, <1>2
<1>5. QED
  BY <1>3, <1>4

LEMMA ListingReportChange ==
  ASSUME NEW r \in ListingRows, NEW n \in Nat, NEW t \in {"PENDING_REVIEW", r.status}
  PROVE  /\ [r EXCEPT !.reportCount = n, !.revision = @ + 1, !.status = t] \in ListingRows
         /\ [r EXCEPT !.reportCount = n, !.revision = @ + 1, !.status = t].reportCount = n
         /\ [r EXCEPT !.reportCount = n, !.revision = @ + 1, !.status = t].status = t
<1>1. r.revision + 1 \in Nat /\ t \in {"NONE", "PUBLISHED", "PENDING_REVIEW", "EXPIRED"}
  BY DEF ListingRows
<1>2. ASSUME NEW v \in Nat, NEW u \in {"NONE", "PUBLISHED", "PENDING_REVIEW", "EXPIRED"}
      PROVE  /\ [r EXCEPT !.reportCount = n, !.revision = v, !.status = u] \in ListingRows
             /\ [r EXCEPT !.reportCount = n, !.revision = v, !.status = u].reportCount = n
             /\ [r EXCEPT !.reportCount = n, !.revision = v, !.status = u].status = u
  BY DEF ListingRows
<1>3. [r EXCEPT !.reportCount = n, !.revision = @ + 1, !.status = t]
        = [r EXCEPT !.reportCount = n, !.revision = r.revision + 1, !.status = t]
  BY DEF ListingRows
<1>4. /\ [r EXCEPT !.reportCount = n, !.revision = r.revision + 1, !.status = t] \in ListingRows
      /\ [r EXCEPT !.reportCount = n, !.revision = r.revision + 1, !.status = t].reportCount = n
      /\ [r EXCEPT !.reportCount = n, !.revision = r.revision + 1, !.status = t].status = t
  BY <1>1, <1>2
<1>5. QED
  BY <1>3, <1>4

LEMMA LocalsStep ==
  ASSUME Threshold \in Nat \ {0}, LocalsInv, [Locals!Next]_(Locals!vars)
  PROVE  LocalsInv'
<1> USE DEF Locals!None
<1>0. /\ localListing \in [Listings -> ListingRows] /\ localReports \in [Listings -> SUBSET Customers] /\ localOver \subseteq Listings
      /\ \A l \in Listings : Withheld(localListing[l], localReports[l], l \in localReposted)
  BY DEF LocalsInv
<1>1. CASE UNCHANGED <<localListing, localReports, localReposted>> /\ localOver' \subseteq Listings
  BY <1>0, <1>1 DEF LocalsInv
\* A change of the row alone, with the same number of reports.
<1>r. ASSUME NEW l \in Listings, NEW row \in ListingRows, localListing' = [localListing EXCEPT ![l] = row],
             UNCHANGED localReports, localOver' \subseteq Listings, row.reportCount = localListing[l].reportCount,
             \/ localReposted' = localReposted \cup {l}
             \/ localReposted' = localReposted /\ row.status = localListing[l].status
             \/ localReposted' = localReposted /\ row.reportCount = 0
      PROVE  LocalsInv'
  <2>1. /\ localReports' = [localReports EXCEPT ![l] = localReports[l]] /\ localReports[l] \in SUBSET Customers
        /\ \A k \in Listings : k # l => (k \in localReposted' <=> k \in localReposted)
    BY <1>0, <1>r
  <2>2. Withheld(localListing[l], localReports[l], l \in localReposted)
    BY <1>0
  <2>3. Withheld(row, localReports[l], l \in localReposted')
    BY <1>r, <2>2 DEF Withheld
  <2>4. QED
    BY <1>r, <2>1, <2>3, ListingStep
<1>2. ASSUME NEW l \in Listings, NEW s \in {"PUBLISHED", "PENDING_REVIEW"}, Locals!CreateClassified(l, s)
      PROVE  LocalsInv'
  <2> DEFINE row == [localListing[l] EXCEPT !.status = s, !.revision = 1]
  <2>1. /\ localListing[l] = Locals!NoListing /\ localListing' = [localListing EXCEPT ![l] = row]
        /\ UNCHANGED <<localOver, localReports, localReposted>>
    BY <1>2 DEF Locals!CreateClassified
  <2>2. row \in ListingRows /\ row.reportCount = 0 /\ row.reportCount = localListing[l].reportCount
    <3>0. Locals!NoListing.reportCount = 0
      BY DEF Locals!NoListing
    <3>1. localListing[l] \in ListingRows /\ localListing[l].reportCount = 0
      BY <1>0, <2>1, <3>0
    <3>2. QED
      BY <3>1, ListingStatusChange
  <2> HIDE DEF row
  <2>3. QED
    BY <1>0, <1>r, <2>1, <2>2
<1>3. ASSUME NEW l \in Listings, Locals!RepostClassified(l) PROVE LocalsInv'
  <2> DEFINE row == [[localListing[l] EXCEPT !.status = "PUBLISHED"] EXCEPT !.revision = @ + 1]
  <2>1. /\ localListing' = [localListing EXCEPT ![l] = row] /\ localOver' \subseteq localOver /\ localReposted' = localReposted \cup {l}
        /\ UNCHANGED localReports
    BY <1>3 DEF Locals!RepostClassified, Locals!mutateClassified
  <2>2. row \in ListingRows /\ row.reportCount = localListing[l].reportCount
    <3>1. localListing[l] \in ListingRows
      BY <1>0
    <3>2. QED
      BY <3>1, ListingStatusChange
  <2> HIDE DEF row
  <2>3. QED
    BY <1>0, <1>r, <2>1, <2>2
<1>4. ASSUME NEW l \in Listings, NEW b \in BOOLEAN, Locals!UpgradeClassified(l, b) PROVE LocalsInv'
  <2> DEFINE row == [[localListing[l] EXCEPT !.featured = b] EXCEPT !.revision = @ + 1]
  <2>1. /\ localListing' = [localListing EXCEPT ![l] = row] /\ UNCHANGED <<localOver, localReposted, localReports>>
    BY <1>4 DEF Locals!UpgradeClassified, Locals!mutateClassified
  <2>2. row \in ListingRows /\ row.reportCount = localListing[l].reportCount /\ row.status = localListing[l].status
    <3>1. localListing[l] \in ListingRows
      BY <1>0
    <3>2. QED
      BY <3>1, ListingFeatureChange
  <2> HIDE DEF row
  <2>3. QED
    BY <1>0, <1>r, <2>1, <2>2
<1>5. ASSUME NEW l \in Listings, NEW c \in Customers, Locals!ReportClassified(c, l) PROVE LocalsInv'
  <2> DEFINE n == localListing[l].reportCount + 1
             row == [localListing[l] EXCEPT !.reportCount = n, !.revision = @ + 1,
                                       !.status = IF n >= Threshold THEN "PENDING_REVIEW" ELSE @]
             by == localReports[l] \cup {c}
  <2>1. /\ localListing[l].status = "PUBLISHED" /\ c \notin localReports[l] /\ localListing' = [localListing EXCEPT ![l] = row]
        /\ localReports' = [localReports EXCEPT ![l] = by] /\ localOver' = localOver
        /\ localReposted' = IF n >= Threshold THEN localReposted \ {l} ELSE localReposted
    BY <1>5 DEF Locals!ReportClassified
  <2>2. row \in ListingRows /\ row.reportCount = n /\ (n >= Threshold => row.status = "PENDING_REVIEW")
    <3>1. localListing[l] \in ListingRows /\ n \in Nat
      BY <1>0 DEF ListingRows
    <3> DEFINE t == IF n >= Threshold THEN "PENDING_REVIEW" ELSE localListing[l].status
    <3>2. /\ t \in {"PENDING_REVIEW", localListing[l].status}
          /\ row = [localListing[l] EXCEPT !.reportCount = n, !.revision = @ + 1, !.status = t]
      OBVIOUS
    <3> HIDE DEF n, row
    <3>3. n >= Threshold => t = "PENDING_REVIEW"
      OBVIOUS
    <3> HIDE DEF t
    <3>4. PICK r \in ListingRows : r = localListing[l]
      BY <3>1
    <3>5. row = [r EXCEPT !.reportCount = n, !.revision = @ + 1, !.status = t] /\ t \in {"PENDING_REVIEW", r.status}
      BY <3>2, <3>4, Zenon
    <3>6. row \in ListingRows /\ row.reportCount = n /\ row.status = t
      BY <3>1, <3>5, ListingReportChange
    <3>7. QED
      BY <3>3, <3>6
  <2>3. IsFiniteSet(by) /\ Cardinality(by) = n
    <3>1. IsFiniteSet(localReports[l]) /\ localListing[l].reportCount = Cardinality(localReports[l])
      BY <1>0 DEF Withheld
    <3>2. QED
      BY <2>1, <3>1, FS_AddElement
  <2>4. by \in SUBSET Customers /\ n \in Nat
    BY <1>0 DEF ListingRows
  <2>5. Withheld(row, by, l \in localReposted')
    BY <2>2, <2>3 DEF Withheld
  <2>6. \A k \in Listings : k # l => (k \in localReposted' <=> k \in localReposted)
    BY <2>1
  <2> HIDE DEF row, by, n
  <2>7. QED
    BY <1>0, <2>1, <2>2, <2>4, <2>5, <2>6, ListingStep
<1>6. CASE Locals!ExpireClassifieds
  <2> DEFINE old == {l \in localOver : localListing[l].status = "PUBLISHED"}
             row(l) == [localListing[l] EXCEPT !.status = "EXPIRED", !.revision = @ + 1]
  <2>1. /\ localListing' = [l \in Listings |-> IF l \in old THEN row(l) ELSE localListing[l]]
        /\ UNCHANGED <<localOver, localReports, localReposted>>
    BY <1>6 DEF Locals!ExpireClassifieds
  <2>2. ASSUME NEW l \in Listings
        PROVE  row(l) \in ListingRows /\ row(l).reportCount = localListing[l].reportCount
    <3>1. localListing[l] \in ListingRows
      BY <1>0
    <3>2. QED
      BY <3>1, ListingStatusChange
  <2>3. \A l \in old : localListing[l].status = "PUBLISHED"
    OBVIOUS
  <2> HIDE DEF old, row
  <2>4. localListing' \in [Listings -> ListingRows]
    BY <1>0, <2>1, <2>2
  <2>5. ASSUME NEW l \in Listings PROVE Withheld(localListing'[l], localReports[l], l \in localReposted)
    <3>1. CASE l \in old
      <4>1. /\ localListing'[l].reportCount = localListing[l].reportCount /\ localListing[l].status = "PUBLISHED"
            /\ Withheld(localListing[l], localReports[l], l \in localReposted)
        BY <1>0, <2>1, <2>2, <2>3, <3>1
      <4>2. QED
        BY <4>1 DEF Withheld
    <3>2. CASE l \notin old
      BY <1>0, <2>1, <3>2
    <3>3. QED
      BY <3>1, <3>2
  <2>6. QED
    BY <1>0, <2>1, <2>4, <2>5 DEF LocalsInv
<1>7. ASSUME NEW l \in Listings, Locals!ListingExpires(l) PROVE LocalsInv'
  BY <1>0, <1>1, <1>7 DEF Locals!ListingExpires
<1>8. CASE \/ \E s \in BOOLEAN : Locals!OwnerVerification(s)
           \/ \E h \in Homes : \/ Locals!CreateHome(h) \/ Locals!PublishHome(h)
                               \/ \E b \in BOOLEAN : Locals!UpgradeHome(h, b)
                               \/ \E c \in Customers : Locals!Inquire(c, h) \/ Locals!ScheduleVisit(c, h)
  BY <1>0, <1>1, <1>8 DEF Locals!OwnerVerification, Locals!CreateHome, Locals!PublishHome, Locals!UpgradeHome,
     Locals!mutateHome, Locals!Inquire, Locals!ScheduleVisit
<1>9. QED
  BY <1>0, <1>1, <1>2, <1>3, <1>4, <1>5, <1>6, <1>7, <1>8 DEF Locals!Next, Locals!vars

\* The instance's cardinality is the same operator.
LEMMA LocalsCardinality == \A S : Locals!Cardinality(S) = Cardinality(S)
  BY DEF Locals!Cardinality, Cardinality

LEMMA LocalsSafe ==
  ASSUME Threshold \in Nat \ {0}
  PROVE  Locals!Spec => []Locals!ReportedIsWithheld
<1>1. Locals!Init => LocalsInv
  <2> SUFFICES ASSUME Locals!Init PROVE LocalsInv
    OBVIOUS
  <2>1. Locals!NoListing \in ListingRows /\ Locals!NoListing.status = "NONE" /\ Locals!NoListing.reportCount = 0
    BY DEF Locals!NoListing, Locals!None, ListingRows
  <2>2. IsFiniteSet({}) /\ Cardinality({}) = 0
    BY FS_EmptySet
  <2>3. QED
    BY <2>1, <2>2 DEF Locals!Init, LocalsInv, Withheld
<1>2. LocalsInv /\ [Locals!Next]_(Locals!vars) => LocalsInv'
  BY LocalsStep
<1>3. LocalsInv => Locals!ReportedIsWithheld
  <2> SUFFICES ASSUME LocalsInv, NEW l \in Listings
               PROVE  /\ localListing[l].reportCount = Cardinality(localReports[l])
                      /\ localListing[l].status \in {"PUBLISHED", "EXPIRED"} /\ localListing[l].reportCount >= Threshold =>
                           l \in localReposted
    BY LocalsCardinality, Zenon DEF Locals!ReportedIsWithheld
  <2>1. Withheld(localListing[l], localReports[l], l \in localReposted)
    BY DEF LocalsInv
  <2>2. QED
    BY <2>1, Zenon DEF Withheld
<1>4. QED
  BY <1>1, <1>2, <1>3, PTL DEF Locals!Spec

\* DecideMediaAppeal, PurgeExpired, ReportClassified: no order of moderation, appeal,
\* purge, report, repost and expiry breaks ModerationHolds.
THEOREM ModerationKept == Gallery!Spec /\ Locals!Spec => []ModerationHolds
<1>1. Gallery!PublishedIsCleared /\ Locals!ReportedIsWithheld => ModerationHolds
  BY DEF ModerationHolds
<1>2. Gallery!Spec => []Gallery!PublishedIsCleared
  BY GallerySafe, PlatformAssumption
<1>3. Locals!Spec => []Locals!ReportedIsWithheld
  BY LocalsSafe, PlatformAssumption
<1>4. QED
  BY <1>1, <1>2, <1>3, PTL

----------------------------------------------------------------------------
(* internal/fulfillment, the chat of a task.                               *)

\* Only members and operators have a receipt.
ChatInv ==
  Deliveries!TypeOK /\ \A m \in Messages, p \in Deliveries!People : chatMessage[m].receipts[p] # "NONE" => p \in chatMembers \cup Operators

SilentStep ==
  /\ chatBlocked => chatBlocked' /\ \A m \in Messages : chatMessage'[m].sender = chatMessage[m].sender
  /\ \A m \in Messages, p \in Deliveries!People : chatMessage'[m].receipts[p] # "NONE" => p \in chatMembers \cup Operators

LEMMA ChatStep ==
  ASSUME ChatInv, [Deliveries!Next]_(Deliveries!vars)
  PROVE  ChatInv' /\ SilentStep
<1> DEFINE Kinds == {"NONE", "SENT", "DELIVERED", "READ"}
           Rows == [sender : Deliveries!People \cup {"NOBODY"}, receipts : [Deliveries!People -> Kinds]]
<1>0. /\ chatMembers \subseteq Deliveries!People /\ chatClosing \in {"OPEN", "DELIVERED", "OVER"} /\ chatBlocked \in BOOLEAN
      /\ chatMessage \in [Messages -> Rows]
      /\ \A m \in Messages, p \in Deliveries!People : chatMessage[m].receipts[p] # "NONE" => p \in chatMembers \cup Operators
  BY DEF ChatInv, Deliveries!TypeOK
<1> HIDE DEF Kinds, Rows
\* Steps that say nothing.
<1>1. ASSUME chatMessage' = chatMessage, chatMembers \subseteq chatMembers', chatMembers' \subseteq Deliveries!People,
             chatClosing' \in {"OPEN", "DELIVERED", "OVER"}, chatBlocked' \in BOOLEAN, chatBlocked => chatBlocked'
      PROVE  ChatInv' /\ SilentStep
  <2>1. Deliveries!TypeOK'
    BY <1>0, <1>1 DEF Deliveries!TypeOK, Rows, Kinds
  <2>2. QED
    BY <1>0, <1>1, <2>1 DEF ChatInv, SilentStep
\* Steps that change one message's row, by a member.
<1>2. ASSUME NEW p \in Deliveries!People, p \in chatMembers \cup Operators, NEW m \in Messages, NEW row \in Rows,
             NEW kind \in {"SENT", "DELIVERED", "READ"},
             chatMessage' = [chatMessage EXCEPT ![m] = row], row.receipts = [chatMessage[m].receipts EXCEPT ![p] = kind],
             row.sender = chatMessage[m].sender \/ ~chatBlocked,
             UNCHANGED <<chatMembers, chatClosing, chatBlocked>>
      PROVE  ChatInv' /\ SilentStep
  <2>1. chatMessage' \in [Messages -> Rows]
    BY <1>0, <1>2
  <2>2. ASSUME NEW n \in Messages, NEW q \in Deliveries!People, chatMessage'[n].receipts[q] # "NONE" PROVE q \in chatMembers \cup Operators
    <3>1. CASE n # m
      BY <1>0, <1>2, <2>2, <3>1
    <3>2. CASE n = m
      <4>1. chatMessage'[n] = row /\ chatMessage[n] \in Rows
        BY <1>0, <1>2, <3>2
      <4>2. chatMessage[n].receipts \in [Deliveries!People -> Kinds]
        BY <4>1 DEF Rows
      <4>3. q = p \/ row.receipts[q] = chatMessage[n].receipts[q]
        BY <1>2, <3>2, <4>2
      <4>4. QED
        BY <1>0, <1>2, <2>2, <3>2, <4>1, <4>3
    <3>3. QED
      BY <3>1, <3>2
  <2>3. chatBlocked => \A n \in Messages : chatMessage'[n].sender = chatMessage[n].sender
    BY <1>0, <1>2
  <2>4. Deliveries!TypeOK'
    BY <1>0, <1>2, <2>1 DEF Deliveries!TypeOK, Rows, Kinds
  <2>5. QED
    BY <1>0, <1>2, <2>2, <2>3, <2>4 DEF ChatInv, SilentStep
<1>3. CASE UNCHANGED Deliveries!vars
  BY <1>0, <1>1, <1>3 DEF Deliveries!vars
<1>4. CASE Deliveries!Delivered \/ Deliveries!Expires
  BY <1>0, <1>1, <1>4 DEF Deliveries!Delivered, Deliveries!Expires
<1>5. ASSUME NEW r \in Riders, Deliveries!Join(r) PROVE ChatInv' /\ SilentStep
  BY <1>0, <1>1, <1>5 DEF Deliveries!Join, Deliveries!People
<1>6. ASSUME NEW p \in Deliveries!People, Deliveries!BlockConversation(p) PROVE ChatInv' /\ SilentStep
  BY <1>0, <1>1, <1>6 DEF Deliveries!BlockConversation
<1>7. ASSUME NEW p \in Deliveries!People, NEW m \in Messages, Deliveries!SendMessage(p, m) PROVE ChatInv' /\ SilentStep
  <2> DEFINE row == [sender |-> p, receipts |-> [chatMessage[m].receipts EXCEPT ![p] = "SENT"]]
  <2>1. chatMessage' = [chatMessage EXCEPT ![m] = row] /\ p \in chatMembers \cup Operators /\ ~chatBlocked /\ UNCHANGED <<chatMembers, chatClosing, chatBlocked>>
    BY <1>7 DEF Deliveries!SendMessage, Deliveries!authorizeConversation
  <2>2. chatMessage[m].receipts \in [Deliveries!People -> Kinds]
    BY <1>0 DEF Rows
  <2>3. row \in Rows /\ row.receipts = [chatMessage[m].receipts EXCEPT ![p] = "SENT"]
    BY <2>2 DEF Rows, Kinds
  <2> HIDE DEF row
  <2>4. QED
    BY <1>2, <2>1, <2>3
<1>8. ASSUME NEW p \in Deliveries!People, NEW m \in Messages, NEW s \in {"DELIVERED", "READ"}, Deliveries!MessageReceipt(p, m, s)
      PROVE  ChatInv' /\ SilentStep
  <2> DEFINE row == [chatMessage[m] EXCEPT !.receipts = [chatMessage[m].receipts EXCEPT ![p] = s]]
  <2>1. chatMessage' = [chatMessage EXCEPT ![m] = row] /\ p \in chatMembers \cup Operators /\ UNCHANGED <<chatMembers, chatClosing, chatBlocked>>
    BY <1>8 DEF Deliveries!MessageReceipt, Deliveries!authorizeConversation
  <2>2. chatMessage[m] \in Rows /\ chatMessage[m].receipts \in [Deliveries!People -> Kinds]
    BY <1>0 DEF Rows
  <2>3. row \in Rows /\ row.receipts = [chatMessage[m].receipts EXCEPT ![p] = s] /\ row.sender = chatMessage[m].sender
    BY <2>2 DEF Rows, Kinds
  <2> HIDE DEF row
  <2>4. QED
    BY <1>2, <2>1, <2>3
<1>9. QED
  BY <1>3, <1>4, <1>5, <1>6, <1>7, <1>8 DEF Deliveries!Next

----------------------------------------------------------------------------
(* internal/social, messaging.                                             *)

\* Under a block a conversation is closed or was opened under it.
TalkInv ==
  /\ talkTalk \in [status : {"NONE", "REQUESTED", "ACCEPTED", "BLOCKED"}, by : Pair \cup {"NONE"}]
  /\ talkOpening \in [Pair -> {"NONE", "REQUESTED", "ACCEPTED"}]
  /\ talkControl # {} /\ talkTalk.status \in {"REQUESTED", "ACCEPTED"} => talkFreshUnder

BlockStep ==
  /\ talkSent' # talkSent => talkControl = {} \/ talkFreshUnder
  /\ talkTalk.status = "BLOCKED" => talkTalk'.status = "BLOCKED" /\ talkSent' = talkSent

LEMMA TalkStep ==
  ASSUME TalkInv, [Talks!Next]_(Talks!vars)
  PROVE  TalkInv' /\ BlockStep
<1> USE DEF Talks!None, Talks!Blocked
<1>1. CASE UNCHANGED <<talkControl, talkTalk, talkOpening, talkSent, talkFreshUnder>>
  BY <1>1 DEF TalkInv, BlockStep
<1>2. ASSUME NEW a \in Pair, NEW block \in BOOLEAN, Talks!SetRelationship(a, block) PROVE TalkInv' /\ BlockStep
  <2>1. /\ UNCHANGED <<talkOpening, talkSent, talkFreshUnder>>
        /\ block = FALSE => talkTalk' = talkTalk /\ (talkControl' # {} => talkControl # {})
        /\ block = TRUE => \/ talkTalk = Talks!NoTalk /\ talkTalk' = talkTalk
                           \/ talkTalk' = [talkTalk EXCEPT !.status = "BLOCKED"]
    BY <1>2 DEF Talks!SetRelationship
  <2>2. CASE talkTalk' = talkTalk /\ (block = FALSE \/ talkTalk = Talks!NoTalk)
    <3>1. Talks!NoTalk.status = "NONE"
      BY DEF Talks!NoTalk
    <3>2. QED
      BY <2>1, <2>2, <3>1 DEF TalkInv, BlockStep
  <2>3. CASE talkTalk' = [talkTalk EXCEPT !.status = "BLOCKED"]
    BY <2>1, <2>3 DEF TalkInv, BlockStep
  <2>4. QED
    BY <2>1, <2>2, <2>3
<1>3. ASSUME NEW a \in Pair, Talks!OpenConversationLooks(a) PROVE TalkInv' /\ BlockStep
  BY <1>3 DEF Talks!OpenConversationLooks, TalkInv, BlockStep
<1>4. ASSUME NEW a \in Pair, Talks!OpenConversation(a) PROVE TalkInv' /\ BlockStep
  <2>1. /\ talkOpening' = [talkOpening EXCEPT ![a] = "NONE"] /\ UNCHANGED <<talkControl, talkSent>>
        /\ \/ talkTalk = Talks!NoTalk /\ talkTalk' = [status |-> talkOpening[a], by |-> a] /\ talkFreshUnder' = (talkControl # {})
           \/ UNCHANGED <<talkTalk, talkFreshUnder>>
    BY <1>4 DEF Talks!OpenConversation
  <2>2. talkOpening' \in [Pair -> {"NONE", "REQUESTED", "ACCEPTED"}] /\ talkOpening[a] \in {"NONE", "REQUESTED", "ACCEPTED"}
    BY <2>1 DEF TalkInv
  <2>3. CASE talkTalk = Talks!NoTalk /\ talkTalk' = [status |-> talkOpening[a], by |-> a] /\ talkFreshUnder' = (talkControl # {})
    <3>1. talkTalk.status = "NONE"
      BY <2>3 DEF Talks!NoTalk
    <3>2. QED
      BY <2>1, <2>2, <2>3, <3>1 DEF TalkInv, BlockStep
  <2>4. CASE UNCHANGED <<talkTalk, talkFreshUnder>>
    BY <2>1, <2>2, <2>4 DEF TalkInv, BlockStep
  <2>5. QED
    BY <2>1, <2>3, <2>4
<1>5. ASSUME NEW a \in Pair, Talks!AcceptConversation(a) PROVE TalkInv' /\ BlockStep
  BY <1>5 DEF Talks!AcceptConversation, TalkInv, BlockStep
<1>6. ASSUME NEW a \in Pair, Talks!SendMessage(a) PROVE TalkInv' /\ BlockStep
  BY <1>6 DEF Talks!SendMessage, TalkInv, BlockStep
<1>7. CASE \/ UNCHANGED Talks!vars
           \/ \E a \in Pair : Talks!FollowLooks(a) \/ Talks!Follow(a)
           \/ Talks!CreateCallLooks \/ Talks!CreateCall \/ Talks!CallExpires
           \/ \E kind \in {"OFFER", "ANSWER", "END"} : Talks!SignalCall(kind)
           \/ \E a \in Pair, s \in {"ONLINE", Talks!None} : Talks!SetPresence(a, s)
  <2>1. UNCHANGED <<talkControl, talkTalk, talkOpening, talkSent, talkFreshUnder>>
    BY <1>7 DEF Talks!vars, Talks!FollowLooks, Talks!Follow, Talks!CreateCallLooks, Talks!CreateCall, Talks!CallExpires,
       Talks!SignalCall, Talks!SetPresence
  <2>2. QED
    BY <1>1, <2>1
<1>8. QED
  BY <1>2, <1>3, <1>4, <1>5, <1>6, <1>7 DEF Talks!Next

\* SendMessage, BlockConversation and SetRelationship: no order of requests, also
\* of those between their look and their insert, breaks BlocksSilence.
THEOREM BlocksKept == Deliveries!Spec /\ Talks!Spec => BlocksSilence
<1>1. Deliveries!Init => ChatInv
  <2> SUFFICES ASSUME Deliveries!Init PROVE ChatInv
    OBVIOUS
  <2>1. Deliveries!NoMessage \in [sender : Deliveries!People \cup {"NOBODY"},
                             receipts : [Deliveries!People -> {"NONE", "SENT", "DELIVERED", "READ"}]]
    BY DEF Deliveries!NoMessage
  <2>2. \A p \in Deliveries!People : Deliveries!NoMessage.receipts[p] = "NONE"
    BY DEF Deliveries!NoMessage
  <2>3. Parties \subseteq Deliveries!People
    BY DEF Deliveries!People
  <2>4. Deliveries!TypeOK
    BY <2>1, <2>3 DEF Deliveries!Init, Deliveries!TypeOK
  <2>5. QED
    BY <2>2, <2>4 DEF Deliveries!Init, ChatInv
<1>2. ChatInv /\ [Deliveries!Next]_(Deliveries!vars) => ChatInv' /\ SilentStep
  BY ChatStep
<1>3. ChatInv => Deliveries!TypeOK
  BY DEF ChatInv
<1>4. Talks!Init => TalkInv
  BY DEF Talks!Init, Talks!None, Talks!NoTalk, TalkInv
<1>5. TalkInv /\ [Talks!Next]_(Talks!vars) => TalkInv' /\ BlockStep
  BY TalkStep
<1>6. Deliveries!Spec => []Deliveries!TypeOK /\ Deliveries!BlockedIsSilent
  BY <1>1, <1>2, <1>3, PTL DEF Deliveries!Spec, Deliveries!BlockedIsSilent, SilentStep
<1>7. BlockStep => (talkSent' # talkSent => ~Talks!Blocked \/ talkFreshUnder)
                   /\ (talkTalk.status = "BLOCKED" => talkTalk'.status = "BLOCKED" /\ talkSent' = talkSent)
  BY DEF BlockStep, Talks!Blocked
<1>8. Talks!Spec => Talks!BlockSilences
  BY <1>4, <1>5, <1>7, PTL DEF Talks!Spec, Talks!BlockSilences
<1>9. QED
  BY <1>6, <1>8, PTL DEF BlocksSilence

----------------------------------------------------------------------------
(* Sign-in sessions (internal/identity).  The newest token is the only one *)
(* that can be spent, and none is there that was not issued yet.  A        *)
(* session that does not exist has no tokens, and only sessions that exist *)
(* are in a transaction or admitted.                                       *)

Statuses == {"ABSENT", "ACTIVE", "CONSUMED", "REVOKED"}
LoginRow == [known : BOOLEAN, revoked : BOOLEAN, rotation : Logins!Rotations,
             ended : {"NONE", "REUSE", "EXPIRED", "DISABLED", "REVOKED"}]
LoginTx == [at : {"TOKEN", "SESSION"}, session : LoginSessions, token : Logins!Rotations \cup {MaxTokenRotation + 1},
            op : {"REFRESH", "LOGOUT", "REVOKE"}]
LoginTypes ==
  /\ loginSession \in [LoginSessions -> LoginRow]
  /\ loginToken \in [LoginSessions -> [Logins!Rotations -> Statuses]]
  /\ loginTx \in [LoginRequests -> LoginTx \cup {Logins!Idle}]
  /\ loginProfile \in [Identities -> Nat] /\ loginAdmitted \subseteq LoginSessions

\* A session's row and its family of tokens.
Family(r, f) ==
  /\ ~r.known => ~r.revoked /\ r.rotation = 0 /\ \A k \in Logins!Rotations : f[k] = "ABSENT"
  /\ \A k \in Logins!Rotations : k > r.rotation => f[k] = "ABSENT"
  /\ \A k \in Logins!Rotations : f[k] = "ACTIVE" <=> r.known /\ ~r.revoked /\ k = r.rotation
TxOK(k) ==
  k # Logins!Idle => loginSession[k.session].known /\ (k.op = "REFRESH" => k.token \in Logins!Rotations)

LoginInv ==
  /\ LoginTypes
  /\ \A s \in LoginSessions : Family(loginSession[s], loginToken[s])
  /\ \A s \in LoginSessions : loginSession[s].known => loginProfile[IdentityOf[s]] > 0
  /\ \A s \in loginAdmitted : loginSession[s].known
  /\ \A t \in LoginRequests : TxOK(loginTx[t])

LEMMA LoginImplies == LoginInv => Logins!NewestTokenOnly
<1> SUFFICES ASSUME LoginInv, NEW s \in LoginSessions
             PROVE  {k \in Logins!Rotations : loginToken[s][k] = "ACTIVE"}
                      = IF loginSession[s].known /\ ~loginSession[s].revoked THEN {loginSession[s].rotation} ELSE {}
  BY DEF Logins!NewestTokenOnly
<1>1. Family(loginSession[s], loginToken[s]) /\ loginSession[s].rotation \in Logins!Rotations
  BY DEF LoginInv, LoginTypes, LoginRow
<1> QED BY <1>1 DEF Family

LEMMA LoginInit == Logins!Init => LoginInv /\ Logins!Memory!Init
<1> SUFFICES ASSUME Logins!Init PROVE LoginInv /\ Logins!Memory!Init
  OBVIOUS
<1>1. Logins!NoSession \in LoginRow /\ ~Logins!NoSession.known /\ ~Logins!NoSession.revoked /\ Logins!NoSession.rotation = 0
  <2>1. 0 \in Logins!Rotations
    BY LoginAssumption DEF Logins!Rotations
  <2> QED BY <2>1 DEF Logins!NoSession, LoginRow
<1>2. LoginTypes
  BY <1>1 DEF Logins!Init, LoginTypes, Logins!Absent, Statuses
<1>3. \A s \in LoginSessions : Family(loginSession[s], loginToken[s])
  BY <1>1 DEF Logins!Init, Family, Logins!Absent
<1>4. LoginInv
  BY <1>1, <1>2, <1>3 DEF LoginInv, Logins!Init, TxOK
<1>5. Logins!OfStatus("ACTIVE") = [s \in LoginSessions |-> {}] /\ Logins!OfStatus("CONSUMED") = [s \in LoginSessions |-> {}]
  BY DEF Logins!Init, Logins!OfStatus, Logins!Absent
<1>6. Logins!Memory!Init
  BY <1>5 DEF Logins!Init, Logins!Memory!Init, Logins!NoSession, Logins!Memory!NoSession
<1> QED BY <1>4, <1>6

\* The tokens of one status when the family of one session changes, or none.
Active == Logins!OfStatus("ACTIVE")
Consumed == Logins!OfStatus("CONSUMED")

LEMMA StatusChange ==
  ASSUME LoginInv, NEW s \in LoginSessions, NEW f \in [Logins!Rotations -> Statuses],
         loginToken' = [loginToken EXCEPT ![s] = f]
  PROVE  /\ Active' = [Active EXCEPT ![s] = {k \in Logins!Rotations : f[k] = "ACTIVE"}]
         /\ Consumed' = [Consumed EXCEPT ![s] = {k \in Logins!Rotations : f[k] = "CONSUMED"}]
<1>1. \A u \in LoginSessions : loginToken'[u] = IF u = s THEN f ELSE loginToken[u]
  BY DEF LoginInv, LoginTypes
<1> QED BY <1>1 DEF Active, Consumed, Logins!OfStatus

LEMMA StatusKept ==
  ASSUME loginToken' = loginToken
  PROVE  Active' = Active /\ Consumed' = Consumed
BY DEF Active, Consumed, Logins!OfStatus

\* A step that leaves the sessions and their tokens alone.
LEMMA RowsKept ==
  ASSUME LoginInv, UNCHANGED <<loginSession, loginToken>>,
         loginTx' \in [LoginRequests -> LoginTx \cup {Logins!Idle}], \A t \in LoginRequests : TxOK(loginTx'[t]),
         loginProfile' \in [Identities -> Nat], \A i \in Identities : loginProfile[i] > 0 => loginProfile'[i] > 0,
         \A s \in loginAdmitted' : s \in LoginSessions /\ loginSession[s].known
  PROVE  LoginInv'
<1>1. LoginTypes'
  BY DEF LoginInv, LoginTypes
<1>2. \A s \in LoginSessions : loginSession[s].known => loginProfile'[IdentityOf[s]] > 0
  BY LoginAssumption DEF LoginInv
<1>3. \A t \in LoginRequests : TxOK(loginTx[t])'
  BY DEF TxOK
<1> QED BY <1>1, <1>2, <1>3 DEF LoginInv

LEMMA TxKept ==
  ASSUME LoginInv, NEW t \in LoginRequests, NEW k \in LoginTx \cup {Logins!Idle}, TxOK(k),
         loginTx' = [loginTx EXCEPT ![t] = k]
  PROVE  /\ loginTx' \in [LoginRequests -> LoginTx \cup {Logins!Idle}]
         /\ \A u \in LoginRequests : TxOK(loginTx'[u])
<1>1. \A u \in LoginRequests : loginTx'[u] = IF u = t THEN k ELSE loginTx[u]
  BY DEF LoginInv, LoginTypes
<1> QED BY <1>1 DEF LoginInv, LoginTypes

\* A transaction that commits a new row and family of its session.
LEMMA RowChange ==
  ASSUME LoginInv, NEW s \in LoginSessions, loginSession[s].known, NEW t \in LoginRequests,
         NEW r \in LoginRow, NEW f \in [Logins!Rotations -> Statuses], r.known, Family(r, f),
         loginSession' = [loginSession EXCEPT ![s] = r], loginToken' = [loginToken EXCEPT ![s] = f],
         loginTx' = [loginTx EXCEPT ![t] = Logins!Idle], UNCHANGED <<loginProfile, loginAdmitted>>
  PROVE  LoginInv'
<1>1. \A u \in LoginSessions : loginSession'[u] = IF u = s THEN r ELSE loginSession[u]
  BY DEF LoginInv, LoginTypes
<1>2. \A u \in LoginSessions : loginToken'[u] = IF u = s THEN f ELSE loginToken[u]
  BY DEF LoginInv, LoginTypes
<1>3. \A u \in LoginRequests : loginTx'[u] = IF u = t THEN Logins!Idle ELSE loginTx[u]
  BY DEF LoginInv, LoginTypes
<1>4. LoginTypes'
  BY DEF LoginInv, LoginTypes
<1>5. \A u \in LoginSessions : Family(loginSession'[u], loginToken'[u])
  BY <1>1, <1>2 DEF LoginInv
<1>6. \A u \in LoginSessions : loginSession'[u].known <=> loginSession[u].known
  BY <1>1
<1>7. \A u \in LoginRequests : TxOK(loginTx[u])'
  BY <1>3, <1>6 DEF LoginInv, LoginTypes, LoginTx, TxOK
<1> QED BY <1>4, <1>5, <1>6, <1>7 DEF LoginInv, LoginTypes

\* Revoking a session and its tokens (revokeSessionTx) is revokeLocked in memory.
LEMMA RevokesAsMemory ==
  ASSUME LoginInv, NEW t \in LoginRequests, NEW why \in {"REUSE", "EXPIRED", "REVOKED"},
         loginTx[t].at = "SESSION", Logins!revokeSessionTx(t, why), loginTx' = [loginTx EXCEPT ![t] = Logins!Idle],
         UNCHANGED <<loginProfile, loginAdmitted>>
  PROVE  /\ loginTx[t].session \in LoginSessions /\ loginSession[loginTx[t].session].known
         /\ loginTx[t].op = "REFRESH" => loginTx[t].token \in Logins!Rotations
         /\ Logins!Memory!revokeLocked(loginTx[t].session, why) /\ Consumed' = Consumed
         /\ LoginInv'
<1> DEFINE s == loginTx[t].session
           r == Logins!Revoked(loginSession[s], why)
           f == Logins!RevokedTokens(loginToken[s])
<1>1. /\ s \in LoginSessions /\ loginSession[s].known
      /\ loginTx[t].op = "REFRESH" => loginTx[t].token \in Logins!Rotations
      /\ loginSession[s] \in LoginRow /\ loginToken[s] \in [Logins!Rotations -> Statuses] /\ Family(loginSession[s], loginToken[s])
  <2>1. loginTx[t] # Logins!Idle /\ loginTx[t] \in LoginTx \cup {Logins!Idle} /\ TxOK(loginTx[t])
    BY DEF LoginInv, LoginTypes, Logins!Idle
  <2>2. s \in LoginSessions
    BY <2>1 DEF LoginTx
  <2> QED BY <2>1, <2>2 DEF LoginInv, LoginTypes, TxOK
<1>2. loginSession' = [loginSession EXCEPT ![s] = r] /\ loginToken' = [loginToken EXCEPT ![s] = f]
  BY DEF Logins!revokeSessionTx
<1>3. r \in LoginRow /\ r.known /\ r.revoked /\ r.rotation = loginSession[s].rotation
  BY <1>1 DEF Logins!Revoked, LoginRow
<1>4. /\ f \in [Logins!Rotations -> Statuses]
      /\ \A k \in Logins!Rotations : f[k] = IF loginToken[s][k] = "ACTIVE" THEN "REVOKED" ELSE loginToken[s][k]
  BY <1>1 DEF Logins!RevokedTokens, Statuses
<1> HIDE DEF r, f
<1>5. Family(r, f)
  BY <1>1, <1>3, <1>4 DEF Family
<1>6. LoginInv'
  BY <1>1, <1>2, <1>3, <1>4, <1>5, RowChange
<1>7. Active' = [Active EXCEPT ![s] = {}] /\ Consumed' = Consumed
  <2>1. /\ Active' = [Active EXCEPT ![s] = {k \in Logins!Rotations : f[k] = "ACTIVE"}]
        /\ Consumed' = [Consumed EXCEPT ![s] = {k \in Logins!Rotations : f[k] = "CONSUMED"}]
    BY <1>1, <1>2, <1>4, StatusChange
  <2>2. {k \in Logins!Rotations : f[k] = "ACTIVE"} = {}
    BY <1>4
  <2>3. {k \in Logins!Rotations : f[k] = "CONSUMED"} = Consumed[s]
    BY <1>1, <1>4 DEF Consumed, Logins!OfStatus
  <2>4. Consumed = [Consumed EXCEPT ![s] = Consumed[s]]
    BY <1>1 DEF Consumed, Logins!OfStatus
  <2> QED BY <2>1, <2>2, <2>3, <2>4
<1>8. Logins!Memory!revokeLocked(s, why)
  BY <1>2, <1>7 DEF r, Logins!Memory!revokeLocked, Logins!Memory!Revoked, Logins!Revoked, Active
<1> QED BY <1>1, <1>6, <1>7, <1>8

LEMMA RevocationsRefine ==
  ASSUME LoginInv, NEW t \in LoginRequests, Logins!Reuse(t) \/ Logins!RefreshExpired(t) \/ Logins!Revoke(t)
  PROVE  LoginInv' /\ Logins!Memory!Next
<1> DEFINE s == loginTx[t].session
           k == loginTx[t].token
<1>1. CASE Logins!Reuse(t)
  <2>1. /\ loginTx[t].at = "SESSION" /\ Logins!revokeSessionTx(t, "REUSE") /\ loginTx' = [loginTx EXCEPT ![t] = Logins!Idle]
        /\ loginTx[t].op = "REFRESH" /\ loginToken[s][k] = "CONSUMED"
        /\ UNCHANGED <<loginLapsed, loginDisabled, loginProfile, loginConsents, loginDeletions, loginAdmitted>>
    BY <1>1 DEF Logins!Reuse, Logins!account
  <2>2. s \in LoginSessions /\ k \in Logins!Rotations /\ Logins!Memory!revokeLocked(s, "REUSE") /\ Consumed' = Consumed /\ LoginInv'
    BY <2>1, RevokesAsMemory
  <2>3. k \in Consumed[s]
    BY <2>1, <2>2 DEF Consumed, Logins!OfStatus
  <2>4. Logins!Memory!RotateSession(s, k)
    BY <2>1, <2>2, <2>3 DEF Logins!Memory!RotateSession, Logins!Memory!account, Consumed
  <2> QED BY <2>2, <2>4 DEF Logins!Memory!Next, Logins!Rotations
<1>2. CASE Logins!RefreshExpired(t)
  <2>1. /\ loginTx[t].at = "SESSION" /\ Logins!revokeSessionTx(t, "EXPIRED") /\ loginTx' = [loginTx EXCEPT ![t] = Logins!Idle]
        /\ loginTx[t].op = "REFRESH" /\ loginToken[s][k] = "ACTIVE" /\ ~loginSession[s].revoked /\ s \in loginLapsed
        /\ UNCHANGED <<loginLapsed, loginDisabled, loginProfile, loginConsents, loginDeletions, loginAdmitted>>
    BY <1>2 DEF Logins!RefreshExpired, Logins!account
  <2>2. s \in LoginSessions /\ k \in Logins!Rotations /\ Logins!Memory!revokeLocked(s, "EXPIRED") /\ Consumed' = Consumed /\ LoginInv'
    BY <2>1, RevokesAsMemory
  <2>3. k \in Active[s]
    BY <2>1, <2>2 DEF Active, Logins!OfStatus
  <2>4. Logins!Memory!RotateSession(s, k)
    BY <2>1, <2>2, <2>3 DEF Logins!Memory!RotateSession, Logins!Memory!account, Active, Consumed
  <2> QED BY <2>2, <2>4 DEF Logins!Memory!Next, Logins!Rotations
<1>3. CASE Logins!Revoke(t)
  <2>1. /\ loginTx[t].at = "SESSION" /\ Logins!revokeSessionTx(t, "REVOKED") /\ loginTx' = [loginTx EXCEPT ![t] = Logins!Idle]
        /\ UNCHANGED <<loginLapsed, loginDisabled, loginProfile, loginConsents, loginDeletions, loginAdmitted>>
    BY <1>3 DEF Logins!Revoke, Logins!account
  <2>2. s \in LoginSessions /\ loginSession[s].known /\ Logins!Memory!revokeLocked(s, "REVOKED") /\ Consumed' = Consumed /\ LoginInv'
    BY <2>1, RevokesAsMemory
  <2>3. Logins!Memory!RevokeSession(s)
    BY <2>1, <2>2 DEF Logins!Memory!RevokeSession, Logins!Memory!account, Consumed
  <2> QED BY <2>2, <2>3 DEF Logins!Memory!Next
<1> QED BY <1>1, <1>2, <1>3

\* A refresh: the token presented is the newest, so the next one was never issued.
LEMMA RotationRefines ==
  ASSUME LoginInv, NEW t \in LoginRequests, Logins!RotateSession(t)
  PROVE  LoginInv' /\ Logins!Memory!Next
<1> DEFINE s == loginTx[t].session
           k == loginTx[t].token
           n == loginSession[s].rotation + 1
           gone == IdentityOf[s] \in loginDisabled
           next == [loginSession[s] EXCEPT !.rotation = n]
           r == IF gone THEN Logins!Revoked(next, "DISABLED") ELSE next
           f == [loginToken[s] EXCEPT ![k] = "CONSUMED", ![n] = IF gone THEN "REVOKED" ELSE "ACTIVE"]
<1>1. /\ loginTx[t].at = "SESSION" /\ loginTx[t].op = "REFRESH" /\ loginToken[s][k] = "ACTIVE"
      /\ ~loginSession[s].revoked /\ s \notin loginLapsed /\ n <= MaxTokenRotation
      /\ loginSession' = [loginSession EXCEPT ![s] = r] /\ loginToken' = [loginToken EXCEPT ![s] = f]
      /\ loginTx' = [loginTx EXCEPT ![t] = Logins!Idle]
      /\ UNCHANGED <<loginLapsed, loginDisabled, loginProfile, loginConsents, loginDeletions, loginAdmitted>>
  BY DEF Logins!RotateSession, Logins!account
<1>2. /\ s \in LoginSessions /\ loginSession[s].known /\ k \in Logins!Rotations
      /\ loginSession[s] \in LoginRow /\ loginToken[s] \in [Logins!Rotations -> Statuses] /\ Family(loginSession[s], loginToken[s])
  <2>1. loginTx[t] # Logins!Idle /\ loginTx[t] \in LoginTx \cup {Logins!Idle} /\ TxOK(loginTx[t])
    BY <1>1 DEF LoginInv, LoginTypes, Logins!Idle
  <2>2. s \in LoginSessions
    BY <2>1 DEF LoginTx
  <2> QED BY <1>1, <2>1, <2>2 DEF LoginInv, LoginTypes, TxOK
<1>3. k = loginSession[s].rotation /\ k \in Nat /\ n = k + 1 /\ n \in Logins!Rotations /\ n # k
  <2>1. k = loginSession[s].rotation
    BY <1>1, <1>2 DEF Family
  <2> QED BY <1>1, <1>2, <2>1, LoginAssumption DEF Logins!Rotations
<1>4. /\ next \in LoginRow /\ next.known /\ ~next.revoked /\ next.rotation = n
      /\ r \in LoginRow /\ r.known /\ r.rotation = n /\ (r.revoked <=> gone)
  <2>1. next \in LoginRow /\ next.known /\ ~next.revoked /\ next.rotation = n
    BY <1>1, <1>2, <1>3 DEF LoginRow
  <2> HIDE DEF next
  <2> QED BY <2>1 DEF Logins!Revoked, LoginRow
<1>5. /\ f \in [Logins!Rotations -> Statuses] /\ f[k] = "CONSUMED" /\ f[n] = IF gone THEN "REVOKED" ELSE "ACTIVE"
      /\ \A m \in Logins!Rotations : m # k /\ m # n => f[m] = loginToken[s][m]
  BY <1>2, <1>3 DEF Statuses
<1> HIDE DEF r, f, gone
<1>6. /\ \A m \in Logins!Rotations : f[m] = "ACTIVE" <=> m = n /\ ~gone
      /\ \A m \in Logins!Rotations : f[m] = "CONSUMED" <=> m = k \/ loginToken[s][m] = "CONSUMED"
  <2>1. \A m \in Logins!Rotations : m # k => loginToken[s][m] # "ACTIVE"
    BY <1>1, <1>2, <1>3 DEF Family
  <2>2. loginToken[s][n] = "ABSENT"
    BY <1>2, <1>3 DEF Family
  <2> QED BY <1>3, <1>5, <2>1, <2>2
<1>7. Family(r, f)
  <2>1. \A m \in Logins!Rotations : m > n => f[m] = "ABSENT"
    <3>1. \A m \in Logins!Rotations : m \in Nat
      BY DEF Logins!Rotations
    <3>2. \A m \in Logins!Rotations : m > n => m > loginSession[s].rotation /\ m # k /\ m # n
      BY <1>3, <3>1
    <3> QED BY <1>2, <1>5, <3>2 DEF Family
  <2> QED BY <1>4, <1>6, <2>1 DEF Family
<1>8. LoginInv'
  BY <1>1, <1>2, <1>4, <1>5, <1>7, RowChange
<1>9. /\ Active' = [Active EXCEPT ![s] = IF gone THEN {} ELSE (@ \ {k}) \cup {n}]
      /\ Consumed' = [Consumed EXCEPT ![s] = @ \cup {k}]
  <2>1. /\ Active' = [Active EXCEPT ![s] = {m \in Logins!Rotations : f[m] = "ACTIVE"}]
        /\ Consumed' = [Consumed EXCEPT ![s] = {m \in Logins!Rotations : f[m] = "CONSUMED"}]
    BY <1>1, <1>2, <1>5, StatusChange
  <2>2. Active[s] = {k}
    BY <1>1, <1>2, <1>3 DEF Active, Logins!OfStatus, Family
  <2>3. {m \in Logins!Rotations : f[m] = "ACTIVE"} = IF gone THEN {} ELSE (Active[s] \ {k}) \cup {n}
    BY <1>3, <1>6, <2>2
  <2>4. {m \in Logins!Rotations : f[m] = "CONSUMED"} = Consumed[s] \cup {k}
    BY <1>2, <1>6 DEF Consumed, Logins!OfStatus
  <2> QED BY <2>1, <2>3, <2>4
<1>10. Logins!Memory!Rotated(s, k)
  BY <1>1, <1>9 DEF r, gone, Logins!Memory!Rotated, Logins!Memory!Revoked, Logins!Revoked, Active, Consumed
<1>11. k \in Active[s]
  BY <1>1, <1>2 DEF Active, Logins!OfStatus
<1>12. Logins!Memory!RotateSession(s, k)
  BY <1>1, <1>10, <1>11 DEF Logins!Memory!RotateSession, Logins!Memory!account, Active
<1> QED BY <1>2, <1>8, <1>12 DEF Logins!Memory!Next, Logins!Rotations

LEMMA StartRefines ==
  ASSUME LoginInv, NEW s \in LoginSessions, Logins!StartSession(s)
  PROVE  LoginInv' /\ Logins!Memory!Next
<1> DEFINE r == [loginSession[s] EXCEPT !.known = TRUE]
           f == [loginToken[s] EXCEPT ![0] = "ACTIVE"]
           i == IdentityOf[s]
<1>1. /\ ~loginSession[s].known /\ i \notin loginDisabled
      /\ loginSession' = [loginSession EXCEPT ![s] = r] /\ loginToken' = [loginToken EXCEPT ![s] = f]
      /\ loginProfile' = [loginProfile EXCEPT ![i] = IF @ = 0 THEN 1 ELSE @]
      /\ UNCHANGED <<loginLapsed, loginDisabled, loginConsents, loginDeletions, loginAdmitted, loginTx>>
  BY DEF Logins!StartSession
<1>2. /\ loginSession[s] \in LoginRow /\ loginToken[s] \in [Logins!Rotations -> Statuses] /\ Family(loginSession[s], loginToken[s])
      /\ loginProfile \in [Identities -> Nat] /\ i \in Identities /\ 0 \in Logins!Rotations
  BY LoginAssumption DEF LoginInv, LoginTypes, Logins!Rotations
<1>3. r \in LoginRow /\ r.known /\ ~r.revoked /\ r.rotation = 0
  BY <1>1, <1>2 DEF LoginRow, Family
<1>4. /\ f \in [Logins!Rotations -> Statuses] /\ f[0] = "ACTIVE"
      /\ \A m \in Logins!Rotations : m # 0 => f[m] = "ABSENT"
  BY <1>1, <1>2 DEF Family, Statuses
<1> HIDE DEF r, f
<1>5. Family(r, f)
  <2>1. \A m \in Logins!Rotations : m > 0 => m # 0
    BY DEF Logins!Rotations
  <2> QED BY <1>3, <1>4, <2>1 DEF Family
<1>6. \A u \in LoginSessions : loginSession'[u] = IF u = s THEN r ELSE loginSession[u]
  BY <1>1 DEF LoginInv, LoginTypes
<1>7. \A u \in LoginSessions : loginToken'[u] = IF u = s THEN f ELSE loginToken[u]
  BY <1>1 DEF LoginInv, LoginTypes
<1>8. /\ loginProfile' \in [Identities -> Nat] /\ loginProfile'[i] > 0
      /\ \A j \in Identities : loginProfile[j] > 0 => loginProfile'[j] > 0
  BY <1>1, <1>2
<1>9. LoginTypes'
  BY <1>1, <1>3, <1>4, <1>8 DEF LoginInv, LoginTypes
<1>10. \A u \in LoginSessions : Family(loginSession'[u], loginToken'[u])
  BY <1>5, <1>6, <1>7 DEF LoginInv
<1>11. \A u \in LoginSessions : loginSession'[u].known => loginProfile'[IdentityOf[u]] > 0
  BY <1>6, <1>8, LoginAssumption DEF LoginInv
<1>12. \A u \in LoginSessions : loginSession[u].known => loginSession'[u].known
  BY <1>3, <1>6
<1>13. \A t \in LoginRequests : TxOK(loginTx[t])'
  BY <1>1, <1>12 DEF LoginInv, LoginTypes, LoginTx, TxOK
<1>14. LoginInv'
  BY <1>1, <1>9, <1>10, <1>11, <1>12, <1>13 DEF LoginInv, LoginTypes
<1>15. Active' = [Active EXCEPT ![s] = {0}] /\ Consumed' = Consumed
  <2>1. /\ Active' = [Active EXCEPT ![s] = {m \in Logins!Rotations : f[m] = "ACTIVE"}]
        /\ Consumed' = [Consumed EXCEPT ![s] = {m \in Logins!Rotations : f[m] = "CONSUMED"}]
    BY <1>1, <1>4, StatusChange
  <2>2. {m \in Logins!Rotations : f[m] = "ACTIVE"} = {0} /\ {m \in Logins!Rotations : f[m] = "CONSUMED"} = {}
    BY <1>2, <1>4
  <2>3. Consumed[s] = {} /\ Consumed = [Consumed EXCEPT ![s] = Consumed[s]]
    BY <1>1, <1>2 DEF Consumed, Logins!OfStatus, Family
  <2> QED BY <2>1, <2>2, <2>3
<1>16. Logins!Memory!StartSession(s)
  BY <1>1, <1>15 DEF r, Logins!Memory!StartSession, Active, Consumed
<1> QED BY <1>14, <1>16 DEF Logins!Memory!Next

\* Locks, waits and rollbacks change nothing that the repository in memory has.
Unseen == UNCHANGED Logins!Memory!vars

LEMMA LocksStutter ==
  ASSUME LoginInv, NEW t \in LoginRequests,
         \/ \E s \in LoginSessions : \/ Logins!RevokeStarts(t, s)
                                     \/ \E k \in Logins!Rotations, op \in {"REFRESH", "LOGOUT"} : Logins!Present(t, s, k, op)
         \/ Logins!loadSessionForUpdate(t) \/ Logins!RefreshInvalid(t) \/ Logins!Rollback(t)
  PROVE  LoginInv' /\ Unseen
<1>1. /\ UNCHANGED <<loginSession, loginToken, loginLapsed, loginDisabled, loginProfile, loginConsents, loginDeletions>>
      /\ loginAdmitted' \subseteq loginAdmitted
  BY DEF Logins!RevokeStarts, Logins!Present, Logins!loadSessionForUpdate, Logins!RefreshInvalid, Logins!Rollback, Logins!account
<1>2. Unseen
  BY <1>1, StatusKept DEF Unseen, Logins!Memory!vars, Active, Consumed
<1>3. \E k \in LoginTx \cup {Logins!Idle} : TxOK(k) /\ loginTx' = [loginTx EXCEPT ![t] = k]
  <2>1. ASSUME NEW s \in LoginSessions, Logins!RevokeStarts(t, s)
        PROVE  \E k \in LoginTx \cup {Logins!Idle} : TxOK(k) /\ loginTx' = [loginTx EXCEPT ![t] = k]
    <3> DEFINE k == [at |-> "SESSION", session |-> s, token |-> MaxTokenRotation + 1, op |-> "REVOKE"]
    <3>1. k \in LoginTx /\ TxOK(k)
      BY <2>1 DEF LoginTx, TxOK, Logins!RevokeStarts
    <3> QED BY <2>1, <3>1 DEF Logins!RevokeStarts
  <2>2. ASSUME NEW s \in LoginSessions, NEW m \in Logins!Rotations, NEW op \in {"REFRESH", "LOGOUT"}, Logins!Present(t, s, m, op)
        PROVE  \E k \in LoginTx \cup {Logins!Idle} : TxOK(k) /\ loginTx' = [loginTx EXCEPT ![t] = k]
    <3> DEFINE k == [at |-> "TOKEN", session |-> s, token |-> m, op |-> op]
    <3>1. loginSession[s].known
      BY <2>2 DEF Logins!Present, Logins!Absent, LoginInv, LoginTypes, LoginRow, Family
    <3>2. k \in LoginTx /\ TxOK(k)
      BY <3>1 DEF LoginTx, TxOK
    <3> QED BY <2>2, <3>2 DEF Logins!Present
  <2>3. ASSUME Logins!loadSessionForUpdate(t)
        PROVE  \E k \in LoginTx \cup {Logins!Idle} : TxOK(k) /\ loginTx' = [loginTx EXCEPT ![t] = k]
    <3> DEFINE k == [loginTx[t] EXCEPT !.at = "SESSION"]
    <3>1. loginTx[t] \in LoginTx /\ TxOK(loginTx[t]) /\ loginTx[t] # Logins!Idle
      BY <2>3 DEF LoginInv, LoginTypes, Logins!loadSessionForUpdate, Logins!Idle
    <3>2. k \in LoginTx /\ k.session = loginTx[t].session /\ k.op = loginTx[t].op /\ k.token = loginTx[t].token
      BY <3>1 DEF LoginTx
    <3>3. TxOK(k)
      BY <3>1, <3>2 DEF TxOK
    <3> QED BY <2>3, <3>2, <3>3 DEF Logins!loadSessionForUpdate
  <2>4. ASSUME Logins!RefreshInvalid(t) \/ Logins!Rollback(t)
        PROVE  \E k \in LoginTx \cup {Logins!Idle} : TxOK(k) /\ loginTx' = [loginTx EXCEPT ![t] = k]
    BY <2>4 DEF Logins!RefreshInvalid, Logins!Rollback, TxOK
  <2> QED BY <2>1, <2>2, <2>3, <2>4
<1>4. /\ loginTx' \in [LoginRequests -> LoginTx \cup {Logins!Idle}]
      /\ \A u \in LoginRequests : TxOK(loginTx'[u])
  BY <1>3, TxKept
<1>5. LoginInv'
  BY <1>1, <1>4, RowsKept DEF LoginInv, LoginTypes
<1> QED BY <1>2, <1>5

LEMMA OwnersRefine ==
  ASSUME LoginInv, NEW s \in LoginSessions,
         \/ Logins!Issued(s) \/ Logins!Lapse(s) \/ Logins!Principal(s) \/ Logins!RequestDeletion(s)
         \/ \E v \in 1..MaxProfileVersion : Logins!UpdateProfile(s, v)
         \/ \E p \in Purposes, g \in BOOLEAN : Logins!RecordConsent(s, p, g)
  PROVE  LoginInv' /\ (Logins!Memory!Next \/ Unseen)
<1> DEFINE i == IdentityOf[s]
<1>1. UNCHANGED <<loginSession, loginToken, loginTx>>
  BY DEF Logins!Issued, Logins!Lapse, Logins!Principal, Logins!RequestDeletion, Logins!UpdateProfile, Logins!RecordConsent
<1>2. \A u \in loginAdmitted' : u \in LoginSessions /\ loginSession[u].known
  BY DEF LoginInv, LoginTypes, Logins!Issued, Logins!Lapse, Logins!Principal, Logins!RequestDeletion, Logins!UpdateProfile, Logins!RecordConsent
<1>3. loginProfile \in [Identities -> Nat] /\ i \in Identities /\ (s \in loginAdmitted => loginProfile[i] > 0)
  BY LoginAssumption DEF LoginInv, LoginTypes
<1>4. loginProfile' \in [Identities -> Nat] /\ \A j \in Identities : loginProfile[j] > 0 => loginProfile'[j] > 0
  <2>1. CASE loginProfile' = loginProfile
    BY <1>3, <2>1
  <2>2. ASSUME NEW v \in 1..MaxProfileVersion, Logins!UpdateProfile(s, v)
        PROVE  loginProfile' \in [Identities -> Nat] /\ \A j \in Identities : loginProfile[j] > 0 => loginProfile'[j] > 0
    BY <1>3, <2>2, LoginAssumption DEF Logins!UpdateProfile
  <2> QED BY <2>1, <2>2 DEF Logins!Issued, Logins!Lapse, Logins!Principal, Logins!RequestDeletion, Logins!RecordConsent, Logins!account
<1>5. LoginInv'
  BY <1>1, <1>2, <1>4, RowsKept DEF LoginInv, LoginTypes
<1>6. Active' = Active /\ Consumed' = Consumed
  BY <1>1, StatusKept
<1>7. CASE Logins!Issued(s) \/ Logins!Principal(s)
  BY <1>5, <1>6, <1>7 DEF Logins!Issued, Logins!Principal, Logins!account, Unseen, Logins!Memory!vars, Active, Consumed
<1>8. CASE Logins!Lapse(s)
  <2>1. Logins!Memory!Lapse(s)
    BY <1>6, <1>8 DEF Logins!Lapse, Logins!account, Logins!Memory!Lapse, Logins!Memory!tokens, Logins!Memory!account, Active, Consumed
  <2> QED BY <1>5, <2>1 DEF Logins!Memory!Next
<1>9. CASE Logins!RequestDeletion(s)
  <2>1. Logins!Memory!CreateDeletionRequest(i)
    BY <1>3, <1>6, <1>9 DEF Logins!RequestDeletion, Logins!Memory!CreateDeletionRequest, Logins!Memory!tokens, Active, Consumed
  <2> QED BY <1>3, <1>5, <2>1 DEF Logins!Memory!Next
<1>10. ASSUME NEW v \in 1..MaxProfileVersion, Logins!UpdateProfile(s, v) PROVE Logins!Memory!Next
  <2>1. Logins!Memory!UpdateProfile(i, v)
    BY <1>3, <1>6, <1>10 DEF Logins!UpdateProfile, Logins!Memory!UpdateProfile, Logins!Memory!tokens, Active, Consumed
  <2> QED BY <1>3, <2>1 DEF Logins!Memory!Next
<1>11. ASSUME NEW p \in Purposes, NEW g \in BOOLEAN, Logins!RecordConsent(s, p, g) PROVE Logins!Memory!Next
  <2>1. Logins!Memory!RecordConsent(i, p, g)
    BY <1>3, <1>6, <1>11 DEF Logins!RecordConsent, Logins!Memory!RecordConsent, Logins!Memory!tokens, Active, Consumed
  <2> QED BY <1>3, <2>1 DEF Logins!Memory!Next
<1> QED BY <1>5, <1>7, <1>8, <1>9, <1>10, <1>11

LEMMA LoginNext ==
  LoginInv /\ [Logins!Next]_(Logins!vars) => LoginInv' /\ (Logins!Memory!Next \/ Unseen)
<1> SUFFICES ASSUME LoginInv, [Logins!Next]_(Logins!vars)
             PROVE  LoginInv' /\ (Logins!Memory!Next \/ Unseen)
  OBVIOUS
<1>1. ASSUME UNCHANGED <<loginSession, loginToken, loginTx, loginProfile, loginAdmitted>> PROVE LoginInv'
  BY <1>1, RowsKept DEF LoginInv, LoginTypes
<1>2. CASE UNCHANGED Logins!vars
  <2>1. Unseen
    BY <1>2, StatusKept DEF Logins!vars, Unseen, Logins!Memory!vars, Active, Consumed
  <2> QED BY <1>1, <1>2, <2>1 DEF Logins!vars
<1>3. ASSUME NEW i \in Identities, Logins!Disable(i) PROVE LoginInv' /\ Logins!Memory!Next
  <2>1. LoginInv' /\ Active' = Active /\ Consumed' = Consumed
    BY <1>1, <1>3, StatusKept DEF Logins!Disable
  <2>2. Logins!Memory!Disable(i)
    BY <1>3, <2>1 DEF Logins!Disable, Logins!Memory!Disable, Logins!Memory!tokens, Active, Consumed
  <2> QED BY <2>1, <2>2 DEF Logins!Memory!Next
<1> QED BY <1>2, <1>3, RevocationsRefine, RotationRefines, StartRefines, LocksStutter, OwnersRefine DEF Logins!Next

\* internal/identity: in the family of a live session exactly the newest token can be
\* spent, and the Postgres repository, whatever order its transactions take their
\* locks in, does what the one in memory does under its mutex.
THEOREM LoginsKept == Logins!Spec => LoginsAreSound /\ Logins!ImplementsMemory
<1> DEFINE A == scenario = "login" => Logins!Memory!Next \/ UNCHANGED Logins!Memory!vars
<1>1. LoginInv /\ [Logins!Next]_(Logins!vars) => [A]_mcVars /\ [Logins!Memory!Next]_(Logins!Memory!vars)
  BY LoginNext DEF Unseen
<1> HIDE DEF A
<1>2. LoginInv /\ [Logins!Next]_(Logins!vars) => LoginInv'
  BY LoginNext
<1>3. Logins!Spec => []Logins!NewestTokenOnly /\ Logins!Memory!Init /\ [][A]_mcVars
  BY <1>1, <1>2, LoginInit, LoginImplies, PTL DEF Logins!Spec
<1>4. Logins!Spec => Logins!Memory!Spec
  BY <1>1, <1>2, LoginInit, PTL DEF Logins!Spec, Logins!Memory!Spec
<1> QED BY <1>3, <1>4 DEF A, LoginsAreSound, Logins!ImplementsMemory

----------------------------------------------------------------------------
(* Administrators' changes (internal/adminops).  A call is what it was     *)
(* allowed to be when it began: a submission is its requester's, an        *)
(* approval somebody else's; and it writes a change as executed only after *)
(* the command was.  The snapshots only grow, so a page once shown after   *)
(* the snapshot that its change expected stays shown there.                *)

ChangeRow == [status : {"ABSENT", "PENDING_APPROVAL", "EXECUTED", "REJECTED"}, revision : Nat,
              approvedBy : Admins \cup {"NOBODY"}]
AdminCall == [by : Admins, change : AdminChanges, seen : ChangeRow,
              step : {"SUBMITTING", "SUBMITTED", "APPROVING", "APPROVED"}]

Snapshot == [pages : [Changes!Targets -> {CommandOf[c].draft : c \in Changes!PageChanges} \cup {"NONE"}],
             by : Admins \cup {"NOBODY"}, change : AdminChanges \cup {"NONE"}]

AdminTypes ==
  /\ adminChange \in [AdminChanges -> ChangeRow]
  /\ adminEvents = [c \in AdminChanges |-> adminEvents[c]]
  /\ adminRecord = [t \in Changes!Targets |-> adminRecord[t]]
  /\ adminExecuted \subseteq AdminChanges /\ IsFiniteSet(adminExecuted)
  /\ adminExecutor \in [AdminChanges -> Admins \cup {"NOBODY"}]
  /\ adminCall \in [AdminCalls -> AdminCall \cup {Changes!NoCall}]
  /\ adminPublished \in Seq(Snapshot) /\ Len(adminPublished) > 0

\* The command of a change took effect.
Effected(c) == IF c \in Changes!PageChanges THEN Changes!PageShown(c) ELSE c \in adminExecuted
PublisherOf(n) ==
  LET c == adminPublished[n].change
  IN  c \in Changes!PageChanges /\ CommandOf[c].expected + 1 = n /\ adminPublished[n].by \notin {"NOBODY", RequesterOf[c]}

Allowed(k) ==
  k \in AdminCall =>
    /\ Changes!Capable(k.by, k.change)
    /\ k.step \in {"SUBMITTING", "SUBMITTED"} => k.by = RequesterOf[k.change]
    /\ k.step \in {"APPROVING", "APPROVED"} => k.by # RequesterOf[k.change]
    /\ k.step = "SUBMITTING" => k.change \in Changes!Standard
Performed(k) ==
  k \in AdminCall /\ (k.step = "APPROVED" \/ (k.step = "SUBMITTED" /\ k.change \in Changes!Standard)) => Effected(k.change)

On(t, S) == {c \in S : CommandOf[c].target = t}

AdminInv ==
  /\ AdminTypes
  /\ \A t \in Changes!Targets : adminRecord[t].revision = Cardinality(On(t, adminExecuted))
  /\ \A c \in AdminChanges : adminChange[c].status = "EXECUTED" => Effected(c)
  /\ \A c \in adminExecuted \ Changes!Standard : adminExecutor[c] \notin {"NOBODY", RequesterOf[c]}
  /\ \A n \in 2..Len(adminPublished) : PublisherOf(n)
  /\ \A k \in AdminCalls : Allowed(adminCall[k]) /\ Performed(adminCall[k])

LEMMA ChangesCardinality == \A S : Changes!Cardinality(S) = Cardinality(S)
BY DEF Changes!Cardinality, Cardinality, Changes!IsFiniteSet, IsFiniteSet

LEMMA AdminImplies == AdminInv => Changes!EffectsExplained
<1> SUFFICES ASSUME AdminInv PROVE Changes!EffectsExplained
  OBVIOUS
<1>1. \A t \in Changes!Targets :
        adminRecord[t].revision = Changes!Cardinality({c \in adminExecuted : CommandOf[c].target = t})
  BY ChangesCardinality DEF AdminInv, On
<1>2. \A c \in adminExecuted \ Changes!Standard : adminExecutor[c] \notin {Changes!Nobody, RequesterOf[c]}
  BY DEF AdminInv, Changes!Nobody
<1> QED BY <1>1, <1>2 DEF AdminInv, Changes!EffectsExplained, Effected, PublisherOf, Changes!Nobody

LEMMA AdminRows ==
  /\ Changes!NoChange \in ChangeRow /\ Changes!NoChange.status = "ABSENT"
  /\ Changes!NoCall \notin AdminCall /\ Changes!NoCall.step = "IDLE"
  /\ Allowed(Changes!NoCall) /\ Performed(Changes!NoCall)
<1>1. Changes!NoChange \in ChangeRow /\ Changes!NoChange.status = "ABSENT"
  BY DEF Changes!NoChange, Changes!Nobody, ChangeRow
<1>2. Changes!NoCall.step = "IDLE" /\ \A k \in AdminCall : k.step # "IDLE"
  BY DEF Changes!NoCall, AdminCall
<1> QED BY <1>1, <1>2 DEF Allowed, Performed

LEMMA AdminInit == Changes!Init => AdminInv /\ Changes!MemoryInit
<1> SUFFICES ASSUME Changes!Init PROVE AdminInv /\ Changes!MemoryInit
  OBVIOUS
<1>1. IsFiniteSet(adminExecuted) /\ \A t : On(t, adminExecuted) = {}
  BY FS_EmptySet DEF Changes!Init, On
<1>2. Cardinality({}) = 0
  BY FS_EmptySet
<1>3. \A t \in Changes!Targets : adminRecord[t].revision = 0
  BY DEF Changes!Init, Changes!NoRecord
<1>4. adminPublished \in Seq(Snapshot) /\ Len(adminPublished) = 1
  BY DEF Changes!Init, Snapshot, Changes!NoPages, Changes!Nobody
<1>5. AdminTypes
  BY <1>1, <1>4, AdminRows DEF Changes!Init, AdminTypes, Changes!Nobody
<1>6. \A c \in AdminChanges : adminChange[c].status # "EXECUTED"
  BY AdminRows DEF Changes!Init
<1>7. \A k \in AdminCalls : Allowed(adminCall[k]) /\ Performed(adminCall[k])
  BY AdminRows DEF Changes!Init
<1>8. adminExecuted = {} /\ \A n \in 2..Len(adminPublished) : FALSE
  BY <1>4 DEF Changes!Init
<1>9. AdminInv
  BY <1>1, <1>2, <1>3, <1>5, <1>6, <1>7, <1>8 DEF AdminInv
<1> QED BY <1>9 DEF Changes!Init, Changes!MemoryInit

\* What took effect stays: executions and snapshots only grow.
LEMMA EffectsStay ==
  ASSUME UNCHANGED <<adminExecuted, adminPublished>>
  PROVE  /\ \A c : Effected(c)' <=> Effected(c)
         /\ \A n \in 2..Len(adminPublished) : PublisherOf(n)' <=> PublisherOf(n)
BY DEF Effected, PublisherOf, Changes!PageShown

\* A call moves on, or ends, and nothing else happens.
LEMMA AdminCallStep ==
  ASSUME AdminInv, NEW k \in AdminCalls, NEW x \in AdminCall \cup {Changes!NoCall}, Allowed(x), Performed(x),
         adminCall' = [adminCall EXCEPT ![k] = x],
         UNCHANGED <<adminChange, adminEvents, adminRecord, adminExecuted, adminExecutor, adminPublished>>
  PROVE  AdminInv'
<1>1. \A m \in AdminCalls : adminCall'[m] = IF m = k THEN x ELSE adminCall[m]
  BY DEF AdminInv, AdminTypes
<1>2. AdminTypes'
  BY DEF AdminInv, AdminTypes
<1>3. \A m \in AdminCalls : Allowed(adminCall[m])' /\ Performed(adminCall[m])'
  BY <1>1, EffectsStay DEF AdminInv, Allowed, Performed
<1> QED BY <1>2, <1>3, EffectsStay DEF AdminInv

LEMMA ServesKeep ==
  ASSUME AdminInv, NEW k \in AdminCalls, NEW c \in AdminChanges, NEW a \in Admins,
         NEW step \in {"SUBMITTING", "SUBMITTED", "APPROVING"}, Changes!Serve(k, a, c, step), Changes!Capable(a, c),
         step = "APPROVING" => a # RequesterOf[c],
         step # "APPROVING" => a = RequesterOf[c],
         step = "SUBMITTING" <=> step # "APPROVING" /\ c \in Changes!Standard
  PROVE  AdminInv' /\ UNCHANGED <<adminChange, adminEvents>>
<1> DEFINE x == [by |-> a, change |-> c, seen |-> adminChange[c], step |-> step]
<1>1. /\ adminCall' = [adminCall EXCEPT ![k] = x]
      /\ UNCHANGED <<adminChange, adminEvents, adminRecord, adminExecuted, adminExecutor, adminPublished>>
  BY DEF Changes!Serve, Changes!effects
<1>2. x \in AdminCall /\ x.by = a /\ x.change = c /\ x.step = step
  BY DEF AdminInv, AdminTypes, AdminCall
<1> HIDE DEF x
<1>3. Allowed(x) /\ Performed(x)
  BY <1>2 DEF Allowed, Performed
<1> QED BY <1>1, <1>2, <1>3, AdminCallStep

LEMMA EndsKeep ==
  ASSUME AdminInv, NEW k \in AdminCalls, Changes!ExecuteRefused(k) \/ Changes!CallDies(k)
  PROVE  AdminInv' /\ UNCHANGED <<adminChange, adminEvents>>
<1>1. /\ adminCall' = [adminCall EXCEPT ![k] = Changes!NoCall]
      /\ UNCHANGED <<adminChange, adminEvents, adminRecord, adminExecuted, adminExecutor, adminPublished>>
  BY DEF Changes!ExecuteRefused, Changes!CallDies, Changes!effects
<1> QED BY <1>1, AdminRows, AdminCallStep

\* A page is published after the snapshot that its change expects, or is found there.
LEMMA PagesKeep ==
  ASSUME AdminInv, NEW k \in AdminCalls, NEW y \in AdminCall, NEW c \in Changes!PageChanges, NEW a \in Admins,
         Allowed(y), Effected(c) => Performed(y), adminCall[k] \in AdminCall, Allowed(adminCall[k]), y.change = c,
         adminCall[k].step = "APPROVING" => a # RequesterOf[c], adminCall[k].step = "APPROVING",
         Changes!PublishPage(a, c), UNCHANGED <<adminChange, adminEvents, adminRecord, adminExecuted, adminExecutor>>,
         adminCall' = [adminCall EXCEPT ![k] = y]
  PROVE  AdminInv'
<1>1. c \in AdminChanges /\ CommandOf[c].expected \in Nat \ {0} /\ CommandOf[c].target \in Changes!Targets
  BY AdminAssumption DEF Changes!PageChanges, Changes!Targets
<1>2. CASE Changes!PageShown(c) /\ UNCHANGED adminPublished
  BY <1>2, AdminCallStep DEF Effected
<1> DEFINE now == Len(adminPublished)
           next == [pages |-> [adminPublished[now].pages EXCEPT ![CommandOf[c].target] = CommandOf[c].draft],
                    by |-> a, change |-> c]
<1>3. CASE now = CommandOf[c].expected /\ adminPublished' = Append(adminPublished, next)
  <2>1. adminPublished \in Seq(Snapshot) /\ now \in Nat \ {0} /\ adminPublished[now] \in Snapshot
    BY DEF AdminInv, AdminTypes
  <2>2. next \in Snapshot /\ next.by = a /\ next.change = c /\ next.pages[CommandOf[c].target] = CommandOf[c].draft
    BY <1>1, <2>1 DEF Snapshot
  <2> HIDE DEF next
  <2>3. /\ adminPublished' \in Seq(Snapshot) /\ Len(adminPublished') = now + 1 /\ adminPublished'[now + 1] = next
        /\ \A n \in 1..now : adminPublished'[n] = adminPublished[n]
    BY <1>3, <2>1, <2>2
  <2>4. Effected(c)'
    BY <1>1, <1>3, <2>2, <2>3 DEF Effected, Changes!PageShown
  <2>5. \A d \in AdminChanges : Effected(d) => Effected(d)'
    <3>1. ASSUME NEW d \in Changes!PageChanges, Changes!PageShown(d) PROVE Changes!PageShown(d)'
      <4>1. CommandOf[d].expected + 1 \in 1..now
        BY <2>1, <3>1, AdminAssumption DEF Changes!PageShown
      <4> QED BY <2>1, <2>3, <3>1, <4>1 DEF Changes!PageShown
    <3> QED BY <3>1 DEF Effected
  <2>6. ASSUME NEW n \in 2..Len(adminPublished') PROVE PublisherOf(n)'
    <3>1. CASE n \in 2..now
      BY <2>1, <2>3, <3>1 DEF AdminInv, PublisherOf
    <3>2. CASE n = now + 1
      BY <1>1, <1>3, <2>1, <2>2, <2>3, <3>2, AdminAssumption DEF PublisherOf
    <3> QED BY <2>1, <2>3, <3>1, <3>2
  <2>7. AdminTypes'
    BY <2>1, <2>3 DEF AdminInv, AdminTypes
  <2>8. \A m \in AdminCalls : Allowed(adminCall[m])' /\ Performed(adminCall[m])'
    <3>1. \A m \in AdminCalls : adminCall'[m] = IF m = k THEN y ELSE adminCall[m]
      BY DEF AdminInv, AdminTypes
    <3>2. \A x \in AdminCall : x.change \in AdminChanges
      BY DEF AdminCall
    <3> QED BY <2>4, <2>5, <3>1, <3>2 DEF AdminInv, Allowed, Performed
  <2> QED BY <2>5, <2>6, <2>7, <2>8 DEF AdminInv
<1> QED BY <1>2, <1>3 DEF Changes!PublishPage

LEMMA ExecutesKeep ==
  ASSUME AdminInv, NEW k \in AdminCalls, Changes!CallExecutes(k)
  PROVE  AdminInv' /\ UNCHANGED <<adminChange, adminEvents>>
<1> DEFINE x == adminCall[k]
           y == [x EXCEPT !.step = IF x.step = "SUBMITTING" THEN "SUBMITTED" ELSE "APPROVED"]
           c == x.change
<1>1. /\ x.step \in {"SUBMITTING", "APPROVING"} /\ Changes!Execute(x.by, c) /\ UNCHANGED <<adminChange, adminEvents>>
      /\ adminCall' = [adminCall EXCEPT ![k] = y]
  BY DEF Changes!CallExecutes
<1>2. x \in AdminCall /\ Allowed(x) /\ c \in AdminChanges /\ x.by \in Admins
  <2>1. x \in AdminCall
    BY <1>1, AdminRows DEF AdminInv, AdminTypes
  <2> QED BY <2>1 DEF AdminInv, AdminCall
<1>3. /\ y \in AdminCall /\ y.by = x.by /\ y.change = c /\ (x.step = "SUBMITTING" => y.step = "SUBMITTED")
      /\ x.step = "APPROVING" => y.step = "APPROVED"
  BY <1>1, <1>2 DEF AdminCall
<1> HIDE DEF y
<1>4. Allowed(y) /\ (Effected(c) => Performed(y))
  BY <1>1, <1>2, <1>3 DEF Allowed, Performed
<1>5. CASE c \notin Changes!PageChanges /\ c \in adminExecuted
  <2>1. UNCHANGED <<adminRecord, adminExecuted, adminExecutor, adminPublished>> /\ Effected(c)
    BY <1>1, <1>5 DEF Changes!Execute, Changes!effects, Effected
  <2> QED BY <1>1, <1>3, <1>4, <2>1, AdminCallStep
<1>7. CASE c \in Changes!PageChanges
  <2>1. x.step = "APPROVING" /\ x.by # RequesterOf[c]
    BY <1>1, <1>2, <1>7 DEF Allowed, Changes!PageChanges, Changes!PagePublished, Changes!Standard, Changes!commandRisk
  <2>2. Changes!PublishPage(x.by, c) /\ UNCHANGED <<adminRecord, adminExecuted, adminExecutor>>
    BY <1>1, <1>7 DEF Changes!Execute
  <2> QED BY <1>1, <1>2, <1>3, <1>4, <1>7, <2>1, <2>2, PagesKeep
<1>6. CASE c \notin Changes!PageChanges /\ c \notin adminExecuted
  <2> DEFINE target == CommandOf[c].target
  <2>1. /\ adminExecuted' = adminExecuted \cup {c} /\ adminExecutor' = [adminExecutor EXCEPT ![c] = x.by]
        /\ Changes!persistPublishedDomainRecord(x.by, c) /\ adminPublished' = adminPublished
    BY <1>1, <1>6 DEF Changes!Execute
  <2>2. target \in Changes!Targets
    BY <1>2 DEF Changes!Targets
  <2>3. /\ adminRecord' = [t \in Changes!Targets |-> adminRecord'[t]]
        /\ \A t \in Changes!Targets : adminRecord'[t].revision = IF t = target THEN adminRecord[t].revision + 1 ELSE adminRecord[t].revision
    BY <2>1, <2>2 DEF Changes!persistPublishedDomainRecord, AdminInv, AdminTypes
  <2>4. adminExecuted' \subseteq AdminChanges /\ IsFiniteSet(adminExecuted')
    BY <1>2, <2>1, FS_AddElement DEF AdminInv, AdminTypes
  <2>5. /\ adminExecutor' \in [AdminChanges -> Admins \cup {"NOBODY"}] /\ adminExecutor'[c] = x.by
        /\ \A d \in AdminChanges : d # c => adminExecutor'[d] = adminExecutor[d]
    BY <1>2, <2>1 DEF AdminInv, AdminTypes
  <2>6. AdminTypes'
    BY <1>1, <1>3, <2>1, <2>3, <2>4, <2>5 DEF AdminInv, AdminTypes
  <2>7. ASSUME NEW t \in Changes!Targets
        PROVE  adminRecord'[t].revision = Cardinality(On(t, adminExecuted'))
    <3>1. IsFiniteSet(On(t, adminExecuted)) /\ c \notin On(t, adminExecuted) /\ Cardinality(On(t, adminExecuted)) \in Nat
      <4>1. On(t, adminExecuted) \subseteq adminExecuted
        BY DEF On
      <4> QED BY <1>6, <4>1, FS_Subset, FS_CardinalityType DEF AdminInv, AdminTypes
    <3>2. On(t, adminExecuted') = IF t = target THEN On(t, adminExecuted) \cup {c} ELSE On(t, adminExecuted)
      BY <2>1 DEF On
    <3>3. Cardinality(On(t, adminExecuted) \cup {c}) = Cardinality(On(t, adminExecuted)) + 1
      BY <3>1, FS_AddElement
    <3> QED BY <2>3, <3>2, <3>3 DEF AdminInv
  <2>8. \A d \in adminExecuted' \ Changes!Standard : adminExecutor'[d] \notin {"NOBODY", RequesterOf[d]}
    <3>1. c \notin Changes!Standard => x.by \notin {"NOBODY", RequesterOf[c]}
      BY <1>1, <1>2, AdminAssumption DEF Allowed
    <3> QED BY <2>1, <2>4, <2>5, <3>1 DEF AdminInv
  <2>9. \A m \in AdminCalls : Allowed(adminCall[m])' /\ Performed(adminCall[m])'
    <3>1. \A m \in AdminCalls : adminCall'[m] = IF m = k THEN y ELSE adminCall[m]
      BY <1>1 DEF AdminInv, AdminTypes
    <3>2. \A d : d = c \/ Effected(d) => Effected(d)'
      BY <1>6, <2>1 DEF Effected, Changes!PageShown
    <3> QED BY <1>3, <1>4, <3>1, <3>2 DEF AdminInv, Allowed, Performed
  <2>10. \A d : Effected(d) => Effected(d)'
    BY <1>6, <2>1 DEF Effected, Changes!PageShown
  <2>11. \A n \in 2..Len(adminPublished) : PublisherOf(n)' <=> PublisherOf(n)
    BY <2>1 DEF PublisherOf
  <2> QED BY <1>1, <2>1, <2>6, <2>7, <2>8, <2>9, <2>10, <2>11 DEF AdminInv
<1> QED BY <1>1, <1>5, <1>6, <1>7

\* The rows are written: what is reported executed was.
LEMMA AdminWrites ==
  ASSUME AdminInv, NEW c \in AdminChanges, NEW row \in ChangeRow, row.status = "EXECUTED" => Effected(c),
         adminChange' = [adminChange EXCEPT ![c] = row], NEW reason, Changes!appendEvent(c, reason),
         UNCHANGED <<adminRecord, adminExecuted, adminExecutor, adminPublished>>,
         \/ UNCHANGED adminCall
         \/ \E k \in AdminCalls : adminCall' = [adminCall EXCEPT ![k] = Changes!NoCall]
  PROVE  AdminInv'
<1>1. adminChange' \in [AdminChanges -> ChangeRow] /\ \A d \in AdminChanges : adminChange'[d] = IF d = c THEN row ELSE adminChange[d]
  BY DEF AdminInv, AdminTypes
<1>2. adminEvents' = [d \in AdminChanges |-> adminEvents'[d]]
  BY DEF AdminInv, AdminTypes, Changes!appendEvent
<1>3. \A m \in AdminCalls : adminCall'[m] = adminCall[m] \/ adminCall'[m] = Changes!NoCall
  BY DEF AdminInv, AdminTypes
<1>4. adminCall' \in [AdminCalls -> AdminCall \cup {Changes!NoCall}]
  BY DEF AdminInv, AdminTypes
<1>5. AdminTypes'
  BY <1>1, <1>2, <1>4 DEF AdminInv, AdminTypes
<1>6. \A m \in AdminCalls : Allowed(adminCall[m])' /\ Performed(adminCall[m])'
  BY <1>3, AdminRows, EffectsStay DEF AdminInv, Allowed, Performed
<1> QED BY <1>1, <1>5, <1>6, EffectsStay DEF AdminInv

\* A call about to write its change.
LEMMA Writers ==
  ASSUME AdminInv, NEW k \in AdminCalls, adminCall[k].step \in {"SUBMITTED", "APPROVED"}
  PROVE  /\ adminCall[k] \in AdminCall /\ adminCall[k].change \in AdminChanges /\ adminCall[k].by \in Admins
         /\ Allowed(adminCall[k]) /\ Performed(adminCall[k])
<1>1. adminCall[k] \in AdminCall
  BY AdminRows DEF AdminInv, AdminTypes
<1> QED BY <1>1 DEF AdminInv, AdminCall

LEMMA SubmitsRefine ==
  ASSUME AdminInv, NEW k \in AdminCalls, Changes!SubmitPersists(k)
  PROVE  AdminInv' /\ (Changes!MemoryNext \/ UNCHANGED <<adminChange, adminEvents>>)
<1> DEFINE c == adminCall[k].change
           status == IF c \in Changes!Standard THEN "EXECUTED" ELSE "PENDING_APPROVAL"
           row == [Changes!NoChange EXCEPT !.status = status, !.revision = 1]
<1>1. /\ adminCall[k].step = "SUBMITTED" /\ adminCall' = [adminCall EXCEPT ![k] = Changes!NoCall]
      /\ UNCHANGED <<adminRecord, adminExecuted, adminExecutor, adminPublished>>
  BY DEF Changes!SubmitPersists, Changes!effects
<1>2. /\ c \in AdminChanges /\ Changes!Capable(RequesterOf[c], c)
      /\ c \in Changes!Standard => Effected(c)
  BY <1>1, Writers DEF Allowed, Performed
<1>3. CASE adminChange[c] = Changes!NoChange
  <2>1. adminChange' = [adminChange EXCEPT ![c] = row] /\ Changes!appendEvent(c, status)
    BY <1>3 DEF Changes!SubmitPersists
  <2>2. row \in ChangeRow /\ row.status = status
    BY DEF Changes!NoChange, Changes!Nobody, ChangeRow
  <2>3. Changes!MemorySubmit(c)
    BY <1>2, <1>3, <2>1 DEF Changes!MemorySubmit, Changes!MemoryRecords, Changes!appendEvent
  <2> HIDE DEF row
  <2>4. AdminInv'
    BY <1>1, <1>2, <2>1, <2>2, AdminWrites
  <2> QED BY <1>2, <2>3, <2>4 DEF Changes!MemoryNext
<1>4. CASE adminChange[c] # Changes!NoChange
  <2>1. UNCHANGED <<adminChange, adminEvents>>
    BY <1>4 DEF Changes!SubmitPersists
  <2> QED BY <1>1, <2>1, AdminRows, AdminCallStep
<1> QED BY <1>3, <1>4

LEMMA ApprovesRefine ==
  ASSUME AdminInv, NEW k \in AdminCalls, Changes!ApprovePersists(k)
  PROVE  AdminInv' /\ (Changes!MemoryNext \/ UNCHANGED <<adminChange, adminEvents>>)
<1> DEFINE c == adminCall[k].change
           a == adminCall[k].by
           row == [status |-> "EXECUTED", revision |-> adminChange[c].revision + 1, approvedBy |-> a]
<1>1. /\ adminCall[k].step = "APPROVED" /\ adminCall' = [adminCall EXCEPT ![k] = Changes!NoCall]
      /\ UNCHANGED <<adminRecord, adminExecuted, adminExecutor, adminPublished>>
  BY DEF Changes!ApprovePersists, Changes!effects
<1>2. c \in AdminChanges /\ a \in Admins /\ Changes!Capable(a, c) /\ a # RequesterOf[c] /\ Effected(c)
  BY <1>1, Writers DEF Allowed, Performed
<1> DEFINE as == adminChange[c].revision = adminCall[k].seen.revision /\ adminChange[c].status = "PENDING_APPROVAL"
<1>3. CASE as
  <2>1. adminChange' = [adminChange EXCEPT ![c] = row] /\ Changes!appendEvent(c, "FOUR_EYES_APPROVED")
    BY <1>2, <1>3 DEF Changes!ApprovePersists, AdminInv, AdminTypes
  <2>2. row \in ChangeRow /\ row.status = "EXECUTED"
    BY <1>2 DEF AdminInv, AdminTypes, ChangeRow
  <2>3. Changes!MemoryApprove(a, c, adminChange[c].revision)
    BY <1>2, <1>3, <2>1 DEF Changes!MemoryApprove, Changes!MemoryDecides, Changes!MemoryRecords, Changes!appendEvent
  <2> HIDE DEF row
  <2>4. AdminInv'
    BY <1>1, <1>2, <2>1, <2>2, AdminWrites
  <2> QED BY <1>2, <2>3, <2>4 DEF Changes!MemoryNext
<1>4. CASE ~as
  <2>1. UNCHANGED <<adminChange, adminEvents>>
    BY <1>4 DEF Changes!ApprovePersists
  <2> QED BY <1>1, <2>1, AdminRows, AdminCallStep
<1> QED BY <1>3, <1>4

LEMMA RejectRefines ==
  ASSUME AdminInv, NEW a \in Admins, NEW c \in AdminChanges, NEW r \in 1..2, Changes!Reject(a, c, r)
  PROVE  AdminInv' /\ Changes!MemoryNext
<1> DEFINE row == [status |-> "REJECTED", revision |-> r + 1, approvedBy |-> a]
<1>1. /\ adminChange' = [adminChange EXCEPT ![c] = row] /\ Changes!appendEvent(c, "FOUR_EYES_REJECTED")
      /\ UNCHANGED <<adminRecord, adminExecuted, adminExecutor, adminPublished, adminCall>>
  BY DEF Changes!Reject, Changes!effects
<1>2. row \in ChangeRow /\ row.status = "REJECTED"
  BY DEF ChangeRow
<1>3. Changes!MemoryReject(a, c, adminChange[c].revision)
  BY <1>1 DEF Changes!Reject, Changes!MemoryReject, Changes!MemoryDecides, Changes!MemoryRecords, Changes!appendEvent
<1> HIDE DEF row
<1>4. AdminInv'
  BY <1>1, <1>2, AdminWrites
<1> QED BY <1>3, <1>4 DEF Changes!MemoryNext

LEMMA BeginsKeep ==
  ASSUME AdminInv, NEW k \in AdminCalls, NEW c \in AdminChanges,
         Changes!Submit(k, c) \/ \E a \in Admins, r \in 1..2 : Changes!Approve(k, a, c, r)
  PROVE  AdminInv' /\ UNCHANGED <<adminChange, adminEvents>>
<1>1. CASE Changes!Submit(k, c)
  <2> DEFINE a == RequesterOf[c]
             step == IF c \in Changes!Standard THEN "SUBMITTING" ELSE "SUBMITTED"
  <2>1. a \in Admins /\ Changes!Capable(a, c) /\ Changes!Serve(k, a, c, step)
    BY <1>1, AdminAssumption DEF Changes!Submit
  <2>2. step \in {"SUBMITTING", "SUBMITTED", "APPROVING"} /\ step # "APPROVING"
    OBVIOUS
  <2>3. step = "SUBMITTING" <=> c \in Changes!Standard
    OBVIOUS
  <2> HIDE DEF step
  <2> QED BY <2>1, <2>2, <2>3, ServesKeep
<1>2. ASSUME NEW a \in Admins, NEW r \in 1..2, Changes!Approve(k, a, c, r)
      PROVE  AdminInv' /\ UNCHANGED <<adminChange, adminEvents>>
  <2>1. Changes!Capable(a, c) /\ a # RequesterOf[c] /\ Changes!Serve(k, a, c, "APPROVING")
    BY <1>2 DEF Changes!Approve
  <2> QED BY <2>1, ServesKeep
<1> QED BY <1>1, <1>2

LEMMA AdminNext ==
  AdminInv /\ [Changes!Next]_(Changes!vars) =>
    AdminInv' /\ (Changes!MemoryNext \/ UNCHANGED <<adminChange, adminEvents>>)
<1> SUFFICES ASSUME AdminInv, [Changes!Next]_(Changes!vars)
             PROVE  AdminInv' /\ (Changes!MemoryNext \/ UNCHANGED <<adminChange, adminEvents>>)
  OBVIOUS
<1>1. CASE UNCHANGED Changes!vars
  <2>1. UNCHANGED <<adminChange, adminEvents, adminRecord, adminExecuted, adminExecutor, adminPublished, adminCall>>
    BY <1>1 DEF Changes!vars
  <2>2. AdminTypes'
    BY <2>1 DEF AdminInv, AdminTypes
  <2>3. \A m \in AdminCalls : Allowed(adminCall[m])' /\ Performed(adminCall[m])'
    BY <2>1, EffectsStay DEF AdminInv, Allowed, Performed
  <2> QED BY <2>1, <2>2, <2>3, EffectsStay DEF AdminInv
<1>2. CASE Changes!Next
  BY <1>2, BeginsKeep, ExecutesKeep, EndsKeep, SubmitsRefine, ApprovesRefine, RejectRefines DEF Changes!Next
<1> QED BY <1>1, <1>2

\* internal/adminops: however calls interleave, repeat and die, no command takes
\* effect twice, none of high risk without another administrator, and the changes
\* and their events are those the in-memory service could show.
THEOREM ChangesKept == Changes!Spec => ChangesAreSound /\ Changes!ImplementsMemory
<1> DEFINE A == scenario = "admin" => Changes!MemoryNext \/ UNCHANGED <<adminChange, adminEvents>>
<1>1. AdminInv /\ [Changes!Next]_(Changes!vars) => [A]_mcVars /\ [Changes!MemoryNext]_<<adminChange, adminEvents>>
  BY AdminNext
<1> HIDE DEF A
<1>2. AdminInv /\ [Changes!Next]_(Changes!vars) => AdminInv'
  BY AdminNext
<1>3. Changes!Spec => []Changes!EffectsExplained /\ Changes!MemoryInit /\ [][A]_mcVars
  BY <1>1, <1>2, AdminInit, AdminImplies, PTL DEF Changes!Spec
<1>4. Changes!Spec => Changes!MemoryInit /\ [][Changes!MemoryNext]_<<adminChange, adminEvents>>
  BY <1>1, <1>2, AdminInit, PTL DEF Changes!Spec
<1> QED BY <1>3, <1>4 DEF A, ChangesAreSound, Changes!ImplementsMemory
=============================================================================
