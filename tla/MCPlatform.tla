----------------------------- MODULE MCPlatform -----------------------------
(***************************************************************************)
(* The social, safety and platform components, which share no rows: each   *)
(* in a scenario of its own, which an initial state chooses, while the     *)
(* others stay as they are; and, for what the background loops bring about *)
(* in the end, food orders and checkout.  The constants are the scenarios  *)
(* a run follows and the sets and bounds of the components that theorems,  *)
(* or both runs, are about; the other components have theirs here.         *)
(***************************************************************************)
EXTENDS Naturals, FiniteSets

CONSTANTS
  Scenarios,                             \* those a run follows
  RewardEvents, Workers,                 \* rewards: what is rewarded, who settles it
  MediaJobs, Moderators, Stories, Posts, \* gallery: uploads, content, posts to save
  Pair, MaxSent, MaxSignals,             \* social conversations
  Parties, Riders, Operators, Messages,  \* delivery chats
  Homes, Listings, Customers, Threshold, MaxListingRevision,
  Assets, Calls, MaxVersion,             \* uploads
  Members, Private, Updates, AuthorOf, Channels, MaxPostRevision,   \* social: people and posts
  Identities, LoginSessions, IdentityOf, Purposes,                  \* logins
  MaxTokenRotation, MaxProfileVersion, LoginRequests,
  Admins, CapabilitiesOf, AdminChanges, RequesterOf, CommandOf, AdminPosts, AdminCalls,
  Last, Dispatchers, Handlers, MaxAttempts, MaxFailures,            \* messaging
  Devices, Purpose, Consented, Loops, MaxClaims, MaxFaults,         \* notifications
  Pages, Contents, Publishers, Readers, MaxRevision,
  MaxLogins, MaxCookies, MaxRotation, WebRequests   \* customer web

\* Nobody is called "NONE"; the schema has the threshold between 1 and 100; a
\* run bounds the logins and the cookies of a browser; people, channels and
\* the events of an aggregate are finitely many.
ASSUME PlatformAssumption ==
  /\ "NONE" \notin Workers \cup Moderators
  /\ Threshold \in Nat \ {0}
  /\ MaxLogins \in Nat /\ MaxCookies \in Nat
  /\ "NONE" \notin Members /\ IsFiniteSet(Members) /\ IsFiniteSet(Channels)
  /\ Last \in Nat

VARIABLES
  socialFollow, socialControl, socialProfile, socialLooked, socialPost, socialEngaged,
  socialComment, socialReport, socialQueued,
  rewardEvent, rewardLease, rewardLapsed, rewardDue, rewardBatch, rewardAnswer,
  rewardCredited, rewardLate, rewardOverran,
  galleryMedia, galleryContent, galleryChosen, galleryDecided, galleryCollection,
  talkFollows, talkLooked, talkControl, talkTalk, talkOpening, talkSent, talkCall, talkRinging,
  talkPresence, talkFreshUnder,
  chatMembers, chatClosing, chatBlocked, chatMessage,
  localVerified, localHome, localRequest, localListing, localOver, localReports,
  localReposted,
  alarmRequest, alarmOverdue, alarmTimeline, alarmAnswers,
  uploadAsset, uploadObject, uploadOverdue, uploadCall,
  loginSession, loginToken, loginLapsed, loginDisabled, loginProfile, loginConsents,
  loginDeletions, loginAdmitted, loginIssuing, loginTx,
  eventOutbox, eventExpired, eventWorker, eventStream, eventInbox, eventOverdue,
  eventHandler, eventApplied, eventFailures,
  noticePreference, noticeDevice, noticeDelivery, noticeOutboxed, noticeLapsed,
  noticeProcess, noticeNotifier, noticeHanded, noticeSent, noticeDoubts, noticeFaults,
  adminChange, adminEvents, adminRecord, adminExecuted, adminExecutor, adminControl,
  adminPublished, adminCall,
  auditEvents, auditRequest, auditRead, auditCursor,
  cmsDraft, cmsSaved, cmsSnapshot, cmsHistory, cmsCall, cmsCache, cmsReader,
  webRow, webBrowser, webMinted, webLogin, webRequest, webReused, webExcused, webDropped,
  foodServing, foodAvailable, foodCart, foodOrder, foodLate, foodFunds, foodDoing, foodBehind,
  scenario

----------------------------------------------------------------------------
\* What the changes of the admin scenario ask for.
Commands ==
  [u |-> [domain |-> "CATALOG", action |-> "UPSERT", target |-> "i", expected |-> 0],
   v |-> [domain |-> "COUNTRY", action |-> "UPDATE", target |-> "n", expected |-> 0],
   x |-> [domain |-> "CMS", action |-> "PUBLISH", target |-> "m", expected |-> 1, draft |-> "d"],
   y |-> [domain |-> "CMS", action |-> "PUBLISH", target |-> "m", expected |-> 2, draft |-> "e"]]

\* Two changes are of one page, each approved by the one who requested the other; a
\* call may be repeated while it is served.
Capabilities == [a |-> {"CATALOG", "COUNTRY", "CMS"}, b |-> {"COUNTRY", "CMS"}]
Requesters == [c \in AdminChanges |-> IF c = "y" THEN "b" ELSE "a"]

\* The runs' session is of one identity, their post of one person, their notification
\* for two devices.
OneIdentity == [s |-> "i"]
OneAuthor == [p |-> "a"]
TwoDevices == <<"d1", "d2">>

----------------------------------------------------------------------------
\* People, some of them private, their posts and the channels a post is shared on.
Society == INSTANCE Social WITH
  People <- Members, Posts <- Updates, MaxRevision <- MaxPostRevision,
  follow <- socialFollow, control <- socialControl, profile <- socialProfile,
  looked <- socialLooked, post <- socialPost, engaged <- socialEngaged,
  comment <- socialComment, report <- socialReport, queued <- socialQueued

----------------------------------------------------------------------------
\* Rewarded events and workers who may outlive their leases.
Rewards == INSTANCE SocialRewards WITH
  Events <- RewardEvents, event <- rewardEvent, lease <- rewardLease, lapsed <- rewardLapsed, due <- rewardDue,
  batch <- rewardBatch, answer <- rewardAnswer, credited <- rewardCredited,
  late <- rewardLate, overran <- rewardOverran

----------------------------------------------------------------------------
\* Uploads, moderators, posts that are saved, and content that may share an upload.
Gallery == INSTANCE SocialMedia WITH
  Media <- MediaJobs, Contents <- Stories,
  media <- galleryMedia, content <- galleryContent, chosen <- galleryChosen,
  decided <- galleryDecided, collection <- galleryCollection

----------------------------------------------------------------------------
\* Two people who talk and call.
Talks == INSTANCE SocialMessaging WITH
  People <- Pair,
  follows <- talkFollows, looked <- talkLooked, control <- talkControl, talk <- talkTalk, opening <- talkOpening,
  sent <- talkSent, call <- talkCall, ringing <- talkRinging, presence <- talkPresence,
  freshUnder <- talkFreshUnder

----------------------------------------------------------------------------
\* The conversation of a delivery: customer, vendor, riders.
Deliveries == INSTANCE Chat WITH
  members <- chatMembers, closing <- chatClosing, blocked <- chatBlocked,
  message <- chatMessage

----------------------------------------------------------------------------
\* Homes and listings, withheld once as many reported them as the threshold says.
Locals == INSTANCE LocalVerticals WITH
  MaxRevision <- MaxListingRevision,
  verified <- localVerified, home <- localHome, request <- localRequest,
  listing <- localListing, over <- localOver, reports <- localReports,
  reposted <- localReposted

----------------------------------------------------------------------------
\* One request, two responders, two levels of escalation.
Alarms == INSTANCE Emergency WITH
  Requesters <- {"u"}, Responders <- {"p", "q"}, MaxLevel <- 2, MaxEvents <- 6,
  request <- alarmRequest, overdue <- alarmOverdue, timeline <- alarmTimeline,
  answers <- alarmAnswers

----------------------------------------------------------------------------
\* Assets and the calls on them.
Uploads == INSTANCE Media WITH
  asset <- uploadAsset, object <- uploadObject, overdue <- uploadOverdue,
  call <- uploadCall

----------------------------------------------------------------------------
\* Sessions of identities, whose tokens are rotated, and transactions on them.
Logins == INSTANCE Identity WITH
  Sessions <- LoginSessions, MaxRotation <- MaxTokenRotation,
  MaxVersion <- MaxProfileVersion, Transactions <- LoginRequests,
  session <- loginSession, token <- loginToken, lapsed <- loginLapsed,
  disabled <- loginDisabled, profile <- loginProfile, consents <- loginConsents,
  deletions <- loginDeletions, admitted <- loginAdmitted, issuing <- loginIssuing,
  tx <- loginTx

\* A session is of an identity; a run bounds the rotations and the profile's versions.
ASSUME LoginAssumption ==
  MaxTokenRotation \in Nat /\ MaxProfileVersion \in Nat /\ IdentityOf \in [LoginSessions -> Identities]

----------------------------------------------------------------------------
\* Events of one aggregate, dispatchers, consumers, and failures until the attempts
\* are spent.
Bus == INSTANCE Messaging WITH
  Workers <- Dispatchers,
  outbox <- eventOutbox, expired <- eventExpired, worker <- eventWorker,
  stream <- eventStream, inbox <- eventInbox, overdue <- eventOverdue,
  handler <- eventHandler, applied <- eventApplied, failures <- eventFailures

----------------------------------------------------------------------------
\* One notification for the devices of a customer, sent by loops and by the order
\* notifier.
Notices == INSTANCE Notification WITH
  PurposeOf <- Purpose, MaxAttempts <- MaxClaims,
  preference <- noticePreference, device <- noticeDevice, delivery <- noticeDelivery,
  outboxed <- noticeOutboxed, lapsed <- noticeLapsed, process <- noticeProcess,
  notifier <- noticeNotifier, handed <- noticeHanded, sent <- noticeSent,
  doubts <- noticeDoubts, faults <- noticeFaults

\* No device is called "NONE", and the loop runs in finitely many processes.
ASSUME NoticeAssumption == "NONE" \notin Notices!DeviceSet /\ IsFiniteSet(Loops)

----------------------------------------------------------------------------
\* Administrators, their changes, and the calls served at a time.
Changes == INSTANCE AdminOps WITH
  Changes <- AdminChanges, Posts <- AdminPosts, Calls <- AdminCalls,
  change <- adminChange, events <- adminEvents, record <- adminRecord,
  executed <- adminExecuted, executor <- adminExecutor, control <- adminControl,
  published <- adminPublished, call <- adminCall

\* No administrator is called "NOBODY", each change is requested by one, and a page
\* is published after a snapshot.
ASSUME AdminAssumption ==
  /\ "NOBODY" \notin Admins /\ RequesterOf \in [AdminChanges -> Admins]
  /\ \A c \in Changes!PageChanges : CommandOf[c].expected \in Nat \ {0}

----------------------------------------------------------------------------
\* Three requests of two countries, one with a text that is cut inside a rune, read
\* two to a page and exported by as many.
Trail == INSTANCE Audit WITH
  Requests <- {"q1", "q2", "q3"}, Country <- [q1 |-> "IN", q2 |-> "NG", q3 |-> "IN"],
  Cut <- {"q3"}, Attempts <- 2, PageSize <- 2, ExportLimit <- 1,
  events <- auditEvents, request <- auditRequest, read <- auditRead, cursor <- auditCursor

----------------------------------------------------------------------------
\* Pages and the settings, publications and readers.
CMS == INSTANCE ConfigCMS WITH
  Calls <- Publishers,
  draft <- cmsDraft, saved <- cmsSaved, snapshot <- cmsSnapshot, history <- cmsHistory,
  call <- cmsCall, cache <- cmsCache, reader <- cmsReader

----------------------------------------------------------------------------
\* One browser, that logs in MaxLogins times, and its requests.
Browsers == INSTANCE WebSessions WITH
  Requests <- WebRequests,
  row <- webRow, browser <- webBrowser, minted <- webMinted, login <- webLogin,
  request <- webRequest, reused <- webReused, excused <- webExcused, dropped <- webDropped

----------------------------------------------------------------------------
\* One request for a cart that is paid for online; what the kitchen does with an
\* order it accepted is left to the run of trade.
Meals == INSTANCE Food WITH
  Keys <- {"k1"}, Carts <- {"a"}, CartOf <- [k1 |-> "a"], Method <- [k1 |-> "ONLINE"],
  Options <- {"o"}, Minimum <- 1, Maximum <- 1,
  serving <- foodServing, available <- foodAvailable, cart <- foodCart, order <- foodOrder,
  late <- foodLate, funds <- foodFunds, doing <- foodDoing, behind <- foodBehind

----------------------------------------------------------------------------
socialVars == <<socialFollow, socialControl, socialProfile, socialLooked, socialPost,
                socialEngaged, socialComment, socialReport, socialQueued>>
rewardVars == <<rewardEvent, rewardLease, rewardLapsed, rewardDue, rewardBatch,
                rewardAnswer, rewardCredited, rewardLate, rewardOverran>>
galleryVars == <<galleryMedia, galleryContent, galleryChosen, galleryDecided,
                 galleryCollection>>
talkVars == <<talkFollows, talkLooked, talkControl, talkTalk, talkOpening, talkSent, talkCall,
              talkRinging, talkPresence, talkFreshUnder>>
chatVars == <<chatMembers, chatClosing, chatBlocked, chatMessage>>
localVars == <<localVerified, localHome, localRequest, localListing, localOver,
               localReports, localReposted>>
alarmVars == <<alarmRequest, alarmOverdue, alarmTimeline, alarmAnswers>>
uploadVars == <<uploadAsset, uploadObject, uploadOverdue, uploadCall>>
loginVars == <<loginSession, loginToken, loginLapsed, loginDisabled, loginProfile,
               loginConsents, loginDeletions, loginAdmitted, loginIssuing, loginTx>>
eventVars == <<eventOutbox, eventExpired, eventWorker, eventStream, eventInbox,
               eventOverdue, eventHandler, eventApplied, eventFailures>>
noticeVars == <<noticePreference, noticeDevice, noticeDelivery, noticeOutboxed,
                noticeLapsed, noticeProcess, noticeNotifier, noticeHanded, noticeSent, noticeDoubts,
                noticeFaults>>
adminVars == <<adminChange, adminEvents, adminRecord, adminExecuted, adminExecutor,
               adminControl, adminPublished, adminCall>>
auditVars == <<auditEvents, auditRequest, auditRead, auditCursor>>
cmsVars == <<cmsDraft, cmsSaved, cmsSnapshot, cmsHistory, cmsCall, cmsCache, cmsReader>>
webVars == <<webRow, webBrowser, webMinted, webLogin, webRequest, webReused, webExcused, webDropped>>
foodVars == <<foodServing, foodAvailable, foodCart, foodOrder, foodLate, foodFunds,
              foodDoing, foodBehind>>

mcVars == <<socialVars, rewardVars, galleryVars, talkVars, chatVars, localVars, alarmVars, uploadVars,
            loginVars, eventVars, noticeVars, adminVars, auditVars, cmsVars, webVars,
            foodVars, scenario>>

\* One scenario is followed; the other components stay as they were.
Alone(s) ==
  /\ scenario' = s
  /\ IF s = "social" THEN TRUE ELSE UNCHANGED socialVars
  /\ IF s = "rewards" THEN TRUE ELSE UNCHANGED rewardVars
  /\ IF s = "gallery" THEN TRUE ELSE UNCHANGED galleryVars
  /\ IF s = "talks" THEN TRUE ELSE UNCHANGED talkVars
  /\ IF s = "chat" THEN TRUE ELSE UNCHANGED chatVars
  /\ IF s = "local" THEN TRUE ELSE UNCHANGED localVars
  /\ IF s = "alarm" THEN TRUE ELSE UNCHANGED alarmVars
  /\ IF s = "upload" THEN TRUE ELSE UNCHANGED uploadVars
  /\ IF s = "login" THEN TRUE ELSE UNCHANGED loginVars
  /\ IF s = "events" THEN TRUE ELSE UNCHANGED eventVars
  /\ IF s = "notices" THEN TRUE ELSE UNCHANGED noticeVars
  /\ IF s = "admin" THEN TRUE ELSE UNCHANGED adminVars
  /\ IF s = "audit" THEN TRUE ELSE UNCHANGED auditVars
  /\ IF s = "cms" THEN TRUE ELSE UNCHANGED cmsVars
  /\ IF s = "web" THEN TRUE ELSE UNCHANGED webVars
  /\ IF s = "food" THEN TRUE ELSE UNCHANGED foodVars

MCInit ==
  /\ scenario \in Scenarios
  /\ Society!Init
  /\ Rewards!Init
  /\ Gallery!Init
  /\ Talks!Init
  /\ Deliveries!Init
  /\ Locals!Init
  /\ Alarms!Init
  /\ Uploads!Init
  /\ Logins!Init
  /\ Bus!Init
  /\ Notices!Init
  /\ Changes!Init
  /\ Trail!Init
  /\ CMS!Init
  /\ Browsers!Init
  /\ Meals!Init

MCNext ==
  \/ scenario = "social" /\ Society!Next /\ Alone("social")
  \/ scenario = "rewards" /\ Rewards!Next /\ Alone("rewards")
  \/ scenario = "gallery" /\ Gallery!Next /\ Alone("gallery")
  \/ scenario = "talks" /\ Talks!Next /\ Alone("talks")
  \/ scenario = "chat" /\ Deliveries!Next /\ Alone("chat")
  \/ scenario = "local" /\ Locals!Next /\ Alone("local")
  \/ scenario = "alarm" /\ Alarms!Next /\ Alone("alarm")
  \/ scenario = "upload" /\ Uploads!Next /\ Alone("upload")
  \/ scenario = "login" /\ Logins!Next /\ Alone("login")
  \/ scenario = "events" /\ Bus!Next /\ Alone("events")
  \/ scenario = "notices" /\ Notices!Next /\ Alone("notices")
  \/ scenario = "admin" /\ Changes!Next /\ Alone("admin")
  \/ scenario = "audit" /\ Trail!Next /\ Alone("audit")
  \/ scenario = "cms" /\ CMS!Next /\ Alone("cms")
  \/ scenario = "web" /\ Browsers!Next /\ Alone("web")
  \/ /\ scenario = "food" /\ Meals!Next /\ Alone("food")
     /\ UNCHANGED <<foodServing, foodAvailable>>
     /\ foodOrder'["k1"].status \notin {"PREPARING", "READY"}

MCSpec == MCInit /\ [][MCNext]_mcVars

\* The loops of cmd/transaction, cmd/messaging and of the processes that serve keep
\* running; none of their steps is enabled in a component that is not followed.
MCFairSpec ==
  /\ MCSpec
  /\ Meals!Fairness /\ Bus!Fairness /\ CMS!Fairness /\ Rewards!Fairness

----------------------------------------------------------------------------
\* internal/social: every counter that is kept beside its rows agrees with them,
\* whatever follows, blocks, likes and shares were interleaved, and a reward is
\* queued only for a follow that stands and a share that was made.
CountsAgree == Society!CountsAgree

\* internal/social, rewards: an event says APPLIED only if the wallet credited it,
\* REJECTED only if it did not (but for workers that outlived a lease), and it is
\* credited at most once.
SettledAsCredited == Rewards!SettledAsCredited

\* internal/social and internal/localverticals: published media was cleared by a
\* moderator, and after a rejection by another one; a listing that as many people
\* reported as the threshold says is not shown until its owner reposts it, and its
\* counter is their number.
ModerationHolds == Gallery!PublishedIsCleared /\ Locals!ReportedIsWithheld

\* internal/fulfillment, chat, and internal/social, messaging: once a conversation
\* is blocked nothing is said in it any more, and between people one of whom
\* blocks the other a message passes only in one opened under the block.
BlocksSilence == []Deliveries!TypeOK /\ Deliveries!BlockedIsSilent /\ Talks!BlockSilences

\* internal/audit and internal/emergency: the trail is what happened.  The audit
\* chain verifies and has what was acknowledged once, although appends compete,
\* and readers of its pages miss nothing; the timeline of an emergency request
\* tells its status, its level and whether its location may be shown.
TrailsAreWhole == Trail!TrailIsWhole /\ Alarms!TypeOK /\ Alarms!TimelineTells

\* internal/media: however completions and deletions overlap, an asset that is
\* decided can only be deleted, and a late answer of the scanner does not bring
\* back what was deleted.
DecidedStays == Uploads!DecidedStays

\* internal/identity: the Postgres repository, whose refreshes, replays and
\* revocations run across each other, does what the one in memory does under its
\* mutex (Identity!ImplementsMemory; the other scenarios leave it alone); and only
\* the newest refresh token of a live session is usable.
LoginsAreSound ==
  /\ []Logins!NewestTokenOnly
  /\ Logins!Memory!Init
  /\ [][scenario = "login" => Logins!Memory!Next \/ UNCHANGED Logins!Memory!vars]_mcVars

\* internal/messaging and internal/notification, what is delivered.  The effects of
\* an aggregate's events take place in the order of their versions, none before it
\* was committed, whoever takes over a lease and however often the stream delivers;
\* and a customer gets a message once, and once more at most for every answer that
\* never came and every process that died or overstayed.
DeliveriesAccounted == Bus!AppliedInOrder /\ Notices!SendsAccounted

\* internal/adminops: changes and events are those the service in memory could
\* show (AdminOps!ImplementsMemory); the revision of a target is the number of
\* changes executed on it, none twice, and none of high risk by the one who
\* requested it.
ChangesAreSound ==
  /\ []Changes!EffectsExplained
  /\ Changes!MemoryInit
  /\ [][scenario = "admin" => Changes!MemoryNext \/ UNCHANGED <<adminChange, adminEvents>>]_mcVars

\* internal/configcms: no publication is lost and none publishes what was not
\* approved.
PublishedAsApproved == CMS!PublishedAsApproved

\* internal/customerweb: two requests of one browser never spend the same refresh
\* token, and no login is left that nobody can end, but for crashes, lost answers,
\* leases that were outlived and answers that the handler throws away.
SessionsAccounted == Browsers!TypeOK /\ Browsers!ReuseIsExcused /\ Browsers!NoOrphans

\* internal/food: an order that the restaurant does not answer in time ends once it
\* is on the page the sweeper lists, however often the sweeper is rolled back; the
\* exception is one whose payment was captured after it was made, which no sweep
\* can end and which keeps its place on the page.
UnansweredEnds == Meals!UnansweredEnds

\* internal/messaging, internal/social and internal/configcms: an event in the
\* outbox is published or given up and a queued reward is settled, whichever worker
\* dies with it in hand; and a reader does not keep an outdated copy for ever.
BehindCatchesUp == Bus!OutboxSettles /\ Rewards!RewardsSettle /\ CMS!StaleEnds
=============================================================================
