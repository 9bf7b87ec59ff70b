\* One rewarded event and two workers; two uploads, two moderators, two pieces of
\* content and a post that is saved; two people, one message and one signal; the chat
\* of customer, vendor and rider, one message; one home and one listing, withheld at
\* the second report; one asset and two calls on it at a time; one page and the
\* settings, two publications at a time and one reader; two events and two consumers;
\* one session, rotated twice, and two transactions on it; three changes, two of them of
\* one target, and two calls at a time.
CONSTANTS
  Scenarios = {"social", "rewards", "gallery", "talks", "chat", "local", "alarm", "upload", "login", "events", "notices", "admin", "audit", "cms", "web"}
  RewardEvents = {"e"}
  Workers = {"w", "x"}
  MediaJobs = {"m", "n"}
  Moderators = {"p", "q"}
  Stories = {"c", "d"}
  Posts = {"s"}
  Pair = {"a", "b"}
  MaxSent = 1
  MaxSignals = 1
  Parties = {"c", "v"}
  Riders = {"r"}
  Operators = {"o"}
  Messages = {"m"}
  Homes = {"h"}
  Listings = {"l"}
  Customers = {"c", "d"}
  Threshold = 2
  MaxListingRevision = 4
  Assets = {"a"}
  Calls = {"c", "d"}
  MaxVersion = 4
  Members = {"a", "b"}
  Private = {"b"}
  Updates = {"p"}
  AuthorOf <- OneAuthor
  Channels = {"x"}
  MaxPostRevision = 3
  Identities = {"i"}
  LoginSessions = {"s"}
  IdentityOf <- OneIdentity
  Purposes = {"p"}
  MaxTokenRotation = 2
  MaxProfileVersion = 1
  LoginRequests = {"t", "u"}
  Admins = {"a", "b"}
  CapabilitiesOf <- Capabilities
  AdminChanges = {"u", "v", "x", "y"}
  RequesterOf <- Requesters
  CommandOf <- Commands
  AdminPosts = {}
  AdminCalls = {1, 2}
  Dispatchers = {"w", "x"}
  MaxAttempts = 2
  Devices <- TwoDevices
  Purpose = "TRANSACTIONAL"
  Consented = FALSE
  Loops = {"l"}
  MaxClaims = 2
  MaxFaults = 2
  Last = 2
  Handlers = {"g", "h"}
  MaxFailures = 2
  Pages = {"p"}
  Contents = {"x", "y"}
  Publishers = {"k", "l"}
  Readers = {"g"}
  MaxRevision = 2
  MaxLogins = 2
  MaxCookies = 2
  MaxRotation = 1
  WebRequests = {"r", "s"}
SPECIFICATION MCSpec
INVARIANTS
  CountsAgree
  SettledAsCredited
  ModerationHolds
  TrailsAreWhole
  DeliveriesAccounted
  PublishedAsApproved
  
PROPERTIES
  BlocksSilence
  DecidedStays
  LoginsAreSound
  ChangesAreSound
CHECK_DEADLOCK FALSE
