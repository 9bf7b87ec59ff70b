\* The components whose progress hangs on a loop: one event, two dispatchers and one
\* consumer; the settings, one publication at a time and two readers; one rewarded event
\* and one worker that may die.
CONSTANTS
  Scenarios = {"food", "events", "cms", "rewards"}
  RewardEvents = {"e"}
  Workers = {"w"}
  MediaJobs = {"m", "n"}
  Moderators = {"p", "q"}
  Stories = {"c", "d"}
  Posts = {"s"}
  Pair = {"a", "b"}
  MaxSent = 1
  MaxSignals = 1
  Parties = {"c", "v"}
  Riders = {"r"}
  Operators = {"o"}
  Messages = {"m"}
  Homes = {"h"}
  Listings = {"l"}
  Customers = {"c", "d"}
  Threshold = 2
  MaxListingRevision = 4
  Assets = {"a"}
  Calls = {"c", "d"}
  MaxVersion = 4
  Members = {"a", "b"}
  Private = {"b"}
  Updates = {"p"}
  AuthorOf <- OneAuthor
  Channels = {"x"}
  MaxPostRevision = 3
  Identities = {"i"}
  LoginSessions = {"s"}
  IdentityOf <- OneIdentity
  Purposes = {"p"}
  MaxTokenRotation = 2
  MaxProfileVersion = 1
  LoginRequests = {"t", "u"}
  Admins = {"a", "b"}
  CapabilitiesOf <- Capabilities
  AdminChanges = {"u", "v", "x", "y"}
  RequesterOf <- Requesters
  CommandOf <- Commands
  AdminPosts = {}
  AdminCalls = {1, 2}
  Dispatchers = {"w", "x"}
  MaxAttempts = 2
  Devices <- TwoDevices
  Purpose = "TRANSACTIONAL"
  Consented = FALSE
  Loops = {"l"}
  MaxClaims = 2
  MaxFaults = 2
  Last = 1
  Handlers = {"g"}
  MaxFailures = 3
  Pages = {}
  Contents = {"x"}
  Publishers = {"k"}
  Readers = {"g", "h"}
  MaxRevision = 2
  MaxLogins = 2
  MaxCookies = 2
  MaxRotation = 1
  WebRequests = {"r", "s"}
SPECIFICATION MCFairSpec
PROPERTIES
  UnansweredEnds
  BehindCatchesUp
CHECK_DEADLOCK FALSE
