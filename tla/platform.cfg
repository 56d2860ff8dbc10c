SPECIFICATION PlatformSpec
CONSTANTS
  Emitters = {"e1", "e2", "e3"}
  Contents = {c1, c2}
  Genesis = genesis
  QuietSpells = FALSE
  MaxEvents = 4
  Manifests <- SmallManifests
  Depth = 2
  Budget = 2
  MaxRan = 3
  MaxResumes = 2
  MaxThrows = 1
  Hosts = {"listed", "outside", "inner"}
  Connector = "connector"
  Allowed = {"listed"}
  Private = {"inner"}
  WithConnector = TRUE
  MaxRedirects = 2
  AttemptLimits = {1, 2}
  t1 = t1
  t2 = t2
  q1 = q1
  q2 = q2
  payer = payer
  closer = closer
  Owner = payer
  Closer = closer
  Tickers = {t1, t2}
  Requests = {q1, q2}
  Payloads = {1}
  RunLimit = 1
  ConcurrencyLimit = 1
  MaxTime = 1
  MaxPeriods = 1
  MaxPlanChanges = 1
  Casts <- IntakeCasts
  RunIds = {"m1"}
  Period = 2
  Month = 2
  HistoryDays = 1
  JobAttempts = 2
  MaxDay = 4
  Seeded <- EachJob
  MaxUsers = 2
  MaxSpaces = 2
  Busy = {1}
  Roles = {"owner", "admin"}
  Handlers = {"h1"}
  InviteIds = {"i1"}
  MaxTokens = 1
  Editors = {"e1"}
  WorkflowNames = {"a"}
  Drafts <- TwoDrafts
  Credentials = {"c"}
  NoPath = NoPath
  Keep = Keep
  MaxWorkflows = 1
  MaxVersions = 2
  MaxTriggers = 2
  AskedPaths <- SecondPath
  Puts <- SavesAndDisables
  Logins = {"l1", "l2"}
  Callbacks = {"c1", "c2"}
  MaxFailures = 3
  Window = 2
  MaxTries = 5
  MaxClock = 5
  States = {"s1", "s2"}
  Codes = {"x1", "x2"}
  Clients = {"k1"}
  Subjects = {"p", "q"}
  Emails = {"e1", "e2"}
  Alphabets <- ReadAlphabets
  MaxSymbols = 6
  MaxLength = 5
  MaxRecursion = 2
  Values <- SomeValues
  Schedules <- FewSchedules
  MinutesInHour = 2
  HoursInDay = 2
  DaysInWeek = 3
  MonthLengths <- Months
  SearchDays = 12
  LastInstant = 80
  TriggerLists <- SomeTriggers
  InputLists <- SomeInputs
  MAX_NESTING_DEPTH = 2
  MaxSteps = 3
  Servers = {"s1", "s2"}
  Workers = {"w"}
  Migrations <- TwoFiles
  Examples <- OneExample
  SeedsDemo = TRUE
  MaxBoots = 3
  MaxMishaps = 1
  Runs = {"r1"}
  NoRun = "norun"
  ListPages = {"approvals", "workflow"}
  MaxRows = 1
  MaxTasks = 2
  MaxChains = 0
  Names = {"a-b", "a--b"}
  Clean <- DoubleDash
  Broken = "broken"
  MaxHosted = 3
  MaxCommands = 4
  MaxWebEdits = 2
  ListLimit = 3
  MaxDated = 3
  Polls = {1, 2}
  Fleet = {1, 2}
  Plans = {"pro"}
  Releases = {1, 2}
  Grants <- FeatureDropped
  TTL = 1
VIEW Seen
INVARIANT ChainVerifies TamperingShows
  SucceededOnce WalkedInOrder OneBranch EndsAreRecorded LocalAgrees
  RequestsAccountedFor
  OvershootBounded OneRunPerCause
  
   AccessFollowsMembership
  
  LockIsEarned SignInsAreOneUsers
  
  FiresWhenItSays
  AcceptedCanRun
  
  
  OnlyBackdatedMissed
PROPERTY ImplementsLog KnownFilesAreVersioned GrantsAreRecent
CHECK_DEADLOCK FALSE
