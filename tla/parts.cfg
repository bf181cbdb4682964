CONSTANTS
  t1 = t1
  t2 = t2
  t3 = t3
  l1 = l1
  l2 = l2
  k1 = k1
  Tasks = {t1, t2, t3}
  Lanes = {l1, l2}
  Keys = {k1}
  NoKey = nokey
  NoTask = notask
  LaneOf <- MCLaneOf
  KeyOf <- MCKeyOf
  AdoptionHeld = {t1}
  MaxAccepted = 2
  Cancellable = {t1}
  Runtime = runtime
  Nobody = nobody
  Scopes = {s1, s2, s3}
  Handles = {h1}
  Reporters = {r1, r2}
  Owner = owner
  MaxReports = 4
  Observers = {o1, o2}
  MaxSnapshots = 3
  Ranks = {0, 1, 2}
  Interval = 2
  MaxJobs = 3
  MaxTime = 4
  CacheCount = 3
  Batched = {1}
  Deferred = {3}
  Priority <- MCPriority
  Weight <- MCWeight
  Sizes = {1}
  Budgets = {2, 3}
  MaxBytes = 3
  MaxAttempts = 1
  MaxCalls = 1
  Images = {i1, i2}
  NoImage = noimage
  Limits = {1, 2}
  MaxNative = 2
SPECIFICATION PartsSpec
INVARIANTS
  PartsTypeOK
  PlacesAndKeysAreExact
  NothingEscapesClose
  ScopesRetainedWhileOpen
  ReferencesAreTruthful
PROPERTIES
  LanesKeepTheirPromise
  ShutdownReturns
  ShutdownReachesEverything
  ChannelsCoalesce
  NewestArrives
  OvertakenBriefly
  DebtorsPay
  PressureIsRelieved
  RequestsSettle
  SessionIsEmptied
CHECK_DEADLOCK FALSE
