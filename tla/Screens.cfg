SPECIFICATION Spec
CONSTANTS
  v1 = v1
  v2 = v2
  v3 = v3
  None = None
  New = New
  Rows = {v1, v2}
  Views = {"users", "mailboxes", "teams", "folders", "rulesets"}
  LastPage = 2
  MaxLoads = 2
  MaxFetches = 3
  MaxRev = 2
  MaxClicks = 3
  Mailboxes = {v1, v2}
  Runs = {1, 2}
  Calls = {1, 2}
  MaxSyncRev = 1
  Messages = {v1, v2, v3}
  Html = {v1, v2}
  Text = {v3}
  MaxOpenings = 3
  MaxRuns = 2
  MaxDeleted = 1
  RulesetIds = {v1, v2}
  MaxIds = 9
  MaxLength = 2
  MaxBad = 1
  MaxVisits = 2
  MaxChecks = 4
  MaxTrips = 5
  MaxChanges = 3
  Domains = {v1, v2}
  MaxActs = 5
  Panels = {v1, v2}
  GroupCount = 3
  MaxLookups = 3
  MaxToggles = 4
SYMMETRY ViewSymmetry
CHECK_DEADLOCK FALSE
INVARIANTS
  DeactivationConfirmed
  SingleSubmission
  ListIsCurrent
  ManageListBelongs
  SyncingMeansRunning
  SyncedWasFlushed
  CacheBelongs
  ReadyIsFresh
  ListSettles
  BodyBelongs
  RemoteOnAsking
  FormBelongs
  NewestEvidence
  RoutingShown
  PanelsAsAsked
  WaitingEnds
