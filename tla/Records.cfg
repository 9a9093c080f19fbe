SPECIFICATION Spec
CONSTANTS
  c1 = c1  c2 = c2
  MaxClicks = 1
  Seeders <- TwoCalls
  AskedIds <- TwoCards
  MaxWords = 4
  BirthYears <- FourYears
  Callers <- TwoCalls
  Inputs <- FiveInputs
  MaxCommits = 2
  Clients <- TwoCalls
  MaxContacts = 2
  MaxDecisions = 2
  Limit = 2
  Amounts = {1}
  MaxRecords = 3
  Users <- TwoCalls
  ScriptRuns <- TwoCalls
  AccessLife = 1
  RefreshLife = 2
  MaxDays = 2
  MaxTries = 2
  MaxEvents = 4
  Services <- TwoCalls
  TtlSeconds = 1
  MaxSkew = 1
  MaxSeconds = 3
  MaxTokens = 2
CHECK_DEADLOCK FALSE
INVARIANTS
  RecordsAllTypeOK
  ScreenFollowsItsCalls
  
  SeedsWhole
  ProfilesFollowTheDate
  EventsTellTheRow
  RelationsHold
  LedgerIsRight
  RequestsAreAnswered
PROPERTIES
  DistressNeverHides
