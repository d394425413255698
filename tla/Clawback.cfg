\* The clawback modules side by side.
SPECIFICATION Spec
CONSTANTS
  CaseRules <- MCCaseRules
  CaseItems <- MCCaseItems
  CaseWorkingDays <- MCCaseWorkingDays
  CaseDays <- MCCaseDays
  Clawbacks <- MCClawbacks
  Rules <- MCRules
  FirstItem <- MCFirstItem
  LaterItems <- MCLaterItems
  WorkingDays <- MCWorkingDays
  Days = {7}
  Hours = {10, 12, 23}
  Cutoff = 23
  QuietStart = 21
  QuietEnd = 8
  PartSize = 1
  MaxMoves = 1
  MaxFaults = 1
  Admins = {a1, a2}
  Windows <- MCWindows
  Defaults <- MCDefaults
  MaxRules = 4
  MaxRequests = 4
  DigestRules <- MCDigestRules
  Below <- MCBelow
  Parts2 = {"boss", "owner"}
  DigestHours = {9, 10, 19}
  QuietFrom = 21
  EodHour = 19
  MaxDigestFaults = 2
  Texts = {t1, t2}
  Reviews = {"approved", "rejected", "disabled"}
  MaxEdits = 3
\* Days end, requests run out, and a case is one step.
CHECK_DEADLOCK FALSE
INVARIANTS
  CatchUpComplete
  OverlapExact
  TwiceOnlyIfMoved
  SilentOnlyIfLate
  OverlapOnlyByRace
  DigestsExplained
  TemplatesExplained
PROPERTIES
  SettledStays
  PendingEnds
