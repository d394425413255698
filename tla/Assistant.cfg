\* Each part of the assistant: 3 jobs of 2 companies under a recruiter or an
\* administrator, 1 turn of 2 rounds, 2 turns on a quota, 1 report or alert and
\* 2 workers, 128 small databases with 880 questions each.
SPECIFICATION AssistantSpec
CONSTANTS
  Jobs = {"j1", "j2", "j3"}
  Cands = {"c1", "c2"}
  Firms = {"f1", "f2"}
  AppliedTo <- MCAppliedTo
  FirmOf <- MCFirmOf
  AskerRoles = {"recruiter", "admin"}
  NoScope = NoScope
  ScopeTTL = 2
  LongestTurn = 1
  Pipes = {"p1", "p2"}
  PipeOf <- MCPipeOf
  Squads = {"t1", "t2"}
  MySquads = {"t1"}
  MatesJobs <- MCSquadJobs
  SquadJobs <- MCSquadJobs
  Tools = {"jobs", "job", "week", "month"}
  CardsOf <- MCCardsOf
  Batches <- MCBatches
  MaxIter = 2
  Workers = 2
  Asks = {a1, a2}
  Estimate = 1
  Costs = {1, 3}
  Limits = {2, 4}
  MonthLimits = {3, 5}
  LastDate = 2
  MaxSpent = 5
  Reports = {r1}
  Alerts = {l1}
  Runners = {w1, w2}
  Period = 2
  Horizon = 3
  MaxResumes = 1
  Openings <- MCOpenings
  CompanyOf <- MCCompanyOf
  PlaceOf <- MCPlaceOf
  Applied <- MCApplied
  Assigned <- MCAssigned
  TeamOf <- MCTeamOf
  GivenTo <- MCGivenTo
  Ended <- MCEnded
  StageOf <- MCStageOf
  NULL = NULL
CHECK_DEADLOCK FALSE
INVARIANTS
  ScopeFollows
  CardsInOrder
  QuotaExplained
  ActiveExplained
  FiresExplained
  DistinctCountsExact
PROPERTIES
  ScopeIsBoundedView
