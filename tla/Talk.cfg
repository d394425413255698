\* Notifications (2 people, 1 banner, 1 push, 1 schedule) and conversations
\* (4 people, 2 conversations, 3 messages, 3 ballots, 3 changes of a task).
SPECIFICATION Spec
CONSTANTS
  Folk = {u1, u2}
  Orgs = {1, 2}
  NoOrg = 0
  Directories <- MCDirectories
  Assignments <- MCAssignments
  EventConfigs <- MCEventConfigs
  Pushes = {p1}
  Banners = {b1}
  Writers = {w1, w2}
  NoSet = NoSet
  MaxWrites = 3
  Schedules = {s1}
  Ticks = {t1, t2}
  Clerks = {c1}
  LastDay = 1
  MaxEdits1 = 2
  MaxTickFaults = 1
  Members = {1, 2, 3, 4}
  OrgOf <- MCOrgOf
  NoTenant = 0
  Supers = {1}
  Bot = 4
  Teams = {t1}
  TeamOrg <- MCTeamOrg
  Callers = {c1, c2}
  MaxRooms = 2
  Readers = {u1, u2}
  Helper = bot
  MaxMessages = 3
  Voters = {v1, v2}
  Options = {o1, o2}
  MaxBallots = 3
  MaxMoves = 3
CHECK_DEADLOCK FALSE
INVARIANTS
  StaysInTenant
  FeedExplained
  FiredOnceExplained
  CancelHolds
  DoubledByRaceOnly
  RoomsStayInTenant
  SingleChoice
PROPERTIES
  NewIsUnread
