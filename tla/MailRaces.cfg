\* One message, two request threads, crashes and failed passes; seven mailboxes with up to
\* two mails and an own one, and up to three passes.
SPECIFICATION MailSpec
CONSTANTS
  Messages = {1}
  Requests = {r1, r2}
  Limit = 1
  MAX_RETRIES = 2
  MaxRequests = 2
  MaxFaults = 1
  m1 = m1
  m2 = m2
  Mails = {m1, m2}
  Unlabelled = {m2}
  Own = {o1}
  Gone = gone
  Window = 1
  Cases <- MCCases
CHECK_DEADLOCK FALSE
SYMMETRY Symmetry
INVARIANTS
  DeliveriesExplained
  SmtpBudget
  SendingInFlight
  MirrorExplained
  TwiceExplained
  CountsExplained
