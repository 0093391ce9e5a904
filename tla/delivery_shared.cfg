\* Two processes on one storage, one e-mail with two attachments, two faults, under fairness.
CONSTANTS
  e1 = e1
  e2 = e2
  b1 = b1
  b2 = b2
  Emails = {e1}
  Times = {1, 2}
  Processes = {p1, p2}
  CONCURRENCY = 1
  MAX_ATTEMPTS = 3
  Blobs = {b1, b2}
  Attached <- OneAttached
  Routable = {e1}
  MaxFaults = 2
  NoEmail = NoEmail
SPECIFICATION FairSpec
CHECK_DEADLOCK FALSE
INVARIANTS TypeOK NothingLost QueuedKeepsAttachments TerminalEventsTrue RepeatsBounded OneOutcome
PROPERTIES KeepsPromise Settles
