\* No fault at all: the status is not the outcome.
CONSTANTS
  e1 = e1
  e2 = e2
  b1 = b1
  b2 = b2
  Emails = {e1}
  Times = {1, 2}
  Processes = {p1}
  CONCURRENCY = 1
  MAX_ATTEMPTS = 3
  Blobs = {b1}
  Attached <- OneAttached
  Routable = {e1}
  MaxFaults = 0
  NoEmail = NoEmail
SPECIFICATION Spec
CHECK_DEADLOCK FALSE
INVARIANTS StatusIsOutcome
