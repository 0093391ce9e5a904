\* One crash: a given-up e-mail is never announced.
CONSTANTS
  e1 = e1
  e2 = e2
  b1 = b1
  b2 = b2
  Emails = {e1}
  Times = {1, 2}
  Processes = {p1}
  CONCURRENCY = 1
  MAX_ATTEMPTS = 3
  Blobs = {b1}
  Attached <- OneAttached
  Routable = {e1}
  MaxFaults = 1
  NoEmail = NoEmail
SPECIFICATION Spec
CHECK_DEADLOCK FALSE
INVARIANTS FailureIsAnnounced
