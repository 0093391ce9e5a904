\* One process with two permits, two e-mails of which one has no route, one fault.
CONSTANTS
  e1 = e1
  e2 = e2
  b1 = b1
  b2 = b2
  Emails = {e1, e2}
  Times = {1, 2}
  Processes = {p1}
  CONCURRENCY = 2
  MAX_ATTEMPTS = 2
  Blobs = {b1, b2}
  Attached <- TwoAttached
  Routable = {e1}
  MaxFaults = 1
  NoEmail = NoEmail
SPECIFICATION Spec
CHECK_DEADLOCK FALSE
INVARIANTS PermitsConserved
