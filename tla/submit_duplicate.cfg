\* A resubmission is answered with an e-mail that is never queued.
CONSTANTS
  r1 = r1
  r2 = r2
  b1 = b1
  b2 = b2
  b3 = b3
  k = k
  NoKey = NoKey
  NoRequest = NoRequest
  Requests = {r1, r2}
  Blobs = {b1, b2, b3}
  Key <- OneKey
  Uploads <- TwoUploads
SPECIFICATION Spec
CHECK_DEADLOCK FALSE
INVARIANTS DuplicateIsQueued
