\* Two puts, every backend of the attachments, two power losses; limits up to the one
\* whose successor is no word; both databases, every queue, a directory and a bucket
\* with two prefixes, and three starts of the program.
SPECIFICATION PartsSpec
CONSTANTS
  Puts = {k1, k2}
  Backends = {"fs", "s3", "redis"}
  MaxCrashes = 2
  None = None
  Hosts = {"a", "b"}
  WordSize = 8
  Limits = {0, 1, 4, 6}
  Sizes <- Words
  Emails = {"e1"}
  Databases = {"sqlite", "postgres"}
  Queues = {"storage", "memory", "nats"}
  Stores <- DirOrBucket
  Backend <- BackendOf
  Space <- SpaceOf
  Prefix <- PrefixOf
  MAX_ATTEMPTS = 2
  MaxStarts = 3
CHECK_DEADLOCK FALSE
INVARIANTS BlobsAreWhole FetchIsSound WaitingIsReadable
PROPERTIES LeftBehindCollected
