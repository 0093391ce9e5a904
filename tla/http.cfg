\* Three e-mails and two events in one tick; every request of MCHttp; two attempts, and
\* one more after a crash.
SPECIFICATION PartsSpec
CONSTANTS
  Emails = {1, 2, 3}
  EmailQueries <- Queries
  EventQueries <- QueriesOfEvents
  DEFAULT_LIMIT = 1
  MAX_LIMIT = 2
  MaxTime = 1
  MaxEvents = 2
  EventTypes <- SomeTypes
  None = None
  Requests <- All
  ApiKey = "key"
  MAX_ATTACHMENTS_PER_EMAIL = 2
  MAX_ATTACHMENT_BYTES = 2
  MAX_ENVELOPE_BYTES = 2
  MAX_EMAILS_PER_BATCH = 3
  Reported = {"e1"}
  Senders = {"s1"}
  MAX_ATTEMPTS = 2
  MaxAttempts = 3
CHECK_DEADLOCK FALSE
INVARIANTS PagingIsSound  ListedIsTrue
