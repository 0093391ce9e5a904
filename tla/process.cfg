\* All five tasks, a thread of the blocking pool; two edits of the settings; a collector that answers in the end;
\* two outages and back of a queue on NATS, with work that leaves the probe a
\* connection; two sampled entries, each claimed twice at most; two events of a task,
\* published to the storage, the webhook and NATS.
SPECIFICATION PartsSpec
CONSTANTS
  Optional = {"inbound", "sampler"}
  Capacity <- Two
  MaxThreads = 1
  None = None
  Bases <- MinimalAndFull
  Choices <- AllChoices
  MaxEdits = 2
  Numbers = {"0", "7"}
  Split <- Lists
  Account <- Accounts
  Fragment <- Fragments
  Loopback <- Loopbacks
  Hangs = FALSE
  Backend = "nats"
  Pool = 2
  Work = 1
  AcquireTimeout = 2
  RequestTimeout = 4
  ClientTimeout = 3
  MaxOutages = 4
  Backends = {"sqlite", "postgres", "memory"}
  Entries = {"e1", "e2"}
  ClaimFor = 2
  RetryAfter = 1
  MaxTime = 4
  MaxClaims = 2
  MaxFaults = 1
  Publishers = {"task"}
  Script <- OneTask
  WithWebhook = TRUE
  WithNats = TRUE
  Tries = 2
CHECK_DEADLOCK FALSE
INVARIANTS SetMeansUsed EventsInOrder
PROPERTIES LifeInOrder SignalsAreTrue ProcessResponds
