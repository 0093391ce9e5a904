\* Each part with two e-mails or messages and one or two faults; three attempts. Of the
\* e-mails on NATS one has no route; of the messages one has a key, one does not parse.
SPECIFICATION PartsSpec
CONSTANTS
  Emails = {e1, e2}
  Slots = {s1, s2}
  MAX_ATTEMPTS = 3
  Routable = {e1, e2}
  MaxFaults = 2
  NoEntry = NoEntry
  Published = {"n1", "n2"}
  Workers = {"w1", "w2"}
  NoEmail = NoEmail
  MaxDeliver = 3
  Readable = {"n1", "n2"}
  Routed = {"n1"}
  MaxNatsFaults = 2
  Messages = {"m1", "m2"}
  Servers = {"s1", "s2"}
  NoMessage = NoMessage
  Deliveries = 2
  Valid = {"m1"}
  Fetchable = {"m1", "m2"}
  Keyed = {"m1"}
  MaxInFaults = 2
CHECK_DEADLOCK FALSE
INVARIANTS MemorySafe InboundSafe
PROPERTIES KeepsPromise NatsSafe QueuesDecide
