\* Two concurrent sends, four sends in all, three routes with a quota of one, one fault; three
\* e-mails over two servers with two faults; two bodies to render, two attempts each.
SPECIFICATION PartsSpec
CONSTANTS
  None = None
  Configs <- ThreeSenders
  Length <- LengthOf
  MaxTime = 3
  MaxEvents = 2
  primary = primary
  backup = backup
  anyone = anyone
  here = here
  elsewhere = elsewhere
  daily = daily
  hourly = hourly
  Slots = {s1, s2}
  Routes = {primary, backup, anyone}
  Domains = {here, elsewhere}
  CatchAll = CatchAll
  Unlimited = Unlimited
  NoRoute = NoRoute
  Domain <- Domain1
  Priority <- Priority1
  Position <- Position1
  Quota <- Quota1
  Window <- Window1
  MaxSends = 4
  MaxFaults = 1
  Emails = {"e1", "e2", "e3"}
  Senders <- TwoServers
  Setup <- SetupOf
  Server <- ServerOf
  From <- FromOf
  Recipients <- RecipientsOf
  Attached <- AttachedTo
  Parsable = {"alice", "bob", "carol", "text/plain"}
  MAX_ATTEMPTS = 3
  MaxSmtpFaults = 2
  NoEmail = NoEmail
  Bodies = {"e1", "e2"}
  Source <- SourceOf
  Parts <- PartsOf
  Files <- FilesOf
  Loaded = {}
  Allowed = {"e2"}
  Includes = {"e2"}
  Spoilt <- SpoiltOf
  Unroutable = {}
  MaxTries = 2
  MaxLapses = 1
CHECK_DEADLOCK FALSE
INVARIANTS OvershootBounded FailsOnlyRefused BypassOnlyWhenAllOver UsageIsTrue SentAsAsked
PROPERTIES SendingSettles
