SPECIFICATION FairSpec
CONSTANTS
  Session = {s1, s2}
  Media = {m0}
  Pin = {p0}
  User = {u1}
  Handler = {h1, h2}
  Cron = Cron
  NoSession = NoSession
  NoPin = NoPin
  NoUser = NoUser
  SeedPin = NoPin
  SeedMedia = {m0}
  LooseMedia = {m0}
  Ops = {"start", "group", "cancel", "cleanup"}
  MaxMediaPerTrip = 2
  MaxDeliver = 1
  MaxFaults = 1
  FaultKinds = {"handler", "step", "read"}
INVARIANT OneActive
PROPERTIES AbandonedIsClosed OriginalsKept ClosedIsFinal
CHECK_DEADLOCK FALSE
