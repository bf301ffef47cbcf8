SPECIFICATION Spec
CONSTANTS
  Session = {s1}
  Media = {m0, m1}
  Pin = {p0, p1}
  User = {u1}
  Handler = {h1}
  Cron = Cron
  NoSession = NoSession
  NoPin = NoPin
  NoUser = NoUser
  SeedPin = p0
  SeedMedia = {m0}
  LooseMedia = {}
  Ops = {"start", "commit", "group", "apply", "confirm", "cancel"}
  MaxMediaPerTrip = 2
  MaxDeliver = 1
  MaxFaults = 0
  FaultKinds = {}
INVARIANT NewPinsReachML
CHECK_DEADLOCK FALSE
