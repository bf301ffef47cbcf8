SPECIFICATION Spec
CONSTANTS
  Session = {s1, s2}
  Media = {m0, m1, m2}
  Pin = {p0, p1}
  User = {u1, u2}
  Handler = {h1}
  Cron = Cron
  NoSession = NoSession
  NoPin = NoPin
  NoUser = NoUser
  SeedPin = p0
  SeedMedia = {m0}
  LooseMedia = {}
  Ops = {"start", "commit", "group", "addMore", "apply", "takeover", "confirm", "cancel"}
  MaxMediaPerTrip = 3
  MaxDeliver = 1
  MaxFaults = 1
  FaultKinds = {"ml"}
SYMMETRY Symmetry
INVARIANTS CancelUndoes DraftsAreOpen
CHECK_DEADLOCK FALSE
