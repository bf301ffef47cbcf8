SPECIFICATION Spec
CONSTANTS
  Session = {s1, s2}
  Media = {m0, m1, m2}
  Pin = {p1}
  Handler = {h1, h2}
  Worker = {w1}
  NoSession = NoSession
  NoPin = NoPin
  SeedPin = p1
  SeedMedia = {m0}
  Ops = {"start", "commit"}
  MaxMediaPerTrip = 2
  MaxDeliver = 1
  MaxFaults = 0
  FaultKinds = {}
INVARIANTS TripWithinLimit
CHECK_DEADLOCK FALSE
