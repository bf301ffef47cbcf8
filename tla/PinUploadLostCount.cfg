SPECIFICATION Spec
CONSTANTS
  Session = {s1}
  Media = {m1, m2}
  Pin = {p1}
  Handler = {h1, h2}
  Worker = {w1}
  NoSession = NoSession
  NoPin = NoPin
  SeedPin = p1
  SeedMedia = {m1, m2}
  Ops = {"update", "remove"}
  MaxMediaPerTrip = 3
  MaxDeliver = 1
  MaxFaults = 0
  FaultKinds = {}
INVARIANTS CountAccurate
CHECK_DEADLOCK FALSE
