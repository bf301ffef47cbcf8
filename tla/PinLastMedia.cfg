SPECIFICATION Spec
CONSTANTS
  Session = {}
  Media = {m1, m2}
  Pin = {p1}
  Handler = {h1, h2}
  Worker = {w1}
  NoSession = NoSession
  NoPin = NoPin
  SeedPin = p1
  SeedMedia = {m1, m2}
  Ops = {"remove"}
  MaxMediaPerTrip = 2
  MaxDeliver = 1
  MaxFaults = 0
  FaultKinds = {}
INVARIANTS NoEmptyPin
CHECK_DEADLOCK FALSE
