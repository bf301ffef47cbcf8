SPECIFICATION Spec
CONSTANTS
  Session = {s1}
  Media = {m1}
  Pin = {p1, p2}
  Handler = {h1, h2}
  Worker = {w1}
  NoSession = NoSession
  NoPin = NoPin
  SeedPin = NoPin
  SeedMedia = {}
  Ops = {"start", "commit", "process", "finalize"}
  MaxMediaPerTrip = 2
  MaxDeliver = 1
  MaxFaults = 0
  FaultKinds = {}
INVARIANTS NoEmptyPin
CHECK_DEADLOCK FALSE
