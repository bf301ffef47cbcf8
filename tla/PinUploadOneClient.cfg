SPECIFICATION Spec
CONSTANTS
  Session = {s1, s2}
  Media = {m0, m1, m2}
  Pin = {p1, p2}
  Handler = {h1}
  Worker = {w1}
  NoSession = NoSession
  NoPin = NoPin
  SeedPin = p1
  SeedMedia = {m0}
  Ops = {"start", "urls", "commit", "process", "finalize", "cancel", "remove", "update", "delete", "trip"}
  MaxMediaPerTrip = 3
  MaxDeliver = 1
  MaxFaults = 0
  FaultKinds = {}
INVARIANTS NoEmptyPin CountAccurate ClosedHasNoOrphans

CHECK_DEADLOCK FALSE
