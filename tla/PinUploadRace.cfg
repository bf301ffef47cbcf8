SPECIFICATION Spec
CONSTANTS
  Session = {s1}
  Media = {m0, m1, m2}
  Pin = {p1}
  Handler = {h1, h2}
  Worker = {w1, w2}
  NoSession = NoSession
  NoPin = NoPin
  SeedPin = p1
  SeedMedia = {m0}
  Ops = {"start", "commit", "process", "finalize", "cancel", "remove", "update", "cleanup"}
  MaxMediaPerTrip = 2
  MaxDeliver = 2
  MaxFaults = 1
  FaultKinds = {"handler", "crash"}
SYMMETRY Symmetry
INVARIANTS TypeOK TripWithinLimit AtMostOneTask ProcessingIsOwned
PROPERTIES AttachedIsKept ClosedIsFinal ImplementsLifecycle
CHECK_DEADLOCK FALSE
