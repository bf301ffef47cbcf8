\* Two failures of any kind, anywhere: a lost task, a dead consumer, a request half-way.
SPECIFICATION FairSpec
CONSTANTS
  Session = {s1, s2}
  Media = {m1}
  Pin = {p1}
  Handler = {h1}
  Worker = {w1}
  NoSession = NoSession
  NoPin = NoPin
  SeedPin = NoPin
  SeedMedia = {}
  Ops = {"start", "urls", "commit", "process", "cancel", "cleanup"}
  MaxMediaPerTrip = 2
  MaxDeliver = 1
  MaxFaults = 2
  FaultKinds = {"handler", "error", "crash", "ml"}
PROPERTY AbandonedIsClosed
CHECK_DEADLOCK FALSE
