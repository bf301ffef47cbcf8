SPECIFICATION FairSpec
CONSTANTS
  Session = {s1, s2}
  Media = {m1}
  Pin = {p1}
  Handler = {h1}
  Worker = {w1}
  NoSession = NoSession
  NoPin = NoPin
  SeedPin = NoPin
  SeedMedia = {}
  Ops = {"start", "urls", "commit", "process", "cancel", "cleanup"}
  MaxMediaPerTrip = 2
  MaxDeliver = 1
  MaxFaults = 1
  FaultKinds = {"error", "ml"}
PROPERTIES Processed AbandonedIsClosed
CHECK_DEADLOCK FALSE
