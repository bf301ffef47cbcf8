\* One client at a time, the ML consumer, the gateway and a fault.
SPECIFICATION FairSpec
CONSTANTS
  Media = {m1, m2}
  Pin = {p1, p2}
  Handler = {h1}
  Client = {c1}
  NoPin = NoPin
  Ops = {"group", "apply", "finalize", "addMedia"}
  Modes = {"ml", "sync"}
  MaxMediaPerTrip = 2
  MaxFaults = 1
  MaxEvents = 2
INVARIANT ReviewedPinsAreFull
PROPERTIES UserNameKept CompletedIsTrue ImplementsLifecycle ClientLearns
CHECK_DEADLOCK FALSE
