\* A participant adds media a second time within an hour.
SPECIFICATION Spec
CONSTANTS
  Media = {m1}
  Pin = {p1}
  Handler = {h1}
  Client = {c1}
  NoPin = NoPin
  Ops = {"group", "apply", "finalize", "addMedia"}
  Modes = {"ml"}
  MaxMediaPerTrip = 2
  MaxFaults = 0
  MaxEvents = 2
PROPERTY CompletedIsFresh
CHECK_DEADLOCK FALSE
