\* A trip is finalized while its ML result is about to bring the review.
SPECIFICATION Spec
CONSTANTS
  Media = {m1, m2}
  Pin = {p1, p2}
  Handler = {h1}
  Client = {c1}
  NoPin = NoPin
  Ops = {"group", "apply", "finalize"}
  Modes = {"ml"}
  MaxMediaPerTrip = 2
  MaxFaults = 0
  MaxEvents = 2
SYMMETRY Symmetric
PROPERTY ReadyIsKept
CHECK_DEADLOCK FALSE
