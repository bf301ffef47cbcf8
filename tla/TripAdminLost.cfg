\* Two participants leave at once.
SPECIFICATION Spec
CONSTANTS
  User = {u1, u2, u3}
  Handler = {h1, h2}
  Trip = t
  Photo = {}
  NoUser = NoUser
  Ops = {"create", "join", "leave"}
  MaxEvents = 1
  MaxFaults = 0
SYMMETRY Symmetric
INVARIANT OneAdmin
CHECK_DEADLOCK FALSE
