\* One request at a time, all operations, every choice of who acts.
SPECIFICATION Spec
CONSTANTS
  User = {u1, u2, u3}
  Handler = {h1}
  Trip = t
  Photo = {}
  NoUser = NoUser
  Ops = {"create", "join", "privacy", "update", "publish", "save", "delete", "leave", "remove", "transfer"}
  MaxEvents = 1
  MaxFaults = 0
SYMMETRY Symmetric
INVARIANT OneAdmin
PROPERTY SavedSurvives
CHECK_DEADLOCK FALSE
