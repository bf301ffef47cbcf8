\* The trip is saved while its last participant deletes it.
SPECIFICATION Spec
CONSTANTS
  User = {u1, u2}
  Handler = {h1, h2}
  Trip = t
  Photo = {}
  NoUser = NoUser
  Ops = {"create", "privacy", "publish", "save", "delete"}
  MaxEvents = 1
  MaxFaults = 0
SYMMETRY Symmetric
PROPERTY SavedSurvives
CHECK_DEADLOCK FALSE
