\* A participant renames the trip while another makes it private.
SPECIFICATION Spec
CONSTANTS
  User = {u1, u2}
  Handler = {h1, h2}
  Trip = t
  Photo = {}
  NoUser = NoUser
  Ops = {"create", "privacy", "update"}
  MaxEvents = 2
  MaxFaults = 0
INVARIANT LevelSettles
CHECK_DEADLOCK FALSE
