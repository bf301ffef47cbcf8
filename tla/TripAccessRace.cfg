\* Two requests at once, the worker and the ML service; no whole-row UPDATE.
SPECIFICATION Spec
CONSTANTS
  User = {u1, u2}
  Handler = {h1, h2}
  Trip = t
  Photo = {p}
  NoUser = NoUser
  Ops = {"create", "join", "privacy", "nsfw"}
  MaxEvents = 2
  MaxFaults = 1
SYMMETRY Symmetric
INVARIANTS TypeOK LevelSettles PublicByConsent
CHECK_DEADLOCK FALSE
