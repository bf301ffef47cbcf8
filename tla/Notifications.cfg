\* Accounts, pushes about a trip and the days of the scheduler, each with its failures.
SPECIFICATION FairSpec
CONSTANTS
  u1 = u1
  a1 = a1
  t1 = t1
  User = {u1, u2}
  Address = {a1, a2}
  Ticket = {t1, t2, t3}
  Token = {k1, k2}
  Handler = {h1, h2}
  NoUser = NoUser
  NoAddress = NoAddress
  NoTicket = NoTicket
  Mixes <- MCMixes
  MaxFaults = 1
  Device = {d1}
  NoDevice = NoDevice
  MaxEvents = 2
  Day = 4
  Tick = 2
  Anniversary = 1
  Horizon = 9
INVARIANTS EmailProven SessionIsOwners
PROPERTIES PushedOnce RemovedIsTold CodesArrive
CHECK_DEADLOCK FALSE
