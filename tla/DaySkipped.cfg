\* The scheduler is restarted between two ticks and a day passes without a run.
SPECIFICATION Spec
CONSTANTS
  u1 = u1
  a1 = a1
  t1 = t1
  User = {u1, u2}
  Address = {a1, a2}
  Ticket = {t1, t2, t3}
  Token = {k1}
  Handler = {h1, h2}
  NoUser = NoUser
  NoAddress = NoAddress
  NoTicket = NoTicket
  Mixes <- MCRestarts
  MaxFaults = 1
  Device = {d1}
  NoDevice = NoDevice
  MaxEvents = 2
  Day = 4
  Tick = 2
  Anniversary = 1
  Horizon = 13
INVARIANT RunsEveryDay
CHECK_DEADLOCK FALSE
