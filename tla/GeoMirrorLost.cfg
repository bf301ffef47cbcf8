\* The answer lists a city before its country.
SPECIFICATION Spec
CONSTANTS
  User = {u1, u2}
  Handler = {h1, h2}
  Pin = {p1}
  Media = {m1, m2}
  Battle = {b1}
  City = {c1}
  Country = {k1}
  CountryOf <- InOneCountry
  NoUser = NoUser
  NoPlace = NoPlace
  NoBattle = NoBattle
  NoMedia = NoMedia
  Mixes = {{"pin"}}
  MaxEvents = 3
  MaxFaults = 0
INVARIANT ReplicaComplete
CHECK_DEADLOCK FALSE
