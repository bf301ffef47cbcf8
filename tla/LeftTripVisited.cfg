\* The last participant leaves.
SPECIFICATION Spec
CONSTANTS
  User = {u1, u2}
  Handler = {h1, h2}
  Pin = {p1}
  Media = {m1, m2}
  Battle = {b1}
  City = {c1}
  Country = {k1}
  CountryOf <- InOneCountry
  NoUser = NoUser
  NoPlace = NoPlace
  NoBattle = NoBattle
  NoMedia = NoMedia
  Mixes = {{"pin", "leave"}}
  MaxEvents = 5
  MaxFaults = 0
INVARIANT DeletedTripNotVisited
CHECK_DEADLOCK FALSE
