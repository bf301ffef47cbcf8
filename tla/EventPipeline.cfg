\* Two requests at once, both consumers, one fault.
SPECIFICATION FairSpec
CONSTANTS
  User = {u1, u2}
  Handler = {h1, h2}
  Pin = {p1}
  Media = {m1, m2}
  Battle = {b1}
  City = {c1}
  Country = {k1}
  CountryOf <- InOneCountry
  NoUser = NoUser
  NoPlace = NoPlace
  NoBattle = NoBattle
  NoMedia = NoMedia
  Mixes = {{"react", "battle"}, {"react", "leave"}, {"pin", "trip", "delete"},
           {"pin", "trip", "delete", "leave", "race"}}
  MaxEvents = 3
  MaxFaults = 1
INVARIANTS CountsMatch StatsSettle BattleCountedOnce
PROPERTIES NamesArrive DeletionForgets
CHECK_DEADLOCK FALSE
