\* Requests of every kind one after the other, or confirmations, deletions and
\* removals of photos at once.
SPECIFICATION Spec
CONSTANTS
  Handler = {h1, h2, h3}
  Key = {k1, k2, k3}
  Photo = {p1}
  NoKey = NoKey
  Mixes = {{"serial", "confirm", "delete", "update", "review", "remove"},
           {"confirm", "delete", "remove"}}
  MaxFaults = 1
SYMMETRY Symmetric
INVARIANTS CoverExists CoverStays
CHECK_DEADLOCK FALSE
