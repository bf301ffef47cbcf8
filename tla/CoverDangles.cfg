\* The photo that is the cover is removed, or a replaced key is confirmed again.
SPECIFICATION Spec
CONSTANTS
  Handler = {h1}
  Key = {k1, k2}
  Photo = {p1}
  NoKey = NoKey
  Mixes = {{"confirm", "review", "remove"}}
  MaxFaults = 0
SYMMETRY Symmetric
INVARIANTS CoverShown
CHECK_DEADLOCK FALSE
