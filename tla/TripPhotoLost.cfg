\* A photo became the cover in a review; then a client brings its own cover.
SPECIFICATION Spec
CONSTANTS
  Handler = {h1}
  Key = {k1}
  Photo = {p1}
  NoKey = NoKey
  Mixes = {{"confirm", "review"}}
  MaxFaults = 0
SYMMETRY Symmetric
INVARIANTS PhotosKept
CHECK_DEADLOCK FALSE
