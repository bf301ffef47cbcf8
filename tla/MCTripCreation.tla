--------------------------- MODULE MCTripCreation ---------------------------
EXTENDS TripCreation, TLC

\* Media and pins are interchangeable, where no liveness is checked.
Symmetric == Permutations(Media) \cup Permutations(Pin)
=============================================================================
