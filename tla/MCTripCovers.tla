---------------------------- MODULE MCTripCovers ----------------------------
(* The instance of TripCovers for TLC: handlers, keys of covers, and photos *)
(* are interchangeable.                                                     *)
EXTENDS TripCovers, TLC

Symmetric == Permutations(Handler) \cup Permutations(Key) \cup Permutations(Photo)
=============================================================================
