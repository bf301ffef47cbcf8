---------------------------- MODULE MCTripAccess ----------------------------
(* The instance of TripAccess for TLC: handlers and users are interchangeable. *)
EXTENDS TripAccess, TLC

Symmetric == Permutations(Handler) \cup Permutations(User)
=============================================================================
