----------------------------- MODULE MCAddMedia -----------------------------
(* Instances of AddMedia for TLC.                                            *)
EXTENDS AddMedia, TLC

\* Uploaded media, participants and requests in flight are interchangeable; the
\* cron and the media the trip starts with are not.
Symmetry == Permutations(Media \ SeedMedia) \cup Permutations(User) \cup Permutations(Handler)
=============================================================================
