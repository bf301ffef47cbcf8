----------------------------- MODULE MCPinUpload -----------------------------
(* Instances of PinUpload for TLC.  Each configuration picks the requests    *)
(* clients issue; the rest of the system is always there.                    *)
EXTENDS PinUpload, TLC

\* Uploaded media, requests in flight and consumers are interchangeable.
Symmetry == Permutations(Media \ SeedMedia) \cup Permutations(Handler) \cup Permutations(Worker)
=============================================================================
