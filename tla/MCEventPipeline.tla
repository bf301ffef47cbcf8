--------------------------- MODULE MCEventPipeline ---------------------------
EXTENDS EventPipeline, TLC

\* Every city is in the one country.
InOneCountry == [c \in City |-> CHOOSE k \in Country : TRUE]

\* The winners of a battle are interchangeable, and so are requests.
Symmetric == Permutations(Media) \cup Permutations(Handler)
=============================================================================
