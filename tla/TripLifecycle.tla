--------------------------- MODULE TripLifecycle ---------------------------
(***************************************************************************)
(* What the creation of a trip promises its participants: photos are       *)
(* added first, then grouped into pins, then the trip is processed and     *)
(* reviewed, and once it is ready the creation flow touches it no more,    *)
(* unless it was finished just when its review was about to begin: then    *)
(* the review may still come, and the trip is finished again.              *)
(* A photo may be dropped while it is grouped or reviewed, and is moved    *)
(* between pins only while it is grouped.                                  *)
(***************************************************************************)
CONSTANTS Media, Pin, NoPin

VARIABLES stage,  \* how far the trip has come
          photos, \* the media of the trip
          pinOf   \* the pin of each photo
lifecycleVars == <<stage, photos, pinOf>>

LifecycleInit ==
  /\ stage = "collecting"
  /\ photos = {}
  /\ pinOf = [m \in Media |-> NoPin]

\* Photos come in, loose.
Collect ==
  /\ stage = "collecting"
  /\ photos \subseteq photos'
  /\ UNCHANGED <<stage, pinOf>>

\* Photos are dropped, from their pins too.
Drop ==
  /\ stage \in {"grouping", "processing", "review"}
  /\ photos' \subseteq photos
  /\ pinOf' = [m \in Media |-> IF m \in photos' THEN pinOf[m] ELSE NoPin]
  /\ UNCHANGED stage

\* Photos are put in a pin.
Attach(p) ==
  /\ stage = "grouping"
  /\ \E ms \in SUBSET photos : pinOf' = [m \in Media |-> IF m \in ms THEN p ELSE pinOf[m]]
  /\ UNCHANGED <<stage, photos>>

\* The stages, in order; a client may finish without waiting for the review, which
\* may then overtake it.
Advance(from, to) ==
  /\ stage = from /\ stage' = to
  /\ UNCHANGED <<photos, pinOf>>

LifecycleNext ==
  \/ Collect \/ Drop
  \/ \E p \in Pin : Attach(p)
  \/ Advance("collecting", "grouping")
  \/ Advance("grouping", "processing")
  \/ Advance("processing", "review")
  \/ Advance("processing", "ready")
  \/ Advance("processing", "overtaken")
  \/ Advance("overtaken", "review")
  \/ Advance("overtaken", "ready")
  \/ Advance("review", "ready")

Lifecycle == LifecycleInit /\ [][LifecycleNext]_lifecycleVars
=============================================================================
