------------------------ MODULE MCPublicationCommand ------------------------
(* Instances of PublicationCommand for TLC. *)
EXTENDS PublicationCommand, TLC

CONSTANTS w1, w2

\* Two overlapping ticks are interchangeable; nothing else is symmetric.
WorkerSymmetry == Permutations(Workers)

MCBounds(crash, human, pause, submits) ==
    [k \in BoundKinds |-> CASE k = "crash" -> crash [] k = "human" -> human
                            [] k = "pause" -> pause [] OTHER -> submits]

\* One crash, one act of a person, one pause, one submission.
SmallBounds == MCBounds(1, 1, 1, 1)
\* Two acts of people race (a request and a retry, two requests).
RaceBounds == MCBounds(1, 2, 1, 1)
\* A second version is submitted and approved.
VersionBounds == MCBounds(1, 1, 1, 2)
=============================================================================
