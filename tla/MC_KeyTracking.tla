--------------------------- MODULE MC_KeyTracking ---------------------------
(* Two characters that share one run of the week.                           *)
EXTENDS KeyTracking

CONSTANTS ann, bob, r1

MCParticipation == {<<r1, ann>>, <<r1, bob>>}

\* No two tracked characters share a name.
DistinctNames == [c \in Characters |-> c]
=============================================================================
