------------------------------ MODULE MC_Linker ------------------------------
(* Three runs of one dungeon and level, two of them in nearly the same time, *)
(* the third days later, and one run of another dungeon.                     *)
EXTENDS Linker

CONSTANTS first, twin, later, other

MCKind == [k \in Keys |-> IF k = other THEN "b" ELSE "a"]
MCEnded == [k \in Keys |->
    CASE k = first -> 100 [] k = twin -> 131 [] k = later -> 9000 [] k = other -> 160]
MCTook == [k \in Keys |->
    CASE k = first -> 1500 [] k = twin -> 1500 [] k = later -> 1503 [] k = other -> 1500]
\* A log may state no time, the run's, or one three seconds off.
MCStated == [k \in Keys |-> {0, MCTook[k]} \cup (IF k = other THEN {} ELSE {MCTook[k] + 3})]
MCWindows == {1440, 11520}
=============================================================================
