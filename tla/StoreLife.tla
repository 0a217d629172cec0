----------------------------- MODULE StoreLife ------------------------------
(***************************************************************************)
(* What a process can rely on of its store from open to close: when the    *)
(* snapshot may be behind what was acknowledged, and what explains a loss. *)
(* SQLiteStore implements it; the process (Lifecycle) is built on it.      *)
(***************************************************************************)
VARIABLES
    store,      \* "new", "open", "flushed" by Shutdown, "closed"
    unsaved,    \* an acknowledged write is not in the snapshot
    raced,      \* a write may have raced with a callback's flush
    late,       \* a write came after Shutdown had flushed
    failed      \* the last flush failed

vars == <<store, unsaved, raced, late, failed>>

Init ==
    /\ store = "new"
    /\ unsaved = FALSE /\ raced = FALSE /\ late = FALSE /\ failed = FALSE

Open ==
    /\ store = "new"
    /\ store' = "open"
    /\ UNCHANGED <<unsaved, raced, late, failed>>

Usable == store \in {"open", "flushed"}

Write ==
    /\ Usable
    /\ unsaved' \in {unsaved, TRUE}
    /\ raced' \in {raced, TRUE}
    /\ late' = (late \/ store = "flushed")
    /\ UNCHANGED <<store, failed>>

Flush ==
    /\ Usable
    /\ unsaved' = FALSE /\ failed' = FALSE
    /\ UNCHANGED <<store, raced, late>>

FlushFails ==
    /\ Usable
    /\ failed' = TRUE
    /\ UNCHANGED <<store, unsaved, raced, late>>

\* Shutdown flushes, fails to, or finds a clean database, in which only
\* raced writes can be unsaved.
FinalFlush ==
    /\ store = "open"
    /\ store' = "flushed"
    /\ \/ unsaved' = FALSE /\ failed' = FALSE
       \/ failed' = TRUE /\ UNCHANGED unsaved
       \/ (unsaved => raced) /\ UNCHANGED <<unsaved, failed>>
    /\ UNCHANGED <<raced, late>>

Close ==
    /\ store = "flushed"
    /\ store' = "closed"
    /\ UNCHANGED <<unsaved, raced, late, failed>>

\* The process ends, and with it what it had promised.
Exit ==
    /\ store # "new"
    /\ store' = "new"
    /\ unsaved' = FALSE /\ raced' = FALSE /\ late' = FALSE /\ failed' = FALSE

Next == Open \/ Write \/ Flush \/ FlushFails \/ FinalFlush \/ Close \/ Exit

Spec == Init /\ [][Next]_vars
=============================================================================
