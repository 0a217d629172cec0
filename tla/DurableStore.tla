---------------------------- MODULE DurableStore ----------------------------
(***************************************************************************)
(* What the key store promises to the rest of the bot, without timers,     *)
(* flags or callbacks: a volatile database whose whole contents are copied *)
(* to a snapshot at moments of the store's choosing, and a restart that    *)
(* begins from the snapshot or, when the snapshot cannot be restored, from *)
(* an empty database.                                                      *)
(*                                                                         *)
(* Contents are abstracted to the set of writes they reflect.              *)
(***************************************************************************)
CONSTANT Writes

VARIABLES
    mem,    \* writes reflected by the in-memory database
    disk,   \* writes reflected by the snapshot file
    up      \* the database is open

vars == <<mem, disk, up>>

Init == mem = {} /\ disk = {} /\ up = FALSE

\* A write is acknowledged once it is in memory.
Write == \E w \in Writes : up /\ mem' = mem \cup {w} /\ UNCHANGED <<disk, up>>

\* The snapshot becomes a copy of the whole database, never a part of it.
Save == up /\ disk' = mem /\ UNCHANGED <<mem, up>>

\* The process stops, by a shutdown or a crash: memory is gone.
Down == up /\ up' = FALSE /\ mem' = {} /\ UNCHANGED disk

\* The database is opened, empty, and the snapshot copied into it.
Open == ~up /\ up' = TRUE /\ mem' = {} /\ UNCHANGED disk

Restore == up /\ mem = {} /\ mem' = disk /\ UNCHANGED <<disk, up>>

Next == Write \/ Save \/ Down \/ Open \/ Restore

Spec == Init /\ [][Next]_vars
=============================================================================
