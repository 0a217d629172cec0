---------------------------- MODULE SQLiteStore -----------------------------
(***************************************************************************)
(* store.SQLiteStore: an in-memory SQLite database, snapshotted to a file  *)
(* by a debounced timer and by the final flush of a graceful shutdown.     *)
(*                                                                         *)
(* The actors are the goroutines that write (pollers, Discord handlers),   *)
(* the callbacks time.AfterFunc starts (one goroutine per expiry, several  *)
(* may be alive at once), and the process's own life: start, shutdown,     *)
(* crash.                                                                  *)
(*                                                                         *)
(* A write is one atomic step: it holds s.mu from its first statement to   *)
(* its last, and what other goroutines do without s.mu meanwhile (read or  *)
(* clear the dirty flag, stop or expire the timer) commutes to before or   *)
(* after the whole write.  A flush is one atomic step for the same reason, *)
(* and because the SQLite backup is a transaction of the snapshot file.    *)
(***************************************************************************)
EXTENDS FiniteSets, Naturals

CONSTANTS
    Writes,       \* the changes the bot makes to the database
    Callbacks,    \* goroutines that run an expired flush timer (a bound)
    LateWriters   \* TRUE: a Discord command may still be running while the
                  \* store shuts down, as nothing waits for its handler

ASSUME WritesAssumption == IsFiniteSet(Writes)
ASSUME LateWritersAssumption == LateWriters \in BOOLEAN

VARIABLES
    phase,     \* where the process is in its life
    mem,       \* writes reflected by the in-memory database (s.db)
    disk,      \* writes reflected by the snapshot at s.snapshotPath
    archives,  \* contents of the weekly archives in s.backupDir
    dirty,     \* s.dirty
    timer,     \* flush timers armed and not expired (s.flushTimer): 0 or 1
    cb,        \* where each timer callback is in performScheduledFlush
    \* History, read by properties only:
    acked,     \* writes acknowledged by this process
    raced,     \* of those, the ones made between a callback's flush and
               \* its clearing of dirty
    late,      \* of those, the ones made after Shutdown had seen to a flush
    failed,    \* the last flush of this process failed
    empty      \* the snapshot of this process was not restored

vars == <<phase, mem, disk, archives, dirty, timer, cb, acked, raced, late, failed, empty>>
history == <<acked, raced, late, failed, empty>>

Stopping == {"timer stopped", "flushing", "closing"}
Open == {"opened", "running"} \cup Stopping      \* s.db # nil

Init ==
    /\ phase = "down"
    /\ mem = {} /\ disk = {} /\ archives = {}
    /\ dirty = FALSE /\ timer = 0
    /\ cb = [c \in Callbacks |-> "idle"]
    /\ acked = {} /\ raced = {} /\ late = {}
    /\ failed = FALSE /\ empty = FALSE

-----------------------------------------------------------------------------
(* Start *)

\* Open: a new, empty, migrated database.
OpenDB ==
    /\ phase = "down"
    /\ phase' = "opened"
    /\ UNCHANGED <<mem, disk, archives, dirty, timer, cb, history>>

\* Mutant: source and destination of the backup swapped.
RestoreSwapped ==
    /\ phase = "opened"
    /\ phase' = "running"
    /\ disk' = mem
    /\ UNCHANGED <<mem, archives, dirty, timer, cb, history>>

\* RestoreFromDisk copies the snapshot, if there is one (a missing file and
\* an empty one are alike), over the database.
RestoreFromDisk ==
    /\ phase = "opened"
    /\ phase' = "running"
    /\ mem' = disk
    /\ UNCHANGED <<disk, archives, dirty, timer, cb, history>>

\* RestoreFromDisk returns an error before or in the backup: main logs a
\* warning and the bot runs on the empty database.
RestoreFails ==
    /\ phase = "opened"
    /\ phase' = "running"
    /\ empty' = TRUE
    /\ UNCHANGED <<mem, disk, archives, dirty, timer, cb, acked, raced, late, failed>>

-----------------------------------------------------------------------------
(* Writes: UpsertCompletedKey, UpsertWarcraftLogsLink, UpdateCharacterScore, *)
(* DeleteCharacter, UpsertElvUIVersion; each ends in scheduleFlush.          *)

\* Mutants: the armed timer is not stopped; no new timer is armed.
ScheduleFlushKeepingTimer == dirty' = TRUE /\ timer' = timer + 1
ScheduleFlushOnlyStopping == dirty' = TRUE /\ timer' = 0

\* scheduleFlush: mark the database dirty, stop a timer that is armed and
\* arm a new one.
ScheduleFlush == dirty' = TRUE /\ timer' = 1

MayWrite == phase = "running" \/ (LateWriters /\ phase \in Stopping)

\* A write the store acknowledges (returns nil).  One that fails changes
\* nothing and is left out, as is a write found to be closed out.
Write(w) ==
    /\ MayWrite
    /\ w \notin acked                     \* bound: each write once per process
    /\ mem' = mem \cup {w}
    /\ ScheduleFlush
    /\ acked' = acked \cup {w}
    /\ raced' = IF \E c \in Callbacks : cb[c] = "flushed" THEN raced \cup {w} ELSE raced
    /\ late' = IF phase = "closing" THEN late \cup {w} ELSE late
    /\ UNCHANGED <<phase, disk, archives, cb, failed, empty>>

-----------------------------------------------------------------------------
(* The scheduled flush *)

\* The timer expires: the runtime starts a goroutine for the callback.
TimerExpires(c) ==
    /\ timer > 0
    /\ cb[c] = "idle"
    /\ timer' = timer - 1
    /\ cb' = [cb EXCEPT ![c] = "started"]
    /\ UNCHANGED <<phase, mem, disk, archives, dirty, history>>

\* performScheduledFlush returns at once when the database is not dirty.
CheckDirty(c) ==
    /\ cb[c] = "started"
    /\ cb' = [cb EXCEPT ![c] = IF dirty THEN "flushing" ELSE "idle"]
    /\ UNCHANGED <<phase, mem, disk, archives, dirty, timer, history>>

\* Mutant: the database is merged into the snapshot.
FlushMerging ==
    /\ phase \in Open
    /\ disk' = disk \cup mem
    /\ failed' = FALSE
    /\ UNCHANGED <<mem, archives, dirty, timer, acked, raced, late, empty>>

\* FlushToDisk under s.mu: the snapshot becomes a copy of the database.
FlushToDisk ==
    /\ phase \in Open
    /\ disk' = mem
    /\ failed' = FALSE
    /\ UNCHANGED <<mem, archives, dirty, timer, acked, raced, late, empty>>

\* It may fail (directory, file, timeout), and does after Close, when there
\* is nothing left to save: nothing changes.
FlushFails ==
    /\ failed' = (failed \/ phase \in Open)
    /\ UNCHANGED <<mem, disk, archives, dirty, timer, acked, raced, late, empty>>

ScheduledFlush(c) ==
    /\ cb[c] = "flushing"
    /\ FlushToDisk
    /\ cb' = [cb EXCEPT ![c] = "flushed"]
    /\ UNCHANGED phase

\* Mutant: no return after the error.
ScheduledFlushGoesOn(c) ==
    /\ cb[c] = "flushing"
    /\ FlushFails
    /\ cb' = [cb EXCEPT ![c] = "flushed"]
    /\ UNCHANGED phase

\* The callback reports the error and returns; it schedules nothing.
ScheduledFlushFails(c) ==
    /\ cb[c] = "flushing"
    /\ FlushFails
    /\ cb' = [cb EXCEPT ![c] = "idle"]
    /\ UNCHANGED phase

\* Mutant: the flag is never cleared.
KeepDirty(c) ==
    /\ cb[c] = "flushed"
    /\ cb' = [cb EXCEPT ![c] = "idle"]
    /\ UNCHANGED <<phase, mem, disk, archives, dirty, timer, history>>

\* s.dirty.Store(false), after s.mu was released.
ClearDirty(c) ==
    /\ cb[c] = "flushed"
    /\ dirty' = FALSE
    /\ cb' = [cb EXCEPT ![c] = "idle"]
    /\ UNCHANGED <<phase, mem, disk, archives, timer, history>>

\* ArchiveWeek: a copy beside the snapshot, by the Tuesday announcement.
\* The scheduler is stopped before the store is.
ArchiveWeek ==
    /\ phase = "running"
    /\ mem \notin archives                \* an equal archive changes nothing
    /\ archives' = archives \cup {mem}
    /\ UNCHANGED <<phase, mem, disk, dirty, timer, cb, history>>

-----------------------------------------------------------------------------
(* Stop *)

\* Shutdown stops the timer; a callback already started is not stopped.
StopTimer ==
    /\ phase = "running"
    /\ phase' = "timer stopped"
    /\ timer' = 0
    /\ UNCHANGED <<mem, disk, archives, dirty, cb, history>>

\* Mutant: the final flush is left to a callback already under way.
ShutdownTrustsCallback ==
    /\ phase = "timer stopped"
    /\ phase' = IF dirty /\ \A c \in Callbacks : cb[c] = "idle"
                THEN "flushing" ELSE "closing"
    /\ UNCHANGED <<mem, disk, archives, dirty, timer, cb, history>>

\* Shutdown flushes only a dirty database.
ShutdownCheck ==
    /\ phase = "timer stopped"
    /\ phase' = IF dirty THEN "flushing" ELSE "closing"
    /\ UNCHANGED <<mem, disk, archives, dirty, timer, cb, history>>

FinalFlush ==
    /\ phase = "flushing"
    /\ FlushToDisk
    /\ phase' = "closing"
    /\ UNCHANGED cb

FinalFlushFails ==
    /\ phase = "flushing"
    /\ FlushFails
    /\ phase' = "closing"
    /\ UNCHANGED cb

\* Close: stop the timer again and drop the in-memory database.
Close ==
    /\ phase = "closing"
    /\ phase' = "closed"
    /\ timer' = 0
    /\ mem' = {}
    /\ UNCHANGED <<disk, archives, dirty, cb, history>>

\* The process ends: after Close, or at any moment by a crash, a kill or
\* the stop timeout of fx.  The files remain.
Exit ==
    /\ phase # "down"
    /\ phase' = "down"
    /\ mem' = {}
    /\ dirty' = FALSE /\ timer' = 0
    /\ cb' = [c \in Callbacks |-> "idle"]
    /\ acked' = {} /\ raced' = {} /\ late' = {}
    /\ failed' = FALSE /\ empty' = FALSE
    /\ UNCHANGED <<disk, archives>>

-----------------------------------------------------------------------------
Callback(c) ==
    CheckDirty(c) \/ ScheduledFlush(c) \/ ScheduledFlushFails(c) \/ ClearDirty(c)

Next ==
    \/ OpenDB \/ RestoreFromDisk \/ RestoreFails
    \/ \E w \in Writes : Write(w)
    \/ \E c \in Callbacks : TimerExpires(c) \/ Callback(c)
    \/ ArchiveWeek
    \/ StopTimer \/ ShutdownCheck \/ FinalFlush \/ FinalFlushFails \/ Close
    \/ Exit

\* Time passes and the Go scheduler runs every goroutine that can run.
\* Nothing is assumed of users, of restarts, or of a flush succeeding.
Fairness ==
    /\ WF_vars(\E c \in Callbacks : TimerExpires(c))
    /\ \A c \in Callbacks : WF_vars(Callback(c))

Spec == Init /\ [][Next]_vars
FairSpec == Spec /\ Fairness

-----------------------------------------------------------------------------
(* Properties *)

TypeOK ==
    /\ phase \in Open \cup {"down", "closed"}
    /\ mem \subseteq Writes /\ disk \subseteq Writes
    /\ archives \subseteq SUBSET Writes
    /\ dirty \in BOOLEAN /\ timer \in {0, 1}
    /\ cb \in [Callbacks -> {"idle", "started", "flushing", "flushed"}]
    /\ acked \subseteq Writes /\ raced \subseteq acked /\ late \subseteq acked
    /\ failed \in BOOLEAN /\ empty \in BOOLEAN

Live == Open \ {"opened"}      \* the database holds what the process works on

\* The dirty flag may be down over unsaved data, but only over writes made
\* between a callback's flush and its clearing of the flag: everything else
\* in memory is on disk (performScheduledFlush, with Shutdown relying on it).
CleanMeansSaved ==
    phase \in Live /\ ~dirty => mem \subseteq disk \cup raced

\* While the bot runs, a dirty database has a flush ahead of it: a timer is
\* armed or a callback is under way.  The one exception is a flush that
\* failed, which nothing retries before the next write or the shutdown.
DirtyMeansFlushComing ==
    phase = "running" /\ dirty =>
        timer > 0 \/ failed \/ \E c \in Callbacks : cb[c] # "idle"

\* A graceful shutdown whose flush did not fail leaves every acknowledged
\* write in the snapshot, except those that raced with a callback and those
\* of a handler still running (Shutdown).
ShutdownLosesOnly ==
    phase = "closed" /\ ~failed => acked \subseteq disk \cup raced \cup late

\* No flush, whichever goroutine makes it and however it is delayed, replaces
\* the snapshot by an older one, unless this process began from nothing
\* because the snapshot could not be restored (FlushToDisk, RestoreFromDisk).
SnapshotNeverRegresses == [][disk \subseteq disk' \/ empty]_vars

\* A write acknowledged while the bot runs reaches the snapshot, unless the
\* bot stops, a flush fails, or the write raced with a callback.
SavedEventually ==
    \A w \in Writes :
        phase = "running" /\ w \in acked
            ~> w \in disk \cup raced \/ failed \/ phase # "running"

\* The store implements the abstract one.
Durable == INSTANCE DurableStore WITH up <- phase \in Open
ImplementsDurableStore == Durable!Spec

\* It keeps the contract the rest of the process is built on: Shutdown, with
\* its timers, callbacks and flag, loses only raced writes, late ones, and
\* what a failed flush did not save.
Life == INSTANCE StoreLife WITH
    store <- CASE phase = "down" -> "new"
               [] phase = "closing" -> "flushed"
               [] phase = "closed" -> "closed"
               [] OTHER -> "open",
    unsaved <- ~(acked \subseteq disk),
    raced <- raced # {},
    late <- late # {}
ImplementsStoreLife == Life!Spec

\* "Shutdown performs a final flush to disk and closes the database": every
\* acknowledged write is in the snapshot after a shutdown whose flush did not
\* fail (sqlite_store.go:118).
GracefulShutdownPersists ==
    phase = "closed" /\ ~failed => acked \subseteq disk
=============================================================================
