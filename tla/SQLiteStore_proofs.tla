------------------------- MODULE SQLiteStore_proofs -------------------------
(***************************************************************************)
(* Proofs about SQLiteStore, for any set of writes, any number of timer    *)
(* callbacks, and shutdowns with and without late writers.                 *)
(***************************************************************************)
EXTENDS SQLiteStore, TLAPS

\* Between Close (or a crash) and RestoreFromDisk the database is empty; and
\* before RestoreFromDisk nothing has happened in this process.
Fresh ==
    /\ phase \notin Live => mem = {}
    /\ phase \in {"down", "opened"} =>
           /\ ~dirty /\ timer = 0 /\ ~failed /\ ~empty
           /\ acked = {}
           /\ \A c \in Callbacks : cb[c] = "idle"

\* What has been acknowledged is in memory, and so is what was restored.
MemoryIsNewest ==
    phase \in Live => acked \subseteq mem /\ (empty \/ disk \subseteq mem)

\* After a callback's flush, only raced writes are not on disk: this is what
\* keeps CleanMeansSaved true when that callback clears the flag.
FlushedMeansSaved ==
    phase \in Live /\ (\E c \in Callbacks : cb[c] = "flushed")
        => mem \subseteq disk \cup raced

\* ShutdownLosesOnly, from the moment Shutdown is ready to close.
ClosingLosesOnly ==
    phase \in {"closing", "closed"} /\ ~failed => acked \subseteq disk \cup raced \cup late

IInv ==
    /\ TypeOK
    /\ Fresh
    /\ MemoryIsNewest
    /\ CleanMeansSaved
    /\ FlushedMeansSaved
    /\ DirtyMeansFlushComing
    /\ ClosingLosesOnly

USE DEF Open, Stopping, Live

-----------------------------------------------------------------------------
\* Every variable keeps its type, and the histories keep to acknowledged
\* writes, in every step of the store.
LEMMA TypeStep == TypeOK /\ [Next]_vars => TypeOK'
<1> SUFFICES ASSUME TypeOK, [Next]_vars PROVE TypeOK'
    OBVIOUS
<1>1. CASE OpenDB
    BY <1>1 DEF OpenDB, TypeOK, history
<1>2. CASE RestoreFromDisk
    BY <1>2 DEF RestoreFromDisk, TypeOK, history
<1>3. CASE RestoreFails
    BY <1>3 DEF RestoreFails, TypeOK
<1>4. ASSUME NEW w \in Writes, Write(w) PROVE TypeOK'
    BY <1>4 DEF Write, ScheduleFlush, TypeOK
<1>5. ASSUME NEW c \in Callbacks, TimerExpires(c) PROVE TypeOK'
  <2>1. timer' = 0
    <3>1. timer \in {0, 1} BY DEF TypeOK
    <3>2. timer > 0 /\ timer' = timer - 1 BY <1>5 DEF TimerExpires
    <3>3. QED BY <3>1, <3>2
  <2>2. QED BY <1>5, <2>1 DEF TimerExpires, TypeOK, history
<1>6. ASSUME NEW c \in Callbacks, Callback(c) PROVE TypeOK'
  <2>1. CASE CheckDirty(c)
      BY <2>1 DEF CheckDirty, TypeOK, history
  <2>2. CASE ScheduledFlush(c)
      BY <2>2 DEF ScheduledFlush, FlushToDisk, TypeOK
  <2>3. CASE ScheduledFlushFails(c)
      BY <2>3 DEF ScheduledFlushFails, FlushFails, TypeOK
  <2>4. CASE ClearDirty(c)
      BY <2>4 DEF ClearDirty, TypeOK, history
  <2>5. QED BY <1>6, <2>1, <2>2, <2>3, <2>4 DEF Callback
<1>7. CASE ArchiveWeek
    BY <1>7 DEF ArchiveWeek, TypeOK, history
<1>8. CASE StopTimer
    BY <1>8 DEF StopTimer, TypeOK, history
<1>9. CASE ShutdownCheck
    BY <1>9 DEF ShutdownCheck, TypeOK, history
<1>10. CASE FinalFlush
    BY <1>10 DEF FinalFlush, FlushToDisk, TypeOK
<1>11. CASE FinalFlushFails
    BY <1>11 DEF FinalFlushFails, FlushFails, TypeOK
<1>12. CASE Close
    BY <1>12 DEF Close, TypeOK, history
<1>13. CASE Exit
    BY <1>13 DEF Exit, TypeOK
<1>14. CASE UNCHANGED vars
    BY <1>14 DEF vars, TypeOK
<1>15. QED
    BY <1>1, <1>2, <1>3, <1>4, <1>5, <1>6, <1>7, <1>8, <1>9, <1>10,
       <1>11, <1>12, <1>13, <1>14 DEF Next

\* The initial state satisfies the inductive invariant.
LEMMA InitIInv == Init => IInv
BY DEF Init, IInv, TypeOK, Fresh, MemoryIsNewest, CleanMeansSaved,
       FlushedMeansSaved, DirtyMeansFlushComing, ClosingLosesOnly

\* What the steps below must preserve, once the types are known.
Safety ==
    /\ Fresh
    /\ MemoryIsNewest
    /\ CleanMeansSaved
    /\ FlushedMeansSaved
    /\ DirtyMeansFlushComing
    /\ ClosingLosesOnly

\* The invariant is inductive.
LEMMA StepIInv == IInv /\ [Next]_vars => IInv'
<1> SUFFICES ASSUME IInv, [Next]_vars PROVE Safety'
    BY TypeStep DEF IInv, Safety
<1> USE DEF IInv, Safety, TypeOK, Fresh, MemoryIsNewest, CleanMeansSaved,
            FlushedMeansSaved, DirtyMeansFlushComing, ClosingLosesOnly
<1>1. CASE OpenDB
    BY <1>1 DEF OpenDB, history
<1>2. CASE RestoreFromDisk
    BY <1>2 DEF RestoreFromDisk, history
<1>3. CASE RestoreFails
    BY <1>3 DEF RestoreFails
<1>4. CASE ArchiveWeek
    BY <1>4 DEF ArchiveWeek, history
<1>5. CASE StopTimer
    BY <1>5 DEF StopTimer, history
<1>6. CASE ShutdownCheck
    BY <1>6 DEF ShutdownCheck, history
<1>7. CASE FinalFlush
    BY <1>7 DEF FinalFlush, FlushToDisk
<1>8. CASE FinalFlushFails
    BY <1>8 DEF FinalFlushFails, FlushFails
<1>9. CASE Close
    BY <1>9 DEF Close, history
<1>10. CASE Exit
    BY <1>10 DEF Exit
<1>11. ASSUME NEW w \in Writes, Write(w) PROVE Safety'
  <2> USE <1>11 DEF Write, ScheduleFlush, MayWrite
  <2>1. phase \in Live /\ phase' = phase /\ dirty' = TRUE /\ timer' = 1
      OBVIOUS
  <2>2. Fresh' /\ CleanMeansSaved'
      BY <2>1
  <2>6. MemoryIsNewest'
      OBVIOUS
  <2>7. DirtyMeansFlushComing'
    <3>1. timer' = 1 BY <2>1
    <3>2. timer' > 0 BY ONLY <3>1
    <3>3. QED BY <3>2
  <2>3. FlushedMeansSaved'
      OBVIOUS
  <2>4. ClosingLosesOnly'
      OBVIOUS
  <2>5. QED BY <2>2, <2>3, <2>4, <2>6, <2>7
<1>12. ASSUME NEW c \in Callbacks, TimerExpires(c) PROVE Safety'
  <2> USE <1>12 DEF TimerExpires, history
  <2>1. cb'[c] = "started" /\ \A d \in Callbacks : d # c => cb'[d] = cb[d]
      OBVIOUS
  <2>2. Fresh'
    <3>1. timer # 0
      <4>1. timer > 0 BY DEF TimerExpires
      <4>2. QED BY ONLY <4>1
    <3>2. phase \notin {"down", "opened"}
        BY <3>1
    <3>3. QED BY <3>2
  <2>3. MemoryIsNewest' /\ CleanMeansSaved' /\ ClosingLosesOnly'
      OBVIOUS
  <2>4. FlushedMeansSaved'
      BY <2>1
  <2>5. DirtyMeansFlushComing'
      BY <2>1
  <2>6. QED BY <2>2, <2>3, <2>4, <2>5
<1>13. ASSUME NEW c \in Callbacks, Callback(c) PROVE Safety'
  <2>1. CASE CheckDirty(c)
      BY <2>1 DEF CheckDirty, history
  <2>2. CASE ScheduledFlush(c)
      BY <2>2 DEF ScheduledFlush, FlushToDisk
  <2>3. CASE ScheduledFlushFails(c)
      BY <2>3 DEF ScheduledFlushFails, FlushFails
  <2>4. CASE ClearDirty(c)
      BY <2>4 DEF ClearDirty, history
  <2>5. QED BY <1>13, <2>1, <2>2, <2>3, <2>4 DEF Callback
<1>14. CASE UNCHANGED vars
    BY <1>14 DEF vars
<1>15. QED
    BY <1>1, <1>2, <1>3, <1>4, <1>5, <1>6, <1>7, <1>8, <1>9, <1>10, <1>11, <1>12, <1>13,
            <1>14 DEF Next

\* The inductive invariant holds throughout every behaviour.
LEMMA Invariance == Spec => []IInv
  BY InitIInv, StepIInv, PTL DEF Spec

-----------------------------------------------------------------------------
\* Every reachable state is well typed.
THEOREM TypeCorrect == Spec => []TypeOK
<1>1. IInv => TypeOK
    BY DEF IInv
<1>2. QED BY <1>1, Invariance, PTL

\* With the dirty flag down, only writes that raced with a callback are
\* missing from the snapshot.
THEOREM CleanStoreIsSaved == Spec => []CleanMeansSaved
<1>1. IInv => CleanMeansSaved
    BY DEF IInv
<1>2. QED BY <1>1, Invariance, PTL

\* A dirty database of a running bot has a flush ahead of it, or had one fail.
THEOREM DirtyStoreIsScheduled == Spec => []DirtyMeansFlushComing
<1>1. IInv => DirtyMeansFlushComing
    BY DEF IInv
<1>2. QED BY <1>1, Invariance, PTL

\* What a graceful shutdown can lose: raced writes and late writes only.
THEOREM ShutdownLoss == Spec => []ShutdownLosesOnly
<1>1. IInv => ShutdownLosesOnly
    BY DEF IInv, ClosingLosesOnly, ShutdownLosesOnly
<1>2. QED BY <1>1, Invariance, PTL

\* Only a flush changes the snapshot, and it copies a database that holds all
\* the snapshot does, unless this process failed to restore it.
THEOREM NoRegress == Spec => SnapshotNeverRegresses
<1>1. IInv /\ [Next]_vars => [disk \subseteq disk' \/ empty]_vars
  <2> SUFFICES ASSUME IInv, Next, disk' # disk PROVE disk \subseteq disk' \/ empty
      BY DEF vars
  <2>1. FlushToDisk
    <3>1. CASE \E c \in Callbacks : TimerExpires(c) \/ Callback(c)
        BY <3>1 DEF TimerExpires, Callback, CheckDirty, ScheduledFlush,
                    ScheduledFlushFails, FlushFails, ClearDirty
    <3>2. CASE FinalFlush
        BY <3>2 DEF FinalFlush
    <3>3. QED
        BY <3>1, <3>2 DEF Next, OpenDB, RestoreFromDisk, RestoreFails, Write,
           ArchiveWeek, StopTimer, ShutdownCheck, FinalFlushFails, FlushFails,
           Close, Exit
  <2>2. phase # "opened"
    <3>1. CASE \E c \in Callbacks : TimerExpires(c) \/ Callback(c)
        BY <3>1 DEF TimerExpires, Callback, CheckDirty, ScheduledFlush,
                    ScheduledFlushFails, FlushFails, ClearDirty, IInv, Fresh
    <3>2. CASE ~ \E c \in Callbacks : TimerExpires(c) \/ Callback(c)
        BY <3>2 DEF Next, OpenDB, RestoreFromDisk, RestoreFails, Write, MayWrite,
           ArchiveWeek, StopTimer, ShutdownCheck, FinalFlush, FinalFlushFails,
           FlushFails, Close, Exit
    <3>3. QED BY <3>1, <3>2
  <2>3. disk' = mem /\ phase \in Live
      BY <2>1, <2>2 DEF FlushToDisk
  <2>4. QED BY <2>3 DEF IInv, MemoryIsNewest
<1>2. QED BY <1>1, Invariance, PTL DEF Spec, SnapshotNeverRegresses

-----------------------------------------------------------------------------
\* The store starts as the abstract one does.
LEMMA InitRefines == Init => Durable!Init
BY DEF Init, Durable!Init

\* Each step of the store is a step of the abstract store, or leaves its
\* variables alone.
LEMMA StepRefines == IInv /\ [Next]_vars => [Durable!Next]_(Durable!vars)
<1> SUFFICES ASSUME IInv, Next PROVE [Durable!Next]_(Durable!vars)
    BY DEF vars, Durable!vars
<1> USE DEF Durable!Next, Durable!vars
<1>1. CASE OpenDB
    BY <1>1 DEF OpenDB, Durable!Open, IInv, Fresh
<1>2. CASE RestoreFromDisk
    BY <1>2 DEF RestoreFromDisk, Durable!Restore, IInv, Fresh
<1>3. CASE RestoreFails \/ ArchiveWeek \/ StopTimer \/ ShutdownCheck
  <2>1. mem' = mem /\ disk' = disk
      BY <1>3 DEF RestoreFails, ArchiveWeek, StopTimer, ShutdownCheck, history
  <2>2. phase \in Open /\ phase' \in Open
      BY <1>3 DEF RestoreFails, ArchiveWeek, StopTimer, ShutdownCheck
  <2>3. QED BY <2>1, <2>2
<1>4. ASSUME NEW w \in Writes, Write(w) PROVE Durable!Write
    BY <1>4 DEF Write, MayWrite, Durable!Write
<1>5. ASSUME NEW c \in Callbacks, TimerExpires(c) \/ Callback(c)
      PROVE  [Durable!Next]_(Durable!vars)
  <2>1. CASE ScheduledFlush(c)
      BY <2>1 DEF ScheduledFlush, FlushToDisk, Durable!Save
  <2>2. CASE ~ScheduledFlush(c)
      BY <1>5, <2>2 DEF Callback, TimerExpires, CheckDirty,
                        ScheduledFlushFails, FlushFails, ClearDirty
  <2>3. QED BY <2>1, <2>2
<1>6. CASE FinalFlush
    BY <1>6 DEF FinalFlush, FlushToDisk, Durable!Save
<1>7. CASE FinalFlushFails
    BY <1>7 DEF FinalFlushFails, FlushFails
<1>8. CASE Close
    BY <1>8 DEF Close, Durable!Down
<1>9. CASE Exit
  <2>1. mem' = {} /\ disk' = disk /\ phase' \notin Open
      BY <1>9 DEF Exit
  <2>2. phase \notin Open => mem = {}
      BY DEF IInv, Fresh
  <2> HIDE DEF Open
  <2>3. CASE phase \in Open
      BY <2>1, <2>3 DEF Durable!Down
  <2>4. CASE phase \notin Open
      BY <2>1, <2>2, <2>4
  <2>5. QED BY <2>3, <2>4
<1>10. QED
    BY <1>1, <1>2, <1>3, <1>4, <1>5, <1>6, <1>7, <1>8, <1>9 DEF Next

\* The store implements the abstract durable store.
THEOREM Refinement == Spec => ImplementsDurableStore
  BY InitRefines, StepRefines, Invariance, PTL
     DEF Spec, ImplementsDurableStore, Durable!Spec

-----------------------------------------------------------------------------
\* As seen by the process, the store begins closed and with nothing at stake.
LEMMA LifeInit == Init => Life!Init
BY DEF Init, Life!Init

\* A flush, by a callback or by Shutdown, leaves nothing acknowledged unsaved.
LEMMA FlushSavesAll ==
    ASSUME IInv, FlushToDisk, phase \in Live
    PROVE  acked' \subseteq disk' /\ failed' = FALSE
BY DEF FlushToDisk, IInv, MemoryIsNewest

\* Each step of the store is one its contract allows, or changes nothing of
\* what the process relies on.
LEMMA LifeStep == IInv /\ [Next]_vars => [Life!Next]_(Life!vars)
<1> SUFFICES ASSUME IInv, Next PROVE [Life!Next]_(Life!vars)
    BY DEF vars, Life!vars
<1> USE DEF Life!Next, Life!vars
<1>1. CASE OpenDB
    BY <1>1 DEF OpenDB, history, Life!Open
<1>2. CASE RestoreFromDisk
  <2>1. acked = {} /\ acked' = {}
      BY <1>2 DEF RestoreFromDisk, history, IInv, Fresh
  <2>2. QED BY <1>2, <2>1 DEF RestoreFromDisk, history
<1>3. CASE RestoreFails
    BY <1>3 DEF RestoreFails
<1>4. CASE ArchiveWeek \/ StopTimer
    BY <1>4 DEF ArchiveWeek, StopTimer, history
<1>5. ASSUME NEW w \in Writes, Write(w) PROVE Life!Write
  <2>1. phase \in Live /\ phase # "closed" /\ phase' = phase
      BY <1>5 DEF Write, MayWrite
  <2>2. ~(acked \subseteq disk) => ~(acked' \subseteq disk')
      BY <1>5 DEF Write
  <2>3. raced # {} => raced' # {}
      BY <1>5 DEF Write
  <2>4. late' # {} <=> late # {} \/ phase = "closing"
      BY <1>5 DEF Write
  <2>5. failed' = failed
      BY <1>5 DEF Write
  <2>6. phase # "down"
      BY <2>1
  <2>7. QED BY <2>1, <2>2, <2>3, <2>4, <2>5, <2>6 DEF Life!Write, Life!Usable
<1>6. ASSUME NEW c \in Callbacks, TimerExpires(c) \/ Callback(c)
      PROVE  [Life!Next]_(Life!vars)
  <2>1. CASE ScheduledFlush(c)
    <3>1. phase \in Live /\ phase' = phase
        BY <2>1 DEF ScheduledFlush, FlushToDisk, IInv, Fresh
    <3>2. FlushToDisk
        BY <2>1 DEF ScheduledFlush
    <3>3. Life!Flush
        BY <3>1, <3>2, FlushSavesAll DEF FlushToDisk, Life!Flush, Life!Usable
    <3>4. QED BY <3>3
  <2>2. CASE ScheduledFlushFails(c)
    <3>1. phase \in Open \cup {"closed"} /\ phase # "opened" /\ phase' = phase
        BY <2>2 DEF ScheduledFlushFails, IInv, Fresh, TypeOK
    <3>2. CASE phase \in Open
      <4>1. Life!FlushFails
          BY <2>2, <3>1, <3>2
             DEF ScheduledFlushFails, FlushFails, Life!FlushFails, Life!Usable
      <4>2. QED BY <4>1
    <3>3. CASE phase \notin Open
      <4>1. failed' = failed
          BY <2>2, <3>3 DEF ScheduledFlushFails, FlushFails, IInv, TypeOK
      <4>2. QED BY <2>2, <3>1, <4>1 DEF ScheduledFlushFails, FlushFails
    <3>4. QED BY <3>2, <3>3
  <2>3. CASE TimerExpires(c) \/ CheckDirty(c) \/ ClearDirty(c)
      BY <2>3 DEF TimerExpires, CheckDirty, ClearDirty, history
  <2>4. QED BY <1>6, <2>1, <2>2, <2>3 DEF Callback
<1>7. CASE ShutdownCheck
  <2>1. CASE dirty
      BY <1>7, <2>1 DEF ShutdownCheck, history
  <2>2. CASE ~dirty
    <3>1. acked \subseteq disk \/ raced # {}
        BY <1>7, <2>2 DEF ShutdownCheck, IInv, MemoryIsNewest, CleanMeansSaved
    <3>2. Life!FinalFlush
        BY <1>7, <2>2, <3>1 DEF ShutdownCheck, history, Life!FinalFlush
    <3>3. QED BY <3>2
  <2>3. QED BY <2>1, <2>2
<1>8. CASE FinalFlush
  <2>1. Life!FinalFlush
      BY <1>8, FlushSavesAll DEF FinalFlush, FlushToDisk, Life!FinalFlush
  <2>2. QED BY <2>1
<1>9. CASE FinalFlushFails
    BY <1>9 DEF FinalFlushFails, FlushFails, Life!FinalFlush
<1>10. CASE Close
    BY <1>10 DEF Close, history, Life!Close
<1>11. CASE Exit
  <2>1. Life!Exit
      BY <1>11 DEF Exit, Life!Exit
  <2>2. QED BY <2>1
<1>12. QED
    BY <1>1, <1>2, <1>3, <1>4, <1>5, <1>6, <1>7, <1>8, <1>9, <1>10, <1>11 DEF Next

\* The store keeps the contract the process is built on.
THEOREM LifeRefinement == Spec => ImplementsStoreLife
  BY LifeInit, LifeStep, Invariance, PTL
     DEF Spec, ImplementsStoreLife, Life!Spec
=============================================================================
