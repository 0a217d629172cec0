-------------------------- MODULE Lifecycle_proofs --------------------------
(***************************************************************************)
(* Proofs about Lifecycle.  Everything rests on one count: the hooks that  *)
(* are started and not yet stopped are the first `started' of Hooks, so a  *)
(* goroutine that is alive, the state of the store and the Discord         *)
(* connection are all bounded by that number.                              *)
(***************************************************************************)
EXTENDS Lifecycle, TLAPS

\* The position in Hooks of the hook that owns a goroutine.
Rank(p) == CASE p = "ntp" -> 1 [] p = "scheduler" -> 3 [] p = "wcl" -> 4
             [] p = "rio" -> 5 [] p = "elvui" -> 6

\* A goroutine that has begun and not ended belongs to a started hook.
RoutinesStarted ==
    \A p \in Routines : routine[p] \in {"idle", "busy"} => started >= Rank(p)

\* So do the store and the Discord connection.
StoreStarted ==
    /\ started >= 3 => store = "open"
    /\ started = 2 => store \in {"open", "flushed"}
    /\ started <= 1 => store \in {"new", "closed"}
    /\ store = "flushed" => phase \in {"stopping", "exited"}
SessionStarted == session <=> started >= 3

\* While an OnStop is awaited its hook is there, and is not the store's.
WaitingOK == waiting => started >= 1 /\ started # 2 /\ phase \in {"stopping", "exited"}

\* A process ends with all hooks stopped, or by a timeout.
ExitedOK == phase = "exited" /\ ~timedOut => started = 0
RunningOK == phase = "running" => started = 6

\* What the snapshot lacks, a database still open will bring; or it raced
\* with a callback, or came too late, or the last flush failed to save it.
UnsavedOK == unsaved => store = "open" \/ raced \/ late \/ failed

IInv ==
    /\ TypeOK
    /\ RoutinesStarted /\ StoreStarted /\ SessionStarted
    /\ WaitingOK /\ ExitedOK /\ RunningOK /\ UnsavedOK

\* The hooks by their positions.
LEMMA HooksFact ==
  /\ Len(Hooks) = 6
  /\ Hooks[1] = "ntp" /\ Hooks[2] = "store" /\ Hooks[3] = "discord"
  /\ Hooks[4] = "wcl" /\ Hooks[5] = "rio" /\ Hooks[6] = "elvui"
BY DEF Hooks

\* The ranks follow the hooks.
LEMMA RankFact ==
  /\ Rank("ntp") = 1 /\ Rank("scheduler") = 3
  /\ Rank("wcl") = 4 /\ Rank("rio") = 5 /\ Rank("elvui") = 6
  /\ \A p \in Routines : p # "ntp" => Rank(p) >= 3
  /\ \A p \in Routines : Rank(p) \in 1..6
BY DEF Rank, Routines, Pollers

\* A hook being started, or stopped, tells how many are.
LEMMA StartingFact ==
  ASSUME TypeOK, NEW h, Starting(h)
  PROVE  /\ started \in 0..5
         /\ h = "ntp" => started = 0
         /\ h = "store" => started = 1
         /\ h = "discord" => started = 2
         /\ h \in Pollers => started + 1 = Rank(h)
BY HooksFact, RankFact DEF TypeOK, Starting, Pollers

\* The same of a hook being stopped.
LEMMA StoppingFact ==
  ASSUME TypeOK, NEW h, Stopping(h)
  PROVE  /\ started \in 1..6
         /\ h = "store" <=> started = 2
         /\ h # "store" => RoutineOf(h) \in Routines /\ Rank(RoutineOf(h)) = started
         /\ h = "discord" <=> started = 3
<1>1. started \in 1..6 /\ Hooks[started] = h
    BY HooksFact DEF TypeOK, Stopping
<1>2. started = 1 \/ started = 2 \/ started = 3 \/ started = 4 \/ started = 5 \/ started = 6
    BY <1>1
<1>3. QED BY <1>1, <1>2, HooksFact, RankFact DEF RoutineOf, Routines, Pollers

\* The initial state satisfies the invariant.
LEMMA InitIInv == Init => IInv
<1> SUFFICES ASSUME Init PROVE IInv
    OBVIOUS
<1>1. TypeOK
  <2>1. started \in 0..Len(Hooks)
      BY HooksFact DEF Init
  <2>2. routine \in [Routines -> {"none", "idle", "busy", "done"}]
      BY DEF Init
  <2>3. QED BY <2>1, <2>2 DEF Init, Store!Init, TypeOK
<1>2. RoutinesStarted
    BY DEF Init, RoutinesStarted
<1>3. QED BY <1>1, <1>2 DEF Init, Store!Init, IInv, StoreStarted, SessionStarted, WaitingOK, ExitedOK,
                 RunningOK, UnsavedOK

\* Setting one goroutine's state leaves the others alone.
LEMMA SetFact ==
  ASSUME routine \in [Routines -> {"none", "idle", "busy", "done"}], NEW p \in Routines,
         NEW state \in {"none", "idle", "busy", "done"},
         routine' = [routine EXCEPT ![p] = state]
  PROVE  /\ routine' \in [Routines -> {"none", "idle", "busy", "done"}]
         /\ routine'[p] = state
         /\ \A q \in Routines : q # p => routine'[q] = routine[q]
OBVIOUS

\* The booleans of the store.
StoreTypes == unsaved \in BOOLEAN /\ raced \in BOOLEAN /\ late \in BOOLEAN /\ failed \in BOOLEAN

\* A write keeps the store where it is in its life and can only add to what
\* explains a loss; one after the final flush is late.
LEMMA WriteFact ==
  ASSUME StoreTypes, WriteToStore
  PROVE  /\ store' = store /\ failed' = failed
         /\ StoreTypes'
         /\ raced => raced'
         /\ late => late'
         /\ store = "flushed" => late'
         /\ unsaved' => unsaved \/ store \in {"open", "flushed"}
<1> USE DEF StoreTypes
<1>1. CASE Store!Write
  <2>1. store' = store /\ failed' = failed /\ store \in {"open", "flushed"}
      BY <1>1 DEF Store!Write, Store!Usable
  <2>2. unsaved' = unsaved \/ unsaved' = TRUE
      BY <1>1 DEF Store!Write
  <2>3. raced' = raced \/ raced' = TRUE
      BY <1>1 DEF Store!Write
  <2>4. late' = (late \/ store = "flushed")
      BY <1>1 DEF Store!Write
  <2>5. StoreTypes'
      BY <2>1, <2>2, <2>3, <2>4, Zenon
  <2>6. QED BY <2>1, <2>3, <2>4, <2>5, Zenon
<1>2. CASE ~Store!Usable /\ UNCHANGED db
  <2>1. /\ store' = store /\ unsaved' = unsaved /\ raced' = raced /\ late' = late
        /\ failed' = failed /\ store # "flushed"
      BY <1>2 DEF db, Store!Usable
  <2>2. QED BY <2>1
<1>3. QED BY <1>1, <1>2 DEF WriteToStore

\* The final flush leaves unsaved only what it failed to save, or what raced.
LEMMA FinalFlushFact ==
  ASSUME StoreTypes, Store!FinalFlush
  PROVE  /\ store' = "flushed" /\ StoreTypes'
         /\ unsaved' => failed' \/ raced'
<1> USE DEF StoreTypes, Store!FinalFlush
<1>1. store' = "flushed" /\ raced' = raced /\ late' = late
    OBVIOUS
<1>2. CASE unsaved' = FALSE /\ failed' = FALSE
    BY <1>1, <1>2, Zenon
<1>3. CASE failed' = TRUE /\ unsaved' = unsaved
    BY <1>1, <1>3, Zenon
<1>4. CASE (unsaved => raced) /\ unsaved' = unsaved /\ failed' = failed
  <2>1. StoreTypes'
      BY <1>1, <1>4, Zenon
  <2>2. unsaved' => raced'
      BY <1>1, <1>4
  <2>3. QED BY <1>1, <2>1, <2>2, Zenon
<1>5. QED BY <1>2, <1>3, <1>4

\* The invariant is inductive.
LEMMA StepIInv == IInv /\ [Next]_vars => IInv'
<1> SUFFICES ASSUME IInv, [Next]_vars PROVE IInv'
    OBVIOUS
<1> USE HooksFact DEF db
<1> USE DEF IInv, TypeOK, StoreStarted, SessionStarted, WaitingOK, ExitedOK, RunningOK,
            UnsavedOK
<1>t. TypeOK
    OBVIOUS
<1>1. CASE StartNTP
  <2>1. started = 0 /\ phase = "starting"
      BY <1>1, <1>t, StartingFact DEF StartNTP, Starting
  <2>2. "ntp" \in Routines
      BY DEF Routines
  <2>3. /\ routine' \in [Routines -> {"none", "idle", "busy", "done"}]
        /\ \A q \in Routines : q # "ntp" => routine'[q] = routine[q]
      BY <1>1, <2>2, SetFact DEF StartNTP
  <2>4. RoutinesStarted'
      BY <1>1, <2>1, <2>3, RankFact DEF StartNTP, HookStarted, RoutinesStarted
  <2>5. QED BY <1>1, <2>1, <2>3, <2>4 DEF StartNTP, HookStarted
<1>2. CASE StartStore
  <2>1. started = 1 /\ phase = "starting"
      BY <1>2, <1>t, StartingFact DEF StartStore, Starting
  <2>2. RoutinesStarted'
      BY <1>2, <2>1, RankFact DEF StartStore, HookStarted, RoutinesStarted
  <2>3. QED BY <1>2, <2>1, <2>2 DEF StartStore, HookStarted, Store!Open
<1>3. CASE StartDiscord
  <2>1. started = 2 /\ phase = "starting"
      BY <1>3, <1>t, StartingFact DEF StartDiscord, Starting
  <2>2. "scheduler" \in Routines
      BY DEF Routines
  <2>3. /\ routine' \in [Routines -> {"none", "idle", "busy", "done"}]
        /\ \A q \in Routines : q # "scheduler" => routine'[q] = routine[q]
      BY <1>3, <2>2, SetFact DEF StartDiscord
  <2>4. RoutinesStarted'
      BY <1>3, <2>1, <2>3, RankFact DEF StartDiscord, HookStarted, RoutinesStarted
  <2>5. QED BY <1>3, <2>1, <2>3, <2>4 DEF StartDiscord, HookStarted
<1>4. ASSUME NEW p \in Pollers, StartPoller(p) PROVE IInv'
  <2>1. started + 1 = Rank(p) /\ phase = "starting" /\ p \in Routines
      BY <1>4, <1>t, StartingFact DEF StartPoller, Starting, Routines
  <2>2. started \in 3..5
      BY <2>1, RankFact DEF Pollers
  <2>3. /\ routine' \in [Routines -> {"none", "idle", "busy", "done"}]
        /\ \A q \in Routines : q # p => routine'[q] = routine[q]
      BY <1>4, <2>1, SetFact DEF StartPoller
  <2>4. RoutinesStarted'
      BY <1>4, <2>1, <2>2, <2>3, RankFact DEF StartPoller, HookStarted, RoutinesStarted
  <2>5. QED BY <1>4, <2>1, <2>2, <2>3, <2>4 DEF StartPoller, HookStarted
<1>5. CASE Started
    BY <1>5 DEF Started, RoutinesStarted
<1>6. CASE StartFails
    BY <1>6 DEF StartFails, Starting, RoutinesStarted
<1>7. CASE StartCtxExpires
    BY <1>7 DEF StartCtxExpires, RoutinesStarted
<1>8. ASSUME NEW p \in Routines, Tick(p) PROVE IInv'
  <2>1. /\ routine' \in [Routines -> {"none", "idle", "busy", "done"}]
        /\ \A q \in Routines : q # p => routine'[q] = routine[q]
      BY <1>8, SetFact DEF Tick, Set
  <2>2. RoutinesStarted'
      BY <1>8, <2>1 DEF Tick, fx, RoutinesStarted
  <2>3. QED BY <1>8, <2>1, <2>2 DEF Tick, fx
<1>9. ASSUME NEW p \in Routines, Finish(p) PROVE IInv'
  <2>1. /\ routine' \in [Routines -> {"none", "idle", "busy", "done"}]
        /\ \A q \in Routines : q # p => routine'[q] = routine[q]
      BY <1>9, SetFact DEF Finish, Set
  <2>2. RoutinesStarted'
      BY <1>9, <2>1 DEF Finish, fx, RoutinesStarted
  <2>3. QED BY <1>9, <2>1, <2>2 DEF Finish, fx
<1>10. ASSUME NEW p \in Routines, Quit(p) PROVE IInv'
  <2>1. /\ routine' \in [Routines -> {"none", "idle", "busy", "done"}]
        /\ \A q \in Routines : q # p => routine'[q] = routine[q]
      BY <1>10, SetFact DEF Quit, Set
  <2>2. RoutinesStarted'
      BY <1>10, <2>1 DEF Quit, fx, Set, RoutinesStarted
  <2>3. QED BY <1>10, <2>1, <2>2 DEF Quit, fx
<1>11. ASSUME NEW p \in Pollers, PollerWrites(p) PROVE IInv'
  <2>1. p \in Routines /\ Rank(p) >= 3
      BY RankFact DEF Pollers, Routines
  <2>2. store = "open"
      BY <1>11, <2>1, RankFact DEF PollerWrites, RoutinesStarted
  <2>3. RoutinesStarted'
      BY <1>11 DEF PollerWrites, fx, RoutinesStarted
  <2>4. WriteToStore /\ StoreTypes
      BY <1>11 DEF PollerWrites, StoreTypes
  <2>5. UnsavedOK'
      BY <2>2, <2>4, WriteFact
  <2>6. QED BY <1>11, <2>2, <2>3, <2>4, <2>5, WriteFact DEF PollerWrites, StoreTypes, fx
<1>12. CASE HandlerStarts
    BY <1>12 DEF HandlerStarts, fx, RoutinesStarted
<1>13. CASE HandlerWrites
  <2>1. WriteToStore /\ StoreTypes
      BY <1>13 DEF HandlerWrites, StoreTypes
  <2>2. RoutinesStarted'
      BY <1>13 DEF HandlerWrites, fx, RoutinesStarted
  <2>3. UnsavedOK'
      BY <2>1, WriteFact
  <2>4. QED BY <1>13, <2>1, <2>2, <2>3, WriteFact DEF HandlerWrites, StoreTypes, fx
<1>14. CASE HandlerEnds
    BY <1>14 DEF HandlerEnds, fx, RoutinesStarted
<1>15. CASE DebouncedFlush
    BY <1>15 DEF DebouncedFlush, Store!Flush, Store!FlushFails, Store!Usable, fx,
                 RoutinesStarted
<1>16. CASE Signal
    BY <1>16 DEF Signal, RoutinesStarted
<1>17. ASSUME NEW h \in {"ntp", "discord"} \cup Pollers, Tell(h) PROVE IInv'
  <2>1. started \in 1..6 /\ started # 2 /\ RoutineOf(h) \in Routines
      BY <1>17, <1>t, StoppingFact DEF Tell, Pollers
  <2>2. RoutinesStarted'
      BY <1>17 DEF Tell, RoutinesStarted
  <2>3. QED BY <1>17, <2>1, <2>2 DEF Tell, Stopping
<1>18. ASSUME NEW h \in {"ntp", "discord"} \cup Pollers, Join(h) PROVE IInv'
  <2>1. /\ started \in 1..6 /\ started # 2
        /\ RoutineOf(h) \in Routines /\ Rank(RoutineOf(h)) = started
        /\ h = "discord" <=> started = 3
      BY <1>18, <1>t, StoppingFact DEF Join, Pollers
  <2>2. started' = started - 1 /\ started' \in 0..6
      BY <1>18, <2>1 DEF Join
  <2>3. routine[RoutineOf(h)] = "done" /\ routine' = routine
      BY <1>18 DEF Join
  <2>4. \A p \in Routines : Rank(p) = started => p = RoutineOf(h)
      BY <2>1, RankFact DEF Routines, Pollers
  <2>5. RoutinesStarted'
      BY <2>1, <2>2, <2>3, <2>4, RankFact DEF RoutinesStarted
  <2>6. phase = "stopping" /\ waiting
      BY <1>18 DEF Join, Stopping
  <2>7. store' = store /\ StoreStarted'
      BY <1>18, <2>1, <2>2, <2>6 DEF Join
  <2>8. session' \in BOOLEAN /\ SessionStarted'
    <3>1. CASE started = 3
      <4>1. h = "discord" /\ ~(started' >= 3)
          BY <2>1, <2>2, <3>1
      <4>2. ~session' /\ session' \in BOOLEAN
          BY <1>18, <4>1, Zenon DEF Join
      <4>3. QED BY <4>1, <4>2
    <3>2. CASE started # 3
      <4>1. h # "discord" /\ (started >= 3 <=> started' >= 3)
          BY <2>1, <2>2, <3>2
      <4>2. session' <=> session
          BY <1>18, <4>1 DEF Join
      <4>3. session' \in BOOLEAN
          BY <1>18 DEF Join
      <4>4. QED BY <4>1, <4>2, <4>3
    <3>3. QED BY <3>1, <3>2
  <2>9. TypeOK'
      BY <1>18, <2>2, <2>7, <2>8 DEF Join
  <2>10. WaitingOK' /\ ExitedOK' /\ RunningOK' /\ UnsavedOK'
      BY <1>18, <2>6, <2>7 DEF Join
  <2>11. QED BY <2>5, <2>7, <2>8, <2>9, <2>10
<1>19. CASE FinalFlush
  <2>1. started = 2 /\ phase = "stopping"
      BY <1>19, <1>t, StoppingFact DEF FinalFlush, Stopping
  <2>2. RoutinesStarted'
      BY <1>19 DEF FinalFlush, fx, RoutinesStarted
  <2>3. Store!FinalFlush /\ StoreTypes
      BY <1>19 DEF FinalFlush, StoreTypes
  <2>4. UnsavedOK'
      BY <2>3, FinalFlushFact
  <2>5. TypeOK'
      BY <1>19, <2>3, FinalFlushFact DEF FinalFlush, StoreTypes, fx
  <2>6. QED BY <1>19, <2>1, <2>2, <2>3, <2>4, <2>5, FinalFlushFact DEF FinalFlush, fx
<1>20. CASE CloseStore
  <2>1. started = 2 /\ phase = "stopping"
      BY <1>20, <1>t, StoppingFact DEF CloseStore, Stopping
  <2>2. \A p \in Routines : Rank(p) # 2
      BY RankFact DEF Routines, Pollers
  <2>3. RoutinesStarted'
      BY <1>20, <2>1, <2>2, RankFact DEF CloseStore, RoutinesStarted
  <2>4. QED BY <1>20, <2>1, <2>3 DEF CloseStore, Store!Close
<1>21. CASE Exit
    BY <1>21 DEF Exit, RoutinesStarted
<1>22. CASE StopTimeout
    BY <1>22 DEF StopTimeout, RoutinesStarted
<1>23. CASE UNCHANGED vars
    BY <1>23 DEF vars, fx, RoutinesStarted
<1>24. QED
    BY <1>1, <1>2, <1>3, <1>4, <1>5, <1>6, <1>7, <1>8, <1>9, <1>10, <1>11, <1>12, <1>13,
       <1>14, <1>15, <1>16, <1>17, <1>18, <1>19, <1>20, <1>21, <1>22, <1>23
       DEF Next, StartStep, StopStep

\* The inductive invariant holds throughout every behaviour.
LEMMA Invariance == Spec => []IInv
BY InitIInv, StepIInv, PTL DEF Spec

-----------------------------------------------------------------------------
\* Every reachable state is well typed.
THEOREM TypeCorrect == Spec => []TypeOK
<1>1. IInv => TypeOK
    BY DEF IInv
<1>2. QED BY <1>1, Invariance, PTL

\* No poll and no announcement runs but between the restore of the store and
\* its final flush.
THEOREM StoreOutlivesPolls == Spec => []PollsNeedStore
<1>1. IInv => PollsNeedStore
  <2> SUFFICES ASSUME IInv, NEW p \in Pollers \cup {"scheduler"}, routine[p] = "busy"
               PROVE  store = "open"
      BY DEF PollsNeedStore
  <2>1. p \in Routines /\ Rank(p) >= 3 /\ Rank(p) \in 1..6
      BY RankFact DEF Routines, Pollers
  <2>2. started >= Rank(p)
      BY <2>1 DEF IInv, RoutinesStarted
  <2>3. started >= 3
      BY <2>1, <2>2, HooksFact DEF IInv, TypeOK
  <2>4. QED BY <2>3 DEF IInv, StoreStarted
<1>2. QED BY <1>1, Invariance, PTL

\* Whoever may post a message finds the Discord connection open.
THEOREM SessionOutlivesPosts == Spec => []PostsNeedSession
<1>1. IInv => PostsNeedSession
  <2> SUFFICES ASSUME IInv, NEW p \in {"elvui", "scheduler"}, routine[p] = "busy"
               PROVE  session
      BY DEF PostsNeedSession
  <2>1. p \in Routines /\ Rank(p) >= 3 /\ Rank(p) \in 1..6
      BY RankFact DEF Routines, Pollers
  <2>2. started >= Rank(p)
      BY <2>1 DEF IInv, RoutinesStarted
  <2>3. started >= 3
      BY <2>1, <2>2, HooksFact DEF IInv, TypeOK
  <2>4. QED BY <2>3 DEF IInv, SessionStarted
<1>2. QED BY <1>1, Invariance, PTL

\* A process that ends without a timeout has stopped and closed everything;
\* and however it ends, it saved all but raced and late writes, unless its last
\* flush failed or a timeout came before the store's final one.
THEOREM CleanExit == Spec => []ExitIsClean
<1>1. IInv => ExitIsClean
  <2> SUFFICES ASSUME IInv, phase = "exited" PROVE ExitIsClean
      BY DEF ExitIsClean
  <2>1. ASSUME ~timedOut
        PROVE  /\ \A p \in Routines : routine[p] \in {"none", "done"}
               /\ store \in {"new", "closed"} /\ ~session
    <3>1. started = 0
        BY <2>1 DEF IInv, ExitedOK
    <3>2. \A p \in Routines : routine[p] \in {"none", "done"}
        BY <3>1, RankFact DEF IInv, RoutinesStarted, TypeOK
    <3>3. store \in {"new", "closed"} /\ ~session
        BY <3>1 DEF IInv, StoreStarted, SessionStarted
    <3>4. QED BY <3>2, <3>3
  <2>2. store = "open" => timedOut
      BY <2>1
  <2>3. QED BY <2>1, <2>2 DEF IInv, UnsavedOK, ExitIsClean
<1>2. QED BY <1>1, Invariance, PTL
=============================================================================
