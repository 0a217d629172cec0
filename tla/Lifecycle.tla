------------------------------ MODULE Lifecycle ------------------------------
(***************************************************************************)
(* The life of the bot's process (cmd/bot, run by fx): the hooks that      *)
(* start the components one after the other and stop them in the reverse   *)
(* order, the background goroutines the components run in between, and the *)
(* handlers Discord starts for commands, for which nothing waits.          *)
(*                                                                         *)
(* The store is present by its contract, StoreLife, which SQLiteStore is   *)
(* shown to implement.  So is fx: hooks run in order, a failed start is    *)
(* rolled back, and an expired context ends the start or the stop where it *)
(* stands.                                                                 *)
(***************************************************************************)
EXTENDS Naturals, Sequences

VARIABLES
    phase,     \* what fx is doing
    started,   \* hooks started and not yet stopped
    waiting,   \* the OnStop of the last of them awaits its goroutine
    startCtx,  \* the context of the OnStart hooks has not expired
    store,     \* how far the store has come in its life (StoreLife)
    session,   \* the Discord connection is open
    routine,   \* the state of every background goroutine
    told,      \* goroutines whose stop channel is closed, or context cancelled
    handler,   \* a Discord command is being handled
    unsaved,   \* an acknowledged write is not in the snapshot
    raced,     \* a write may have raced with a callback's flush
    late,      \* a write came after the store's final flush
    failed,    \* the last flush failed
    timedOut   \* history: fx gave up on a start or a stop

Store == INSTANCE StoreLife

fx == <<phase, started, waiting, startCtx>>
db == <<store, unsaved, raced, late, failed>>
vars == <<fx, session, routine, told, handler, db, timedOut>>

\* Mutants: the store, or Discord, is started last and stopped first.
HooksStoreLast == <<"ntp", "discord", "wcl", "rio", "elvui", "store">>
HooksDiscordLast == <<"ntp", "store", "wcl", "rio", "elvui", "discord">>

\* The components in the order their hooks are appended.
Hooks == <<"ntp", "store", "discord", "wcl", "rio", "elvui">>
Pollers == {"wcl", "rio", "elvui"}
Routines == Pollers \cup {"ntp", "scheduler"}

\* The goroutine a component's OnStop waits for.
RoutineOf(h) == IF h = "discord" THEN "scheduler" ELSE h

Init ==
    /\ phase = "starting" /\ started = 0 /\ waiting = FALSE /\ startCtx = TRUE
    /\ Store!Init
    /\ session = FALSE
    /\ routine = [p \in Routines |-> "none"]
    /\ told = {}
    /\ handler = FALSE
    /\ timedOut = FALSE

-----------------------------------------------------------------------------
(* Start *)

Starting(h) == phase = "starting" /\ started < Len(Hooks) /\ Hooks[started + 1] = h

HookStarted == started' = started + 1 /\ UNCHANGED <<phase, waiting, startCtx>>

\* One synchronisation, then a goroutine for the rest.
StartNTP ==
    /\ Starting("ntp")
    /\ HookStarted
    /\ routine' = [routine EXCEPT !["ntp"] = "idle"]
    /\ UNCHANGED <<db, session, told, handler, timedOut>>

\* A restore that fails is only warned about.
StartStore ==
    /\ Starting("store")
    /\ HookStarted
    /\ Store!Open
    /\ UNCHANGED <<session, routine, told, handler, timedOut>>

StartDiscord ==
    /\ Starting("discord")
    /\ HookStarted
    /\ session' = TRUE
    /\ routine' = [routine EXCEPT !["scheduler"] = "idle"]
    /\ UNCHANGED <<db, told, handler, timedOut>>

\* A poller's goroutine polls at once, before it waits for its ticker.
StartPoller(p) ==
    /\ Starting(p)
    /\ HookStarted
    /\ routine' = [routine EXCEPT ![p] = "busy"]
    /\ UNCHANGED <<db, session, told, handler, timedOut>>

\* The store does not open, or Discord cannot be reached: the hooks that did
\* start are stopped.
StartFails ==
    /\ Starting("store") \/ Starting("discord")
    /\ phase' = "stopping"
    /\ UNCHANGED <<started, waiting, startCtx, db, session, routine, told, handler, timedOut>>

Started ==
    /\ phase = "starting" /\ started = Len(Hooks)
    /\ phase' = "running"
    /\ UNCHANGED <<started, waiting, startCtx, db, session, routine, told, handler, timedOut>>

\* The start timeout of fx runs out: a start under way is given up.
StartCtxExpires ==
    /\ startCtx /\ phase # "exited"
    /\ startCtx' = FALSE
    /\ phase' = IF phase = "starting" THEN "exited" ELSE phase
    /\ timedOut' = (timedOut \/ phase = "starting")
    /\ UNCHANGED <<started, waiting, db, session, routine, told, handler>>

-----------------------------------------------------------------------------
(* The goroutines *)

Set(p, state) == routine' = [routine EXCEPT ![p] = state]

Alive == phase # "exited"

\* The ticker.  Go's select may take it also when the stop channel is closed.
Tick(p) ==
    /\ Alive /\ routine[p] = "idle"
    /\ Set(p, "busy")
    /\ UNCHANGED <<fx, db, session, told, handler, timedOut>>

\* A write returns an error before the database is opened and once it is closed.
WriteToStore == Store!Write \/ (~Store!Usable /\ UNCHANGED db)

PollerWrites(p) ==
    /\ Alive /\ routine[p] = "busy"
    /\ WriteToStore
    /\ UNCHANGED <<fx, session, routine, told, handler, timedOut>>

\* The end of a poll, a post or a synchronisation.
Finish(p) ==
    /\ Alive /\ routine[p] = "busy"
    /\ Set(p, "idle")
    /\ UNCHANGED <<fx, db, session, told, handler, timedOut>>

\* Mutant: the stop channel is missing from the select.
QuitByContext(p) ==
    /\ Alive /\ routine[p] = "idle"
    /\ p = "ntp" /\ ~startCtx
    /\ Set(p, "done")
    /\ UNCHANGED <<fx, db, session, told, handler, timedOut>>

\* The select takes the stop channel.  The context of the clock's goroutine
\* is derived from the one its OnStart hook was given.
Quit(p) ==
    /\ Alive /\ routine[p] = "idle"
    /\ p \in told \/ (p = "ntp" /\ ~startCtx)
    /\ Set(p, "done")
    /\ UNCHANGED <<fx, db, session, told, handler, timedOut>>

\* discordgo runs the handler in a goroutine, until Stop removes it.
HandlerStarts ==
    /\ Alive /\ session /\ "scheduler" \notin told /\ ~handler
    /\ handler' = TRUE
    /\ UNCHANGED <<fx, db, session, routine, told, timedOut>>

HandlerWrites ==
    /\ Alive /\ handler
    /\ WriteToStore
    /\ UNCHANGED <<fx, session, routine, told, handler, timedOut>>

HandlerEnds ==
    /\ Alive /\ handler
    /\ handler' = FALSE
    /\ UNCHANGED <<fx, db, session, routine, told, timedOut>>

\* A callback of the flush timer, which may also come after the final flush.
DebouncedFlush ==
    /\ Alive
    /\ Store!Flush \/ Store!FlushFails
    /\ UNCHANGED <<fx, session, routine, told, handler, timedOut>>

-----------------------------------------------------------------------------
(* Stop *)

Signal ==
    /\ phase = "running"
    /\ phase' = "stopping"
    /\ UNCHANGED <<started, waiting, startCtx, db, session, routine, told, handler, timedOut>>

\* The hook being stopped.
Stopping(h) == phase = "stopping" /\ started > 0 /\ Hooks[started] = h

\* Mutant: the channel closed is not the one the goroutine reads.
TellHook(h) ==
    /\ Stopping(h) /\ ~waiting
    /\ told' = told \cup {h}
    /\ waiting' = TRUE
    /\ UNCHANGED <<phase, started, startCtx, db, session, routine, handler, timedOut>>

\* Stop closes the goroutine's channel, or cancels its context.  That of
\* Discord first removes the handler, so no further command is handled.
Tell(h) ==
    /\ Stopping(h) /\ ~waiting
    /\ told' = told \cup {RoutineOf(h)}
    /\ waiting' = TRUE
    /\ UNCHANGED <<phase, started, startCtx, db, session, routine, handler, timedOut>>

\* Mutant: Stop does not wait.
JoinAtOnce(h) ==
    /\ Stopping(h) /\ waiting
    /\ started' = started - 1
    /\ waiting' = FALSE
    /\ session' = (session /\ h # "discord")
    /\ UNCHANGED <<phase, startCtx, db, routine, told, handler, timedOut>>

\* ... and waits for it to end.  Then Discord closes the connection.
Join(h) ==
    /\ Stopping(h) /\ waiting
    /\ routine[RoutineOf(h)] = "done"
    /\ started' = started - 1
    /\ waiting' = FALSE
    /\ session' = (session /\ h # "discord")
    /\ UNCHANGED <<phase, startCtx, db, routine, told, handler, timedOut>>

\* Shutdown of the store: the final flush, if the store is dirty, and the
\* close.
FinalFlush ==
    /\ Stopping("store")
    /\ Store!FinalFlush
    /\ UNCHANGED <<fx, session, routine, told, handler, timedOut>>

CloseStore ==
    /\ Stopping("store")
    /\ Store!Close
    /\ started' = started - 1
    /\ UNCHANGED <<phase, waiting, startCtx, session, routine, told, handler, timedOut>>

Exit ==
    /\ phase = "stopping" /\ started = 0
    /\ phase' = "exited"
    /\ UNCHANGED <<started, waiting, startCtx, db, session, routine, told, handler, timedOut>>

\* The stop timeout of fx, 15 seconds for all the hooks, may run out anywhere
\* in the stop: on a goroutine in the middle of a request, which may take 30,
\* between two hooks, in the store's Shutdown or while the connection closes.
\* A failed start is rolled back under the context of the start.
StopTimeout ==
    /\ phase = "stopping"
    /\ routine["wcl"] = "none" => ~startCtx
    /\ phase' = "exited"
    /\ timedOut' = TRUE
    /\ UNCHANGED <<started, waiting, startCtx, db, session, routine, told, handler>>

-----------------------------------------------------------------------------
StartStep ==
    StartNTP \/ StartStore \/ StartDiscord \/ (\E p \in Pollers : StartPoller(p)) \/ Started

StopStep ==
    \/ \E h \in {"ntp", "discord"} \cup Pollers : Tell(h) \/ Join(h)
    \/ FinalFlush \/ CloseStore \/ Exit

Next ==
    \/ StartStep \/ StartFails \/ StartCtxExpires
    \/ \E p \in Routines : Tick(p) \/ Finish(p) \/ Quit(p)
    \/ \E p \in Pollers : PollerWrites(p)
    \/ HandlerStarts \/ HandlerWrites \/ HandlerEnds
    \/ DebouncedFlush
    \/ Signal \/ StopStep \/ StopTimeout

\* fx and the goroutines run; requests end, at the latest by their timeouts;
\* a select that is offered the stop channel over and over takes it.
Fairness ==
    /\ WF_vars(StopStep)
    /\ \A p \in Routines : WF_vars(Finish(p)) /\ SF_vars(Quit(p))

Spec == Init /\ [][Next]_vars
FairSpec == Spec /\ Fairness

-----------------------------------------------------------------------------
(* Properties *)

TypeOK ==
    /\ phase \in {"starting", "running", "stopping", "exited"}
    /\ started \in 0..Len(Hooks)
    /\ waiting \in BOOLEAN /\ startCtx \in BOOLEAN
    /\ store \in {"new", "open", "flushed", "closed"}
    /\ session \in BOOLEAN
    /\ routine \in [Routines -> {"none", "idle", "busy", "done"}]
    /\ told \subseteq Routines
    /\ handler \in BOOLEAN /\ timedOut \in BOOLEAN
    /\ unsaved \in BOOLEAN /\ raced \in BOOLEAN /\ late \in BOOLEAN /\ failed \in BOOLEAN

\* No poll and no announcement is under way before the store is restored or
\* once its final flush has begun: the pollers' writes all reach the snapshot,
\* and their reads never see a closed database (order of the hooks, Stop).
PollsNeedStore ==
    \A p \in Pollers \cup {"scheduler"} : routine[p] = "busy" => store = "open"

\* Whoever may post a message finds the Discord connection open: the ElvUI
\* poller's notifications and the scheduler's announcements (order, Stop).
PostsNeedSession ==
    \A p \in {"elvui", "scheduler"} : routine[p] = "busy" => session

\* A process that ended without a timeout, after a signal or a failed start,
\* has stopped every goroutine and closed what it opened.  And however it
\* ended, its snapshot lacks nothing, unless a timeout came before the store's
\* final flush, a write raced with a callback, a command was still being
\* handled after the final flush, or the last flush failed.
ExitIsClean ==
    phase = "exited" =>
        /\ ~timedOut =>
               /\ \A p \in Routines : routine[p] \in {"none", "done"}
               /\ store \in {"new", "closed"} /\ ~session
        /\ unsaved => (timedOut /\ store = "open") \/ raced \/ late \/ failed

\* A stop never hangs, also without fx's timeout: every goroutine an OnStop
\* waits for reads the channel its Stop closes, after a start and after the
\* roll-back of one (Stop, run).
StopEnds == phase = "stopping" ~> phase = "exited"

\* "Start performs an initial NTP sync and starts a background goroutine that
\* re-syncs on the configured interval" (ntp.go:89): it lives as the bot does.
ClockKeepsSyncing == phase = "running" => routine["ntp"] # "done"
=============================================================================
