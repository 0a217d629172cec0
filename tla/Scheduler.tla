----------------------------- MODULE Scheduler ------------------------------
(***************************************************************************)
(* The daily announcement (discord.runScheduler) on the clock of           *)
(* WeeklyReset.  A ticker fires once a minute and the goroutine reads the  *)
(* bot's clock when it gets to the tick, which may be in a later minute;   *)
(* it posts if the clock shows exactly seven on the wall.  The clock       *)
(* (clock.NTPClock) is off by an error that changes when the system's      *)
(* clock does and that a synchronisation removes; the process, and with it *)
(* a poll under way, may die and start again at any time.                  *)
(***************************************************************************)
EXTENDS WeeklyReset

CONSTANT MaxEvents   \* bound: runs, crashes and changes of the clock

\* Wherever the clock is set, days count from 0.
ASSUME SchedulerAssumption ==
    /\ MaxEvents \in Nat
    /\ Start >= MaxError + Hours(8)

VARIABLES
    up,         \* the process runs
    fired,      \* the ticker has fired, or was started, in this minute
    pending,    \* a tick nobody has read; the channel holds one
    lastPost,   \* the goroutine's lastPost, as a day; Never if zero
    posting,    \* what postDailyAnnouncement is doing
    events,     \* crashes and changes of the clock so far
    \* History, read by properties only.
    tried,      \* days any process has announced whose seven o'clock the
                \* clock, off as far as it may be, can still show
    setBack,    \* of those, the ones since whose announcement the clock
                \* was set back
    disturbed   \* something went wrong since shortly before seven

process == <<up, fired, pending, lastPost, posting>>
history == <<tried, setBack, disturbed>>
vars == <<week, error, process, events, history>>

\* Seven o'clock of a day, on the wall and as an instant.
Seven(d) == Hours(24 * d + 7)
At(d) == Date(Seven(d))

\* Minutes before seven, and after, at which no clock shows seven.
Early == MaxError + 1

\* c.clock.Now() on the wall in Los Angeles.
WallNow == In(Clock)
Today == Day(WallNow)

SInit ==
    /\ Init
    /\ up = FALSE /\ fired = FALSE /\ pending = FALSE
    /\ lastPost = Never /\ posting = "no"
    /\ events = 0
    /\ tried = {} /\ setBack = {} /\ disturbed = TRUE

Count ==
    /\ events + Cardinality(ended \cup stored) < MaxEvents
    /\ events' = events + 1

\* The days announced before the clock was set back.
NoteSetBack == setBack' = IF error' < error THEN tried ELSE setBack

-----------------------------------------------------------------------------
(* The process *)

\* Mutant: a tick at once.
BootAtOnce ==
    /\ ~up
    /\ up' = TRUE /\ fired' = TRUE /\ pending' = TRUE
    /\ lastPost' = Never
    /\ error' \in {error, 0}
    /\ NoteSetBack
    /\ UNCHANGED <<week, posting, events, tried, disturbed>>

\* NTPClock.Start synchronises, or fails and keeps the offset; the
\* scheduler's first tick is a minute away.
Boot ==
    /\ ~up
    /\ up' = TRUE /\ fired' = TRUE /\ pending' = FALSE
    /\ lastPost' = Never
    /\ error' \in {error, 0}
    /\ NoteSetBack
    /\ UNCHANGED <<week, posting, events, tried, disturbed>>

\* Mutant: the post under way goes on.
CrashLeavesPost ==
    /\ up
    /\ Count
    /\ up' = FALSE /\ fired' = FALSE /\ pending' = FALSE
    /\ PollOver
    /\ disturbed' = TRUE
    /\ UNCHANGED <<now, runs, error, lastPost, posting, tried, setBack>>

\* A crash, or a shutdown, in which Stop waits for a post under way.
Crash ==
    /\ up
    /\ Count
    /\ up' = FALSE /\ fired' = FALSE /\ pending' = FALSE
    /\ posting' = "no"
    /\ PollOver
    /\ disturbed' = TRUE
    /\ UNCHANGED <<now, runs, error, lastPost, tried, setBack>>

\* The system's clock drifts or is set, or a synchronisation corrects it.
Adjust ==
    /\ Count
    /\ error' \in (-MaxError..MaxError) \ {error}
    /\ NoteSetBack
    /\ disturbed' = TRUE
    /\ UNCHANGED <<week, process, tried>>

-----------------------------------------------------------------------------
(* The scheduler's goroutine *)

\* Without a reader the ticker drops what its channel does not hold.
Fire ==
    /\ up /\ ~fired
    /\ fired' = TRUE /\ pending' = TRUE
    /\ UNCHANGED <<week, error, up, lastPost, posting, events, history>>

\* Mutant: the offset of winter all year.
DueInWinter == TimeOfDay(Clock - Hours(8)) = Hours(7) /\ Today # lastPost

\* Mutant: lastPost is not looked at.
DueAgain == TimeOfDay(WallNow) = Hours(7)

\* Hour() == 7 && Minute() == 0, and not announced today by this process.
Due == TimeOfDay(WallNow) = Hours(7) /\ Today # lastPost

Skip ==
    /\ pending /\ posting = "no"
    /\ ~Due
    /\ pending' = FALSE
    /\ UNCHANGED <<week, error, up, fired, lastPost, posting, events, history>>

\* lastPost is set before the post is made: one that fails is not repeated.
Announce ==
    /\ pending /\ posting = "no"
    /\ Due
    /\ pending' = FALSE
    /\ lastPost' = Today
    /\ posting' = IF Weekday(WallNow) = Tuesday THEN "archive" ELSE "report"
    /\ tried' = tried \cup {Today} /\ setBack' = setBack \ {Today}
    /\ UNCHANGED <<week, error, up, fired, events, disturbed>>

\* Archived or not, the week's message follows.
ArchiveWeek ==
    /\ posting = "archive"
    /\ posting' = "dawn"
    /\ UNCHANGED <<week, error, up, fired, pending, lastPost, events, history>>

\* The message, or the report, is sent, fails, or there is nothing to report.
PostEnds ==
    /\ posting \in {"dawn", "report"}
    /\ posting' = "no"
    /\ UNCHANGED <<week, error, up, fired, pending, lastPost, events, history>>

-----------------------------------------------------------------------------
\* A minute passes.  An undisturbed day begins before any clock may show
\* seven, with the goroutine at its select; a tick that is still unread
\* disturbs it.  At the bound no new minute begins.
Minute ==
    /\ up => fired
    /\ Tick
    /\ fired' = (fired /\ now' = now)
    /\ disturbed' = IF TimeOfDay(In(now')) = Hours(7) - Early
                    THEN ~up \/ pending \/ posting # "no"
                    ELSE disturbed \/ pending
    /\ tried' = {d \in tried : now' <= At(d) + MaxError}
    /\ setBack' = setBack \cap tried'
    /\ UNCHANGED <<error, up, pending, lastPost, posting, events>>

\* A run ends, or the poller, while the process is up, looks for it.
Run ==
    /\ (EndRun /\ events < MaxEvents) \/ (Poll /\ up)
    /\ UNCHANGED <<error, process, events, history>>

SNext ==
    \/ Boot \/ Crash \/ Adjust
    \/ Fire \/ Skip \/ Announce \/ ArchiveWeek \/ PostEnds
    \/ Minute
    \/ Run

SSpec == SInit /\ [][SNext]_vars

-----------------------------------------------------------------------------
(* Properties *)

\* A tick, a post or a poll is of a process that runs.
TypeOK ==
    /\ now \in Start..End
    /\ ended \cup stored \subseteq RunEnds /\ polled \subseteq ended \cup stored
    /\ began \in Nat \cup {Never} /\ shown \in Nat \cup {Never}
    /\ began # Never => shown \in began - MaxError..began + MaxError
    /\ error \in -MaxError..MaxError
    /\ pending \/ posting # "no" \/ began # Never => up
    /\ up \in BOOLEAN /\ fired \in BOOLEAN /\ pending \in BOOLEAN
    /\ lastPost \in Nat \cup {Never}
    /\ posting \in {"no", "archive", "dawn", "report"}
    /\ events \in 0..MaxEvents
    /\ tried \subseteq Nat /\ setBack \subseteq tried /\ disturbed \in BOOLEAN

\* A day without a crash, a change of the clock or an unread tick around seven
\* is announced, also in the weeks in which the clocks change and with a clock
\* that is off all the while (runScheduler's sampling of an exact minute).
CalmDayAnnounced ==
    LET wall == In(now) IN
        ~disturbed /\ TimeOfDay(wall) >= Hours(7) + Early => lastPost = Day(wall)

Announces == posting = "no" /\ posting' # "no"

\* Nobody remembers across a restart what was announced, yet the same day is
\* announced again only if the clock was set back in between: the first tick
\* comes a minute after the start (runScheduler).
RepeatedOnlyAfterSetBack ==
    [][Announces /\ Today \in tried => Today \in setBack]_vars

\* A process announces no day twice, and none before an earlier one, also if
\* the clock is set back over seven o'clock (lastPost of runScheduler).
AnnouncesInOrder == [][Announces => lastPost < Today]_vars
=============================================================================
