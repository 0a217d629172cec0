---------------------------- MODULE WeeklyReset -----------------------------
(***************************************************************************)
(* The weekly cutoff (timeutil.WeeklyResetIn) and the two ways the bot     *)
(* applies it to a run's completion time: as instants, in the RaiderIO     *)
(* poller, and as text, in the store's queries.  Both take the time from   *)
(* the bot's clock, which may be off.                                      *)
(*                                                                         *)
(* Time is counted in minutes, of which an hour has MinutesPerHour.        *)
(* Instants count from a Monday 00:00 UTC and wall-clock times from the    *)
(* same Monday 00:00 local time: day 0 is a Monday.  Runs end on the       *)
(* minute; the reset and the changes of the clocks fall on the hour.       *)
(***************************************************************************)
EXTENDS Integers, FiniteSets

CONSTANTS
    MinutesPerHour,
    SpringForward,   \* the instant daylight saving time begins
    FallBack,        \* the instant it ends
    Start, End,      \* the instants the clock runs through
    RunEnds,         \* bound: the instants at which runs may end
    MaxRuns,         \* bound: runs
    PollInterval,    \* of the RaiderIO poller
    PollTimeout,     \* the longest a poll waits for RaiderIO's answer
    MaxError         \* the minutes the bot's clock may be off

ASSUME TimeAssumption ==
    /\ MinutesPerHour \in Nat \ {0}
    /\ Start \in Nat /\ End \in Nat /\ Start < End
    /\ SpringForward \in Nat /\ FallBack \in Nat /\ SpringForward < FallBack
    /\ RunEnds \subseteq Nat
    /\ MaxRuns \in Nat /\ PollInterval \in Nat /\ PollTimeout \in Nat
    /\ MaxError \in Nat /\ MaxError <= Start

VARIABLES
    now,      \* the instant
    error,    \* what the bot's clock shows minus the instant
    ended,    \* completion times of the runs reported and not stored
    stored,   \* completion times of the stored runs
    began,    \* the instant the poll under way read the clock; or Never
    shown,    \* the time it read
    polled    \* history: runs a poll came upon that began within an interval

runs == <<ended, stored, polled>>
poll == <<began, shown>>
week == <<now, runs, poll>>

Never == -1

\* c.clock.Now()
Clock == now + error

-----------------------------------------------------------------------------
(* America/Los_Angeles *)

Hours(n) == n * MinutesPerHour

\* Behind UTC: PDT between the two changes, else PST.
Behind(u) == IF SpringForward <= u /\ u < FallBack THEN Hours(7) ELSE Hours(8)

\* t.In(loc)
In(u) == u - Behind(u)

\* time.Date(...) of a wall-clock time that exists once.
Date(wall) == CHOOSE u \in {wall + Hours(7), wall + Hours(8)} : In(u) = wall

Day(wall) == wall \div Hours(24)
TimeOfDay(wall) == wall % Hours(24)

\* time.Weekday: Sunday is 0.
Tuesday == 2
Weekday(wall) == (Day(wall) + 1) % 7

WeeklyResetHour == 7

\* The clocks change from, and back at, two o'clock on the wall.
ASSUME ChangesAssumption ==
    /\ TimeOfDay(SpringForward - Hours(8)) = Hours(2)
    /\ TimeOfDay(FallBack - Hours(7)) = Hours(2)

-----------------------------------------------------------------------------
\* Mutant: Tuesday morning belongs to the week about to begin.
WeeklyResetEarly(u) ==
    LET n == In(u)
        tuesday == Day(n) - ((Weekday(n) - Tuesday + 7) % 7)
    IN  Date(Hours(24 * tuesday + WeeklyResetHour))

\* WeeklyResetIn: back to this week's Tuesday by the calendar, at seven; a
\* week further back if that is still to come.
WeeklyResetIn(u) ==
    LET n == In(u)
        tuesday == Day(n) - ((Weekday(n) - Tuesday + 7) % 7)
        reset == Hours(24 * tuesday + WeeklyResetHour)
    IN  IF u < Date(reset) THEN Date(reset - Hours(24 * 7)) ELSE Date(reset)

\* Mutants of the query: the zones swapped; only the cutoff's date compared.
AfterAsSwappedText(t, cutoff) == In(t) >= cutoff
AfterAsDateText(t, cutoff) == t >= Hours(24 * Day(In(cutoff)))

\* "k.completed_at > ?" compares texts: completed_at shows UTC and ends in Z,
\* the cutoff shows local time and ends in its offset.  The digits decide; of
\* equal digits, Z (or the dot of a fraction) sorts after the sign.
AfterAsText(t, cutoff) == t >= In(cutoff)

\* Mutant: the poller compares as the queries do.
AfterCutoffSwapped(t, cutoff) == In(t) > cutoff

\* afterCutoff of the RaiderIO poller: strictly later.
AfterCutoff(t, cutoff) == t > cutoff

\* ListKeysByCharacterSince and the other queries since the weekly reset.
ListKeysSince(cutoff) == {t \in stored : AfterAsText(t, cutoff)}

-----------------------------------------------------------------------------
Init ==
    /\ now = Start /\ error = 0
    /\ ended = {} /\ stored = {} /\ polled = {}
    /\ began = Never /\ shown = Never

\* Time passes, but not beyond the timeout of a request; at the bound the
\* clock stands still.
Tick ==
    /\ began # Never => now < began + PollTimeout
    /\ now' = IF now < End THEN now + 1 ELSE now
    /\ UNCHANGED <<runs, poll>>

EndRun ==
    /\ now \in RunEnds
    /\ Cardinality(ended \cup stored) < MaxRuns
    /\ now \notin stored
    /\ ended' = ended \cup {now}
    /\ UNCHANGED <<now, stored, polled, poll>>

\* Bound: a poll that can come upon no run changes nothing.
MayFindRuns == ended # {} \/ \E t \in RunEnds : now <= t /\ t <= now + PollTimeout

\* pollCharacter reads the clock, and asks RaiderIO.
PollBegins ==
    /\ began = Never
    /\ MayFindRuns
    /\ began' = now /\ shown' = Clock
    /\ UNCHANGED <<now, runs>>

PollOver == began' = Never /\ shown' = Never

\* RaiderIO answers with the runs there are by now: those after the cutoff,
\* as it was when the poll began, are stored, the others skipped.
PollAnswered ==
    /\ began # Never
    /\ LET current == {t \in ended : AfterCutoff(t, WeeklyResetIn(shown))} IN
           /\ stored' = stored \cup current
           /\ ended' = ended \ current
    /\ polled' = polled \cup {t \in ended : began <= t + PollInterval}
    /\ PollOver
    /\ UNCHANGED now

\* An error, or no answer in time.
PollFails ==
    /\ began # Never
    /\ PollOver
    /\ UNCHANGED <<now, runs>>

Poll == PollBegins \/ PollAnswered \/ PollFails

Next == (Tick \/ EndRun \/ Poll) /\ UNCHANGED error

Spec == Init /\ [][Next]_<<week, error>>

-----------------------------------------------------------------------------
(* Properties *)

\* By the bot's clock, the reset is a Tuesday seven o'clock on the wall, not in
\* the future, and the wall shows less than a week since: no later one has
\* passed, also in the weeks in which the clocks change (WeeklyResetIn).
ResetIsLatestTuesday ==
    LET reset == WeeklyResetIn(Clock) IN
        /\ Weekday(In(reset)) = Tuesday
        /\ TimeOfDay(In(reset)) = Hours(WeeklyResetHour)
        /\ reset <= Clock
        /\ In(Clock) - In(reset) < Hours(7 * 24)

\* A run that a poll comes upon, begun at most an interval after its end, stays
\* out of the store only if a reset came in between, as far as a clock that is
\* off can tell: it is then taken for a run of the week before (pollCharacter).
LostOnlyAtReset ==
    \A t \in polled \cap ended : WeeklyResetIn(t + PollInterval + MaxError) >= t

\* No run of the current week is missing from what the queries return: the
\* text of the cutoff is never ahead of the instant it stands for.
NothingMissed ==
    \A t \in stored : t > WeeklyResetIn(Clock) => t \in ListKeysSince(WeeklyResetIn(Clock))

\* A run of an earlier week that the queries return ended less than the zone's
\* offset before the reset: the text is at most eight hours behind.
AtMostOffsetEarly ==
    \A t \in ListKeysSince(WeeklyResetIn(Clock)) : t >= WeeklyResetIn(Clock) - Hours(8)

\* "Show all keys completed this week" (discord.go:595): what the queries
\* return ended in the current week.
OnlyThisWeek ==
    \A t \in ListKeysSince(WeeklyResetIn(Clock)) : t >= WeeklyResetIn(Clock)
=============================================================================
