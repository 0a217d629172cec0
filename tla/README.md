# Celestial Orrey, specified in TLA+

Celestial Orrey is a Discord bot, one Go process, that follows the Mythic+ runs
of a guild's World of Warcraft characters: it polls RaiderIO for completed keys,
links them to logs on WarcraftLogs, answers commands, posts a daily
announcement and reports new ElvUI versions. This directory holds TLA+ modules
of its logic, the TLC configurations that check them on small instances, and
theorems about them that TLAPS has proved. `PROJECT.json` maps every definition
to the lines it stands for.

    tlc -config SQLiteStore.cfg SQLiteStore.tla      # one run
    tlapm SQLiteStore_proofs.tla                     # one module of proofs

## The system

| Component | State | Operations | Interacts with |
|---|---|---|---|
| SQLite store (`store/`) | in-memory database, snapshot file, weekly archives, dirty flag, flush timer | Open, RestoreFromDisk, writes, FlushToDisk, ArchiveWeek, Shutdown, queries | called by every other part, under `s.mu` for one call at a time |
| RaiderIO poller (`raiderio/`) | known runs per character | each minute: one goroutine per stored character, at most `max_concurrent` at work | store, RaiderIO, linker |
| WarcraftLogs poller (`warcraftlogs/poller.go`) | none | each round: try every unlinked key | store, linker |
| Linker (`warcraftlogs/linker.go`) | none | MatchKey | WarcraftLogs |
| WarcraftLogs client | access token and its expiry | queries | WarcraftLogs |
| ElvUI poller (`elvui/`) | none (the last version is in the store) | poll; callback that posts a message | store, TukUI, Discord |
| Discord (`discord/`) | session, scheduler's last post | command handlers, each in a goroutine of its own; announcement at 7:00 | store, RaiderIO, linker |
| NTP clock (`clock/`) | offset | periodic sync | read by scheduler and cutoffs |
| Weekly cutoff (`timeutil/`) | none | WeeklyResetIn | pollers, commands, queries |
| Process (`cmd/bot`) | fx hooks | start in order, stop in reverse, each under one timeout | everything |

Nothing but the store's per-call mutex orders the goroutines. What is hard here:
steps of two goroutines between two store calls; the window between a write and
the debounced flush, in which a crash loses it; the flag shared by writers, timer
callbacks and shutdown; services that fail or answer late; starts and stops in
the wrong order; local time. `PROJECT.json` lists each such hazard at its
line with the properties that concern it.

What makes each part correct, in a sentence: the store's snapshot is always a
state the database had, never replaced by an older one, and in the end contains
what was acknowledged; the pollers miss no run and no link; a purged character
stays away; a key is linked to its own log; the cutoff is the latest Tuesday
seven o'clock; a version, and a day, is announced once; a token is
used while it is valid and fetched by one caller for all; the components are started before
and stopped after those that use them.

## Modules

### DurableStore, StoreLife and SQLiteStore

`DurableStore` is what the rest of the bot may rely on: contents are the set of
writes they reflect; a snapshot is a copy of the whole, a restart begins from
it or from nothing. `StoreLife` is what a process may rely on between opening its
store and closing it: it says nothing of contents, only whether an
acknowledged write is missing from the snapshot (`unsaved`), and what explains it if
one is at the end: a write that raced with a callback, one after the final flush, a
flush that failed. `SQLiteStore` has the mechanism and implements both. `mem` and `disk` are the
database and the snapshot, `dirty` and `timer` are `s.dirty` and `s.flushTimer`.
Every expired timer is a goroutine `cb[c]` with the steps of
`performScheduledFlush`: look at the flag, flush, clear the flag. `StopTimer`,
`ShutdownCheck`, `FinalFlush`, `Close` are the statements of `Shutdown`. A write
and a flush are one step each because `s.mu` is held throughout. `Exit` from any
phase is a crash. `raced`, `late`, `failed`, `empty` are history: they name the
exact exceptions the properties need.

*Run `store`*: 2 writes, 2 callbacks, late handlers. Two callbacks are what
it takes for one to be delayed across the other's flush and for a write to fall
into the gap before the flag is cleared; two writes let one be saved and the
other not. 66 thousand states. A write happens once per process, a process may
be restarted without limit.

*Run `store_shutdown`* takes the comment on `Shutdown` at its word, with no late
handlers and no failed flush, and is violated. A callback flushes and lets go of
`s.mu`, a write sets the flag, the callback clears it, `Shutdown` stops the
re-armed timer, sees a clean database and closes it.

### KeyTracking

The tables of characters, keys and links, and the four kinds of goroutines that
change them: `rio[c]` is the RaiderIO goroutine of character `c` with the fetched
runs it has not handled (`todo`), `unlinked` the list of the WarcraftLogs poller,
`sync` the handler of `!char sync`, and `Purge` that of `!char purge`, one
store call. Every store call is a step, every call that may fail has a step for
its failure, and whatever a goroutine remembers between two calls may be stale.
`Restart` is graceful: the tables survive. (What a crash does to the tables is
the subject of `SQLiteStore`; composing the two is in the plan.) RaiderIO's and
WarcraftLogs' answers are `played` and `logged`, which only grow within a week.
`caught` is history: the purged characters that a poll, from its listing on, or a sync was at
work for when they were purged.
A new week is not modelled here; the cutoff is `WeeklyReset`'s.

Links are counted to two, because the row a repeated insert adds is all that
matters. `None` in `known` is the absent map entry that makes the next poll read
the store.

*Runs*: two characters that share one run, one worker at a time
(`max_concurrent` is 10 in the configuration; it only delays workers) and one
sync handler at a time, a bound: Discord starts a goroutine per message.
`MaxEvents` counts commands, restarts and failing score updates together.
`tracking` allows one event, so that each of them meets the pollers at every
point, and checks safety and liveness (128 thousand states); that a sync, a
purge and a restart in the same behaviour break no safety property either is
what the theorem below says, for every value of the bound. `purge` and `links`
are violations: a poll that began before a purge brings the character back (only such a
poll or sync does: `PurgeHolds`), and
the UNIQUE constraint never applies because `pull_id` is NULL. `scored` is the set of
characters whose `rio_score` has been set: a first sync updates the score of a
row that does not exist yet, and `ScoredInTheEnd` shows that a poll makes up for it.

### WeeklyReset and Scheduler

`WeeklyReset` has the clock, the time zone and the cutoff. Time is in minutes, of
which an hour has `MinutesPerHour`: the reset and the changes of the clocks are on
the hour, and two minutes to an hour let the scheduler's minute differ from the
hour. The clocks change at two o'clock on the wall (`ChangesAssumption`). The bot
reads its own clock, which shows `Clock`, the instant plus an `error`, and takes the
cutoff from it by calendar arithmetic on local time. `AfterAsText` is the queries'
comparison of a text in UTC with one in local time with an offset, `AfterCutoff` the
poller's comparison of instants. A run ends and is in `ended` until a poll stores it.
A poll reads the clock when it begins (`PollBegins`; `began` is the instant, `shown`
what the clock said) and is answered up to `PollTimeout` later: a run may end, the
reset may come and the clock may be set in between. `polled` is history: the runs a
poll, begun at most an interval after their end, came upon, whether it took them or
left them.

`Scheduler` extends it with `discord.runScheduler` and lets the error change: `Adjust`
is the system's clock being set or drifting and a synchronisation correcting it.
`Fire` is the ticker, whose channel holds one tick, and `Announce` or `Skip` what the
goroutine does when it gets to the tick, perhaps minutes later, because `posting` (the
archive, the report) takes as long as it likes. `Crash` and `Boot` may come at any
time; neither `lastPost` nor a poll survives. `tried`, `setBack` and `disturbed` are
history. `tried` is the set of the days that any process has announced; a day leaves
it only when no clock, off as far as it may be, can show its seven o'clock any more.
`setBack` are those of them since whose announcement the clock was set back.

*Run `scheduler`*: `SpringForward` and `FallBack` are set a week apart, so that one run
has the short week, the long week and parts of ordinary ones, two weeks of half-hours;
both changes are Sundays two o'clock local time. An error of one minute either way,
polls every minute that wait one minute for their answer, two events in all (crashes,
changes of the clock, a run that ends). A run may end at any of five instants around
each of the two affected resets, which with this error, interval and answer are all
the distances that make a difference to a poll, or at two instants about the offset
before it, for the text comparison. One run is enough: polls and queries look at each
by itself. 6.3 million states. *Run `week`* shows rows of last week returned as this
week's.

What comes out: a cutoff is right in every week; the text comparison misses no row and lists
at most eight hours too many; a run is left out only if a reset came within a poll's
interval, and the error of the clock, of its end, and is then never stored; a day is
announced unless something happened around seven o'clock; a process announces the days
in order and none twice; and a restart does not announce the day again, although nothing
is remembered, because the first tick is a minute after the start. Only a clock set back
does. "Announced" means that the goroutine went about it: a post that fails is not
repeated, and the code does not promise that.

### WCLClient

The token cache of the WarcraftLogs client. `call[c]` is what a calling goroutine is at:
waiting for `c.mu`, requesting a token under it (`requesting`, `issued` once
the service has answered), or querying. Time is relative: `left` is what remains of the
token by the client's count, `real` by the service's; they differ by the time
the answer took (`late`) and by the guess of five minutes for a token that
states no lifetime. `Tick` advances everything and no request beyond its timeout.

*Run `wcl`*: three callers, so that two wait while one requests; a timeout of
two units, a margin of two (both are 30 seconds), lifetimes shorter and longer than twice the
timeout and a default between them. Revocations and failing requests are
unlimited. 46 thousand states.

### Vault

The item level a slot of the weekly report promises (`GetItemLevel`, `vaultShortCode`,
`sortKeysByLevel` and the two tables of rewards). Operators without a state; there is no run, the
theorems in `Vault_proofs` say what they return.

### Lifecycle

The six hooks of `cmd/bot/main.go`, and for each component its goroutine
(`none`, `idle`, `busy`, `done`). `Tell` closes a stop channel, `Join` waits. fx is
modelled by its contract: reverse order, roll-back of a failed start, one timeout
for a start and one for a stop. The stop timeout ends
the process wherever it stands (`timedOut`): while a hook waits for a goroutine, between
two hooks, in the store's `Shutdown` or as the connection closes. The roll-back of a
failed start runs under the start's context and ends with it. The store is `StoreLife`, the contract `SQLiteStore` is
proved to implement: its variables are the process's, and `StartStore`,
`WriteToStore`, `DebouncedFlush`, `FinalFlush` and `CloseStore` take its steps. What holds of
`Lifecycle` so holds over the timers, callbacks and the flag of `SQLiteStore`.

*Run `lifecycle`* needs no bound, the state space is finite (16,094 states). It
may stop, as the process does. *Run `clock`*: the clock's goroutine lives under
the start hook's context and ends with it. All other goroutines are given
`context.Background()`.

### Linker

`MatchKey` with its candidates (recent reports, same dungeon, same level, within the
window), its score and its choice. Logs appear one by one, with a skew and with a run
time or without: `Stated` is what a log of a run may say of its time, which need not be
exact, as the code counts run times that differ by less than five seconds. A key may be tried at any time with either window. Only the `Limit` most
recent reports are read (ten in the code); each log is taken to be a report of
its own, so that the limit bites as early as it can. The score is
`calculateMatchConfidence` without its constant part, scaled by `25 w / 2` so that it
is an integer; the order of equal scores is free, as the order of reports is not
known. *Run `linker`*: three runs of one dungeon and level (a near one with
the same time, one six days later with nearly the same) and one of another; logs that
state the run's time, one three seconds off or none; skews of up to one minute, a limit of two and both windows in use: a competitor in the narrow window and one in
the wide window only, and own logs that two newer ones push out. It ends when all is
uploaded and what can be linked is linked. 684 thousand states.

### ElvUI

The poller's steps with each call's failure, `stored` and `disk` for the record in
the database and in its snapshot. An answer without a version is decoded to an empty one
(`Blank`), stored over the record and posted like any other; after it the version
announced before is new again. A graceful stop may end without its flush (`Stop`; that
it can is what `SQLiteStore` shows) and then loses the record as a crash does. *Run
`elvui`*: two versions, counts to two; blank answers, crashes and restarts are
unlimited. 109 thousand states.

## Properties and what they say

| Property | Run | In a sentence |
|---|---|---|
| CleanMeansSaved | store | a clean flag hides only raced writes |
| DirtyMeansFlushComing | store | dirty data has a timer or callback ahead, or a flush failed |
| ShutdownLosesOnly | store | a graceful shutdown loses only raced and late writes |
| SnapshotNeverRegresses | store | no flush puts an older state over a newer one, failed restore excepted |
| SavedEventually | store | an acknowledged write is saved, unless raced, failed or stopped |
| ImplementsDurableStore | store | refinement of the abstract store |
| ImplementsStoreLife | store | refinement of the contract `Lifecycle` is built on: a shutdown loses only what raced, was late, or was left by a failed flush |
| KnownIsStored | tracking | a run skipped as known was stored, failed to store, or purged |
| PurgeHolds | tracking | a purged character comes back only through a poll or sync that was under way at the purge |
| PlayedIsStored, ScoredInTheEnd, LoggedIsLinked | tracking | nothing reported stays out of the store, no tracked character without score, nothing logged unlinked |
| ResetIsLatestTuesday | scheduler | the cutoff is right in weeks of 167, 168 and 169 hours |
| NothingMissed, AtMostOffsetEarly | scheduler | the text comparison errs on one side, by at most the offset |
| LostOnlyAtReset | scheduler | a run polled in time is left out only if a reset came within the interval of its end, as far as a clock that is off can tell |
| CalmDayAnnounced | scheduler | a day with nothing amiss around seven is announced, whatever the clocks do that week |
| RepeatedOnlyAfterSetBack | scheduler | no day twice, by whatever process, unless the clock was set back in between |
| AnnouncesInOrder | scheduler | one process announces no day twice and none before an earlier one, also if the clock is set back |
| QueriedTokenIsValid | wcl | a token runs out under a query only if its answer and the query took longer than the margin |
| UsableTokenKept | wcl | callers that waited use the token the first one got |
| CallEnds, DeadTokenReplaced | wcl | nobody waits for ever behind the mutex; a token the service refuses is not used for ever |
| PollsNeedStore, PostsNeedSession | lifecycle | no goroutine works without what it works on |
| ExitIsClean, StopEnds | lifecycle | a stop that did not time out leaves nothing behind, one that did loses data only if it never came to the store; and a stop does not hang |
| TimedLogLosesOnlyToNearer, OwnLogLosesOnlyToTwin | linker | another run's log is preferred to the own one among the recent reports only if it states a time within five seconds of the key's, and a nearer one than the own log, if that states any |
| AnnouncedOnce, SeenMeansAnnounced, NewVersionAnnounced | elvui | no message is repeated, lost or withheld without one of the named reasons |

Several properties exempt, by name, what the code gives up by design: a flush that failed
(`failed`) and a run whose upsert failed (`unsaved`) are not tried again, a log not yet
uploaded or pushed out of the recent reports is not waited for (`OwnLogInReach`), a post
that failed is not repeated. Such a property shows that nothing else goes wrong; it does
not turn the exempted loss into a fault.

Five statements of the repository are refuted: GracefulShutdownPersists,
PurgeStaysPurged, LinkedOnce, OnlyThisWeek and ClockKeepsSyncing; the findings in
`PROJECT.json` quote them.

## Fairness

* `SQLiteStore`: an armed timer expires and a callback runs on (weak fairness);
  nothing is assumed of flushes, users or restarts. Debouncing postpones a
  flush for as long as writes keep coming; a process makes finitely many
  here, so `SavedEventually` speaks of a pause in the writing.
* `KeyTracking`: tickers fire and goroutines run (weak). That a service
  asked over and over answers at some time, and that a logged run is then found, is
  strong fairness of `FetchWeeklyRuns` and `LinkListed`; without it neither property
  could hold. No upsert is assumed to succeed: failures are in `unsaved`.
* `Lifecycle`: fx goes on with its stop, requests end (every HTTP client has a timeout),
  and a `select` that is offered the stop channel again and again, beside a ready
  ticker, takes it: Go chooses at random, hence strong fairness.
* `Scheduler`: none; what it states about a day without disturbance is a safety property.
* `WCLClient`: callers go on calling, requests end by their timeout (weak); a
  `sync.Mutex` does not starve a goroutine that waits for it, and a service asked for a token
  again and again issues one and gets it across at some time (strong). `CallEnds` needs
  no help of the service, `DeadTokenReplaced` does.
* `ElvUI`: the poller runs on (weak); the API, asked again and again, answers with a version at some time (strong).

## Proofs

Each proof module holds an inductive invariant, the lemma that every step keeps
it, and the theorems. All theorems hold for every value of the constants under
the assumptions stated in the modules.

* `SQLiteStore_proofs` (any set of writes, any callbacks). The properties are not
  inductive: `IInv` adds that the database of a process contains the snapshot
  unless the restore failed (`MemoryIsNewest`), which makes a flush safe
  whenever it comes; that what a callback has flushed but not yet cleared is on
  disk up to raced writes (`FlushedMeansSaved`), which is what clearing the flag
  relies on; that flags and timers are fresh outside a process; and
  `ClosingLosesOnly` for the stretch from the check to the close. The type
  correctness, four safety properties and two refinements follow. Under the
  mapping to `DurableStore` timers, callbacks and flags stutter. Under the one to
  `StoreLife`, `ShutdownCheck` on a clean database is the contract's final flush, and
  `CleanMeansSaved` is why it may be: only raced writes are unsaved then.
* `KeyTracking_proofs` (any characters, runs, concurrency, number of commands, restarts
  and failures). `ActorsOK` ties what a goroutine carries to where it is.
  `KnownIsStored` is kept because whatever leaves the table is recorded as purged
  and whatever enters `known` is stored, failed or read from the table. It is proved under
  `UniqueNames`: the query that seeds `known` looks at the name alone, and without the
  assumption two characters of one name spoil it. `PurgeIsFinal` rests on `Quiet`: a purged
  character that is not back and was not caught has no goroutine at work for it and no row, so
  that no round lists it; only a sync, which ends the purge, begins such work.
* `Lifecycle_proofs`. The number of started hooks bounds everything: a goroutine
  exists only if its hook has started and is done once that hook is stopped, the
  store is open exactly from the second hook on, the session from the third. `UnsavedOK`
  carries the store's contract to the end of the process, also through a timeout.
* `WCLClient_proofs` (any callers, timeout, margin, lifetimes). `LockOK`: one caller at most is
  between request and answer. `KnownLife`: what is left of a token that stated its
  lifetime, by the service's count, plus the time its answer took is at least what the client
  counts, and a query began with more than the margin. That no usable
  token is replaced follows from the lock: nobody else can have put one there.
* `ElvUI_proofs` (any number of versions). `OwedOrRecorded`: a version that has had all the
  messages its losses allow is the recorded one, or has been superseded. That a poll's answer
  is never older than the record (`InOrder`) is what keeps an old version from coming
  back; `NewIsOwed` carries the fact from the comparison to the post.
* `Vault_proofs` (both tables, any runs). Sorting is taken as a permutation into
  descending order; it keeps the number of runs at any level or above, so that the run in
  a slot is the highest level that enough runs reached.
* `Scheduler_proofs` (any length of an hour, any two days on which the clocks change at two
  o'clock, any error of the clock, any number of events). The first half is the calendar: no
  change falls near a seven o'clock, so every day has exactly one (`DateOfSeven`) and the wall
  orders it among all times as the instants do (`SevenOrder`); hence the cutoff is the
  latest Tuesday (`ResetOf`) and never moves back (`ResetMonotone`). The second half is the
  invariant. For polls (`PollInv`): a poll that began within the interval of a run's end read
  a clock at most `MaxError` behind or ahead, so that the cutoff it computed is at most the
  one of the run's end, the interval and the error; the run it leaves out ended before that
  (`LostAtReset`). For announcements: the clock, unless set back, is not behind any seven o'clock
  that was announced, and past it in a process that did not announce it and has seen a minute
  begin (`PastAnnounced`, for each day in `tried`); a day that has left `tried` is behind every
  clock (`Forgotten`), so that forgetting it loses nothing. The constants leave room
  for the error before the first day (`SchedulerAssumption`). The third part is
  `CalmDayAnnounced`, for a clock off by less than four hours (`SmallError`; the property's
  window around seven, `Early`, widens with the error, and must stay clear of the change at two o'clock). Two
  sevens are at least 23 hours apart (`SevensApart`) and the wall runs evenly around each
  (`MorningIn`, `MorningOut`). `CalmInv` follows one morning (`MorningOf`) in which nothing disturbs
  the process: before the bot's clock shows seven the day is not announced and no post is under way;
  while it does, the announcement was tried or its tick is due; afterwards it was tried.
  `AnnouncedInOrder` needs the same bound: a process remembers only the last day, and an earlier
  one's seven is then out of reach of any clock (`LastPostPast`, `SevensApart`).
* `Linker_proofs` (any keys, times, windows, limit). From the skew bound and the assumption that
  a character makes one run at a time (`OneAtATime`), the own log is the
  nearest and, as logs come in the order of their runs, among the recent reports; the part of
  the score for run times can make up for it only if the other log's time is nearer
  (`RunTimeOrder`). Nothing is assumed of how exact the logs are. This is integer arithmetic over a variable
  window.

Only model-checked: the liveness properties (`SavedEventually`, `PlayedIsStored`,
`ScoredInTheEnd`, `LoggedIsLinked`, `StopEnds`, `CallEnds`, `DeadTokenReplaced`,
`NewVersionAnnounced`), since fairness and ENABLED are out of the prover's reach. Every invariant
and every action property of a passing run is a theorem.

## Not modelled

The read-only commands `!keys`, `!report`, `!elv` and `!help` apart from the queries and vault
slots they use: they change nothing, and what they read may be as old as any
read of the tables. Message layout and Discord's limits on it, command
parsing. The identity of runs RaiderIO reports without an id (`models`): every run has one in
`KeyTracking`; the hazard at `raiderio/poller.go:221` says what differs. How dungeon names
are compared, and that a report may hold several fights. Configuration and logging,
which keep no state; generated query code, whose meaning is in the actions that use it; the
linker's batch paths (`RunOnce`, `MatchKeys`), which the program does not call; the
Docker files and scripts.

## Plan

Order of the work: the store first, as everything depends on it; then the goroutines that
share it, the cutoff, the process, matching, ElvUI; then the scheduler and the
WarcraftLogs client. These are done. Next:

1. `KeyTracking`: runs without an id; several sync handlers; composition with
   `DurableStore`, so that a crash sets the tables back while the poller's cache is rebuilt.
2. `ElvUI` over `DurableStore` instead of a record and snapshot of its own.
