-------------------------------- MODULE ElvUI --------------------------------
(***************************************************************************)
(* The ElvUI poller: it asks the TukUI API for the current version and,    *)
(* when that differs from the one in the store, stores it and posts a      *)
(* message, except in the first poll of a process.  What was announced is  *)
(* known only from the store, whose contents a crash sets back to the      *)
(* last snapshot.                                                          *)
(***************************************************************************)
EXTENDS Integers

CONSTANTS
    MaxVersion,   \* versions published are 1 .. MaxVersion (a bound)
    MaxCount      \* messages and losses are counted to here, per version (a bound)

ASSUME VersionsAssumption == MaxVersion \in Nat \ {0} /\ MaxCount \in Nat \ {0}

VARIABLES
    published,   \* the version the API reports
    stored,      \* the version in the database, or NoRow
    disk,        \* the version in the snapshot, or NoRow
    at,          \* where the poller's goroutine is; "off" without a process
    isInitial,   \* it is in the first poll of the process
    info,        \* the version fetched
    isNew,       \* it was found to differ
    \* History, read by properties only:
    posts,       \* messages posted per version
    losses,      \* per version, how often its record was not read, written or kept
    skipped      \* new answers no message was posted for

vars == <<published, stored, disk, at, isInitial, info, isNew, posts, losses, skipped>>
poll == <<isInitial, info, isNew>>
history == <<posts, losses, skipped>>

Versions == 1..MaxVersion

\* What an answer holds: a version, or an empty one.
Blank == 0
Answers == Versions \cup {Blank}

NoRow == -1

Init ==
    /\ published = 1 /\ stored = NoRow /\ disk = NoRow
    /\ at = "off" /\ isInitial = FALSE /\ info = Blank /\ isNew = FALSE
    /\ posts = [v \in Versions |-> 0]
    /\ losses = [v \in Versions |-> 0] /\ skipped = {}

\* Counts are kept of versions only, not of a blank or a missing row.
CountUp(counts, v) ==
    [w \in Versions |-> IF w = v /\ counts[w] < MaxCount THEN counts[w] + 1 ELSE counts[w]]
Lose(v) == losses' = CountUp(losses, v)

-----------------------------------------------------------------------------
\* The TukUI API.
Publish ==
    /\ published < MaxVersion
    /\ published' = published + 1
    /\ UNCHANGED <<stored, disk, at, poll, history>>

\* The process starts from the snapshot, or from nothing if that fails; the
\* poller polls at once.
Start ==
    /\ at = "off"
    /\ at' = "fetching" /\ isInitial' = TRUE
    /\ \/ stored' = disk /\ losses' = losses
       \/ stored' = NoRow /\ Lose(disk)
    /\ UNCHANGED <<published, disk, info, isNew, posts, skipped>>

\* The ticker.
Tick ==
    /\ at = "idle"
    /\ at' = "fetching" /\ isInitial' = FALSE
    /\ UNCHANGED <<published, stored, disk, info, isNew, history>>

FetchVersion ==
    /\ at = "fetching"
    /\ info' = published
    /\ at' = "comparing"
    /\ UNCHANGED <<published, stored, disk, isInitial, isNew, history>>

\* An answer of any JSON is decoded, also of one without a version.
FetchBlank ==
    /\ at = "fetching"
    /\ info' = Blank
    /\ at' = "comparing"
    /\ UNCHANGED <<published, stored, disk, isInitial, isNew, history>>

\* Mutant: the error is not looked at.
FetchUnchecked ==
    /\ at = "fetching"
    /\ info' = NoRow
    /\ at' = "comparing"
    /\ UNCHANGED <<published, stored, disk, isInitial, isNew, history>>

\* Mutant: an error ends the goroutine, not the poll.
FetchFailsForGood ==
    /\ at = "fetching"
    /\ at' = "ended"
    /\ UNCHANGED <<published, stored, disk, poll, history>>

FetchVersionFails ==
    /\ at = "fetching"
    /\ at' = "idle"
    /\ UNCHANGED <<published, stored, disk, poll, history>>

\* Mutant: only a missing row counts as a difference.
GetOnlyMissing ==
    /\ at = "comparing"
    /\ isNew' = (stored = NoRow)
    /\ at' = "storing"
    /\ UNCHANGED <<published, stored, disk, isInitial, info, history>>

\* GetElvUIVersion: an error, as there is when there is no row, counts as a
\* difference.
GetElvUIVersion ==
    /\ at = "comparing"
    /\ isNew' = (stored # info)
    /\ at' = "storing"
    /\ UNCHANGED <<published, stored, disk, isInitial, info, history>>

GetElvUIVersionFails ==
    /\ at = "comparing"
    /\ isNew' = TRUE
    /\ Lose(info)
    /\ at' = "storing"
    /\ UNCHANGED <<published, stored, disk, isInitial, info, posts, skipped>>

\* The answer is stored, new or not; a blank takes the place of the version.
UpsertElvUIVersion ==
    /\ at = "storing"
    /\ stored' = info
    /\ IF info = Blank /\ stored # info THEN Lose(stored) ELSE UNCHANGED losses
    /\ at' = "announcing"
    /\ UNCHANGED <<published, disk, poll, posts, skipped>>

\* The error is not looked at.
UpsertElvUIVersionFails ==
    /\ at = "storing"
    /\ Lose(info)
    /\ at' = "announcing"
    /\ UNCHANGED <<published, stored, disk, poll, posts, skipped>>

Post(v) == posts' = CountUp(posts, v)

\* Mutant: also a version already stored is announced.
AnnounceAlways ==
    /\ at = "announcing" /\ ~isInitial
    /\ Post(info)
    /\ at' = "idle"
    /\ UNCHANGED <<published, stored, disk, poll, losses, skipped>>

\* onNewVersion posts the message.
Announce ==
    /\ at = "announcing" /\ isNew /\ ~isInitial
    /\ Post(info)
    /\ at' = "idle"
    /\ UNCHANGED <<published, stored, disk, poll, losses, skipped>>

\* Nothing new, the first poll, or a post that fails and is not retried.
DoNotAnnounce ==
    /\ at = "announcing"
    /\ at' = "idle"
    /\ skipped' = IF isNew THEN skipped \cup {info} ELSE skipped
    /\ UNCHANGED <<published, stored, disk, poll, posts, losses>>

-----------------------------------------------------------------------------
\* The store's debounced flush.
Flush ==
    /\ at # "off"
    /\ disk' = stored
    /\ UNCHANGED <<published, stored, at, poll, history>>

\* A graceful shutdown: Stop waits for the poll, and the store flushes, unless
\* that fails or a callback has cleared the flag of a write (StoreLife).
Stop ==
    /\ at = "idle"
    /\ \/ disk' = stored /\ losses' = losses
       \/ stored # disk /\ disk' = disk /\ Lose(stored)
    /\ at' = "off"
    /\ UNCHANGED <<published, stored, poll, posts, skipped>>

\* The process dies at any moment.
Crash ==
    /\ at # "off"
    /\ at' = "off"
    /\ IF stored # disk THEN Lose(stored) ELSE UNCHANGED losses
    /\ skipped' = IF at = "announcing" /\ isNew THEN skipped \cup {info} ELSE skipped
    /\ UNCHANGED <<published, stored, disk, poll, posts>>

PollStep ==
    \/ Tick \/ FetchVersion \/ FetchBlank \/ FetchVersionFails
    \/ GetElvUIVersion \/ GetElvUIVersionFails
    \/ UpsertElvUIVersion \/ UpsertElvUIVersionFails
    \/ Announce \/ DoNotAnnounce

Next == Publish \/ Start \/ PollStep \/ Flush \/ Stop \/ Crash

\* The ticker fires and the goroutine runs; an API asked again and again in
\* the end answers with a version.
Fairness == WF_vars(PollStep) /\ SF_vars(FetchVersion)

Spec == Init /\ [][Next]_vars
FairSpec == Spec /\ Fairness

-----------------------------------------------------------------------------
(* Properties *)

TypeOK ==
    /\ published \in Versions /\ {stored, disk} \subseteq Answers \cup {NoRow}
    /\ at \in {"off", "idle", "fetching", "comparing", "storing", "announcing"}
    /\ isInitial \in BOOLEAN /\ isNew \in BOOLEAN
    /\ info \in Answers
    /\ posts \in [Versions -> 0..MaxCount] /\ losses \in [Versions -> 0..MaxCount]
    /\ skipped \subseteq Answers

\* Every repetition of a message is owed to a loss of the version's record: a
\* store call that failed, a snapshot that was not restored, a crash or a stop
\* without the flush, or a blank stored in its place.  Restarts and polls alone
\* repeat nothing (pollOnce).
AnnouncedOnce == \A v \in Versions : posts[v] <= 1 + losses[v]

\* No version is recorded as seen before there was a message for it, except
\* one that was skipped: found by a first poll, or its post failed or was cut
\* off by a crash after the record (pollOnce).
SeenMeansAnnounced ==
    \A v \in Versions : v \in {stored, disk} =>
        posts[v] > 0 \/ v \in skipped \/ (at = "announcing" /\ isNew /\ info = v)

\* A published version is announced in the end, unless it was skipped, or the
\* bot stops or the version is superseded first (pollOnce).
NewVersionAnnounced ==
    \A v \in Versions :
        published = v /\ at # "off"
            ~> posts[v] > 0 \/ v \in skipped \/ published # v \/ at = "off"
=============================================================================
