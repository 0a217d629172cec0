---------------------------- MODULE KeyTracking -----------------------------
(***************************************************************************)
(* How a character's Mythic+ runs of the week get into the store and are   *)
(* linked to WarcraftLogs, and how characters come and go.  Four kinds of  *)
(* goroutine share the store's tables without any lock of their own:       *)
(* - the RaiderIO poller, with one goroutine per character in each round;  *)
(* - the WarcraftLogs poller;                                              *)
(* - the handler of `!char sync`;                                          *)
(* - the handler of `!char purge`.                                         *)
(* Every store call is one step (store.SQLiteStore holds s.mu across it);  *)
(* everything a goroutine keeps between two calls may be stale.            *)
(***************************************************************************)
EXTENDS Naturals, FiniteSets

CONSTANTS
    Characters,     \* region, realm and name of a character
    Runs,           \* Mythic+ runs of the current week
    Participation,  \* <<run, character>> pairs that may be played
    NameOf,         \* a character's name, without realm and region
    MaxConcurrent,  \* max_concurrent of the RaiderIO poller
    MaxEvents,      \* bound: Discord commands, restarts, failing score updates
    None

ASSUME ParticipationAssumption == Participation \subseteq Runs \X Characters
ASSUME NoneAssumption ==
    None \notin Runs \cup Characters /\ \A S \in SUBSET Runs : S # None
ASSUME BoundsAssumption ==
    /\ MaxConcurrent \in Nat \ {0}
    /\ MaxEvents \in Nat

VARIABLES
    \* The outside world: what RaiderIO and WarcraftLogs would answer.
    played,     \* <<run, character>> pairs RaiderIO reports
    logged,     \* runs with a log on WarcraftLogs
    \* The tables.
    chars,      \* characters
    scored,     \* characters whose rio_score has been set
    keys,       \* completed_keys, by primary key <<run, character>>
    links,      \* rows of warcraftlogs_links per run (2: two or more)
    \* The RaiderIO poller.
    known,      \* p.known: per character, runs already handled; None if absent
    rio,        \* the goroutine polling each character
    \* The WarcraftLogs poller.
    unlinked,   \* rows it listed and has not tried yet
    \* The sync handler.
    sync,
    events,     \* counted up to MaxEvents
    \* History, read by properties only.
    unsaved,    \* pairs whose upsert failed in the poller
    purged,     \* characters purged and not synced since
    caught,     \* of those, the ones a goroutine was at work for
    gone        \* pairs a purge deleted

world == <<played, logged>>
tables == <<chars, scored, keys, links>>
pollers == <<known, rio, unlinked>>
history == <<unsaved, purged, caught, gone>>
vars == <<world, tables, pollers, sync, events, history>>

IdleWorker == [at |-> "idle", todo |-> {}, run |-> None]
IdleSync == [at |-> "idle", char |-> None, result |-> {}, todo |-> {}, run |-> None]

RunsOf(c, pairs) == {r \in Runs : <<r, c>> \in pairs}

\* A restored store may list characters with no run this week.
Init ==
    /\ played = {} /\ logged = {}
    /\ chars \in SUBSET Characters
    /\ scored = {} /\ keys = {}
    /\ links = [r \in Runs |-> 0]
    /\ known = [c \in Characters |-> None]
    /\ rio = [c \in Characters |-> IdleWorker]
    /\ unlinked = {}
    /\ sync = IdleSync
    /\ events = 0
    /\ unsaved = {} /\ purged = {} /\ caught = {} /\ gone = {}

-----------------------------------------------------------------------------
(* The outside world *)

Play(k) ==
    /\ k \in Participation \ played
    /\ played' = played \cup {k}
    /\ UNCHANGED <<logged, tables, pollers, sync, events, history>>

LogRun(r) ==
    /\ r \notin logged
    /\ logged' = logged \cup {r}
    /\ UNCHANGED <<played, tables, pollers, sync, events, history>>

-----------------------------------------------------------------------------
(* The store's operations *)

\* UpsertCompletedKey: the character's row is made if it is missing.
UpsertCompletedKey(k) ==
    /\ keys' = keys \cup {k}
    /\ chars' = chars \cup {k[2]}
    /\ UNCHANGED <<scored, links>>

\* UpdateCharacterScore: an UPDATE, without effect if there is no row.
UpdateCharacterScore(c) ==
    /\ scored' = IF c \in chars THEN scored \cup {c} ELSE scored
    /\ UNCHANGED <<chars, keys, links>>

\* UpsertWarcraftLogsLink: INSERT OR IGNORE, but the row's pull_id is always
\* NULL, and NULLs are distinct in the UNIQUE constraint: a new row each time.
UpsertWarcraftLogsLink(r) ==
    /\ links' = [links EXCEPT ![r] = IF @ < 2 THEN @ + 1 ELSE @]
    /\ UNCHANGED <<chars, scored, keys>>

\* Mutant: the completed keys are not deleted.
DeleteCharacterOnly(c) ==
    /\ c \in chars
    /\ links' = [r \in Runs |-> IF <<r, c>> \in keys THEN 0 ELSE links[r]]
    /\ chars' = chars \ {c}
    /\ scored' = scored \ {c}
    /\ UNCHANGED keys

\* DeleteCharacter: the links of all its runs, its keys and its row.
DeleteCharacter(c) ==
    /\ c \in chars
    /\ links' = [r \in Runs |-> IF <<r, c>> \in keys THEN 0 ELSE links[r]]
    /\ keys' = {k \in keys : k[2] # c}
    /\ chars' = chars \ {c}
    /\ scored' = scored \ {c}

-----------------------------------------------------------------------------
(* The RaiderIO poller *)

Worker(c, at, todo, run) == rio' = [rio EXCEPT ![c] = [at |-> at, todo |-> todo, run |-> run]]

Active == {c \in Characters : rio[c].at \notin {"idle", "queued"}}

\* Mutant: the round goes on with the characters of the last ones.
PollBeginKnown ==
    /\ \A c \in Characters : rio[c].at = "idle"
    /\ rio' = [c \in Characters |-> IF c \in chars \/ known[c] # None
                                    THEN [IdleWorker EXCEPT !.at = "queued"] ELSE IdleWorker]
    /\ UNCHANGED <<world, tables, known, unlinked, sync, events, history>>

\* pollAllCharacters: the last round has ended; list the characters.  With
\* none the round ends at once.
PollBegin ==
    /\ \A c \in Characters : rio[c].at = "idle"
    /\ rio' = [c \in Characters |-> IF c \in chars THEN [IdleWorker EXCEPT !.at = "queued"]
                                                  ELSE IdleWorker]
    /\ UNCHANGED <<world, tables, known, unlinked, sync, events, history>>

\* Mutant: the query has lost its condition on the name.
ListKeysOfAnyone(c) == {r \in Runs : \E d \in Characters : <<r, d>> \in keys}

\* The keys the store lists under a character's name, whatever its realm.
ListKeysByCharacter(c) == {r \in Runs : \E d \in Characters :
                              NameOf[d] = NameOf[c] /\ <<r, d>> \in keys}

\* pollCharacter, once the semaphore admits it: the first time in a process
\* the known runs are read from the store (none, if that fails).
PollCharacter(c) ==
    /\ rio[c].at = "queued"
    /\ Cardinality(Active) < MaxConcurrent
    /\ Worker(c, "fetching", {}, None)
    /\ \E seed \in {ListKeysByCharacter(c), {}} :
           known' = IF known[c] = None THEN [known EXCEPT ![c] = seed] ELSE known
    /\ UNCHANGED <<world, tables, unlinked, sync, events, history>>

FetchWeeklyRuns(c) ==
    /\ rio[c].at = "fetching"
    /\ Worker(c, "scoring", RunsOf(c, played), None)
    /\ UNCHANGED <<world, tables, known, unlinked, sync, events, history>>

FetchWeeklyRunsFails(c) ==
    /\ rio[c].at = "fetching"
    /\ Worker(c, "idle", {}, None)
    /\ UNCHANGED <<world, tables, known, unlinked, sync, events, history>>

\* Mutant: the score is updated only along with a new run.
PollScoreOfNewRun(c) ==
    /\ rio[c].at = "scoring"
    /\ IF rio[c].todo \subseteq known[c] THEN UNCHANGED tables ELSE UpdateCharacterScore(c)
    /\ Worker(c, "storing", rio[c].todo, None)
    /\ UNCHANGED <<world, known, unlinked, sync, events, history>>

PollScore(c) ==
    /\ rio[c].at = "scoring"
    /\ UpdateCharacterScore(c)
    /\ Worker(c, "storing", rio[c].todo, None)
    /\ UNCHANGED <<world, known, unlinked, sync, events, history>>

\* Nobody looks at the error of the update.
PollScoreFails(c) ==
    /\ rio[c].at = "scoring"
    /\ events < MaxEvents
    /\ events' = events + 1
    /\ Worker(c, "storing", rio[c].todo, None)
    /\ UNCHANGED <<world, tables, known, unlinked, sync, history>>

\* The body of the loop over the fetched runs.  A run is marked known before
\* it is stored.
SkipKnown(c, r) ==
    /\ rio[c].at = "storing"
    /\ r \in rio[c].todo \cap known[c]
    /\ Worker(c, "storing", rio[c].todo \ {r}, None)
    /\ UNCHANGED <<world, tables, known, unlinked, sync, events, history>>

PollStore(c, r) ==
    /\ rio[c].at = "storing"
    /\ r \in rio[c].todo \ known[c]
    /\ known' = [known EXCEPT ![c] = @ \cup {r}]
    /\ UpsertCompletedKey(<<r, c>>)
    /\ Worker(c, "linking", rio[c].todo \ {r}, r)
    /\ UNCHANGED <<world, unlinked, sync, events, history>>

PollStoreFails(c, r) ==
    /\ rio[c].at = "storing"
    /\ r \in rio[c].todo \ known[c]
    /\ known' = [known EXCEPT ![c] = @ \cup {r}]
    /\ Worker(c, "storing", rio[c].todo \ {r}, None)
    /\ unsaved' = unsaved \cup {<<r, c>>}
    /\ UNCHANGED <<world, tables, unlinked, sync, events, purged, caught, gone>>

\* linkToWCL: a match is inserted without a look at the existing links.  The
\* look-up and the insert are one step: logs only appear.
PollLink(c) ==
    /\ rio[c].at = "linking"
    /\ rio[c].run \in logged
    /\ UpsertWarcraftLogsLink(rio[c].run)
    /\ Worker(c, "storing", rio[c].todo, None)
    /\ UNCHANGED <<world, known, unlinked, sync, events, history>>

\* Mutant: the look-up is repeated until there is a match.
PollAwaitLink(c) ==
    /\ rio[c].at = "linking"
    /\ UNCHANGED vars

\* No match, or a look-up or an insert that fails.
PollNoLink(c) ==
    /\ rio[c].at = "linking"
    /\ Worker(c, "storing", rio[c].todo, None)
    /\ UNCHANGED <<world, tables, known, unlinked, sync, events, history>>

PollEnd(c) ==
    /\ rio[c].at = "storing"
    /\ rio[c].todo = {}
    /\ Worker(c, "idle", {}, None)
    /\ UNCHANGED <<world, tables, known, unlinked, sync, events, history>>

-----------------------------------------------------------------------------
(* The WarcraftLogs poller *)

\* Mutant: an inner join with the links, not a left one.
ListLinkedKeys ==
    /\ unlinked = {}
    /\ unlinked' = {k \in keys : links[k[1]] > 0}
    /\ unlinked' # {}
    /\ UNCHANGED <<world, tables, known, rio, sync, events, history>>

\* pollOnce: the keys without a link, one row per character that shared the
\* run.
ListUnlinkedKeys ==
    /\ unlinked = {}
    /\ unlinked' = {k \in keys : links[k[1]] = 0}
    /\ unlinked' # {}
    /\ UNCHANGED <<world, tables, known, rio, sync, events, history>>

\* Each listed key that has a match gets a link, also if it got one meanwhile
\* or is no longer stored.
LinkListed(k) ==
    /\ k \in unlinked
    /\ k[1] \in logged
    /\ UpsertWarcraftLogsLink(k[1])
    /\ unlinked' = unlinked \ {k}
    /\ UNCHANGED <<world, known, rio, sync, events, history>>

SkipListed(k) ==
    /\ k \in unlinked
    /\ unlinked' = unlinked \ {k}
    /\ UNCHANGED <<world, tables, known, rio, sync, events, history>>

-----------------------------------------------------------------------------
(* !char sync *)

SyncBegin(c) ==
    /\ sync.at = "idle"
    /\ events < MaxEvents
    /\ events' = events + 1
    /\ sync' = [IdleSync EXCEPT !.at = "fetching", !.char = c]
    /\ purged' = purged \ {c} /\ caught' = caught \ {c}
    /\ UNCHANGED <<world, tables, pollers, unsaved, gone>>

SyncFetch ==
    /\ sync.at = "fetching"
    /\ LET runs == RunsOf(sync.char, played) IN
           sync' = [sync EXCEPT !.at = "scoring", !.result = runs, !.todo = runs]
    /\ UNCHANGED <<world, tables, pollers, events, history>>

SyncFetchFails ==
    /\ sync.at = "fetching"
    /\ sync' = IdleSync
    /\ UNCHANGED <<world, tables, pollers, events, history>>

\* The score is updated before the keys, which make the row, are stored.
SyncScore ==
    /\ sync.at = "scoring"
    /\ UpdateCharacterScore(sync.char)
    /\ sync' = [sync EXCEPT !.at = "storing"]
    /\ UNCHANGED <<world, pollers, events, history>>

SyncScoreFails ==
    /\ sync.at = "scoring"
    /\ sync' = [sync EXCEPT !.at = "storing"]
    /\ UNCHANGED <<world, tables, pollers, events, history>>

SyncStore(r) ==
    /\ sync.at = "storing"
    /\ r \in sync.todo
    /\ UpsertCompletedKey(<<r, sync.char>>)
    /\ sync' = [sync EXCEPT !.todo = @ \ {r}]
    /\ UNCHANGED <<world, pollers, events, history>>

SyncStoreFails(r) ==
    /\ sync.at = "storing"
    /\ r \in sync.todo
    /\ sync' = [sync EXCEPT !.todo = @ \ {r}]
    /\ UNCHANGED <<world, tables, pollers, events, history>>

\* On to the links of all fetched keys, stored or not.
SyncStored ==
    /\ sync.at = "storing"
    /\ sync.todo = {}
    /\ sync' = [sync EXCEPT !.at = "checking", !.todo = sync.result]
    /\ UNCHANGED <<world, tables, pollers, events, history>>

\* A key that has links is done; a query that fails is taken for none.
SyncCheck(r) ==
    /\ sync.at = "checking"
    /\ r \in sync.todo
    /\ \/ /\ links[r] > 0
          /\ sync' = [sync EXCEPT !.todo = @ \ {r}]
       \/ sync' = [sync EXCEPT !.todo = @ \ {r}, !.at = "linking", !.run = r]
    /\ UNCHANGED <<world, tables, pollers, events, history>>

SyncLink ==
    /\ sync.at = "linking"
    /\ sync.run \in logged
    /\ UpsertWarcraftLogsLink(sync.run)
    /\ sync' = [sync EXCEPT !.at = "checking", !.run = None]
    /\ UNCHANGED <<world, pollers, events, history>>

SyncNoLink ==
    /\ sync.at = "linking"
    /\ sync' = [sync EXCEPT !.at = "checking", !.run = None]
    /\ UNCHANGED <<world, tables, pollers, events, history>>

\* The reply "Synced ...".
SyncEnd ==
    /\ sync.at = "checking"
    /\ sync.todo = {}
    /\ sync' = IdleSync
    /\ UNCHANGED <<world, tables, pollers, events, history>>

-----------------------------------------------------------------------------
(* !char purge *)

\* The poller's known runs of the character are not forgotten.
Purge(c) ==
    /\ events < MaxEvents
    /\ events' = events + 1
    /\ DeleteCharacter(c)
    /\ purged' = purged \cup {c}
    /\ caught' = IF rio[c].at # "idle" \/ sync.char = c THEN caught \cup {c} ELSE caught \ {c}
    /\ gone' = gone \cup {k \in keys : k[2] = c}
    /\ UNCHANGED <<world, pollers, sync, unsaved>>

-----------------------------------------------------------------------------
\* A graceful restart: the tables survive, everything in memory is lost.
Restart ==
    /\ events < MaxEvents
    /\ events' = events + 1
    /\ known' = [c \in Characters |-> None]
    /\ rio' = [c \in Characters |-> IdleWorker]
    /\ unlinked' = {}
    /\ sync' = IdleSync
    /\ UNCHANGED <<world, tables, history>>

World == (\E k \in Participation : Play(k)) \/ (\E r \in Runs : LogRun(r))

\* The steps a worker takes by itself, whatever the services answer.
PollStep(c) ==
    \/ PollCharacter(c) \/ FetchWeeklyRuns(c) \/ FetchWeeklyRunsFails(c)
    \/ PollScore(c) \/ PollScoreFails(c)
    \/ \E r \in Runs : SkipKnown(c, r) \/ PollStore(c, r) \/ PollStoreFails(c, r)
    \/ PollLink(c) \/ PollNoLink(c) \/ PollEnd(c)

WclStep(k) == LinkListed(k) \/ SkipListed(k)

SyncStep ==
    \/ SyncFetch \/ SyncFetchFails \/ SyncScore \/ SyncScoreFails \/ SyncStored
    \/ \E r \in Runs : SyncStore(r) \/ SyncStoreFails(r) \/ SyncCheck(r)
    \/ SyncLink \/ SyncNoLink \/ SyncEnd

Next ==
    \/ World
    \/ PollBegin \/ \E c \in Characters : PollStep(c)
    \/ ListUnlinkedKeys \/ \E k \in Runs \X Characters : WclStep(k)
    \/ SyncStep
    \/ \E c \in Characters : SyncBegin(c) \/ Purge(c)
    \/ Restart

\* The pollers' tickers go on firing and their goroutines run.  A service
\* asked again and again in the end answers: RaiderIO with the runs of a
\* character, WarcraftLogs with the match of a logged run.
Fairness ==
    /\ WF_vars(PollBegin)
    /\ \A c \in Characters : WF_vars(PollStep(c)) /\ SF_vars(FetchWeeklyRuns(c))
    /\ WF_vars(ListUnlinkedKeys)
    /\ \A k \in Runs \X Characters : WF_vars(WclStep(k)) /\ SF_vars(LinkListed(k))

Spec == Init /\ [][Next]_vars
FairSpec == Spec /\ Fairness

-----------------------------------------------------------------------------
(* Properties *)

WorkerType == [at : {"idle", "queued", "fetching", "scoring", "storing", "linking"},
               todo : SUBSET Runs, run : Runs \cup {None}]
SyncType == [at : {"idle", "fetching", "scoring", "storing", "checking", "linking"},
             char : Characters \cup {None}, result : SUBSET Runs,
             todo : SUBSET Runs, run : Runs \cup {None}]

TypeOK ==
    /\ played \subseteq Participation /\ logged \subseteq Runs
    /\ chars \subseteq Characters /\ scored \subseteq chars
    /\ keys \subseteq Runs \X chars            \* the foreign key
    /\ links \in [Runs -> 0..2]
    /\ known \in [Characters -> (SUBSET Runs) \cup {None}]
    /\ rio \in [Characters -> WorkerType]
    /\ unlinked \subseteq Runs \X Characters
    /\ sync \in SyncType
    /\ events \in 0..MaxEvents
    /\ unsaved \subseteq Runs \X Characters /\ gone \subseteq Runs \X Characters
    /\ caught \subseteq purged /\ purged \subseteq Characters

\* The poller skips a run it knows.  That loses no key: a known run is in the
\* store, or its upsert failed, or a purge removed it (pollCharacter).
KnownIsStored ==
    \A c \in Characters : known[c] # None =>
        \A r \in known[c] : <<r, c>> \in keys \cup unsaved \cup gone

\* A purge of a character for which nothing is under way is final: neither a
\* later round, nor work for another player of the same runs, nor a restart
\* brings it back before its next sync (DeleteCharacter, pollAllCharacters).
PurgeHolds == purged \cap chars \subseteq caught

\* Every run RaiderIO reports of a tracked character is stored in the end,
\* unless its upsert fails or the character is purged (pollCharacter).
PlayedIsStored ==
    \A k \in Participation :
        k \in played /\ k[2] \in chars
            ~> k \in keys \cup unsaved \cup gone \/ k[2] \notin chars

\* A tracked character gets its score in the end, also when its first sync
\* updated the score before there was a row to hold it (cmdCharSync), or an
\* update failed.
ScoredInTheEnd ==
    \A c \in Characters : c \in chars ~> c \in scored \/ c \notin chars

\* Every stored run that has a log is linked in the end, also when another
\* player's purge took its links away (pollOnce of the WarcraftLogs poller).
LoggedIsLinked ==
    \A k \in Participation :
        k \in keys /\ k[1] \in logged ~> links[k[1]] > 0 \/ k \notin keys

\* "Purged ... and all associated data from database" (discord.go:729): until
\* the next sync of that character the store does not track it.
PurgeStaysPurged == purged \cap chars = {}

\* UNIQUE(key_id, report_code, fight_id, pull_id) with INSERT OR IGNORE: a
\* run's log is linked once (003_composite_key.sql:14).
LinkedOnce == \A r \in Runs : links[r] <= 1
=============================================================================
