------------------------- MODULE KeyTracking_proofs -------------------------
(***************************************************************************)
(* Proofs about KeyTracking: for any characters and runs, any number of    *)
(* workers at a time and any events, the tables keep their foreign key, a  *)
(* purge that meets no work under way is final, and the poller's skipping  *)
(* of known runs loses no key, as long as tracked characters have distinct *)
(* names.                                                                  *)
(***************************************************************************)
EXTENDS KeyTracking, TLAPS

\* No two characters share a name.
UniqueNames == \A c, d \in Characters : NameOf[c] = NameOf[d] => c = d

\* A goroutine past its first step has an entry in p.known and, when it
\* links, a run to link; the sync handler works for a character.
ActorsOK ==
    /\ \A c \in Characters :
           /\ rio[c].at \notin {"idle", "queued"} => known[c] # None
           /\ rio[c].at = "linking" => rio[c].run \in Runs
    /\ sync.at # "idle" => sync.char \in Characters
    /\ sync.at = "linking" => sync.run \in Runs

IInv == TypeOK /\ ActorsOK

\* The initial states satisfy the invariants.
LEMMA InitIInv == Init => IInv /\ KnownIsStored
<1> SUFFICES ASSUME Init PROVE IInv /\ KnownIsStored
    OBVIOUS
<1>1. rio \in [Characters -> WorkerType] /\ sync \in SyncType
    BY DEF Init, IdleWorker, IdleSync, WorkerType, SyncType
<1>2. ActorsOK
    BY DEF Init, ActorsOK, IdleWorker, IdleSync
<1>3. TypeOK
  <2>1. events \in 0..MaxEvents
      BY BoundsAssumption DEF Init
  <2>2. 0 \in 0..2
      OBVIOUS
  <2>3. links \in [Runs -> 0..2] /\ known \in [Characters -> (SUBSET Runs) \cup {None}]
      BY <2>2 DEF Init
  <2>4. QED BY <1>1, <2>1, <2>3 DEF Init, TypeOK
<1>4. KnownIsStored
    BY DEF Init, KnownIsStored
<1>5. QED BY <1>2, <1>3, <1>4 DEF IInv

\* Setting a goroutine's state to a typed one leaves the others alone.
LEMMA WorkerSet ==
  ASSUME rio \in [Characters -> WorkerType], NEW c \in Characters,
         NEW at \in {"idle", "queued", "fetching", "scoring", "storing", "linking"},
         NEW todo \in SUBSET Runs, NEW run \in Runs \cup {None},
         Worker(c, at, todo, run)
  PROVE  /\ rio' \in [Characters -> WorkerType]
         /\ rio'[c].at = at /\ rio'[c].run = run
         /\ \A d \in Characters : d # c => rio'[d] = rio[d]
BY DEF Worker, WorkerType

\* Marking a run known keeps the poller's map typed, and its entries there.
LEMMA MarkKnown ==
  ASSUME known \in [Characters -> (SUBSET Runs) \cup {None}],
         NEW c \in Characters, NEW r \in Runs, known[c] # None,
         known' = [known EXCEPT ![c] = @ \cup {r}]
  PROVE  /\ known' \in [Characters -> (SUBSET Runs) \cup {None}]
         /\ \A d \in Characters : known[d] # None => known'[d] # None
<1>1. known[c] \cup {r} \in SUBSET Runs
    OBVIOUS
<1>2. known[c] \cup {r} # None
    BY <1>1, NoneAssumption
<1>3. QED BY <1>1, <1>2

\* The tables are typed and every key belongs to a stored character.
TablesOK ==
    /\ chars \subseteq Characters /\ scored \subseteq chars
    /\ keys \subseteq Runs \X chars
    /\ links \in [Runs -> 0..2]

\* Storing a key, which makes its character's row, keeps the foreign key.
LEMMA UpsertKeyOK ==
  ASSUME TablesOK, NEW r \in Runs, NEW c \in Characters, UpsertCompletedKey(<<r, c>>)
  PROVE  TablesOK'
BY DEF TablesOK, UpsertCompletedKey

\* Updating a score touches only a row that is there.
LEMMA UpdateScoreOK ==
  ASSUME TablesOK, NEW c \in Characters, UpdateCharacterScore(c)
  PROVE  TablesOK'
BY DEF TablesOK, UpdateCharacterScore

\* Inserting a link keeps the tables typed.
LEMMA UpsertLinkOK ==
  ASSUME TablesOK, NEW r \in Runs, UpsertWarcraftLogsLink(r)
  PROVE  TablesOK'
BY DEF TablesOK, UpsertWarcraftLogsLink

\* Deleting a character takes its keys and its score with it.
LEMMA DeleteOK ==
  ASSUME TablesOK, NEW c \in Characters, DeleteCharacter(c)
  PROVE  TablesOK'
BY DEF TablesOK, DeleteCharacter

\* The invariant is inductive.
LEMMA StepIInv == IInv /\ [Next]_vars => IInv'
<1> SUFFICES ASSUME IInv, [Next]_vars PROVE IInv'
    OBVIOUS
<1> USE DEF IInv, TypeOK, ActorsOK
<1>0. TablesOK
    BY DEF TablesOK
<1>1. ASSUME NEW k \in Participation, Play(k) PROVE IInv'
    BY <1>1 DEF Play, world, tables, pollers, history
<1>2. ASSUME NEW r \in Runs, LogRun(r) PROVE IInv'
    BY <1>2 DEF LogRun, world, tables, pollers, history
<1>3. ASSUME NEW c \in Characters, PollCharacter(c) PROVE IInv'
  <2>1. {} \in SUBSET Runs /\ None \in Runs \cup {None} /\ Worker(c, "fetching", {}, None)
      BY <1>3 DEF PollCharacter, RunsOf, WorkerType
  <2>2. rio' \in [Characters -> WorkerType] /\ rio'[c].at = "fetching" /\ rio'[c].run = None
        /\ \A e \in Characters : e # c => rio'[e] = rio[e]
      BY <2>1, WorkerSet
  <2>3. TablesOK'
      BY <1>0, <1>3 DEF PollCharacter, TablesOK, tables
  <2>4. ListKeysByCharacter(c) \in SUBSET Runs
      BY DEF ListKeysByCharacter
  <2>5. PICK seed \in SUBSET Runs :
            known' = IF known[c] = None THEN [known EXCEPT ![c] = seed] ELSE known
      BY <1>3, <2>4 DEF PollCharacter
  <2>6. seed # None
      BY NoneAssumption
  <2>7. known' \in [Characters -> (SUBSET Runs) \cup {None}]
      BY <2>5
  <2>8. known'[c] # None /\ \A d \in Characters : known[d] # None => known'[d] # None
      BY <2>5, <2>6
  <2>9. sync' = sync /\ UNCHANGED <<world, unlinked, events, history>>
      BY <1>3 DEF PollCharacter
  <2>10. QED BY <2>2, <2>3, <2>7, <2>8, <2>9 DEF TablesOK, world, history
<1>4. ASSUME NEW c \in Characters, FetchWeeklyRuns(c) PROVE IInv'
  <2>1. RunsOf(c, played) \in SUBSET Runs /\ None \in Runs \cup {None} /\ Worker(c,
          "scoring", RunsOf(c, played), None)
      BY <1>4 DEF FetchWeeklyRuns, RunsOf, WorkerType
  <2>2. rio' \in [Characters -> WorkerType] /\ rio'[c].at = "scoring" /\ rio'[c].run = None
        /\ \A e \in Characters : e # c => rio'[e] = rio[e]
      BY <2>1, WorkerSet
  <2>3. TablesOK'
      BY <1>0, <1>4 DEF FetchWeeklyRuns, TablesOK, tables
  <2>4. QED BY <1>4, <2>2, <2>3 DEF FetchWeeklyRuns, TablesOK, world, tables,
          history
<1>5. ASSUME NEW c \in Characters, FetchWeeklyRunsFails(c) PROVE IInv'
  <2>1. {} \in SUBSET Runs /\ None \in Runs \cup {None} /\ Worker(c, "idle", {}, None)
      BY <1>5 DEF FetchWeeklyRunsFails, RunsOf, WorkerType
  <2>2. rio' \in [Characters -> WorkerType] /\ rio'[c].at = "idle" /\ rio'[c].run = None
        /\ \A e \in Characters : e # c => rio'[e] = rio[e]
      BY <2>1, WorkerSet
  <2>3. TablesOK'
      BY <1>0, <1>5 DEF FetchWeeklyRunsFails, TablesOK, tables
  <2>4. QED BY <1>5, <2>2, <2>3 DEF FetchWeeklyRunsFails, TablesOK, world, tables, history
<1>6. ASSUME NEW c \in Characters, PollScore(c) PROVE IInv'
  <2>1. rio[c].todo \in SUBSET Runs /\ None \in Runs \cup {None} /\ Worker(c, "storing",
          rio[c].todo, None)
      BY <1>6 DEF PollScore, RunsOf, WorkerType
  <2>2. rio' \in [Characters -> WorkerType] /\ rio'[c].at = "storing" /\ rio'[c].run = None
        /\ \A e \in Characters : e # c => rio'[e] = rio[e]
      BY <2>1, WorkerSet
  <2>3. TablesOK'
      BY <1>0, <1>6, UpdateScoreOK DEF PollScore, WorkerType
  <2>4. QED BY <1>6, <2>2, <2>3 DEF PollScore, TablesOK, world, tables, history
<1>7. ASSUME NEW c \in Characters, NEW r \in Runs, SkipKnown(c, r) PROVE IInv'
  <2>1. (rio[c].todo \ {r}) \in SUBSET Runs /\ None \in Runs \cup {None} /\ Worker(c,
          "storing", (rio[c].todo \ {r}), None)
      BY <1>7 DEF SkipKnown, RunsOf, WorkerType
  <2>2. rio' \in [Characters -> WorkerType] /\ rio'[c].at = "storing" /\ rio'[c].run = None
        /\ \A e \in Characters : e # c => rio'[e] = rio[e]
      BY <2>1, WorkerSet
  <2>3. TablesOK'
      BY <1>0, <1>7 DEF SkipKnown, TablesOK, tables
  <2>4. QED BY <1>7, <2>2, <2>3 DEF SkipKnown, TablesOK, world, tables, history
<1>8. ASSUME NEW c \in Characters, NEW r \in Runs, PollStore(c, r) PROVE IInv'
  <2>1. (rio[c].todo \ {r}) \in SUBSET Runs /\ r \in Runs \cup {None} /\ Worker(c,
          "linking", (rio[c].todo \ {r}), r)
      BY <1>8 DEF PollStore, RunsOf, WorkerType
  <2>2. rio' \in [Characters -> WorkerType] /\ rio'[c].at = "linking" /\ rio'[c].run = r
        /\ \A e \in Characters : e # c => rio'[e] = rio[e]
      BY <2>1, WorkerSet
  <2>3. TablesOK'
      BY <1>0, <1>8, UpsertKeyOK DEF PollStore, WorkerType
  <2>4. known' \in [Characters -> (SUBSET Runs) \cup {None}]
        /\ \A d \in Characters : known[d] # None => known'[d] # None
      BY <1>8, MarkKnown DEF PollStore
  <2>5. QED BY <1>8, <2>2, <2>3, <2>4 DEF PollStore, TablesOK, world, tables,
          history
<1>9. ASSUME NEW c \in Characters, NEW r \in Runs, PollStoreFails(c, r) PROVE IInv'
  <2>1. (rio[c].todo \ {r}) \in SUBSET Runs /\ None \in Runs \cup {None} /\ Worker(c,
          "storing", (rio[c].todo \ {r}), None)
      BY <1>9 DEF PollStoreFails, RunsOf, WorkerType
  <2>2. rio' \in [Characters -> WorkerType] /\ rio'[c].at = "storing" /\ rio'[c].run = None
        /\ \A e \in Characters : e # c => rio'[e] = rio[e]
      BY <2>1, WorkerSet
  <2>3. TablesOK'
      BY <1>0, <1>9 DEF PollStoreFails, TablesOK, tables
  <2>4. known' \in [Characters -> (SUBSET Runs) \cup {None}]
        /\ \A d \in Characters : known[d] # None => known'[d] # None
      BY <1>9, MarkKnown DEF PollStoreFails
  <2>5. unsaved' \subseteq Runs \X Characters
      BY <1>9 DEF PollStoreFails
  <2>6. ActorsOK'
      BY <1>9, <2>2, <2>4 DEF PollStoreFails
  <2>7. QED BY <1>9, <2>2, <2>3, <2>4, <2>5, <2>6 DEF PollStoreFails, TablesOK, world,
          tables
<1>10. ASSUME NEW c \in Characters, PollLink(c) PROVE IInv'
  <2>1. rio[c].todo \in SUBSET Runs /\ None \in Runs \cup {None} /\ Worker(c, "storing",
          rio[c].todo, None)
      BY <1>10 DEF PollLink, RunsOf, WorkerType
  <2>2. rio' \in [Characters -> WorkerType] /\ rio'[c].at = "storing" /\ rio'[c].run = None
        /\ \A e \in Characters : e # c => rio'[e] = rio[e]
      BY <2>1, WorkerSet
  <2>3. TablesOK'
      BY <1>0, <1>10, UpsertLinkOK DEF PollLink, WorkerType
  <2>4. QED BY <1>10, <2>2, <2>3 DEF PollLink, TablesOK, world, tables, history
<1>11. ASSUME NEW c \in Characters, PollNoLink(c) PROVE IInv'
  <2>1. rio[c].todo \in SUBSET Runs /\ None \in Runs \cup {None} /\ Worker(c, "storing",
          rio[c].todo, None)
      BY <1>11 DEF PollNoLink, RunsOf, WorkerType
  <2>2. rio' \in [Characters -> WorkerType] /\ rio'[c].at = "storing" /\ rio'[c].run = None
        /\ \A e \in Characters : e # c => rio'[e] = rio[e]
      BY <2>1, WorkerSet
  <2>3. TablesOK'
      BY <1>0, <1>11 DEF PollNoLink, TablesOK, tables
  <2>4. QED BY <1>11, <2>2, <2>3 DEF PollNoLink, TablesOK, world, tables, history
<1>12. ASSUME NEW c \in Characters, PollEnd(c) PROVE IInv'
  <2>1. {} \in SUBSET Runs /\ None \in Runs \cup {None} /\ Worker(c, "idle", {}, None)
      BY <1>12 DEF PollEnd, RunsOf, WorkerType
  <2>2. rio' \in [Characters -> WorkerType] /\ rio'[c].at = "idle" /\ rio'[c].run = None
        /\ \A e \in Characters : e # c => rio'[e] = rio[e]
      BY <2>1, WorkerSet
  <2>3. TablesOK'
      BY <1>0, <1>12 DEF PollEnd, TablesOK, tables
  <2>4. QED BY <1>12, <2>2, <2>3 DEF PollEnd, TablesOK, world, tables, history
<1>13. CASE PollBegin
    BY <1>13 DEF PollBegin, world, tables, pollers, history, WorkerType, IdleWorker
<1>14. CASE ListUnlinkedKeys
    BY <1>14 DEF ListUnlinkedKeys, world, tables, pollers, history
<1>15. ASSUME NEW k \in Runs \X Characters, LinkListed(k) PROVE IInv'
  <2>1. TablesOK'
      BY <1>0, <1>15, UpsertLinkOK DEF LinkListed, SyncType
  <2>2. QED BY <1>15, <2>1 DEF LinkListed, TablesOK, world, pollers, history
<1>16. ASSUME NEW k \in Runs \X Characters, SkipListed(k) PROVE IInv'
    BY <1>16 DEF SkipListed, world, tables, pollers, history
<1>17. ASSUME NEW c \in Characters, SyncBegin(c) PROVE IInv'
  <2>1. sync' \in SyncType
      BY <1>17 DEF SyncBegin, SyncType, IdleSync, RunsOf
  <2>2. events' \in 0..MaxEvents
      BY <1>17, BoundsAssumption DEF SyncBegin
  <2>3. ActorsOK'
      BY <1>17, <2>1 DEF SyncBegin, IdleSync, pollers
  <2>4. QED BY <1>17, <2>1, <2>2, <2>3 DEF SyncBegin, world, tables, pollers
<1>18. CASE SyncFetch
  <2>1. sync' \in SyncType
      BY <1>18 DEF SyncFetch, SyncType, IdleSync, RunsOf
  <2>2. QED BY <1>18, <2>1 DEF SyncFetch, SyncType, IdleSync, world, tables, pollers, history
<1>19. CASE SyncFetchFails
  <2>1. sync' \in SyncType
      BY <1>19 DEF SyncFetchFails, SyncType, IdleSync, RunsOf
  <2>2. QED BY <1>19, <2>1 DEF SyncFetchFails, SyncType, IdleSync, world, tables,
          pollers, history
<1>20. CASE SyncScore
  <2>1. TablesOK'
      BY <1>0, <1>20, UpdateScoreOK DEF SyncScore, SyncType
  <2>2. sync' \in SyncType
      BY <1>20 DEF SyncScore, SyncType
  <2>3. QED BY <1>20, <2>1, <2>2 DEF SyncScore, TablesOK, world, pollers,
          history, SyncType
<1>21. ASSUME NEW r \in Runs, SyncStore(r) PROVE IInv'
  <2>1. TablesOK'
      BY <1>0, <1>21, UpsertKeyOK DEF SyncStore, SyncType
  <2>2. sync' \in SyncType
      BY <1>21 DEF SyncStore, SyncType
  <2>3. QED BY <1>21, <2>1, <2>2 DEF SyncStore, TablesOK, world, pollers,
          history, SyncType
<1>22. ASSUME NEW r \in Runs, SyncStoreFails(r) PROVE IInv'
  <2>1. sync' \in SyncType
      BY <1>22 DEF SyncStoreFails, SyncType, IdleSync, RunsOf
  <2>2. QED BY <1>22, <2>1 DEF SyncStoreFails, SyncType, IdleSync, world, tables,
          pollers, history
<1>23. CASE SyncStored
  <2>1. sync' \in SyncType
      BY <1>23 DEF SyncStored, SyncType, IdleSync, RunsOf
  <2>2. QED BY <1>23, <2>1 DEF SyncStored, SyncType, IdleSync, world, tables, pollers, history
<1>24. ASSUME NEW r \in Runs, SyncCheck(r) PROVE IInv'
  <2>1. sync' \in SyncType
    <3>1. CASE sync' = [sync EXCEPT !.todo = @ \ {r}]
        BY <3>1 DEF SyncType
    <3>2. CASE sync' = [sync EXCEPT !.todo = @ \ {r}, !.at = "linking", !.run = r]
      <4>1. r \in Runs
          OBVIOUS
      <4>2. sync \in SyncType
          BY DEF IInv, TypeOK
      <4>3. QED BY <3>2, <4>1, <4>2 DEF SyncType
    <3>3. QED BY <1>24, <3>1, <3>2 DEF SyncCheck
  <2>2. QED BY <1>24, <2>1 DEF SyncCheck, SyncType, IdleSync, world, tables, pollers, history
<1>25. CASE SyncLink
  <2>1. TablesOK'
      BY <1>0, <1>25, UpsertLinkOK DEF SyncLink, SyncType
  <2>2. sync' \in SyncType
      BY <1>25 DEF SyncLink, SyncType
  <2>3. QED BY <1>25, <2>1, <2>2 DEF SyncLink, TablesOK, world, pollers,
          history, SyncType
<1>26. CASE SyncNoLink
  <2>1. sync' \in SyncType
      BY <1>26 DEF SyncNoLink, SyncType, IdleSync, RunsOf
  <2>2. QED BY <1>26, <2>1 DEF SyncNoLink, SyncType, IdleSync, world, tables, pollers, history
<1>27. CASE SyncEnd
  <2>1. sync' \in SyncType
      BY <1>27 DEF SyncEnd, SyncType, IdleSync, RunsOf
  <2>2. QED BY <1>27, <2>1 DEF SyncEnd, SyncType, IdleSync, world, tables, pollers, history
<1>28. ASSUME NEW c \in Characters, Purge(c) PROVE IInv'
  <2>1. TablesOK'
      BY <1>0, <1>28, DeleteOK DEF Purge
  <2>2. events' \in 0..MaxEvents
      BY <1>28, BoundsAssumption DEF Purge
  <2>3. /\ gone' \subseteq Runs \X Characters
        /\ caught' \subseteq purged' /\ purged' \subseteq Characters
      BY <1>28 DEF Purge
  <2>4. ActorsOK'
      BY <1>28 DEF Purge, pollers
  <2>5. QED BY <1>28, <2>1, <2>2, <2>3, <2>4 DEF Purge, TablesOK, world, pollers
<1>29. CASE Restart
  <2>1. events' \in 0..MaxEvents
      BY <1>29, BoundsAssumption DEF Restart
  <2>2. rio' \in [Characters -> WorkerType] /\ sync' \in SyncType
      BY <1>29 DEF Restart, WorkerType, SyncType, IdleWorker, IdleSync
  <2>3. known' \in [Characters -> (SUBSET Runs) \cup {None}]
      BY <1>29 DEF Restart
  <2>4. ActorsOK'
      BY <1>29 DEF Restart, IdleWorker, IdleSync
  <2>5. QED BY <1>29, <2>1, <2>2, <2>3, <2>4 DEF Restart, world, tables, history
<1>30. CASE UNCHANGED vars
    BY <1>30 DEF vars, world, tables, pollers, history
<1>31. ASSUME NEW c \in Characters, PollScoreFails(c) PROVE IInv'
  <2>1. rio[c].todo \in SUBSET Runs /\ Worker(c, "storing", rio[c].todo, None)
      BY <1>31 DEF PollScoreFails, WorkerType
  <2>2. rio' \in [Characters -> WorkerType] /\ rio'[c].at = "storing" /\ rio'[c].run = None
        /\ \A e \in Characters : e # c => rio'[e] = rio[e]
      BY <2>1, WorkerSet
  <2>3. events' \in 0..MaxEvents
      BY <1>31, BoundsAssumption DEF PollScoreFails
  <2>4. TablesOK'
      BY <1>0, <1>31 DEF PollScoreFails, TablesOK, tables
  <2>5. QED BY <1>31, <2>2, <2>3, <2>4 DEF PollScoreFails, TablesOK, world, history
<1>32. CASE SyncScoreFails
  <2>1. sync' \in SyncType
      BY <1>32 DEF SyncScoreFails, SyncType
  <2>2. QED BY <1>32, <2>1 DEF SyncScoreFails, SyncType, world, tables, pollers, history
<1>33. QED
    BY <1>1, <1>2, <1>3, <1>4, <1>5, <1>6, <1>7, <1>8, <1>9, <1>10, <1>11, <1>12, <1>13,
            <1>14, <1>15, <1>16, <1>17, <1>18, <1>19, <1>20, <1>21, <1>22, <1>23, <1>24,
            <1>25, <1>26, <1>27, <1>28, <1>29, <1>30, <1>31, <1>32
       DEF Next, World, PollStep, WclStep, SyncStep

-----------------------------------------------------------------------------
\* A step that leaves the poller's map alone and removes no pair from where
\* KnownIsStored looks for it.
Grows ==
    /\ known' = known
    /\ keys \subseteq keys' /\ unsaved \subseteq unsaved' /\ gone \subseteq gone'

\* A step that only adds to what the property allows keeps it.
LEMMA GrowsKeeps == KnownIsStored /\ Grows => KnownIsStored'
BY DEF Grows, KnownIsStored

\* Each step keeps a known run accounted for.  Seeding from the store needs
\* names to be unique: the store looks runs up by name alone.
LEMMA StepKnown ==
  ASSUME UniqueNames, IInv, KnownIsStored, [Next]_vars
  PROVE  KnownIsStored'
<1>1. ASSUME NEW c \in Characters, PollCharacter(c) PROVE KnownIsStored'
  <2>1. PICK seed \in {ListKeysByCharacter(c), {}} :
            known' = IF known[c] = None THEN [known EXCEPT ![c] = seed] ELSE known
      BY <1>1 DEF PollCharacter
  <2>2. \A r \in seed : <<r, c>> \in keys
      BY <2>1 DEF UniqueNames, ListKeysByCharacter
  <2>3. UNCHANGED <<keys, unsaved, gone>>
      BY <1>1 DEF PollCharacter, tables, history
  <2>4. known \in [Characters -> (SUBSET Runs) \cup {None}]
      BY DEF IInv, TypeOK
  <2>5. QED BY <2>1, <2>2, <2>3, <2>4 DEF KnownIsStored
<1>2. ASSUME NEW c \in Characters, NEW r \in Runs, PollStore(c, r) \/ PollStoreFails(c, r)
      PROVE  KnownIsStored'
  <2>1. known' = [known EXCEPT ![c] = @ \cup {r}]
      BY <1>2 DEF PollStore, PollStoreFails
  <2>2. <<r, c>> \in keys' \cup unsaved'
      BY <1>2 DEF PollStore, PollStoreFails, UpsertCompletedKey
  <2>3. keys \subseteq keys' /\ unsaved \subseteq unsaved' /\ gone \subseteq gone'
      BY <1>2 DEF PollStore, PollStoreFails, UpsertCompletedKey, tables, history
  <2>4. known[c] # None
      BY <1>2 DEF PollStore, PollStoreFails, IInv, ActorsOK
  <2>5. known \in [Characters -> (SUBSET Runs) \cup {None}]
      BY DEF IInv, TypeOK
  <2>6. SUFFICES ASSUME NEW d \in Characters, known'[d] # None, NEW s \in known'[d]
                 PROVE  <<s, d>> \in keys' \cup unsaved' \cup gone'
      BY DEF KnownIsStored
  <2>7. CASE d = c /\ s = r
      BY <2>2, <2>7
  <2>8. CASE ~(d = c /\ s = r)
    <3>1. known[d] # None /\ s \in known[d]
        BY <2>1, <2>4, <2>5, <2>6, <2>8
    <3>2. QED BY <2>3, <3>1 DEF KnownIsStored
  <2>9. QED BY <2>7, <2>8
<1>3. ASSUME NEW c \in Characters, Purge(c) PROVE KnownIsStored'
  <2>1. known' = known /\ unsaved' = unsaved /\ keys \cup gone \subseteq keys' \cup gone'
      BY <1>3 DEF Purge, DeleteCharacter, pollers, IInv, TypeOK
  <2>2. QED BY <2>1 DEF KnownIsStored
<1>4. CASE Restart
    BY <1>4 DEF Restart, KnownIsStored
<1>5. ASSUME NEW c \in Characters,
             \/ FetchWeeklyRuns(c) \/ FetchWeeklyRunsFails(c) \/ PollScore(c)
             \/ PollScoreFails(c) \/ \E r \in Runs : SkipKnown(c, r)
             \/ PollLink(c) \/ PollNoLink(c) \/ PollEnd(c)
      PROVE  Grows
    BY <1>5 DEF Grows, FetchWeeklyRuns, FetchWeeklyRunsFails, PollScore, PollScoreFails, SkipKnown,
           PollLink, PollNoLink, PollEnd, UpdateCharacterScore,
           UpsertWarcraftLogsLink, tables, history
<1>6. ASSUME World \/ PollBegin \/ ListUnlinkedKeys \/ UNCHANGED vars
      PROVE  Grows
    BY <1>6 DEF Grows, World, Play, LogRun, PollBegin, ListUnlinkedKeys, vars, tables,
           pollers, history
<1>7. ASSUME NEW k \in Runs \X Characters, WclStep(k)
      PROVE  Grows
    BY <1>7 DEF Grows, WclStep, LinkListed, SkipListed, UpsertWarcraftLogsLink, tables,
           history
<1>8. ASSUME SyncStep
      PROVE  Grows
  <2>1. CASE SyncScore \/ SyncLink \/ SyncEnd
      BY <2>1 DEF Grows, SyncScore, SyncLink, SyncEnd, UpdateCharacterScore,
             UpsertWarcraftLogsLink, tables, pollers, history
  <2>2. CASE SyncFetch \/ SyncFetchFails \/ SyncScoreFails \/ SyncStored \/ SyncNoLink
      BY <2>2 DEF Grows, SyncFetch, SyncFetchFails, SyncScoreFails, SyncStored, SyncNoLink, tables,
             pollers, history
  <2>3. CASE \E r \in Runs : SyncStore(r) \/ SyncStoreFails(r) \/ SyncCheck(r)
      BY <2>3 DEF Grows, SyncStore, SyncStoreFails, SyncCheck, UpsertCompletedKey,
             tables, pollers, history
  <2>4. QED BY <1>8, <2>1, <2>2, <2>3 DEF SyncStep
<1>9. ASSUME NEW c \in Characters, SyncBegin(c)
      PROVE  Grows
    BY <1>9 DEF Grows, SyncBegin, tables, pollers
<1>10. QED
    BY <1>1, <1>2, <1>3, <1>4, <1>5, <1>6, <1>7, <1>8, <1>9, GrowsKeeps DEF Next, PollStep

-----------------------------------------------------------------------------
\* A character purged while nothing worked for it is not listed, and nothing
\* has begun to work for it since.
PurgeIsFinal ==
    \A c \in purged \ caught : c \notin chars /\ rio[c].at = "idle" /\ sync.char # c

\* A step that purges or syncs no one, makes no new character's row, and
\* starts no work for anyone.
Quiet ==
    /\ purged' = purged /\ caught' = caught
    /\ chars' = chars
    /\ \A c \in Characters : rio[c].at = "idle" => rio'[c].at = "idle"
    /\ sync'.char \in {sync.char, None}

\* Such a step keeps purges final.
LEMMA QuietKeeps ==
  ASSUME IInv, PurgeIsFinal, Quiet
  PROVE  PurgeIsFinal'
<1>1. purged \subseteq Characters
    BY DEF IInv, TypeOK
<1>2. \A c \in Characters : c # None
    BY NoneAssumption
<1>3. QED BY <1>1, <1>2 DEF PurgeIsFinal, Quiet

\* A worker's own step changes no other worker, and it was not idle before.
LEMMA WorkerQuiet ==
  ASSUME IInv, NEW c \in Characters, rio[c].at # "idle",
         NEW at, NEW todo, NEW run, Worker(c, at, todo, run)
  PROVE  \A d \in Characters : rio[d].at = "idle" => rio'[d].at = "idle"
BY DEF IInv, TypeOK, Worker

\* Each step keeps purges final.
LEMMA StepPurge ==
  ASSUME IInv, PurgeIsFinal, [Next]_vars
  PROVE  PurgeIsFinal'
<1>1. CASE World \/ ListUnlinkedKeys \/ UNCHANGED vars
  <2>1. Quiet
      BY <1>1 DEF Quiet, World, Play, LogRun, ListUnlinkedKeys, vars, tables, pollers, history
  <2>2. QED BY <2>1, QuietKeeps
<1>2. ASSUME NEW k \in Runs \X Characters, WclStep(k) PROVE PurgeIsFinal'
  <2>1. Quiet
      BY <1>2 DEF Quiet, WclStep, LinkListed, SkipListed, UpsertWarcraftLogsLink, tables, history
  <2>2. QED BY <2>1, QuietKeeps
<1>3. CASE PollBegin
    BY <1>3 DEF PollBegin, PurgeIsFinal, IdleWorker, tables, history, IInv, TypeOK
<1>4. ASSUME NEW c \in Characters,
             \/ PollCharacter(c) \/ FetchWeeklyRuns(c) \/ FetchWeeklyRunsFails(c)
             \/ PollScore(c) \/ PollScoreFails(c)
             \/ \E r \in Runs : SkipKnown(c, r) \/ PollStoreFails(c, r)
             \/ PollLink(c) \/ PollNoLink(c) \/ PollEnd(c)
      PROVE  PurgeIsFinal'
  <2>1. /\ rio[c].at # "idle"
        /\ \E at, todo, run : Worker(c, at, todo, run)
      BY <1>4 DEF PollCharacter, FetchWeeklyRuns, FetchWeeklyRunsFails, PollScore,
             PollScoreFails, SkipKnown, PollStoreFails, PollLink, PollNoLink, PollEnd
  <2>2. \A d \in Characters : rio[d].at = "idle" => rio'[d].at = "idle"
      BY <2>1, WorkerQuiet
  <2>3. purged' = purged /\ caught' = caught /\ chars' = chars /\ sync' = sync
      BY <1>4 DEF PollCharacter, FetchWeeklyRuns, FetchWeeklyRunsFails, PollScore,
             PollScoreFails, SkipKnown, PollStoreFails, PollLink, PollNoLink, PollEnd,
             UpdateCharacterScore, UpsertWarcraftLogsLink, tables, history
  <2>4. QED BY <2>2, <2>3, QuietKeeps DEF Quiet
<1>5. ASSUME NEW c \in Characters, NEW r \in Runs, PollStore(c, r) PROVE PurgeIsFinal'
  <2>1. rio[c].at # "idle" /\ c \notin purged \ caught
      BY <1>5 DEF PollStore, PurgeIsFinal
  <2>2. \A d \in Characters : rio[d].at = "idle" => rio'[d].at = "idle"
      BY <1>5, <2>1, WorkerQuiet DEF PollStore
  <2>3. chars' = chars \cup {c} /\ sync' = sync /\ purged' = purged /\ caught' = caught
      BY <1>5 DEF PollStore, UpsertCompletedKey, history
  <2>4. QED BY <2>1, <2>2, <2>3 DEF PurgeIsFinal, IInv, TypeOK
<1>6. CASE \/ SyncFetch \/ SyncFetchFails \/ SyncScore \/ SyncScoreFails \/ SyncStored
           \/ \E r \in Runs : SyncStoreFails(r) \/ SyncCheck(r)
           \/ SyncLink \/ SyncNoLink \/ SyncEnd
  <2>1. sync \in SyncType
      BY DEF IInv, TypeOK
  <2>2. sync'.char \in {sync.char, None}
    <3>1. CASE SyncFetch \/ SyncScore \/ SyncScoreFails \/ SyncStored
        BY <2>1, <3>1 DEF SyncFetch, SyncScore, SyncScoreFails, SyncStored, SyncType
    <3>2. CASE SyncLink \/ SyncNoLink
        BY <2>1, <3>2 DEF SyncLink, SyncNoLink, SyncType
    <3>3. CASE \E r \in Runs : SyncStoreFails(r) \/ SyncCheck(r)
        BY <2>1, <3>3 DEF SyncStoreFails, SyncCheck, SyncType
    <3>4. CASE SyncFetchFails \/ SyncEnd
        BY <3>4 DEF SyncFetchFails, SyncEnd, IdleSync
    <3>5. QED BY <1>6, <3>1, <3>2, <3>3, <3>4
  <2>3. purged' = purged /\ caught' = caught /\ chars' = chars /\ rio' = rio
      BY <1>6 DEF SyncFetch, SyncFetchFails, SyncScore, SyncScoreFails, SyncStored,
             SyncStoreFails, SyncCheck, SyncLink, SyncNoLink, SyncEnd,
             UpdateCharacterScore, UpsertWarcraftLogsLink, tables, pollers, history
  <2>4. QED BY <2>2, <2>3, QuietKeeps DEF Quiet
<1>7. ASSUME NEW r \in Runs, SyncStore(r) PROVE PurgeIsFinal'
  <2>1. chars' = chars \cup {sync.char}
      BY <1>7 DEF SyncStore, UpsertCompletedKey
  <2>2. rio' = rio /\ purged' = purged /\ caught' = caught
      BY <1>7 DEF SyncStore, pollers, history
  <2>3. sync'.char = sync.char
      BY <1>7 DEF SyncStore, IInv, TypeOK, SyncType
  <2>4. QED BY <2>1, <2>2, <2>3 DEF PurgeIsFinal
<1>8. ASSUME NEW c \in Characters, SyncBegin(c) PROVE PurgeIsFinal'
    BY <1>8 DEF SyncBegin, IdleSync, PurgeIsFinal, tables, pollers
<1>9. ASSUME NEW c \in Characters, Purge(c) PROVE PurgeIsFinal'
    BY <1>9 DEF Purge, DeleteCharacter, PurgeIsFinal, pollers
<1>10. CASE Restart
  <2>1. /\ \A c \in Characters : rio'[c].at = "idle"
        /\ sync'.char = None
      BY <1>10 DEF Restart, IdleWorker, IdleSync
  <2>2. purged' = purged /\ caught' = caught /\ chars' = chars
      BY <1>10 DEF Restart, tables, history
  <2>3. QED BY <2>1, <2>2, QuietKeeps DEF Quiet
<1>11. QED
    BY <1>1, <1>2, <1>3, <1>4, <1>5, <1>6, <1>7, <1>8, <1>9, <1>10
       DEF Next, PollStep, SyncStep

-----------------------------------------------------------------------------
\* Both invariants hold throughout every behaviour.
LEMMA Invariance == Spec => []IInv
  BY InitIInv, StepIInv, PTL DEF Spec

\* Every reachable state is well typed; in particular the tables respect the
\* foreign key: no completed key is without its character, no score either.
THEOREM TypeCorrect == Spec => []TypeOK
<1>1. IInv => TypeOK
    BY DEF IInv
<1>2. QED BY <1>1, Invariance, PTL

\* A purge that meets no work under way for its character is final until that
\* character's next sync.
THEOREM PurgeFinal == Spec => []PurgeHolds
<1>1. Init => PurgeIsFinal
    BY DEF Init, PurgeIsFinal
<1>2. IInv /\ PurgeIsFinal /\ [Next]_vars => PurgeIsFinal'
    BY StepPurge
<1>3. PurgeIsFinal => PurgeHolds
    BY DEF PurgeIsFinal, PurgeHolds
<1>4. QED BY <1>1, <1>2, <1>3, Invariance, PTL DEF Spec

\* If tracked characters have distinct names, skipping known runs loses none.
THEOREM SkippingIsSafe == ASSUME UniqueNames PROVE Spec => []KnownIsStored
<1>1. IInv /\ KnownIsStored /\ [Next]_vars => KnownIsStored'
    BY StepKnown, UniqueNames
<1>2. Init => KnownIsStored
    BY InitIInv
<1>3. QED BY <1>1, <1>2, Invariance, PTL DEF Spec
=============================================================================
