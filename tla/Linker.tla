-------------------------------- MODULE Linker --------------------------------
(***************************************************************************)
(* How a completed key finds its fight on WarcraftLogs                     *)
(* (Linker.MatchKey): logs of a character's runs are uploaded in any order *)
(* and at any time, and a key without a link is matched, now and then and  *)
(* with one window or another, against the logs there are.  A link once    *)
(* made is never looked at again.  The service hands out the character's   *)
(* most recent reports, so many and no more; each log is taken to be a     *)
(* report of its own.  Fights that are not completed runs with a keystone  *)
(* are no candidates, and left out.                                        *)
(*                                                                         *)
(* Completion times and windows are in minutes, run times in seconds.      *)
(***************************************************************************)
EXTENDS Integers, FiniteSets

CONSTANTS
    Keys,      \* a character's completed keys, each of one run
    Kind,      \* dungeon and level of a key
    Ended,     \* when its run was completed
    Took,      \* how long the run took
    Stated,    \* what a log of the run may state of that; zero for nothing
    Windows,   \* match windows in use: a day, up to eight days
    MaxSkew,   \* a log's completion time is off by at most this
    Limit,     \* reports asked for
    None

\* A log's completion time, and the run time it states.
Log == [at : Int, took : Nat]

ASSUME KeysAssumption ==
    /\ None \notin Keys /\ None \notin Log
    /\ Ended \in [Keys -> Nat] /\ Took \in [Keys -> Nat \ {0}]
    /\ Stated \in [Keys -> SUBSET Nat]
    /\ MaxSkew \in Nat /\ Limit \in Nat \ {0}
    /\ Windows \subseteq {w \in Nat : w > MaxSkew}

Distance(a, b) == IF a < b THEN b - a ELSE a - b

\* One character makes one run at a time, and a run outlasts the skew.
ASSUME OneAtATime ==
    \A k, l \in Keys : k # l => Distance(Ended[k], Ended[l]) > 2 * MaxSkew

VARIABLES
    logs,    \* per key, the log of its run; None while there is none
    link     \* per key, the key whose run's log it is linked to; or None

vars == <<logs, link>>

Uploaded == {l \in Keys : logs[l] # None}

Newer(l) == {m \in Uploaded : logs[m].at > logs[l].at}

\* Mutant: the first reports, not the most recent ones.
OldestReports == {l \in Uploaded : Cardinality({m \in Uploaded : logs[m].at < logs[l].at}) < Limit}

\* FetchCharacterMythicPlus.
RecentReports == {l \in Uploaded : Cardinality(Newer(l)) < Limit}

Init ==
    /\ logs = [k \in Keys |-> None]
    /\ link = [k \in Keys |-> None]

-----------------------------------------------------------------------------
(* matchKeyToRuns *)

\* The fights of the same dungeon and level within the window.
Matches(k, w) ==
    {l \in RecentReports : Kind[l] = Kind[k] /\ Distance(Ended[k], logs[l].at) <= w}

\* Run times count when both are known and less than five seconds apart.
Close(k, log) == log.took > 0 /\ Distance(log.took, Took[k]) < 5

\* Mutant: the sign of the time difference is kept.
SignedConfidence(k, log, w) ==
    5 * (w - (Ended[k] - log.at))
        + (IF Close(k, log) THEN w * (5 - Distance(log.took, Took[k])) ELSE 0)

\* calculateMatchConfidence, less its constant part and times 25 w / 2:
\* 0.4 (1 - distance / w) + 0.4 (1 - difference / 5).
Confidence(k, log, w) ==
    5 * (w - Distance(Ended[k], log.at))
        + (IF Close(k, log) THEN w * (5 - Distance(log.took, Took[k])) ELSE 0)

\* The first of the fights with the highest confidence: any of them, as the
\* order of the reports is not known.
Best(k, w) ==
    {l \in Matches(k, w) : \A m \in Matches(k, w) :
        Confidence(k, logs[l], w) >= Confidence(k, logs[m], w)}

-----------------------------------------------------------------------------
\* A player uploads a log, which states the run's time, something near it, or
\* nothing.
Upload(l, skew, took) ==
    /\ logs[l] = None
    /\ logs' = [logs EXCEPT ![l] = [at |-> Ended[l] + skew, took |-> took]]
    /\ UNCHANGED link

\* Mutant: a match is not checked to be there.
NoFight == <<>>
MatchKeyUnchecked(k, w) ==
    /\ link[k] = None
    /\ \E l \in (IF Best(k, w) = {} THEN {NoFight} ELSE Best(k, w)) :
           link' = [link EXCEPT ![k] = l]
    /\ UNCHANGED logs

\* A poller, or a sync, tries a key that has no link.
MatchKey(k, w) ==
    /\ link[k] = None
    /\ \E l \in Best(k, w) : link' = [link EXCEPT ![k] = l]
    /\ UNCHANGED logs

Next ==
    \/ \E l \in Keys, skew \in -MaxSkew..MaxSkew : \E took \in Stated[l] : Upload(l, skew, took)
    \/ \E k \in Keys, w \in Windows : MatchKey(k, w)

Spec == Init /\ [][Next]_vars

-----------------------------------------------------------------------------
(* Properties *)

TypeOK ==
    /\ logs \in [Keys -> Log \cup {None}]
    /\ link \in [Keys -> Keys \cup {None}]

\* The log of the key's own run is up, and not too many of later runs are.
OwnLogInReach(k) ==
    /\ logs[k] # None
    /\ Cardinality({l \in Uploaded : Ended[l] > Ended[k]}) < Limit

\* How far off the run time of a log is.
Error(k, log) == Distance(log.took, Took[k])

\* When the log of the key's own run is in reach and states a run time, it can
\* lose only to a run whose log states one still nearer to the key's: to none
\* if it states the time exactly.  Whatever other logs there are, when the runs
\* were completed cannot decide against it, in any window
\* (calculateMatchConfidence).
TimedLogLosesOnlyToNearer ==
    [][\A k \in Keys :
        link'[k] # link[k] /\ OwnLogInReach(k) /\ logs[k].took > 0 =>
            link'[k] = k \/ Error(k, logs[link'[k]]) < Error(k, logs[k])]_vars

\* Whether it states a time or not, it can lose only to a run that took the
\* same time to within five seconds.
OwnLogLosesOnlyToTwin ==
    [][\A k \in Keys :
        link'[k] # link[k] /\ OwnLogInReach(k) =>
            link'[k] = k \/ Error(k, logs[link'[k]]) < 5]_vars
=============================================================================
