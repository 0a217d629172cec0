------------------------------- MODULE Vault --------------------------------
(***************************************************************************)
(* The vault line of the weekly report: the item level promised by the     *)
(* best, the fourth best and the eighth best run of the week, from the     *)
(* season's table of rewards (discord/vault.go, buildReportBlock).  Pure   *)
(* operators, without state; the runs are given by their key levels.       *)
(***************************************************************************)
EXTENDS Integers, Sequences, Functions

Threshold(minKeyLevel, itemLevel) ==
    [minKeyLevel |-> minKeyLevel, itemLevel |-> itemLevel]

VaultRewardsPrepatch ==
    [thresholds |-> <<Threshold(10, 147), Threshold(7, 144), Threshold(6, 141),
                      Threshold(4, 137), Threshold(2, 134)>>,
     default |-> 134]

VaultRewardsSeason1 ==
    [thresholds |-> <<Threshold(18, 282), Threshold(15, 279), Threshold(12, 276),
                      Threshold(10, 272), Threshold(7, 269), Threshold(6, 266),
                      Threshold(4, 263), Threshold(2, 259)>>,
     default |-> 259]

\* The first threshold of the table that the level reaches.
Reached(table, keyLevel) ==
    {i \in DOMAIN table.thresholds : keyLevel >= table.thresholds[i].minKeyLevel}

GetItemLevel(table, keyLevel) ==
    LET reached == Reached(table, keyLevel) IN
        IF reached = {} THEN table.default
        ELSE table.thresholds[CHOOSE i \in reached : \A j \in reached : i <= j].itemLevel

\* sort.Slice by level, the highest first: some order of the same runs.
SortedByLevel(levels, sorted) ==
    /\ \E p \in Bijection(DOMAIN sorted, DOMAIN levels) :
           \A i \in DOMAIN sorted : sorted[i] = levels[p[i]]
    /\ \A i, j \in DOMAIN sorted : i <= j => sorted[i] >= sorted[j]

Empty == "---"

\* vaultShortCode, of the runs in their order; Go's indices begin at 0.
VaultSlot(table, sorted, index) ==
    IF index >= Len(sorted) THEN Empty ELSE GetItemLevel(table, sorted[index + 1])

\* The three slots of a row of the report.
VaultLine(table, sorted) == <<VaultSlot(table, sorted, 0), VaultSlot(table, sorted, 3),
                              VaultSlot(table, sorted, 7)>>
=============================================================================
