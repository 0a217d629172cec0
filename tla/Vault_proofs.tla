---------------------------- MODULE Vault_proofs ----------------------------
(***************************************************************************)
(* What the vault line shows, for any runs and both tables of rewards: a   *)
(* slot is filled when enough runs are done, and with the reward of the    *)
(* highest level that enough of them reached.                              *)
(***************************************************************************)
EXTENDS Vault, FiniteSetTheorems, FunctionTheorems, TLAPS

Tables == {VaultRewardsPrepatch, VaultRewardsSeason1}

\* The runs at a level or above, by their places.
AtLeast(levels, level) == {i \in DOMAIN levels : levels[i] >= level}

\* A higher key never promises less (GetItemLevel takes the first threshold
\* that fits, so the order of the table matters).
THEOREM HigherKeyNoLess ==
  ASSUME NEW table \in Tables, NEW low \in Nat, NEW high \in Nat, low <= high
  PROVE  GetItemLevel(table, low) <= GetItemLevel(table, high)
BY SMTT(60) DEF Tables, GetItemLevel, Reached, VaultRewardsPrepatch, VaultRewardsSeason1, Threshold

\* Sorting keeps the number of runs, and of those at any level or above.
LEMMA SortingCounts ==
  ASSUME NEW levels \in Seq(Nat), NEW sorted \in Seq(Nat), SortedByLevel(levels, sorted)
  PROVE  /\ Len(sorted) = Len(levels)
         /\ \A level \in Nat :
                Cardinality(AtLeast(sorted, level)) = Cardinality(AtLeast(levels, level))
<1>1. PICK p \in Bijection(DOMAIN sorted, DOMAIN levels) :
          \A i \in DOMAIN sorted : sorted[i] = levels[p[i]]
    BY DEF SortedByLevel
<1>2. /\ p \in [DOMAIN sorted -> DOMAIN levels]
      /\ \A a, b \in DOMAIN sorted : p[a] = p[b] => a = b
      /\ \A t \in DOMAIN levels : \E i \in DOMAIN sorted : p[i] = t
    BY Fun_BijectionProperties
<1>3. Len(sorted) = Len(levels)
  <2>1. DOMAIN sorted = 1..Len(sorted) /\ DOMAIN levels = 1..Len(levels)
        /\ Len(sorted) \in Nat /\ Len(levels) \in Nat
      OBVIOUS
  <2>2. \A n \in Nat : IsFiniteSet(1..n) /\ Cardinality(1..n) = n
      BY FS_Interval
  <2>3. p \in Bijection(1..Len(sorted), 1..Len(levels))
      BY <2>1
  <2>4. ExistsBijection(1..Len(sorted), 1..Len(levels))
      BY <2>3 DEF ExistsBijection
  <2>5. QED BY <2>1, <2>2, <2>4, FS_Bijection
<1>4. ASSUME NEW level \in Nat
      PROVE  Cardinality(AtLeast(sorted, level)) = Cardinality(AtLeast(levels, level))
  <2> DEFINE S == AtLeast(sorted, level)
             T == AtLeast(levels, level)
             f == [i \in S |-> p[i]]
  <2>1. S \subseteq DOMAIN sorted /\ T \subseteq DOMAIN levels
      BY DEF AtLeast
  <2>2. f \in [S -> T]
      BY <1>1, <1>2 DEF AtLeast
  <2>3. \A a, b \in S : f[a] = f[b] => a = b
      BY <1>2, <2>1
  <2>4. \A t \in T : \E i \in S : f[i] = t
      BY <1>1, <1>2 DEF AtLeast
  <2>5. f \in Bijection(S, T)
    <3> HIDE DEF f, S, T
    <3>1. QED BY <2>2, <2>3, <2>4, Fun_IsBij
  <2>6. IsFiniteSet(S)
    <3>1. IsFiniteSet(1..Len(sorted)) /\ DOMAIN sorted = 1..Len(sorted)
        BY FS_Interval
    <3> HIDE DEF S
    <3>2. QED BY <2>1, <3>1, FS_Subset
  <2>7. QED
    <3> HIDE DEF f, S, T
    <3>1. ExistsBijection(S, T)
        BY <2>5 DEF ExistsBijection
    <3>2. Cardinality(T) = Cardinality(S)
        BY <2>6, <3>1, FS_Bijection
    <3>3. QED BY <3>2 DEF S, T
<1>5. QED BY <1>3, <1>4

\* A slot is empty until enough runs are done.  Then it shows the reward of a
\* level that enough runs reached, and no level that enough runs reached is
\* worth more (vaultShortCode, sortKeysByLevel).
THEOREM SlotShowsBestReward ==
  ASSUME NEW table \in Tables, NEW levels \in Seq(Nat), NEW sorted \in Seq(Nat),
         SortedByLevel(levels, sorted), NEW index \in Nat
  PROVE  /\ index >= Len(levels) => VaultSlot(table, sorted, index) = Empty
         /\ index < Len(levels) =>
                \E level \in Nat :
                    /\ Cardinality(AtLeast(levels, level)) > index
                    /\ VaultSlot(table, sorted, index) = GetItemLevel(table, level)
                    /\ \A other \in Nat :
                           Cardinality(AtLeast(levels, other)) > index
                               => GetItemLevel(table, other) <= GetItemLevel(table, level)
<1>1. Len(sorted) = Len(levels)
      /\ \A level \in Nat :
             Cardinality(AtLeast(sorted, level)) = Cardinality(AtLeast(levels, level))
    BY SortingCounts
<1>2. CASE index >= Len(levels)
    BY <1>1, <1>2 DEF VaultSlot
<1>3. CASE index < Len(levels)
  <2> DEFINE level == sorted[index + 1]
  <2>1. Len(sorted) \in Nat /\ DOMAIN sorted = 1..Len(sorted)
        /\ index + 1 \in 1..Len(sorted) /\ level \in Nat
      BY <1>1, <1>3
  <2>2. \A i, j \in 1..Len(sorted) : i <= j => sorted[i] >= sorted[j]
      BY <2>1 DEF SortedByLevel
  <2>3. ASSUME NEW l \in Nat
        PROVE  /\ AtLeast(sorted, l) \subseteq 1..Len(sorted)
               /\ IsFiniteSet(AtLeast(sorted, l)) /\ Cardinality(AtLeast(sorted, l)) \in Nat
    <3>1. AtLeast(sorted, l) \subseteq 1..Len(sorted)
        BY <2>1 DEF AtLeast
    <3>2. IsFiniteSet(1..Len(sorted))
        BY <2>1, FS_Interval
    <3>3. IsFiniteSet(AtLeast(sorted, l))
        BY <3>1, <3>2, FS_Subset
    <3>4. QED BY <3>1, <3>3, FS_CardinalityType
  <2>4. Cardinality(AtLeast(levels, level)) > index
    <3>1. 1..(index + 1) \subseteq AtLeast(sorted, level)
        BY <2>1, <2>2 DEF AtLeast
    <3>2. Cardinality(1..(index + 1)) = index + 1
        BY FS_Interval
    <3>3. index + 1 <= Cardinality(AtLeast(sorted, level))
      <4> HIDE DEF level
      <4>1. IsFiniteSet(AtLeast(sorted, level))
          BY <2>1, <2>3
      <4>2. QED BY <3>1, <3>2, <4>1, FS_Subset
    <3> HIDE DEF level
    <3>4. Cardinality(AtLeast(sorted, level)) = Cardinality(AtLeast(levels, level))
          /\ Cardinality(AtLeast(sorted, level)) \in Nat
        BY <1>1, <2>1, <2>3
    <3>5. QED BY <3>3, <3>4
  <2>5. VaultSlot(table, sorted, index) = GetItemLevel(table, level)
      BY <1>1, <1>3, <2>1 DEF VaultSlot
  <2>6. ASSUME NEW other \in Nat, Cardinality(AtLeast(levels, other)) > index
        PROVE  GetItemLevel(table, other) <= GetItemLevel(table, level)
    <3>1. PICK j \in AtLeast(sorted, other) : j > index
      <4>1. SUFFICES ASSUME \A j \in AtLeast(sorted, other) : j <= index
                     PROVE  FALSE
          BY <2>1, <2>3
      <4>2. AtLeast(sorted, other) \subseteq 1..index
          BY <2>3, <4>1
      <4>3. IsFiniteSet(1..index) /\ Cardinality(1..index) = index
          BY FS_Interval
      <4>4. Cardinality(AtLeast(sorted, other)) <= index
          BY <4>2, <4>3, FS_Subset
      <4>5. QED BY <1>1, <2>3, <2>6, <4>4
    <3>2. j \in 1..Len(sorted) /\ index + 1 <= j /\ sorted[j] >= other /\ sorted[j] \in Nat
        BY <2>3, <3>1 DEF AtLeast
    <3>3. other <= level
        BY <2>1, <2>2, <3>2
    <3> HIDE DEF level
    <3>4. QED BY <2>1, <3>3, HigherKeyNoLess
  <2> HIDE DEF level
  <2>7. QED BY <1>1, <1>3, <2>1, <2>4, <2>5, <2>6
<1>4. QED BY <1>1, <1>2, <1>3
=============================================================================
