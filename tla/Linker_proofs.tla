---------------------------- MODULE Linker_proofs ----------------------------
(***************************************************************************)
(* Proofs about Linker, for any keys, kinds, times, windows and skew: the  *)
(* confidence of a key's own log exceeds that of any other, because the    *)
(* other's run ended more than twice the skew away, unless the run time    *)
(* that the other states is nearer to the key's.                           *)
(***************************************************************************)
EXTENDS Linker, TLAPS

\* Logs are off by at most the skew.
LogsOK ==
    \A l \in Keys : logs[l] # None => Distance(Ended[l], logs[l].at) <= MaxSkew

IInv == TypeOK /\ LogsOK

\* The distance of two times is a natural number, zero for equal times.
LEMMA DistanceNat ==
  ASSUME NEW a \in Int, NEW b \in Int
  PROVE  Distance(a, b) \in Nat /\ (a = b => Distance(a, b) = 0)
BY DEF Distance

\* The initial state satisfies the invariant.
LEMMA InitIInv == Init => IInv
BY DEF Init, IInv, TypeOK, LogsOK

\* The invariant is inductive.
LEMMA StepIInv == IInv /\ [Next]_vars => IInv'
<1> SUFFICES ASSUME IInv, [Next]_vars PROVE IInv'
    OBVIOUS
<1>1. ASSUME NEW l \in Keys, NEW skew \in -MaxSkew..MaxSkew, NEW took \in Stated[l],
             Upload(l, skew, took)
      PROVE  IInv'
  <2> DEFINE log == [at |-> Ended[l] + skew, took |-> took]
  <2>1. Ended[l] \in Nat /\ took \in Nat /\ MaxSkew \in Nat /\ skew \in Int
      BY KeysAssumption
  <2>2. log \in Log
      BY <2>1 DEF Log
  <2>3. log.at = Ended[l] + skew
      OBVIOUS
  <2>4. Distance(Ended[l], log.at) <= MaxSkew
      BY <2>1, <2>3 DEF Distance
  <2> HIDE DEF log
  <2>5. logs' = [logs EXCEPT ![l] = log] /\ link' = link
      BY <1>1 DEF Upload, log
  <2>6. TypeOK'
      BY <2>2, <2>5 DEF IInv, TypeOK
  <2>7. LogsOK'
      BY <2>3, <2>4, <2>5 DEF IInv, TypeOK, LogsOK
  <2>8. QED BY <2>6, <2>7 DEF IInv
<1>2. ASSUME NEW k \in Keys, NEW w \in Windows, MatchKey(k, w) PROVE IInv'
  <2>1. PICK l \in Keys : link' = [link EXCEPT ![k] = l]
      BY <1>2 DEF MatchKey, Best, Matches, RecentReports, Uploaded
  <2>2. logs' = logs
      BY <1>2 DEF MatchKey
  <2>3. QED BY <2>1, <2>2 DEF IInv, TypeOK, LogsOK
<1>3. CASE UNCHANGED vars
    BY <1>3 DEF vars, IInv, TypeOK, LogsOK
<1>4. QED BY <1>1, <1>2, <1>3 DEF Next

\* The inductive invariant holds throughout every behaviour.
LEMMA Invariance == Spec => []IInv
BY InitIInv, StepIInv, PTL DEF Spec

\* What the run time adds to the confidence.
RunTimePart(k, log, w) == IF Close(k, log) THEN w * (5 - Distance(log.took, Took[k])) ELSE 0

\* It is nothing for a log without a time near the key's, and otherwise the
\* more, the nearer the time is.
LEMMA RunTimeOrder ==
  ASSUME NEW k \in Keys, NEW own \in Log, NEW log \in Log, NEW w \in Nat,
         RunTimePart(k, own, w) < RunTimePart(k, log, w)
  PROVE  Close(k, log) /\ (own.took > 0 => Error(k, log) < Error(k, own))
<1> DEFINE d == Error(k, log)
           e == Error(k, own)
<1>1. d \in Nat /\ e \in Nat
    BY KeysAssumption DEF Log, Distance, Error
<1>2. /\ Close(k, log) <=> log.took > 0 /\ d < 5
      /\ Close(k, own) <=> own.took > 0 /\ e < 5
    BY DEF Close, Error
<1>3. /\ RunTimePart(k, log, w) = IF Close(k, log) THEN w * (5 - d) ELSE 0
      /\ RunTimePart(k, own, w) = IF Close(k, own) THEN w * (5 - e) ELSE 0
    BY DEF RunTimePart, Error
<1> HIDE DEF d, e
<1>4. ASSUME Close(k, own) PROVE w * (5 - e) \in Nat
  <2>1. 5 - e \in Nat
      BY <1>1, <1>2, <1>4
  <2>2. QED BY <2>1
<1>5. Close(k, log)
  <2> SUFFICES ASSUME ~Close(k, log) PROVE FALSE
      OBVIOUS
  <2>1. RunTimePart(k, log, w) = 0 /\ RunTimePart(k, own, w) \in Nat
    <3>1. CASE Close(k, own)
        BY <1>3, <1>4, <3>1
    <3>2. CASE ~Close(k, own)
        BY <1>3, <3>2
    <3>3. QED BY <3>1, <3>2
  <2>2. QED BY <2>1
<1>6. ASSUME Close(k, own) PROVE d < e
  <2> SUFFICES ASSUME e <= d PROVE FALSE
      BY <1>1
  <2>1. 5 - d \in Nat /\ d - e \in Nat
      BY <1>1, <1>2, <1>5
  <2>2. w * (5 - e) = w * (5 - d) + w * (d - e)
      BY <1>1
  <2>3. w * (d - e) \in Nat /\ w * (5 - d) \in Nat
      BY <2>1
  <2>4. QED BY <1>3, <1>5, <1>6, <2>2, <2>3
<1>7. own.took > 0 /\ ~Close(k, own) => d < e
    BY <1>1, <1>2, <1>5
<1>8. QED BY <1>5, <1>6, <1>7 DEF d, e

\* Another run's log is farther from the key's completion than its own.
LEMMA OwnIsNearest ==
  ASSUME IInv, NEW k \in Keys, NEW l \in Keys, l # k, logs[k] # None, logs[l] # None
  PROVE  /\ Distance(Ended[k], logs[k].at) \in Nat
         /\ Distance(Ended[k], logs[l].at) \in Nat
         /\ Distance(Ended[k], logs[k].at) < Distance(Ended[k], logs[l].at)
<1>1. logs[k] \in Log /\ logs[l] \in Log
    BY DEF IInv, TypeOK
<1>2. logs[k].at \in Int /\ logs[l].at \in Int
    BY <1>1 DEF Log
<1>3. Ended[k] \in Nat /\ Ended[l] \in Nat /\ MaxSkew \in Nat
    BY KeysAssumption
<1>4. /\ Distance(Ended[k], logs[k].at) <= MaxSkew
      /\ Distance(Ended[l], logs[l].at) <= MaxSkew
      /\ Distance(Ended[k], Ended[l]) > 2 * MaxSkew
    BY OneAtATime DEF IInv, LogsOK
<1>5. QED BY <1>2, <1>3, <1>4 DEF Distance

\* Logs come in the order of their runs, whatever their skews: a log in reach
\* is among the recent reports.
LEMMA InReachIsRecent ==
  ASSUME IInv, NEW k \in Keys, OwnLogInReach(k)
  PROVE  logs[k] # None /\ k \in RecentReports
<1>1. logs[k] # None /\ k \in Uploaded
    BY DEF OwnLogInReach, Uploaded
<1>2. ASSUME NEW l \in Uploaded
      PROVE  logs[l].at > logs[k].at <=> Ended[l] > Ended[k]
  <2>1. l \in Keys /\ logs[l] # None
      BY DEF Uploaded
  <2>2. logs[k].at \in Int /\ logs[l].at \in Int
      BY <1>1, <2>1 DEF IInv, TypeOK, Log
  <2>3. Ended[k] \in Nat /\ Ended[l] \in Nat /\ MaxSkew \in Nat
      BY <2>1, KeysAssumption
  <2>4. CASE l = k
      BY <2>2, <2>3, <2>4
  <2>5. CASE l # k
    <3>1. /\ Distance(Ended[k], logs[k].at) <= MaxSkew
          /\ Distance(Ended[l], logs[l].at) <= MaxSkew
          /\ Distance(Ended[k], Ended[l]) > 2 * MaxSkew
        BY <1>1, <2>1, <2>5, OneAtATime DEF IInv, LogsOK
    <3>2. QED BY <2>2, <2>3, <3>1 DEF Distance
  <2>6. QED BY <2>4, <2>5
<1>3. Newer(k) = {l \in Uploaded : Ended[l] > Ended[k]}
    BY <1>2 DEF Newer
<1>4. QED BY <1>1, <1>3 DEF OwnLogInReach, RecentReports

\* The own log, if it is in reach, is a candidate in every window.
LEMMA OwnMatches ==
  ASSUME IInv, NEW k \in Keys, NEW w \in Windows, OwnLogInReach(k)
  PROVE  k \in Matches(k, w)
<1>0. logs[k] # None /\ k \in RecentReports
    BY InReachIsRecent
<1>1. logs[k].at \in Int
    BY <1>0 DEF IInv, TypeOK, Log
<1>2. Distance(Ended[k], logs[k].at) <= MaxSkew /\ MaxSkew \in Nat /\ w \in Nat /\ w > MaxSkew
    BY <1>0, KeysAssumption DEF IInv, LogsOK
<1>3. Ended[k] \in Nat
    BY KeysAssumption
<1>4. Distance(Ended[k], logs[k].at) <= w
    BY <1>1, <1>2, <1>3 DEF Distance
<1>5. QED BY <1>0, <1>4 DEF Matches

\* A fight preferred to the key's own log makes up for its greater distance by
\* its run time.
LEMMA PreferredIsTwin ==
  ASSUME IInv, NEW k \in Keys, NEW w \in Windows, OwnLogInReach(k), NEW l \in Best(k, w), l # k
  PROVE  Close(k, logs[l]) /\ (logs[k].took > 0 => Error(k, logs[l]) < Error(k, logs[k]))
<1>1. l \in Keys /\ logs[l] # None /\ logs[k] # None
    BY DEF Best, Matches, RecentReports, Uploaded, OwnLogInReach
<1>2. logs[k] \in Log /\ logs[l] \in Log /\ w \in Nat
    BY <1>1, KeysAssumption DEF IInv, TypeOK
<1>3. Confidence(k, logs[l], w) >= Confidence(k, logs[k], w)
    BY OwnMatches DEF Best
<1> DEFINE dk == Distance(Ended[k], logs[k].at)
           dl == Distance(Ended[k], logs[l].at)
           pk == RunTimePart(k, logs[k], w)
           pl == RunTimePart(k, logs[l], w)
<1>4. dk \in Nat /\ dl \in Nat /\ dk < dl
    BY <1>1, OwnIsNearest
<1>5. pk \in Int /\ pl \in Int
  <2>1. /\ Distance(logs[k].took, Took[k]) \in Int /\ Distance(logs[l].took, Took[k]) \in Int
      BY <1>2, KeysAssumption DEF Log, Distance
  <2>2. QED BY <1>2, <2>1 DEF RunTimePart
<1>6. /\ Confidence(k, logs[k], w) = 5 * (w - dk) + pk
      /\ Confidence(k, logs[l], w) = 5 * (w - dl) + pl
    BY DEF Confidence, RunTimePart
<1> HIDE DEF dk, dl
<1>7. pk < pl
  <2> HIDE DEF pk, pl
  <2>1. QED BY <1>2, <1>3, <1>4, <1>5, <1>6
<1>8. QED BY <1>2, <1>7, RunTimeOrder

\* The properties of one step.
LEMMA StepLinks ==
  ASSUME IInv, [Next]_vars, NEW k \in Keys, link'[k] # link[k], OwnLogInReach(k)
  PROVE  \/ link'[k] = k
         \/ /\ Close(k, logs[link'[k]])
            /\ logs[k].took > 0 => Error(k, logs[link'[k]]) < Error(k, logs[k])
<1>1. PICK j \in Keys, w \in Windows : MatchKey(j, w)
    BY DEF Next, Upload, vars
<1>2. PICK l \in Best(j, w) : link' = [link EXCEPT ![j] = l]
    BY <1>1 DEF MatchKey
<1>3. j = k /\ link'[k] = l
    BY <1>2 DEF IInv, TypeOK
<1>4. QED BY <1>2, <1>3, PreferredIsTwin

-----------------------------------------------------------------------------
\* Every reachable state is well typed.
THEOREM TypeCorrect == Spec => []TypeOK
<1>1. IInv => TypeOK
    BY DEF IInv
<1>2. QED BY <1>1, Invariance, PTL

\* A key whose own log is in reach and states a time is linked to it, or to a
\* run whose log states one nearer to the key's.
THEOREM TimedLogLosesToNearer == Spec => TimedLogLosesOnlyToNearer
<1>1. IInv /\ [Next]_vars =>
        [\A k \in Keys :
            link'[k] # link[k] /\ OwnLogInReach(k) /\ logs[k].took > 0 =>
                link'[k] = k \/ Error(k, logs[link'[k]]) < Error(k, logs[k])]_vars
    BY StepLinks
<1>2. QED BY <1>1, Invariance, PTL DEF Spec, TimedLogLosesOnlyToNearer

\* A key whose own log is in reach is linked to it, or to a run of its duration.
THEOREM OwnLogLosesToTwin == Spec => OwnLogLosesOnlyToTwin
<1>1. IInv /\ [Next]_vars =>
        [\A k \in Keys : link'[k] # link[k] /\ OwnLogInReach(k) =>
            link'[k] = k \/ Error(k, logs[link'[k]]) < 5]_vars
    BY StepLinks DEF Close, Error
<1>2. QED BY <1>1, Invariance, PTL DEF Spec, OwnLogLosesOnlyToTwin
=============================================================================
