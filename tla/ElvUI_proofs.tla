---------------------------- MODULE ElvUI_proofs ----------------------------
(***************************************************************************)
(* Proofs about ElvUI, for any number of versions.  Both properties rest   *)
(* on what the record in the store means: a version is new to a poll only  *)
(* if it is not the recorded one, and once it has been announced it stays  *)
(* recorded until a newer one replaces it or the record is lost.           *)
(***************************************************************************)
EXTENDS ElvUI, TLAPS

\* The poll has an answer and is not done with it.
Handling == at \in {"comparing", "storing", "announcing"}

\* Versions only grow, and what is stored is never newer than an answer that
\* holds one.
InOrder ==
    /\ stored <= published /\ disk <= published /\ info <= published
    /\ at \in {"comparing", "storing"} /\ info # Blank => stored <= info

\* A message for the version is still owed to its losses.
Owed(v) == posts[v] <= losses[v]
OwedTwo(v) == posts[v] < losses[v] \/ losses[v] = MaxCount

\* The record of the version that this process, or the next, will compare with.
Recorded(v) == IF at = "off" THEN disk = v ELSE stored = v

\* The API reports a newer one, and no poll has this one in hand.
Superseded(v) == published > v /\ ~(Handling /\ info = v)

OwedOrRecorded == \A v \in Versions : Owed(v) \/ Recorded(v) \/ Superseded(v)

\* A version found to be new may be announced; after the record failed it may
\* even be found new again.
NewIsOwed ==
    info \in Versions /\ isNew =>
        /\ at \in {"storing", "announcing"} => Owed(info)
        /\ at = "announcing" => stored = info \/ OwedTwo(info)

NotNewIsStored == at = "storing" /\ ~isNew => stored = info

IInv ==
    /\ TypeOK
    /\ InOrder
    /\ OwedOrRecorded
    /\ NewIsOwed
    /\ NotNewIsStored
    /\ AnnouncedOnce
    /\ SeenMeansAnnounced

\* The types alone, for the arithmetic.
LEMMA Types ==
  ASSUME TypeOK
  PROVE  /\ MaxVersion \in Nat /\ MaxCount \in Nat /\ MaxCount > 0
         /\ stored \in Int /\ disk \in Int /\ info \in Int /\ published \in Int
         /\ info \in Versions \/ info = 0
         /\ published \in Versions
         /\ \A v \in Versions : v \in Int /\ v > 0
         /\ \A v \in Versions : posts[v] \in Nat /\ posts[v] <= MaxCount
         /\ \A v \in Versions : losses[v] \in Nat /\ losses[v] <= MaxCount
BY VersionsAssumption DEF TypeOK, Versions, Answers, Blank, NoRow

\* What counting up a loss does to the record of losses.
LEMMA LoseEffect ==
  ASSUME TypeOK, NEW v, Lose(v)
  PROVE  /\ losses' \in [Versions -> 0..MaxCount]
         /\ \A w \in Versions : losses'[w] >= losses[w] /\ losses'[w] \in Nat
         /\ v \in Versions => losses'[v] > losses[v] \/ losses'[v] = MaxCount
BY VersionsAssumption DEF TypeOK, Lose, CountUp

\* What a message does to the count of messages.
LEMMA PostEffect ==
  ASSUME TypeOK, NEW v, Post(v)
  PROVE  /\ posts' \in [Versions -> 0..MaxCount]
         /\ \A w \in Versions : w # v => posts'[w] = posts[w]
         /\ v \in Versions => posts'[v] > 0 /\ posts'[v] <= posts[v] + 1
BY VersionsAssumption DEF TypeOK, Post, CountUp

\* The initial state satisfies the invariant.
LEMMA InitIInv == Init => IInv
<1> SUFFICES ASSUME Init PROVE IInv
    OBVIOUS
<1>1. TypeOK
  <2>1. 1 \in Versions /\ 0 \in 0..MaxCount
      BY VersionsAssumption DEF Versions
  <2>2. QED BY <2>1 DEF Init, TypeOK, Answers
<1>2. InOrder /\ NewIsOwed /\ NotNewIsStored /\ SeenMeansAnnounced
    BY DEF Init, InOrder, NewIsOwed, NotNewIsStored, SeenMeansAnnounced, Versions, NoRow, Blank
<1>3. \A v \in Versions : posts[v] = 0 /\ losses[v] = 0
    BY DEF Init, Versions
<1>4. OwedOrRecorded /\ AnnouncedOnce
    BY <1>3 DEF OwedOrRecorded, Owed, AnnouncedOnce
<1>5. QED BY <1>1, <1>2, <1>4 DEF IInv

\* Types are kept.
LEMMA StepTypeOK ==
  ASSUME IInv, [Next]_vars
  PROVE  TypeOK'
<1>1. CASE Publish
  <2>1. published' \in Versions
      BY <1>1, Types DEF Publish, IInv, Versions
  <2>2. QED BY <1>1, <2>1 DEF Publish, poll, history, IInv, TypeOK
<1>2. CASE Start
  <2>1. losses' \in [Versions -> 0..MaxCount]
      BY <1>2, LoseEffect DEF Start, IInv, TypeOK
  <2>2. stored' \in Answers \cup {NoRow} /\ disk' = disk
      BY <1>2 DEF Start, IInv, TypeOK
  <2>3. QED BY <1>2, <2>1, <2>2 DEF Start, IInv, TypeOK
<1>3. CASE Tick
    BY <1>3 DEF Tick, poll, history, IInv, TypeOK, Answers
<1>4. CASE FetchVersion
    BY <1>4 DEF FetchVersion, poll, history, IInv, TypeOK, Answers
<1>5. CASE FetchVersionFails
    BY <1>5 DEF FetchVersionFails, poll, history, IInv, TypeOK, Answers
<1>6. CASE GetElvUIVersion
    BY <1>6 DEF GetElvUIVersion, poll, history, IInv, TypeOK, Answers
<1>7. CASE GetElvUIVersionFails
    BY <1>7, LoseEffect DEF GetElvUIVersionFails, poll, history, IInv, TypeOK, Answers
<1>8. CASE UpsertElvUIVersion
    BY <1>8, LoseEffect DEF UpsertElvUIVersion, poll, history, IInv, TypeOK, Answers
<1>9. CASE UpsertElvUIVersionFails
    BY <1>9, LoseEffect DEF UpsertElvUIVersionFails, poll, history, IInv, TypeOK, Answers
<1>10. CASE Announce
    BY <1>10, PostEffect DEF Announce, poll, history, IInv, TypeOK, Answers
<1>11. CASE DoNotAnnounce
    BY <1>11 DEF DoNotAnnounce, poll, history, IInv, TypeOK, Answers
<1>12. CASE Flush
    BY <1>12 DEF Flush, poll, history, IInv, TypeOK, Answers
<1>13. CASE Stop
    BY <1>13, LoseEffect DEF Stop, poll, history, IInv, TypeOK, Answers
<1>14. CASE Crash
    BY <1>14, LoseEffect DEF Crash, poll, history, IInv, TypeOK, Answers
<1>15. CASE UNCHANGED vars
    BY <1>15 DEF vars, poll, history, IInv, TypeOK, Answers
<1>16. CASE FetchBlank
    BY <1>16 DEF FetchBlank, poll, history, IInv, TypeOK, Answers
<1>17. QED BY <1>1, <1>2, <1>3, <1>4, <1>5, <1>6, <1>7, <1>8, <1>9,
          <1>10, <1>11, <1>12, <1>13, <1>14, <1>15, <1>16
          DEF Next, PollStep

\* Losses only grow, and only Announce posts.
LEMMA Counts ==
  ASSUME IInv, [Next]_vars
  PROVE  /\ \A v \in Versions : losses'[v] \in Nat /\ losses'[v] >= losses[v]
         /\ posts' = posts \/ (Announce /\ losses' = losses)
<1>1. (\E v : Lose(v)) \/ losses' = losses
    BY DEF IInv, TypeOK, Next, PollStep, Publish, Start, Tick, FetchVersion, FetchBlank, FetchVersionFails,
        GetElvUIVersion, GetElvUIVersionFails, UpsertElvUIVersion, UpsertElvUIVersionFails,
        Announce, DoNotAnnounce, Flush, Stop, Crash, vars, history
<1>2. posts' = posts \/ (Announce /\ losses' = losses)
    BY DEF Next, PollStep, Publish, Start, Tick, FetchVersion, FetchBlank, FetchVersionFails,
        GetElvUIVersion, GetElvUIVersionFails, UpsertElvUIVersion, UpsertElvUIVersionFails,
        Announce, DoNotAnnounce, Flush, Stop, Crash, vars, history
<1>3. \A v \in Versions : losses'[v] \in Nat /\ losses'[v] >= losses[v]
  <2>1. CASE losses' = losses
      BY <2>1, Types DEF IInv
  <2>2. CASE \E v : Lose(v)
      BY <2>2, LoseEffect DEF IInv
  <2>3. QED BY <1>1, <2>1, <2>2
<1>4. QED BY <1>2, <1>3

\* A loss makes up for the one message a version may have.
LEMMA LossIsOwed ==
  ASSUME IInv, NEW v \in Versions, Lose(v), posts' = posts
  PROVE  Owed(v)' /\ (Owed(v) => OwedTwo(v)')
<1>1. losses'[v] \in Nat /\ (losses'[v] > losses[v] \/ losses'[v] = MaxCount)
    BY LoseEffect DEF IInv
<1>2. /\ posts[v] \in Nat /\ posts[v] <= MaxCount /\ posts[v] <= 1 + losses[v]
      /\ losses[v] \in Nat /\ MaxCount \in Nat
    BY Types DEF IInv, AnnouncedOnce
<1>3. QED BY <1>1, <1>2 DEF Owed, OwedTwo

\* What is owed stays owed, until it is announced.
LEMMA StillOwed ==
  ASSUME IInv, [Next]_vars, posts' = posts, NEW v \in Versions
  PROVE  (Owed(v) => Owed(v)') /\ (OwedTwo(v) /\ losses' = losses => OwedTwo(v)')
<1>1. losses'[v] >= losses[v] /\ losses'[v] \in Nat /\ losses[v] \in Nat /\ posts[v] \in Nat
    BY Counts, Types DEF IInv
<1>2. QED BY <1>1 DEF Owed, OwedTwo

\* The order of versions is kept.
LEMMA StepInOrder ==
  ASSUME IInv, [Next]_vars
  PROVE  InOrder'
<1>1. CASE Publish
    BY <1>1, Types DEF Publish, poll, history, IInv, InOrder, Blank, NoRow
<1>2. CASE Start
    BY <1>2, Types DEF Start, poll, history, IInv, InOrder, Blank, NoRow
<1>3. CASE Tick
    BY <1>3, Types DEF Tick, poll, history, IInv, InOrder, Blank, NoRow
<1>4. CASE FetchVersion
    BY <1>4, Types DEF FetchVersion, poll, history, IInv, InOrder, Blank, NoRow
<1>5. CASE FetchVersionFails
    BY <1>5, Types DEF FetchVersionFails, poll, history, IInv, InOrder, Blank, NoRow
<1>6. CASE GetElvUIVersion
    BY <1>6, Types DEF GetElvUIVersion, poll, history, IInv, InOrder, Blank, NoRow
<1>7. CASE GetElvUIVersionFails
    BY <1>7, Types DEF GetElvUIVersionFails, poll, history, IInv, InOrder, Blank, NoRow
<1>8. CASE UpsertElvUIVersion
    BY <1>8, Types DEF UpsertElvUIVersion, poll, history, IInv, InOrder, Blank, NoRow
<1>9. CASE UpsertElvUIVersionFails
    BY <1>9, Types DEF UpsertElvUIVersionFails, poll, history, IInv, InOrder, Blank, NoRow
<1>10. CASE Announce
    BY <1>10, Types DEF Announce, poll, history, IInv, InOrder, Blank, NoRow
<1>11. CASE DoNotAnnounce
    BY <1>11, Types DEF DoNotAnnounce, poll, history, IInv, InOrder, Blank, NoRow
<1>12. CASE Flush
    BY <1>12, Types DEF Flush, poll, history, IInv, InOrder, Blank, NoRow
<1>13. CASE Stop
    BY <1>13, Types DEF Stop, poll, history, IInv, InOrder, Blank, NoRow
<1>14. CASE Crash
    BY <1>14, Types DEF Crash, poll, history, IInv, InOrder, Blank, NoRow
<1>15. CASE UNCHANGED vars
    BY <1>15 DEF vars, poll, history, IInv, InOrder, Blank, NoRow
<1>16. CASE FetchBlank
    BY <1>16, Types DEF FetchBlank, poll, history, IInv, InOrder, Blank, NoRow
<1>17. QED BY <1>1, <1>2, <1>3, <1>4, <1>5, <1>6, <1>7, <1>8, <1>9,
          <1>10, <1>11, <1>12, <1>13, <1>14, <1>15, <1>16
          DEF Next, PollStep

\* An announced version stays recorded, or its loss is counted.
LEMMA StepOwedOrRecorded ==
  ASSUME IInv, [Next]_vars
  PROVE  OwedOrRecorded'
<1>1. CASE Publish
    BY <1>1, Types DEF Publish, poll, history, IInv, OwedOrRecorded, Owed, Recorded, Superseded,
                      Handling, InOrder, Blank
<1>2. CASE Start
  <2> SUFFICES ASSUME NEW v \in Versions PROVE (Owed(v) \/ Recorded(v) \/ Superseded(v))'
      BY DEF OwedOrRecorded
  <2>1. Owed(v) \/ Recorded(v) \/ Superseded(v)
      BY DEF IInv, OwedOrRecorded
  <2>2. posts' = posts
      BY <1>2 DEF Start, history
  <2>3. CASE Lose(v)
      BY <2>2, <2>3, LossIsOwed
  <2>4. CASE ~Lose(v)
    <3>1. (Recorded(v) \/ Superseded(v)) => (Recorded(v) \/ Superseded(v))'
        BY <1>2, <2>4, Types
           DEF Start, Recorded, Superseded, Handling, poll, IInv, InOrder, Blank
    <3>2. QED BY <2>1, <2>2, <3>1, StillOwed
  <2>5. QED BY <2>3, <2>4
<1>3. CASE Tick
    BY <1>3, Types DEF Tick, poll, history, IInv, OwedOrRecorded, Owed, Recorded, Superseded,
                      Handling, InOrder, Blank
<1>4. CASE FetchVersion
    BY <1>4, Types DEF FetchVersion, poll, history, IInv, OwedOrRecorded, Owed, Recorded, Superseded,
                      Handling, InOrder, Blank
<1>5. CASE FetchVersionFails
    BY <1>5, Types DEF FetchVersionFails, poll, history, IInv, OwedOrRecorded, Owed, Recorded, Superseded,
                      Handling, InOrder, Blank
<1>6. CASE GetElvUIVersion
    BY <1>6, Types DEF GetElvUIVersion, poll, history, IInv, OwedOrRecorded, Owed, Recorded, Superseded,
                      Handling, InOrder, Blank
<1>7. CASE GetElvUIVersionFails
  <2> SUFFICES ASSUME NEW v \in Versions PROVE (Owed(v) \/ Recorded(v) \/ Superseded(v))'
      BY DEF OwedOrRecorded
  <2>1. Owed(v) \/ Recorded(v) \/ Superseded(v)
      BY DEF IInv, OwedOrRecorded
  <2>2. posts' = posts
      BY <1>7 DEF GetElvUIVersionFails, history
  <2>3. CASE Lose(v)
      BY <2>2, <2>3, LossIsOwed
  <2>4. CASE ~Lose(v)
    <3>1. (Recorded(v) \/ Superseded(v)) => (Recorded(v) \/ Superseded(v))'
        BY <1>7, <2>4, Types
           DEF GetElvUIVersionFails, Recorded, Superseded, Handling, poll, IInv, InOrder, Blank
    <3>2. QED BY <2>1, <2>2, <3>1, StillOwed
  <2>5. QED BY <2>3, <2>4
<1>8. CASE UpsertElvUIVersion
  <2> SUFFICES ASSUME NEW v \in Versions PROVE (Owed(v) \/ Recorded(v) \/ Superseded(v))'
      BY DEF OwedOrRecorded
  <2>1. Owed(v) \/ Recorded(v) \/ Superseded(v)
      BY DEF IInv, OwedOrRecorded
  <2>2. posts' = posts
      BY <1>8 DEF UpsertElvUIVersion, history
  <2>3. CASE Lose(v)
      BY <2>2, <2>3, LossIsOwed
  <2>4. CASE ~Lose(v)
    <3>1. (Recorded(v) \/ Superseded(v)) => (Recorded(v) \/ Superseded(v))'
        BY <1>8, <2>4, Types
           DEF UpsertElvUIVersion, Recorded, Superseded, Handling, poll, IInv, InOrder, Blank
    <3>2. QED BY <2>1, <2>2, <3>1, StillOwed
  <2>5. QED BY <2>3, <2>4
<1>9. CASE UpsertElvUIVersionFails
  <2> SUFFICES ASSUME NEW v \in Versions PROVE (Owed(v) \/ Recorded(v) \/ Superseded(v))'
      BY DEF OwedOrRecorded
  <2>1. Owed(v) \/ Recorded(v) \/ Superseded(v)
      BY DEF IInv, OwedOrRecorded
  <2>2. posts' = posts
      BY <1>9 DEF UpsertElvUIVersionFails, history
  <2>3. CASE Lose(v)
      BY <2>2, <2>3, LossIsOwed
  <2>4. CASE ~Lose(v)
    <3>1. (Recorded(v) \/ Superseded(v)) => (Recorded(v) \/ Superseded(v))'
        BY <1>9, <2>4, Types
           DEF UpsertElvUIVersionFails, Recorded, Superseded, Handling, poll, IInv, InOrder, Blank
    <3>2. QED BY <2>1, <2>2, <3>1, StillOwed
  <2>5. QED BY <2>3, <2>4
<1>10. CASE Announce
  <2> SUFFICES ASSUME NEW v \in Versions PROVE (Owed(v) \/ Recorded(v) \/ Superseded(v))'
      BY DEF OwedOrRecorded
  <2>1. Owed(v) \/ Recorded(v) \/ Superseded(v)
      BY DEF IInv, OwedOrRecorded
  <2>2. info \in Versions => Owed(info) /\ (stored = info \/ OwedTwo(info))
      BY <1>10 DEF Announce, IInv, TypeOK, NewIsOwed
  <2>3. losses' = losses /\ stored' = stored /\ published' = published /\ at = "announcing"
        /\ at' = "idle" /\ Post(info)
      BY <1>10 DEF Announce
  <2>4. CASE v = info
    <3>1. posts'[v] <= posts[v] + 1 /\ posts' \in [Versions -> 0..MaxCount]
        BY <2>2, <2>3, <2>4, PostEffect DEF IInv
    <3>2. posts'[v] \in Nat /\ posts'[v] <= MaxCount /\ posts[v] \in Nat /\ losses[v] \in Nat
        BY <3>1, Types DEF IInv
    <3>3. stored = v \/ posts'[v] <= losses'[v]
        BY <2>2, <2>3, <2>4, <3>1, <3>2 DEF OwedTwo
    <3>4. QED BY <2>3, <3>3 DEF Owed, Recorded
  <2>5. CASE v # info
    <3>1. posts'[v] = posts[v]
        BY <2>3, <2>5, PostEffect DEF IInv
    <3>2. QED BY <2>1, <2>3, <3>1 DEF Owed, Recorded, Superseded, Handling
  <2>6. QED BY <2>4, <2>5
<1>11. CASE DoNotAnnounce
    BY <1>11, Types DEF DoNotAnnounce, poll, history, IInv, OwedOrRecorded, Owed, Recorded, Superseded,
                      Handling, InOrder, Blank
<1>12. CASE Flush
    BY <1>12, Types DEF Flush, poll, history, IInv, OwedOrRecorded, Owed, Recorded, Superseded,
                      Handling, InOrder, Blank
<1>13. CASE Stop
  <2> SUFFICES ASSUME NEW v \in Versions PROVE (Owed(v) \/ Recorded(v) \/ Superseded(v))'
      BY DEF OwedOrRecorded
  <2>1. Owed(v) \/ Recorded(v) \/ Superseded(v)
      BY DEF IInv, OwedOrRecorded
  <2>2. posts' = posts
      BY <1>13 DEF Stop, history
  <2>3. CASE Lose(v)
      BY <2>2, <2>3, LossIsOwed
  <2>4. CASE ~Lose(v)
    <3>1. (Recorded(v) \/ Superseded(v)) => (Recorded(v) \/ Superseded(v))'
        BY <1>13, <2>4, Types
           DEF Stop, Recorded, Superseded, Handling, poll, IInv, InOrder, Blank
    <3>2. QED BY <2>1, <2>2, <3>1, StillOwed
  <2>5. QED BY <2>3, <2>4
<1>14. CASE Crash
  <2> SUFFICES ASSUME NEW v \in Versions PROVE (Owed(v) \/ Recorded(v) \/ Superseded(v))'
      BY DEF OwedOrRecorded
  <2>1. Owed(v) \/ Recorded(v) \/ Superseded(v)
      BY DEF IInv, OwedOrRecorded
  <2>2. posts' = posts
      BY <1>14 DEF Crash, history
  <2>3. CASE Lose(v)
      BY <2>2, <2>3, LossIsOwed
  <2>4. CASE ~Lose(v)
    <3>1. (Recorded(v) \/ Superseded(v)) => (Recorded(v) \/ Superseded(v))'
        BY <1>14, <2>4, Types
           DEF Crash, Recorded, Superseded, Handling, poll, IInv, InOrder, Blank
    <3>2. QED BY <2>1, <2>2, <3>1, StillOwed
  <2>5. QED BY <2>3, <2>4
<1>15. CASE UNCHANGED vars
    BY <1>15 DEF vars, poll, history, IInv, OwedOrRecorded, Owed, Recorded, Superseded,
                 Handling, InOrder
<1>16. CASE FetchBlank
    BY <1>16, Types DEF FetchBlank, poll, history, IInv, OwedOrRecorded, Owed, Recorded,
                       Superseded, Handling, Blank
<1>17. QED BY <1>1, <1>2, <1>3, <1>4, <1>5, <1>6, <1>7, <1>8, <1>9,
          <1>10, <1>11, <1>12, <1>13, <1>14, <1>15, <1>16
          DEF Next, PollStep

\* A version is found new only if it may be announced.
LEMMA StepNewIsOwed ==
  ASSUME IInv, [Next]_vars
  PROVE  NewIsOwed'
<1>1. CASE Publish
    BY <1>1, Types DEF Publish, poll, history, IInv, NewIsOwed, Owed, OwedTwo
<1>2. CASE Start
    BY <1>2, Types DEF Start, poll, history, IInv, NewIsOwed, Owed, OwedTwo
<1>3. CASE Tick
    BY <1>3, Types DEF Tick, poll, history, IInv, NewIsOwed, Owed, OwedTwo
<1>4. CASE FetchVersion
    BY <1>4, Types DEF FetchVersion, poll, history, IInv, NewIsOwed, Owed, OwedTwo
<1>5. CASE FetchVersionFails
    BY <1>5, Types DEF FetchVersionFails, poll, history, IInv, NewIsOwed, Owed, OwedTwo
<1>6. CASE GetElvUIVersion
  <2>1. info \in Versions => Owed(info) \/ stored = info
      BY <1>6, Types DEF GetElvUIVersion, IInv, OwedOrRecorded, Recorded, Superseded, Handling, TypeOK
  <2>2. QED BY <1>6, <2>1 DEF GetElvUIVersion, poll, history, NewIsOwed, Owed
<1>7. CASE GetElvUIVersionFails
  <2>1. Lose(info) /\ posts' = posts
      BY <1>7 DEF GetElvUIVersionFails, IInv, TypeOK
  <2>2. info \in Versions => posts'[info] <= losses'[info]
      BY <2>1, LossIsOwed DEF Owed
  <2>3. QED BY <1>7, <2>2 DEF GetElvUIVersionFails, NewIsOwed, Owed
<1>8. CASE UpsertElvUIVersion
  <2>1. posts' = posts /\ stored' = info /\ info' = info /\ isNew' = isNew /\ at = "storing"
      BY <1>8 DEF UpsertElvUIVersion, poll
  <2>2. info \in Versions /\ isNew => Owed(info)'
      BY <2>1, StillOwed DEF IInv, NewIsOwed
  <2>3. QED BY <2>1, <2>2 DEF NewIsOwed, Owed
<1>9. CASE UpsertElvUIVersionFails
  <2>1. Lose(info) /\ posts' = posts
      BY <1>9 DEF UpsertElvUIVersionFails, IInv, TypeOK
  <2>2. info \in Versions =>
            /\ posts'[info] <= losses'[info]
            /\ posts[info] <= losses[info] =>
                   posts'[info] < losses'[info] \/ losses'[info] = MaxCount
      BY <2>1, LossIsOwed DEF Owed, OwedTwo
  <2>3. info \in Versions /\ isNew => posts[info] <= losses[info]
      BY <1>9 DEF UpsertElvUIVersionFails, IInv, NewIsOwed, Owed
  <2>4. QED BY <1>9, <2>2, <2>3 DEF UpsertElvUIVersionFails, poll, NewIsOwed, Owed, OwedTwo
<1>10. CASE Announce
    BY <1>10, Types DEF Announce, poll, history, IInv, NewIsOwed, Owed, OwedTwo
<1>11. CASE DoNotAnnounce
    BY <1>11, Types DEF DoNotAnnounce, poll, history, IInv, NewIsOwed, Owed, OwedTwo
<1>12. CASE Flush
    BY <1>12, Types DEF Flush, poll, history, IInv, NewIsOwed, Owed, OwedTwo
<1>13. CASE Stop
    BY <1>13, Types DEF Stop, poll, history, IInv, NewIsOwed, Owed, OwedTwo
<1>14. CASE Crash
    BY <1>14, Types DEF Crash, poll, history, IInv, NewIsOwed, Owed, OwedTwo
<1>15. CASE UNCHANGED vars
    BY <1>15 DEF vars, poll, history, IInv, NewIsOwed, Owed, OwedTwo
<1>16. CASE FetchBlank
    BY <1>16, Types DEF FetchBlank, poll, history, IInv, NewIsOwed
<1>17. QED BY <1>1, <1>2, <1>3, <1>4, <1>5, <1>6, <1>7, <1>8, <1>9,
          <1>10, <1>11, <1>12, <1>13, <1>14, <1>15, <1>16
          DEF Next, PollStep

\* A version that is not new is the stored one.
LEMMA StepNotNewIsStored ==
  ASSUME IInv, [Next]_vars
  PROVE  NotNewIsStored'
<1>1. CASE Publish
    BY <1>1, Types DEF Publish, poll, history, IInv, NotNewIsStored
<1>2. CASE Start
    BY <1>2, Types DEF Start, poll, history, IInv, NotNewIsStored
<1>3. CASE Tick
    BY <1>3, Types DEF Tick, poll, history, IInv, NotNewIsStored
<1>4. CASE FetchVersion
    BY <1>4, Types DEF FetchVersion, poll, history, IInv, NotNewIsStored
<1>5. CASE FetchVersionFails
    BY <1>5, Types DEF FetchVersionFails, poll, history, IInv, NotNewIsStored
<1>6. CASE GetElvUIVersion
    BY <1>6, Types DEF GetElvUIVersion, poll, history, IInv, NotNewIsStored
<1>7. CASE GetElvUIVersionFails
    BY <1>7, Types DEF GetElvUIVersionFails, poll, history, IInv, NotNewIsStored
<1>8. CASE UpsertElvUIVersion
    BY <1>8, Types DEF UpsertElvUIVersion, poll, history, IInv, NotNewIsStored
<1>9. CASE UpsertElvUIVersionFails
    BY <1>9, Types DEF UpsertElvUIVersionFails, poll, history, IInv, NotNewIsStored
<1>10. CASE Announce
    BY <1>10, Types DEF Announce, poll, history, IInv, NotNewIsStored
<1>11. CASE DoNotAnnounce
    BY <1>11, Types DEF DoNotAnnounce, poll, history, IInv, NotNewIsStored
<1>12. CASE Flush
    BY <1>12, Types DEF Flush, poll, history, IInv, NotNewIsStored
<1>13. CASE Stop
    BY <1>13, Types DEF Stop, poll, history, IInv, NotNewIsStored
<1>14. CASE Crash
    BY <1>14, Types DEF Crash, poll, history, IInv, NotNewIsStored
<1>15. CASE UNCHANGED vars
    BY <1>15 DEF vars, poll, history, IInv, NotNewIsStored
<1>16. CASE FetchBlank
    BY <1>16, Types DEF FetchBlank, poll, history, IInv, NotNewIsStored
<1>17. QED BY <1>1, <1>2, <1>3, <1>4, <1>5, <1>6, <1>7, <1>8, <1>9,
          <1>10, <1>11, <1>12, <1>13, <1>14, <1>15, <1>16
          DEF Next, PollStep

\* Messages stay within what losses allow.
LEMMA StepAnnouncedOnce ==
  ASSUME IInv, [Next]_vars
  PROVE  AnnouncedOnce'
<1> SUFFICES ASSUME NEW v \in Versions PROVE posts'[v] <= 1 + losses'[v]
    BY DEF AnnouncedOnce
<1>1. posts[v] \in Nat /\ losses[v] \in Nat /\ posts[v] <= 1 + losses[v]
    BY Types DEF IInv, AnnouncedOnce
<1>2. losses'[v] \in Nat /\ losses'[v] >= losses[v]
    BY Counts, Types DEF IInv
<1>3. CASE posts' = posts
    BY <1>1, <1>2, <1>3
<1>4. CASE Announce /\ losses' = losses
  <2>1. Post(info) /\ (info \in Versions => posts[info] <= losses[info])
      BY <1>4 DEF Announce, IInv, NewIsOwed, Owed
  <2>2. posts'[v] = posts[v] \/ (v = info /\ posts'[v] <= posts[v] + 1)
      BY <2>1, PostEffect DEF IInv
  <2>3. posts'[v] \in Nat
      BY <2>1, PostEffect DEF IInv
  <2>4. QED BY <1>1, <1>4, <2>1, <2>2, <2>3
<1>5. QED BY <1>3, <1>4, Counts

\* A record has its message.
LEMMA StepSeenMeansAnnounced ==
  ASSUME IInv, [Next]_vars
  PROVE  SeenMeansAnnounced'
<1>1. CASE Publish
    BY <1>1, Types DEF Publish, poll, history, IInv, SeenMeansAnnounced, Versions, NoRow
<1>2. CASE Start
    BY <1>2, Types DEF Start, poll, history, IInv, SeenMeansAnnounced, Versions, NoRow
<1>3. CASE Tick
    BY <1>3, Types DEF Tick, poll, history, IInv, SeenMeansAnnounced, Versions, NoRow
<1>4. CASE FetchVersion
    BY <1>4, Types DEF FetchVersion, poll, history, IInv, SeenMeansAnnounced, Versions, NoRow
<1>5. CASE FetchVersionFails
    BY <1>5, Types DEF FetchVersionFails, poll, history, IInv, SeenMeansAnnounced, Versions, NoRow
<1>6. CASE GetElvUIVersion
    BY <1>6, Types DEF GetElvUIVersion, poll, history, IInv, SeenMeansAnnounced, Versions, NoRow
<1>7. CASE GetElvUIVersionFails
    BY <1>7, Types DEF GetElvUIVersionFails, poll, history, IInv, SeenMeansAnnounced, Versions, NoRow
<1>8. CASE UpsertElvUIVersion
  <2> SUFFICES ASSUME NEW v \in Versions, v \in {stored', disk'}
               PROVE  posts'[v] > 0 \/ v \in skipped' \/ (at' = "announcing" /\ isNew' /\ info' = v)
      BY DEF SeenMeansAnnounced
  <2>1. posts' = posts /\ skipped' = skipped /\ disk' = disk /\ stored' = info /\ at = "storing"
        /\ at' = "announcing" /\ isNew' = isNew /\ info' = info
      BY <1>8 DEF UpsertElvUIVersion, poll
  <2>2. (~isNew => stored = info) /\ (v \in {stored, disk} => posts[v] > 0 \/ v \in skipped)
      BY <2>1 DEF IInv, NotNewIsStored, SeenMeansAnnounced
  <2>3. isNew \in BOOLEAN
      BY DEF IInv, TypeOK
  <2>4. CASE isNew
      BY <2>1, <2>2, <2>4
  <2>5. CASE ~isNew
      BY <2>1, <2>2, <2>5
  <2>6. QED BY <2>4, <2>5
<1>9. CASE UpsertElvUIVersionFails
    BY <1>9, Types DEF UpsertElvUIVersionFails, poll, history, IInv, SeenMeansAnnounced, Versions, NoRow
<1>10. CASE Announce
  <2> SUFFICES ASSUME NEW v \in Versions, v \in {stored', disk'}
               PROVE  posts'[v] > 0 \/ v \in skipped'
      BY DEF SeenMeansAnnounced
  <2>1. Post(info) /\ skipped' = skipped /\ disk' = disk /\ stored' = stored
      BY <1>10 DEF Announce
  <2>2. posts[v] > 0 \/ v \in skipped \/ info = v
      BY <2>1 DEF IInv, SeenMeansAnnounced, Versions, NoRow
  <2>3. IF v = info THEN posts'[v] > 0 ELSE posts'[v] = posts[v]
      BY <2>1, PostEffect DEF IInv
  <2>4. QED BY <2>1, <2>2, <2>3
<1>11. CASE DoNotAnnounce
    BY <1>11, Types DEF DoNotAnnounce, poll, history, IInv, SeenMeansAnnounced, Versions, NoRow
<1>12. CASE Flush
    BY <1>12, Types DEF Flush, poll, history, IInv, SeenMeansAnnounced, Versions, NoRow
<1>13. CASE Stop
    BY <1>13, Types DEF Stop, poll, history, IInv, SeenMeansAnnounced, Versions, NoRow
<1>14. CASE Crash
    BY <1>14, Types DEF Crash, poll, history, IInv, SeenMeansAnnounced, Versions, NoRow
<1>15. CASE UNCHANGED vars
    BY <1>15 DEF vars, poll, history, IInv, SeenMeansAnnounced, Versions, NoRow
<1>16. CASE FetchBlank
    BY <1>16, Types DEF FetchBlank, poll, history, IInv, SeenMeansAnnounced, Versions, NoRow
<1>17. QED BY <1>1, <1>2, <1>3, <1>4, <1>5, <1>6, <1>7, <1>8, <1>9,
          <1>10, <1>11, <1>12, <1>13, <1>14, <1>15, <1>16
          DEF Next, PollStep

\* The invariant is inductive.
LEMMA StepIInv == IInv /\ [Next]_vars => IInv'
BY StepTypeOK, StepInOrder, StepOwedOrRecorded, StepNewIsOwed, StepNotNewIsStored,
    StepAnnouncedOnce, StepSeenMeansAnnounced DEF IInv

\* The inductive invariant holds throughout every behaviour.
LEMMA Invariance == Spec => []IInv
BY InitIInv, StepIInv, PTL DEF Spec

-----------------------------------------------------------------------------
\* Every reachable state is well typed.
THEOREM TypeCorrect == Spec => []TypeOK
<1>1. IInv => TypeOK
    BY DEF IInv
<1>2. QED BY <1>1, Invariance, PTL

\* For any number of versions, failures, crashes and restarts, a message is
\* repeated only for a lost record.
THEOREM MessagesAreOwed == Spec => []AnnouncedOnce
<1>1. IInv => AnnouncedOnce
    BY DEF IInv
<1>2. QED BY <1>1, Invariance, PTL

\* No version is recorded without its message unless it was skipped.
THEOREM RecordsAreAnnounced == Spec => []SeenMeansAnnounced
<1>1. IInv => SeenMeansAnnounced
    BY DEF IInv
<1>2. QED BY <1>1, Invariance, PTL
=============================================================================
