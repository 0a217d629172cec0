-------------------------- MODULE Scheduler_proofs --------------------------
(***************************************************************************)
(* Proofs about the calendar of WeeklyReset and about Scheduler, for hours *)
(* of any length and clocks that change on any two days.  A change moves   *)
(* the wall by an hour at two o'clock: seven o'clock is there once a day,  *)
(* and the wall orders it among all other times as the instants do.        *)
(***************************************************************************)
EXTENDS Scheduler, FiniteSetTheorems, TLAPS

-----------------------------------------------------------------------------
(* Arithmetic *)

\* Multiples are ordered as their factors.
LEMMA Scale ==
  ASSUME NEW m \in Nat \ {0}, NEW a \in Int, NEW b \in Int
  PROVE  (a * m < b * m <=> a < b) /\ (a * m <= b * m <=> a <= b)
OBVIOUS

\* Division with remainder.
LEMMA DivMod ==
  ASSUME NEW m \in Nat \ {0}, NEW u \in Int
  PROVE  /\ u \div m \in Int /\ u % m \in Int
         /\ u = m * (u \div m) + (u % m)
         /\ 0 <= u % m /\ u % m < m
OBVIOUS

\* Its quotient and remainder are the only ones.
LEMMA DivUnique ==
  ASSUME NEW m \in Nat \ {0}, NEW d \in Int, NEW r \in Int, 0 <= r, r < m
  PROVE  (d * m + r) \div m = d /\ (d * m + r) % m = r
OBVIOUS

\* A clock further ahead shows no less.
LEMMA Ahead ==
  ASSUME NEW n \in Int, NEW a \in Int, NEW b \in Int, a <= b
  PROVE  n + a <= n + b /\ n + a \in Int /\ n + b \in Int
OBVIOUS

\* The Tuesday of a day's week, by the calendar.
LEMMA LastTuesday ==
  ASSUME NEW d \in Int
  PROVE  LET t == d - ((((d + 1) % 7) - 2 + 7) % 7) IN
             t \in Int /\ (t + 1) % 7 = 2 /\ t <= d /\ d <= t + 6
OBVIOUS

\* What is known of the constants.
LEMMA Constants ==
  /\ MinutesPerHour \in Nat /\ MinutesPerHour > 0 /\ MinutesPerHour \in Nat \ {0}
  /\ 24 * MinutesPerHour \in Nat \ {0}
  /\ SpringForward \in Nat /\ FallBack \in Nat /\ Start \in Nat /\ End \in Nat
  /\ MaxError \in Nat /\ MaxEvents \in Nat /\ PollInterval \in Nat
  /\ Start >= MaxError + 8 * MinutesPerHour
BY TimeAssumption, SchedulerAssumption DEF Hours

-----------------------------------------------------------------------------
(* Days *)

\* Midnight of a day on the wall.
Midnight(d) == Hours(24 * d)

\* A wall-clock time and its day.
LEMMA DayOf ==
  ASSUME NEW w \in Int
  PROVE  Day(w) \in Int /\ Midnight(Day(w)) <= w /\ w < Midnight(Day(w) + 1)
<1>1. Hours(24) \in Nat \ {0} /\ Hours(24) = 24 * MinutesPerHour
    BY Constants DEF Hours
<1>2. LET d == w \div Hours(24) IN
          d \in Int /\ Hours(24) * d <= w /\ w < Hours(24) * d + Hours(24)
    BY <1>1, DivMod
<1>3. QED BY <1>1, <1>2, Constants DEF Day, Midnight, Hours

\* Seven o'clock of a day is on that day.
LEMMA SevenOf ==
  ASSUME NEW d \in Int
  PROVE  Seven(d) \in Int /\ Day(Seven(d)) = d /\ TimeOfDay(Seven(d)) = Hours(7)
<1> DEFINE m == 24 * MinutesPerHour
           r == 7 * MinutesPerHour
<1>1. m \in Nat \ {0} /\ r \in Int /\ 0 <= r /\ r < m /\ MinutesPerHour \in Nat
    BY Constants
<1>2. (24 * d + 7) * MinutesPerHour = d * m + r
    BY <1>1
<1>3. (d * m + r) \div m = d /\ (d * m + r) % m = r
  <2> HIDE DEF m, r
  <2>1. QED BY <1>1, DivUnique
<1>4. Seven(d) = d * m + r /\ Hours(24) = m /\ Hours(7) = r
    BY <1>2 DEF Seven, Hours
<1>5. d * m + r \in Int
    BY <1>1
<1> HIDE DEF m, r
<1>6. QED BY <1>3, <1>4, <1>5 DEF Day, TimeOfDay

\* It is the only time of that day at which the clock shows seven.
LEMMA AtSeven ==
  ASSUME NEW w \in Int, TimeOfDay(w) = Hours(7)
  PROVE  w = Seven(Day(w))
<1>1. Hours(24) \in Nat \ {0} /\ Hours(24) = 24 * MinutesPerHour
    BY Constants DEF Hours
<1>2. w = Hours(24) * (w \div Hours(24)) + (w % Hours(24)) /\ w \div Hours(24) \in Int
    BY <1>1, DivMod
<1>3. w = 24 * MinutesPerHour * Day(w) + 7 * MinutesPerHour /\ Day(w) \in Int
    BY <1>1, <1>2 DEF Day, TimeOfDay, Hours
<1>4. QED BY <1>3, Constants DEF Seven, Hours

\* The changes of the clocks, in hours: on days s and f.
LEMMA Changes ==
  \E s, f \in Int :
      /\ SpringForward = (24 * s + 10) * MinutesPerHour
      /\ FallBack = (24 * f + 9) * MinutesPerHour
<1> DEFINE s == Day(SpringForward - Hours(8))
           f == Day(FallBack - Hours(7))
<1>1. Hours(24) \in Nat \ {0} /\ Hours(24) = 24 * MinutesPerHour
    BY Constants DEF Hours
<1>2. SpringForward - Hours(8) \in Int /\ FallBack - Hours(7) \in Int
    BY Constants DEF Hours
<1>3. /\ s \in Int /\ SpringForward - Hours(8) = Hours(24) * s + Hours(2)
      /\ f \in Int /\ FallBack - Hours(7) = Hours(24) * f + Hours(2)
    BY <1>1, <1>2, DivMod, ChangesAssumption DEF Day, TimeOfDay
<1> HIDE DEF s, f
<1>4. QED BY <1>1, <1>3, Constants DEF Hours

\* A wall-clock time is an hour's multiple behind its instant.
LEMMA Walls ==
  ASSUME NEW u \in Int
  PROVE  /\ In(u) \in Int
         /\ SpringForward <= u /\ u < FallBack => In(u) = u - 7 * MinutesPerHour
         /\ ~(SpringForward <= u /\ u < FallBack) => In(u) = u - 8 * MinutesPerHour
         /\ In(u) <= u - 7 * MinutesPerHour /\ In(u) >= u - 8 * MinutesPerHour
BY Constants DEF In, Behind, Hours

\* No change falls within an hour of a seven o'clock.
LEMMA NoChangeAtSeven ==
  ASSUME NEW d \in Int
  PROVE  /\ FallBack <= (24 * d + 14) * MinutesPerHour
                <=> FallBack <= (24 * d + 15) * MinutesPerHour
         /\ FallBack <= (24 * d + 14) * MinutesPerHour
                <=> FallBack < (24 * d + 15) * MinutesPerHour
         /\ SpringForward <= (24 * d + 14) * MinutesPerHour
                <=> SpringForward <= (24 * d + 15) * MinutesPerHour
<1>1. PICK s \in Int, f \in Int :
          /\ SpringForward = (24 * s + 10) * MinutesPerHour
          /\ FallBack = (24 * f + 9) * MinutesPerHour
    BY Changes
<1>2. \A a, b \in Int : /\ a * MinutesPerHour < b * MinutesPerHour <=> a < b
                        /\ a * MinutesPerHour <= b * MinutesPerHour <=> a <= b
    BY Constants, Scale
<1>3. /\ FallBack <= (24 * d + 14) * MinutesPerHour <=> 24 * f + 9 <= 24 * d + 14
      /\ FallBack <= (24 * d + 15) * MinutesPerHour <=> 24 * f + 9 <= 24 * d + 15
      /\ FallBack < (24 * d + 15) * MinutesPerHour <=> 24 * f + 9 < 24 * d + 15
      /\ SpringForward <= (24 * d + 14) * MinutesPerHour <=> 24 * s + 10 <= 24 * d + 14
      /\ SpringForward <= (24 * d + 15) * MinutesPerHour <=> 24 * s + 10 <= 24 * d + 15
  <2>1. /\ 24 * f + 9 \in Int /\ 24 * s + 10 \in Int
        /\ 24 * d + 14 \in Int /\ 24 * d + 15 \in Int
      OBVIOUS
  <2>2. QED BY ONLY <1>1, <1>2, <2>1
<1>4. QED BY <1>3

\* Every day has a seven o'clock, and Date finds it.
LEMMA DateOfSeven ==
  ASSUME NEW d \in Int
  PROVE  Date(Seven(d)) \in Int /\ In(Date(Seven(d))) = Seven(d)
<1> DEFINE a == Seven(d) + Hours(7)
           b == Seven(d) + Hours(8)
<1>1. /\ a = (24 * d + 14) * MinutesPerHour /\ b = (24 * d + 15) * MinutesPerHour
      /\ Seven(d) = a - 7 * MinutesPerHour /\ Seven(d) = b - 8 * MinutesPerHour
      /\ a \in Int /\ b \in Int
    BY Constants DEF Seven, Hours
<1>2. In(a) = Seven(d) \/ In(b) = Seven(d)
  <2> HIDE DEF a, b
  <2>1. (SpringForward <= a /\ a < FallBack) \/ ~(SpringForward <= b /\ b < FallBack)
      BY <1>1, Constants, NoChangeAtSeven
  <2>2. QED BY <1>1, <2>1, Walls
<1>3. \E u \in {a, b} : In(u) = Seven(d)
    BY <1>2
<1>4. Date(Seven(d)) \in {a, b} /\ In(Date(Seven(d))) = Seven(d)
    BY <1>3 DEF Date
<1>5. QED BY <1>1, <1>4

\* The wall orders seven o'clock among all times as the instants do.
LEMMA SevenOrder ==
  ASSUME NEW d \in Int, NEW x \in Int, In(x) = Seven(d), NEW u \in Int
  PROVE  (u < x => In(u) < Seven(d)) /\ (In(u) <= Seven(d) => u <= x)
<1> DEFINE a == (24 * d + 14) * MinutesPerHour
           b == (24 * d + 15) * MinutesPerHour
<1>1. /\ Seven(d) = a - 7 * MinutesPerHour /\ b = a + MinutesPerHour
      /\ a \in Int /\ b \in Int /\ Seven(d) \in Int
    BY Constants DEF Seven, Hours
<1>2. /\ FallBack <= a <=> FallBack <= b
      /\ FallBack <= a <=> FallBack < b
      /\ SpringForward <= a <=> SpringForward <= b
    BY NoChangeAtSeven
<1> HIDE DEF a, b
<1>3. /\ SpringForward <= x /\ x < FallBack => x = a
      /\ ~(SpringForward <= x /\ x < FallBack) => x = b
    BY <1>1, Walls, Constants
<1>4. u < x => In(u) < Seven(d)
  <2> SUFFICES ASSUME u < x, In(u) >= Seven(d) PROVE FALSE
      BY <1>1, Walls
  <2>1. SpringForward <= u /\ u < FallBack /\ x = b /\ u >= a
      BY <1>1, <1>3, Walls, Constants
  <2>2. QED BY <1>1, <1>2, <1>3, <2>1, Constants
<1>5. In(u) <= Seven(d) => u <= x
  <2> SUFFICES ASSUME In(u) <= Seven(d), u > x PROVE FALSE
      BY <1>1, Walls
  <2>1. x = a /\ u <= b /\ ~(SpringForward <= u /\ u < FallBack)
        /\ SpringForward <= x /\ x < FallBack
      BY <1>1, <1>3, Walls, Constants
  <2>2. QED BY <1>1, <1>2, <2>1, Constants
<1>6. QED BY <1>4, <1>5

-----------------------------------------------------------------------------
(* Mornings *)

\* The hours of a day count from its midnight.
LEMMA DayHours ==
  ASSUME NEW d \in Int
  PROVE  /\ Midnight(d) \in Int /\ Seven(d) \in Int
         /\ Seven(d) = Midnight(d) + 7 * MinutesPerHour
         /\ Midnight(d + 1) = Midnight(d) + 24 * MinutesPerHour
BY Constants DEF Midnight, Seven, Hours

\* A change of the clocks comes before a day's dawn or not before the next day.
LEMMA ChangeDays ==
  ASSUME NEW d \in Int
  PROVE  /\ \/ FallBack <= Midnight(d) + 9 * MinutesPerHour
            \/ FallBack >= Midnight(d) + 33 * MinutesPerHour
         /\ \/ SpringForward <= Midnight(d) + 10 * MinutesPerHour
            \/ SpringForward >= Midnight(d) + 34 * MinutesPerHour
<1>1. PICK s \in Int, f \in Int :
          /\ SpringForward = (24 * s + 10) * MinutesPerHour
          /\ FallBack = (24 * f + 9) * MinutesPerHour
    BY Changes
<1>2. \A a, b \in Int : a <= b => a * MinutesPerHour <= b * MinutesPerHour
    BY Constants, Scale
<1>3. /\ 24 * f + 9 \in Int /\ 24 * s + 10 \in Int /\ 24 * d + 9 \in Int
      /\ 24 * d + 10 \in Int /\ 24 * d + 33 \in Int /\ 24 * d + 34 \in Int
      /\ 24 * f + 9 <= 24 * d + 9 \/ 24 * d + 33 <= 24 * f + 9
      /\ 24 * s + 10 <= 24 * d + 10 \/ 24 * d + 34 <= 24 * s + 10
    OBVIOUS
<1>4. /\ \/ FallBack <= (24 * d + 9) * MinutesPerHour
         \/ (24 * d + 33) * MinutesPerHour <= FallBack
      /\ \/ SpringForward <= (24 * d + 10) * MinutesPerHour
         \/ (24 * d + 34) * MinutesPerHour <= SpringForward
    BY ONLY <1>1, <1>2, <1>3
<1>5. /\ (24 * d + 9) * MinutesPerHour = Midnight(d) + 9 * MinutesPerHour
      /\ (24 * d + 10) * MinutesPerHour = Midnight(d) + 10 * MinutesPerHour
      /\ (24 * d + 33) * MinutesPerHour = Midnight(d) + 33 * MinutesPerHour
      /\ (24 * d + 34) * MinutesPerHour = Midnight(d) + 34 * MinutesPerHour
    BY Constants DEF Midnight, Hours
<1>6. /\ Midnight(d) + 33 * MinutesPerHour \in Int /\ Midnight(d) + 34 * MinutesPerHour \in Int
      /\ FallBack \in Int /\ SpringForward \in Int
    BY DayHours, Constants
<1>7. QED BY <1>4, <1>5, <1>6

\* Where the instants of seven o'clock are, and that they are the only ones.
LEMMA AtSevenOf ==
  ASSUME NEW d \in Int
  PROVE  /\ At(d) \in Int /\ In(At(d)) = Seven(d)
         /\ Midnight(d) + 14 * MinutesPerHour <= At(d)
         /\ At(d) <= Midnight(d) + 15 * MinutesPerHour
         /\ \A u \in Int : In(u) = Seven(d) => u = At(d)
<1>1. At(d) \in Int /\ In(At(d)) = Seven(d)
    BY DateOfSeven DEF At
<1>2. /\ In(At(d)) <= At(d) - 7 * MinutesPerHour
      /\ In(At(d)) >= At(d) - 8 * MinutesPerHour
    BY <1>1, Walls
<1>3. \A u \in Int : In(u) = Seven(d) => u = At(d)
  <2> SUFFICES ASSUME NEW u \in Int, In(u) = Seven(d) PROVE u = At(d)
      OBVIOUS
  <2>1. Seven(d) \in Int
      BY DayHours
  <2>2. u <= At(d)
      BY <1>1, <2>1, SevenOrder
  <2>3. ~(u < At(d))
    <3>1. ~(In(u) < Seven(d))
        BY <2>1
    <3>2. QED BY <1>1, <3>1, SevenOrder
  <2>4. QED BY <1>1, <2>2, <2>3
<1>4. QED BY <1>1, <1>2, <1>3, DayHours, Constants

\* They are at least twenty-three hours apart.
LEMMA SevensApart ==
  ASSUME NEW d \in Int, NEW e \in Int, d < e
  PROVE  At(d) + 23 * MinutesPerHour <= At(e)
<1>1. Midnight(d + 1) <= Midnight(e)
  <2>1. d + 1 \in Int /\ d + 1 <= e
      OBVIOUS
  <2>2. (24 * (d + 1)) * MinutesPerHour <= (24 * e) * MinutesPerHour
    <3>1. 24 * (d + 1) \in Int /\ 24 * e \in Int /\ 24 * (d + 1) <= 24 * e
        OBVIOUS
    <3>2. QED BY ONLY <3>1, Constants, Scale
  <2>3. QED BY <2>2 DEF Midnight, Hours
<1>2. QED
  <2>1. At(d) \in Int /\ At(e) \in Int /\ At(d) <= Midnight(d) + 15 * MinutesPerHour
        /\ Midnight(e) + 14 * MinutesPerHour <= At(e)
      BY AtSevenOf
  <2>2. Midnight(d + 1) = Midnight(d) + 24 * MinutesPerHour /\ Midnight(d) \in Int
        /\ Midnight(e) \in Int
      BY DayHours
  <2>3. QED BY <1>1, <2>1, <2>2, Constants

\* From four hours before seven to seventeen after, the wall and the instants
\* pass alike.
LEMMA MorningIn ==
  ASSUME NEW d \in Int, NEW u \in Int,
         At(d) - 4 * MinutesPerHour <= u, u < At(d) + 17 * MinutesPerHour
  PROVE  In(u) = Seven(d) + (u - At(d))
<1> DEFINE D == Midnight(d)
           m == MinutesPerHour
           x == At(d)
<1>1. /\ D \in Int /\ m \in Int /\ m > 0 /\ x \in Int /\ In(x) = D + 7 * m
      /\ Seven(d) = D + 7 * m /\ SpringForward \in Int /\ FallBack \in Int
    BY DayHours, Constants, AtSevenOf
<1>2. /\ FallBack <= D + 9 * m \/ FallBack >= D + 33 * m
      /\ SpringForward <= D + 10 * m \/ SpringForward >= D + 34 * m
    BY ChangeDays
<1>3. x - 4 * m <= u /\ u < x + 17 * m
    OBVIOUS
<1>4. /\ SpringForward <= x /\ x < FallBack => In(x) = x - 7 * m
      /\ ~(SpringForward <= x /\ x < FallBack) => In(x) = x - 8 * m
      /\ SpringForward <= u /\ u < FallBack => In(u) = u - 7 * m
      /\ ~(SpringForward <= u /\ u < FallBack) => In(u) = u - 8 * m
    BY <1>1, Walls
<1> HIDE DEF D, m, x
<1>5. In(u) = (D + 7 * m) + (u - x)
    BY ONLY <1>1, <1>2, <1>3, <1>4, u \in Int
<1>6. QED BY <1>1, <1>5 DEF x

\* What the wall shows from three o'clock on, it shows then.
LEMMA MorningOut ==
  ASSUME NEW d \in Int, NEW u \in Int,
         Midnight(d) + 3 * MinutesPerHour <= In(u), In(u) < Midnight(d + 1)
  PROVE  At(d) - 4 * MinutesPerHour <= u /\ u < At(d) + 17 * MinutesPerHour
<1> DEFINE D == Midnight(d)
           m == MinutesPerHour
           x == At(d)
<1>1. /\ D \in Int /\ m \in Int /\ m > 0 /\ x \in Int /\ In(x) = D + 7 * m
      /\ SpringForward \in Int /\ FallBack \in Int
    BY DayHours, Constants, AtSevenOf
<1>2. /\ FallBack <= D + 9 * m \/ FallBack >= D + 33 * m
      /\ SpringForward <= D + 10 * m \/ SpringForward >= D + 34 * m
    BY ChangeDays
<1>3. D + 3 * m <= In(u) /\ In(u) < D + 24 * m
    BY DayHours
<1>4. /\ SpringForward <= x /\ x < FallBack => In(x) = x - 7 * m
      /\ ~(SpringForward <= x /\ x < FallBack) => In(x) = x - 8 * m
      /\ SpringForward <= u /\ u < FallBack => In(u) = u - 7 * m
      /\ ~(SpringForward <= u /\ u < FallBack) => In(u) = u - 8 * m
    BY <1>1, Walls
<1> HIDE DEF D, m, x
<1>5. x - 4 * m <= u /\ u < x + 17 * m
    BY ONLY <1>1, <1>2, <1>3, <1>4, u \in Int
<1>6. QED BY <1>5 DEF x, m

\* A wall-clock time is its day's midnight and the time of day.
LEMMA DayTime ==
  ASSUME NEW w \in Int
  PROVE  /\ Day(w) \in Int /\ TimeOfDay(w) \in Int
         /\ w = Midnight(Day(w)) + TimeOfDay(w)
         /\ 0 <= TimeOfDay(w) /\ TimeOfDay(w) < 24 * MinutesPerHour
<1>1. Hours(24) \in Nat \ {0} /\ Hours(24) = 24 * MinutesPerHour
    BY Constants DEF Hours
<1>2. /\ w \div Hours(24) \in Int /\ w % Hours(24) \in Int
      /\ w = Hours(24) * (w \div Hours(24)) + (w % Hours(24))
      /\ 0 <= w % Hours(24) /\ w % Hours(24) < Hours(24)
    BY <1>1, DivMod
<1>3. Day(w) = w \div Hours(24) /\ TimeOfDay(w) = w % Hours(24)
    BY DEF Day, TimeOfDay
<1>4. Day(w) \in Int /\ w = (24 * MinutesPerHour) * Day(w) + TimeOfDay(w)
    BY <1>1, <1>2, <1>3
<1>5. Midnight(Day(w)) = (24 * MinutesPerHour) * Day(w)
    BY <1>4, Constants DEF Midnight, Hours
<1>6. QED BY <1>1, <1>2, <1>3, <1>4, <1>5

\* And they determine it.
LEMMA TimeOfDayOf ==
  ASSUME NEW d \in Int, NEW r \in Int, 0 <= r, r < 24 * MinutesPerHour
  PROVE  TimeOfDay(Midnight(d) + r) = r /\ Day(Midnight(d) + r) = d
<1> DEFINE m == 24 * MinutesPerHour
<1>1. m \in Nat \ {0} /\ r < m
    BY Constants
<1>2. Midnight(d) = d * m /\ Hours(24) = m
    BY Constants DEF Midnight, Hours
<1> HIDE DEF m
<1>3. (d * m + r) \div m = d /\ (d * m + r) % m = r
    BY <1>1, DivUnique
<1>4. QED BY <1>2, <1>3 DEF TimeOfDay, Day

-----------------------------------------------------------------------------
(* The weekly reset *)

\* Seven o'clocks a week apart.
LEMMA Weeks ==
  ASSUME NEW a \in Int, NEW b \in Int
  PROVE  /\ Seven(a) - Hours(24 * 7) = Seven(a - 7)
         /\ a <= b => Seven(a) <= Seven(b)
         /\ a < b => Seven(a) < Midnight(b) /\ Midnight(a) <= Midnight(b)
         /\ Midnight(b) < Seven(b)
         /\ Seven(a) \in Int /\ Midnight(a) \in Int
<1> DEFINE m == MinutesPerHour
<1>1. m \in Nat \ {0}
    BY Constants
<1>2. \A i, j \in Int : /\ i * m < j * m <=> i < j
                        /\ i * m <= j * m <=> i <= j
    BY <1>1, Scale
<1>3. (24 * a + 7) * m - (24 * 7) * m = (24 * (a - 7) + 7) * m
    BY <1>1
<1>4. /\ (24 * a + 7) * m <= (24 * b + 7) * m <=> 24 * a + 7 <= 24 * b + 7
      /\ (24 * a + 7) * m < (24 * b) * m <=> 24 * a + 7 < 24 * b
      /\ (24 * a) * m <= (24 * b) * m <=> 24 * a <= 24 * b
      /\ (24 * b) * m < (24 * b + 7) * m <=> 24 * b < 24 * b + 7
  <2>1. 24 * a \in Int /\ 24 * b \in Int /\ 24 * a + 7 \in Int /\ 24 * b + 7 \in Int
      OBVIOUS
  <2>2. QED BY ONLY <1>2, <2>1
<1>5. QED BY <1>1, <1>3, <1>4 DEF Seven, Midnight, Hours

\* WeeklyResetIn is the last Tuesday, seven o'clock, that is not in the future.
LEMMA ResetOf ==
  ASSUME NEW u \in Int
  PROVE  \E t \in Int : /\ (t + 1) % 7 = 2
                        /\ WeeklyResetIn(u) = Date(Seven(t))
                        /\ Date(Seven(t)) <= u
                        /\ In(u) < Seven(t + 7)
<1> DEFINE n == In(u)
           d == Day(n)
           t == d - ((((d + 1) % 7) - 2 + 7) % 7)
<1>1. n \in Int /\ d \in Int /\ Midnight(d) <= n /\ n < Midnight(d + 1)
    BY Walls, DayOf
<1>2. t \in Int /\ (t + 1) % 7 = 2 /\ t <= d /\ d <= t + 6
    BY <1>1, LastTuesday
<1>3. WeeklyResetIn(u) = IF u < Date(Seven(t)) THEN Date(Seven(t - 7)) ELSE Date(Seven(t))
  <2>1. Seven(t) - Hours(24 * 7) = Seven(t - 7)
      BY <1>2, Weeks
  <2>2. QED BY <2>1 DEF WeeklyResetIn, Weekday, Tuesday, WeeklyResetHour, Seven
<1> HIDE DEF t, d, n
<1>4. CASE u < Date(Seven(t))
  <2>1. n < Seven(t)
      BY <1>2, <1>4, DateOfSeven, SevenOrder DEF n
  <2>2. Seven(t - 7) < Midnight(d)
    <3>1. t - 7 \in Int /\ t - 7 < d
        BY <1>1, <1>2
    <3>2. QED BY <1>1, <3>1, Weeks
  <2>3. ~(u < Date(Seven(t - 7)))
    <3>1. t - 7 \in Int /\ Seven(t - 7) \in Int /\ Midnight(d) \in Int
        BY <1>1, <1>2, Weeks
    <3>2. ~(n < Seven(t - 7))
        BY <1>1, <2>2, <3>1
    <3>3. QED BY <3>1, <3>2, DateOfSeven, SevenOrder DEF n
  <2>4. Date(Seven(t - 7)) <= u
      BY <1>2, <2>3, DateOfSeven
  <2>5. t - 7 \in Int /\ (t - 7 + 1) % 7 = 2 /\ (t - 7) + 7 = t
      BY <1>2
  <2>6. QED BY <1>3, <1>4, <2>1, <2>4, <2>5 DEF n
<1>5. CASE ~(u < Date(Seven(t)))
  <2>1. Date(Seven(t)) <= u
      BY <1>2, <1>5, DateOfSeven
  <2>2. n < Seven(t + 7)
    <3>1. d + 1 \in Int /\ t + 7 \in Int /\ d + 1 <= t + 7
        BY <1>1, <1>2
    <3>2. Midnight(d + 1) < Seven(d + 1) /\ Seven(d + 1) <= Seven(t + 7)
        BY <3>1, Weeks
    <3>3. Midnight(d + 1) \in Int /\ Seven(d + 1) \in Int /\ Seven(t + 7) \in Int
        BY <3>1, Weeks
    <3>4. QED BY <1>1, <3>2, <3>3
  <2>3. QED BY <1>2, <1>3, <1>5, <2>1, <2>2 DEF n
<1>6. QED BY <1>4, <1>5

\* The reset never moves back as time passes.
LEMMA ResetMonotone ==
  ASSUME NEW u \in Int, NEW v \in Int, u <= v
  PROVE  /\ WeeklyResetIn(u) \in Int /\ WeeklyResetIn(v) \in Int
         /\ WeeklyResetIn(u) <= WeeklyResetIn(v)
<1>1. PICK a \in Int : /\ (a + 1) % 7 = 2
                       /\ WeeklyResetIn(u) = Date(Seven(a)) /\ Date(Seven(a)) <= u
    BY ResetOf
<1>2. PICK b \in Int : /\ (b + 1) % 7 = 2
                       /\ WeeklyResetIn(v) = Date(Seven(b)) /\ In(v) < Seven(b + 7)
    BY ResetOf
<1> DEFINE x == Date(Seven(a))
           y == Date(Seven(b))
<1>3. x \in Int /\ In(x) = Seven(a) /\ y \in Int /\ In(y) = Seven(b)
    BY DateOfSeven
<1>4. Seven(a) \in Int /\ Seven(b) \in Int /\ Seven(b + 7) \in Int /\ In(v) \in Int
    BY Weeks, Walls
<1>5. x <= u
    BY <1>1
<1> HIDE DEF x, y
<1>6. a <= b
  <2> SUFFICES ASSUME b < a PROVE FALSE
      OBVIOUS
  <2>1. b + 7 <= a
      BY <1>1, <1>2
  <2>2. Seven(b + 7) <= Seven(a)
      BY <2>1, Weeks
  <2>3. In(v) < Seven(a)
      BY <1>2, <1>4, <2>2
  <2>4. v <= x
      BY <1>3, <1>4, <2>3, SevenOrder
  <2>5. v = x
      BY <1>3, <1>5, <2>4
  <2>6. QED BY <1>3, <1>4, <2>3, <2>5
<1>7. Seven(a) <= Seven(b)
    BY <1>6, Weeks
<1>8. x <= y
    BY <1>3, <1>4, <1>7, SevenOrder
<1>9. QED BY <1>1, <1>2, <1>3, <1>8 DEF x, y

\* Whatever the clock shows.
LEMMA LatestTuesday ==
  ASSUME Clock \in Int
  PROVE  ResetIsLatestTuesday
<1>1. PICK t \in Int : /\ (t + 1) % 7 = 2
                       /\ WeeklyResetIn(Clock) = Date(Seven(t))
                       /\ Date(Seven(t)) <= Clock
                       /\ In(Clock) < Seven(t + 7)
    BY ResetOf
<1>2. In(WeeklyResetIn(Clock)) = Seven(t)
    BY <1>1, DateOfSeven
<1>3. Day(Seven(t)) = t /\ TimeOfDay(Seven(t)) = Hours(7)
    BY SevenOf
<1>4. In(Clock) - Seven(t) < Hours(7 * 24)
  <2>1. Seven(t + 7) - Hours(24 * 7) = Seven(t + 7 - 7) /\ t + 7 - 7 = t
      BY Weeks
  <2>2. In(Clock) \in Int /\ Seven(t) \in Int /\ Seven(t + 7) \in Int
        /\ Hours(24 * 7) \in Int
      BY Walls, Weeks, Constants DEF Hours
  <2>3. QED BY <1>1, <2>1, <2>2
<1>5. QED BY <1>1, <1>2, <1>3, <1>4
          DEF ResetIsLatestTuesday, Weekday, Tuesday, WeeklyResetHour

-----------------------------------------------------------------------------
(* The inductive invariant *)

RunsFinite == IsFiniteSet(ended \cup stored)

\* The clock has not gone back behind a seven o'clock it announced, and a
\* process that has not announced it, once it has seen a minute begin, is past
\* it.
PastAnnounced ==
    \A d \in tried \ setBack :
        /\ At(d) <= now + error
        /\ up /\ lastPost # d /\ (pending \/ ~fired) => At(d) < now + error

IInv ==
    /\ TypeOK
    /\ RunsFinite
    /\ LostOnlyAtReset
    /\ PastAnnounced

\* What TypeOK says of the numbers, and of the day the clock shows.
LEMMA Numbers ==
  ASSUME TypeOK
  PROVE  /\ now \in Nat /\ now >= Start
         /\ error \in Int /\ -MaxError <= error /\ error <= MaxError
         /\ now + error \in Nat /\ Clock = now + error
         /\ WallNow \in Nat /\ Today \in Nat /\ lastPost \in Int
<1>1. /\ now \in Nat /\ now >= Start
      /\ error \in Int /\ -MaxError <= error /\ error <= MaxError
      /\ lastPost \in Int
    BY Constants DEF TypeOK, Never
<1>2. now + error \in Nat /\ now + error >= 8 * MinutesPerHour
    BY <1>1, Constants
<1>3. WallNow \in Nat
    BY <1>2, Walls, Constants DEF WallNow, Clock
<1>4. Today \in Nat
  <2>1. Hours(24) \in Nat \ {0}
      BY Constants DEF Hours
  <2>2. Today = WallNow \div Hours(24)
      BY DEF Today, Day
  <2> HIDE DEF WallNow, Today
  <2>3. QED BY <1>3, <2>1, <2>2
<1>5. QED BY <1>1, <1>2, <1>3, <1>4 DEF Clock

\* Runs end at instants.
LEMMA RunTimes ==
  ASSUME TypeOK
  PROVE  \A t \in ended \cup stored : t \in Nat
BY TimeAssumption DEF TypeOK

\* Seven o'clocks do not move.
LEMMA AtConstant == Early' = Early /\ \A d : At(d)' = At(d)
BY DEF At, Date, Seven, Hours, In, Behind, Early

\* When the clock shows seven it shows it at an instant of its own.
LEMMA ClockAtSeven ==
  ASSUME TypeOK, TimeOfDay(WallNow) = Hours(7)
  PROVE  now + error = At(Today)
<1>1. now + error \in Int /\ WallNow \in Int /\ Today \in Int
    BY Numbers
<1>2. WallNow = Seven(Today)
    BY <1>1, AtSeven DEF Today
<1>3. In(now + error) = Seven(Today)
    BY <1>2 DEF WallNow, Clock
<1>4. QED BY <1>1, <1>3, AtSevenOf

LEMMA InitInv == SInit => IInv
<1> SUFFICES ASSUME SInit PROVE IInv
    OBVIOUS
<1> USE DEF SInit, Init
<1>1. TypeOK
  <2>1. now \in Start..End /\ error \in -MaxError..MaxError /\ events \in 0..MaxEvents
      BY Constants, TimeAssumption
  <2>2. QED BY <2>1 DEF TypeOK
<1>2. RunsFinite
    BY FS_EmptySet DEF RunsFinite
<1>3. QED BY <1>1, <1>2 DEF IInv, LostOnlyAtReset, PastAnnounced

\* Steps that leave the runs alone keep what is said of them.
LEMMA RunsUnchanged ==
  ASSUME IInv, UNCHANGED runs
  PROVE  RunsFinite' /\ LostOnlyAtReset'
BY DEF IInv, runs, RunsFinite, LostOnlyAtReset, WeeklyResetIn, In, Behind, Date, Day, Weekday

\* Those that leave the scheduler, the clock and the time alone keep what is
\* said of the announced days.
LEMMA DaysUnchanged ==
  ASSUME IInv, UNCHANGED <<now, error, up, fired, pending, lastPost, tried, setBack>>
  PROVE  PastAnnounced'
BY AtConstant DEF IInv, PastAnnounced

\* Crashes and changes of the clock are counted up to the bound.
LEMMA Counted ==
  ASSUME IInv, Count
  PROVE  events' \in 0..MaxEvents
<1>1. Cardinality(ended \cup stored) \in Nat
    BY FS_CardinalityType DEF IInv, RunsFinite
<1>2. events \in 0..MaxEvents
    BY DEF IInv, TypeOK
<1>3. QED BY <1>1, <1>2, Constants DEF Count

\* A clock that is set keeps the days it was not set back over.
LEMMA ClockSet ==
  ASSUME IInv, NoteSetBack, error' \in -MaxError..MaxError, UNCHANGED <<now, tried>>,
         \A d : (up /\ lastPost # d /\ (pending \/ ~fired))'
                  => up /\ lastPost # d /\ (pending \/ ~fired)
  PROVE  PastAnnounced' /\ setBack' \subseteq tried
<1>1. setBack' \subseteq tried
    BY DEF IInv, TypeOK, NoteSetBack
<1>2. error' \in Int /\ error \in Int /\ now \in Int
    BY Constants, Numbers DEF IInv
<1>3. CASE error' < error
    BY <1>3 DEF NoteSetBack, PastAnnounced
<1>4. CASE ~(error' < error)
  <2> SUFFICES ASSUME NEW d \in tried \ setBack
               PROVE  /\ At(d) <= now + error'
                      /\ (up /\ lastPost # d /\ (pending \/ ~fired))' => At(d) < now + error'
      BY <1>1, <1>4, AtConstant DEF NoteSetBack, PastAnnounced
  <2>1. At(d) \in Int
    <3>1. d \in Nat
        BY DEF IInv, TypeOK
    <3>2. QED BY <3>1, AtSevenOf
  <2>2. /\ At(d) <= now + error
        /\ (up /\ lastPost # d /\ (pending \/ ~fired))' => At(d) < now + error
      BY DEF IInv, PastAnnounced
  <2>3. QED BY <1>2, <1>4, <2>1, <2>2
<1>5. QED BY <1>1, <1>3, <1>4

-----------------------------------------------------------------------------
(* Every step keeps it *)

LEMMA BootInv == IInv /\ Boot => IInv'
<1> SUFFICES ASSUME IInv, Boot PROVE IInv'
    OBVIOUS
<1> USE DEF Boot
<1>1. error' \in -MaxError..MaxError
    BY Constants DEF IInv, TypeOK
<1>2. UNCHANGED <<now, tried>> /\ UNCHANGED runs
    BY DEF week
<1>3. PastAnnounced' /\ setBack' \subseteq tried
    BY <1>1, <1>2, ClockSet
<1>4. TypeOK'
    BY <1>1, <1>3 DEF IInv, TypeOK, week, runs, poll
<1>5. QED BY <1>2, <1>3, <1>4, RunsUnchanged DEF IInv

LEMMA CrashInv == IInv /\ Crash => IInv'
<1> SUFFICES ASSUME IInv, Crash PROVE IInv'
    OBVIOUS
<1> USE DEF Crash, PollOver
<1>1. TypeOK'
    BY Counted DEF IInv, TypeOK, runs
<1>2. PastAnnounced'
    BY AtConstant DEF IInv, PastAnnounced
<1>3. QED BY <1>1, <1>2, RunsUnchanged DEF IInv

LEMMA AdjustInv == IInv /\ Adjust => IInv'
<1> SUFFICES ASSUME IInv, Adjust PROVE IInv'
    OBVIOUS
<1> USE DEF Adjust
<1>1. error' \in -MaxError..MaxError
    OBVIOUS
<1>2. UNCHANGED <<now, tried, up, lastPost, pending, fired>> /\ UNCHANGED runs
    BY DEF week, process
<1>3. PastAnnounced' /\ setBack' \subseteq tried
    BY <1>1, <1>2, ClockSet
<1>4. TypeOK'
    BY <1>1, <1>3, Counted DEF IInv, TypeOK, week, runs, poll, process
<1>5. QED BY <1>2, <1>3, <1>4, RunsUnchanged DEF IInv

LEMMA TickReadInv == IInv /\ (Fire \/ Skip) => IInv'
<1> SUFFICES ASSUME IInv, Fire \/ Skip PROVE IInv'
    OBVIOUS
<1> USE DEF Fire, Skip, history
<1>1. TypeOK'
    BY DEF IInv, TypeOK, week, runs, poll
<1>2. PastAnnounced'
    BY AtConstant DEF IInv, PastAnnounced, week
<1>3. UNCHANGED runs
    BY DEF week
<1>4. QED BY <1>1, <1>2, <1>3, RunsUnchanged DEF IInv

\* The clock shows seven o'clock of the day it announces, and of no other.
LEMMA AnnounceInv == IInv /\ Announce => IInv'
<1> SUFFICES ASSUME IInv, Announce PROVE IInv'
    OBVIOUS
<1> USE DEF Announce
<1>1. Today \in Nat /\ now + error \in Int /\ now + error = At(Today)
    BY Numbers, ClockAtSeven DEF IInv, Due
<1>2. TypeOK'
  <2>1. posting' \in {"no", "archive", "dawn", "report"}
      OBVIOUS
  <2>2. lastPost' \in Nat /\ tried' \subseteq Nat /\ setBack' \subseteq tried'
      BY <1>1 DEF IInv, TypeOK
  <2>3. QED BY <2>1, <2>2 DEF IInv, TypeOK, week, runs, poll
<1>3. PastAnnounced'
  <2> SUFFICES ASSUME NEW d \in tried' \ setBack'
               PROVE  /\ At(d) <= now + error
                      /\ lastPost' # d /\ (pending' \/ ~fired') => At(d) < now + error
      BY AtConstant DEF PastAnnounced, week
  <2>1. CASE d = Today
      BY <1>1, <2>1
  <2>2. CASE d # Today
    <3>1. d \in tried \ setBack /\ d \in Int
        BY <2>2 DEF IInv, TypeOK
    <3>2. At(d) <= now + error /\ At(d) \in Int
        BY <3>1, AtSevenOf DEF IInv, PastAnnounced
    <3>3. At(d) # At(Today)
      <4>1. In(At(d)) = Seven(d) /\ In(At(Today)) = Seven(Today)
          BY <1>1, <3>1, AtSevenOf
      <4>2. Day(Seven(d)) = d /\ Day(Seven(Today)) = Today
          BY <1>1, <3>1, SevenOf
      <4>3. QED BY <2>2, <4>1, <4>2
    <3>4. At(d) < now + error
        BY <1>1, <3>2, <3>3
    <3>5. QED BY <3>2, <3>4
  <2>3. QED BY <2>1, <2>2
<1>4. UNCHANGED runs
    BY DEF week
<1>5. QED BY <1>2, <1>3, <1>4, RunsUnchanged DEF IInv

LEMMA PostInv == IInv /\ (ArchiveWeek \/ PostEnds) => IInv'
<1> SUFFICES ASSUME IInv, ArchiveWeek \/ PostEnds PROVE IInv'
    OBVIOUS
<1> USE DEF ArchiveWeek, PostEnds, history
<1>1. TypeOK'
    BY DEF IInv, TypeOK, week, runs, poll
<1>2. UNCHANGED <<now, error, up, fired, pending, lastPost, tried, setBack>> /\ UNCHANGED runs
    BY DEF week
<1>3. QED BY <1>1, <1>2, RunsUnchanged, DaysUnchanged DEF IInv

\* When a minute begins the clock leaves the announced seven o'clock behind.
LEMMA MinuteInv == IInv /\ Minute => IInv'
<1> SUFFICES ASSUME IInv, Minute PROVE IInv'
    OBVIOUS
<1> USE DEF Minute, Tick
<1>1. /\ now \in Nat /\ error \in Int /\ End \in Nat /\ now \in Start..End
      /\ now' \in Start..End /\ (now' = now \/ now' = now + 1)
    BY Numbers, Constants DEF IInv, TypeOK
<1>2. /\ tried' \subseteq tried /\ setBack' \subseteq tried'
      /\ tried' \ setBack' \subseteq tried \ setBack
    OBVIOUS
<1>3. TypeOK'
  <2>1. disturbed' \in BOOLEAN /\ fired' \in BOOLEAN
      BY DEF IInv, TypeOK
  <2>2. tried' \subseteq Nat
      BY <1>2 DEF IInv, TypeOK
  <2>3. QED BY <1>1, <1>2, <2>1, <2>2 DEF IInv, TypeOK, runs, poll
<1>4. PastAnnounced'
  <2> SUFFICES ASSUME NEW d \in tried \ setBack
               PROVE  /\ At(d) <= now' + error
                      /\ up /\ lastPost # d /\ (pending \/ ~fired') => At(d) < now' + error
      BY <1>2, AtConstant DEF PastAnnounced
  <2>1. At(d) \in Int
      BY AtSevenOf DEF IInv, TypeOK
  <2>2. /\ At(d) <= now + error
        /\ up /\ lastPost # d /\ (pending \/ ~fired) => At(d) < now + error
      BY DEF IInv, PastAnnounced
  <2>3. CASE now' = now
      BY <2>2, <2>3
  <2>4. CASE now' = now + 1
      BY <1>1, <2>1, <2>2, <2>4
  <2>5. QED BY <1>1, <2>3, <2>4
<1>5. QED BY <1>3, <1>4, RunsUnchanged DEF IInv

\* A run ends in the minute, and no poll has come upon it.
LEMMA EndRunInv ==
  ASSUME IInv, EndRun, UNCHANGED <<error, process, events, history>>
  PROVE  IInv'
<1> USE DEF EndRun, process, history, poll
<1>1. TypeOK'
    BY DEF IInv, TypeOK
<1>2. RunsFinite'
  <2>1. (ended \cup stored)' = (ended \cup stored) \cup {now}
      OBVIOUS
  <2>2. QED BY <2>1, FS_AddElement DEF IInv, RunsFinite
<1>3. LostOnlyAtReset'
  <2>1. polled' \cap ended' \subseteq polled \cap ended
      BY DEF IInv, TypeOK
  <2>2. QED BY <2>1 DEF IInv, LostOnlyAtReset, WeeklyResetIn, In, Behind, Date, Day, Weekday
<1>4. QED BY <1>1, <1>2, <1>3, DaysUnchanged DEF IInv

\* The poller skips a run because the reset of the time it read had come when
\* the run ended or later.  It read the time within an interval of that, from
\* a clock that was ahead by MaxError at most.
LEMMA PollInv ==
  ASSUME IInv, Poll, up, UNCHANGED <<error, process, events, history>>
  PROVE  IInv'
<1> USE DEF process, history
<1>1. CASE PollBegins
  <2>1. shown' \in Nat /\ shown' \in began' - MaxError..began' + MaxError /\ began' \in Nat
      BY <1>1, Numbers, Constants DEF IInv, PollBegins
  <2>2. TypeOK'
      BY <1>1, <2>1 DEF IInv, TypeOK, PollBegins, runs
  <2>3. QED BY <1>1, <2>2, RunsUnchanged, DaysUnchanged DEF PollBegins, IInv
<1>2. CASE PollFails
  <2>1. TypeOK'
      BY <1>2 DEF IInv, TypeOK, PollFails, PollOver, runs
  <2>2. QED BY <1>2, <2>1, RunsUnchanged, DaysUnchanged DEF PollFails, IInv
<1>3. CASE PollAnswered
  <2> USE <1>3 DEF PollAnswered, PollOver
  <2>1. (ended \cup stored)' = ended \cup stored /\ ended' \subseteq ended
      OBVIOUS
  <2>2. TypeOK'
      BY <2>1 DEF IInv, TypeOK
  <2>3. RunsFinite'
      BY <2>1 DEF IInv, RunsFinite
  <2>4. ASSUME NEW t \in ended', began <= t + PollInterval
        PROVE  WeeklyResetIn(t + PollInterval + MaxError) >= t
    <3>1. /\ t \in Int /\ began \in Int /\ shown \in Int
          /\ shown <= t + PollInterval + MaxError /\ t + PollInterval + MaxError \in Int
      <4>1. t \in Nat
          BY <2>1, RunTimes DEF IInv
      <4>2. began \in Nat /\ shown \in Int /\ shown <= began + MaxError
          BY Constants DEF IInv, TypeOK, Never
      <4>3. QED BY <2>4, <4>1, <4>2, Constants
    <3>2. ~AfterCutoff(t, WeeklyResetIn(shown))
        BY <2>1
    <3> HIDE DEF PollAnswered
    <3>3. WeeklyResetIn(shown) >= t
        BY <3>1, <3>2, ResetMonotone DEF AfterCutoff
    <3>4. QED BY <3>1, <3>3, ResetMonotone
  <2>5. \A t \in polled' \cap ended' : WeeklyResetIn(t + PollInterval + MaxError) >= t
      BY <2>1, <2>4 DEF IInv, LostOnlyAtReset
  <2>6. LostOnlyAtReset'
      BY <2>5 DEF LostOnlyAtReset, WeeklyResetIn, In, Behind, Date, Day, Weekday
  <2>7. QED BY <2>2, <2>3, <2>6, DaysUnchanged DEF IInv
<1>4. QED BY <1>1, <1>2, <1>3 DEF Poll

LEMMA StepInv == IInv /\ [SNext]_vars => IInv'
<1> SUFFICES ASSUME IInv, [SNext]_vars PROVE IInv'
    OBVIOUS
<1>1. CASE UNCHANGED vars
  <2>1. TypeOK'
      BY <1>1 DEF IInv, TypeOK, vars, week, runs, poll, process, history
  <2>2. UNCHANGED <<now, error, up, fired, pending, lastPost, tried, setBack>> /\ UNCHANGED runs
      BY <1>1 DEF vars, week, process, history
  <2>3. QED BY <2>1, <2>2, RunsUnchanged, DaysUnchanged DEF IInv
<1>2. CASE Run
    BY <1>2, EndRunInv, PollInv DEF Run
<1>3. CASE SNext /\ ~Run
    BY <1>3, BootInv, CrashInv, AdjustInv, TickReadInv, AnnounceInv, PostInv, MinuteInv
       DEF SNext
<1>4. QED BY <1>1, <1>2, <1>3

-----------------------------------------------------------------------------
(* A calm day is announced *)

\* No clock is off by as much as the four hours between the change of the
\* clocks and seven o'clock.
SmallError == Early <= Hours(4)

\* The goroutine has announced no seven o'clock that no clock has shown.
LastPostPast ==
    \A d \in Int : lastPost = d /\ d # Never => At(d) <= now + MaxError

\* From shortly before a day's seven o'clock to the next one: before the clock
\* shows it nothing has been announced and no post is under way; while it does,
\* the day was announced or the tick for it is due; then it was announced.
MorningOf(d) ==
    At(d) - Early <= now /\ now < At(d + 1) - Early =>
        /\ now + error < At(d) => posting = "no" /\ lastPost # d
        /\ now + error = At(d) =>
               lastPost = d \/ (posting = "no" /\ lastPost # d /\ (pending \/ ~fired))
        /\ now + error > At(d) => lastPost = d

Calm == ~disturbed => up /\ \A d \in Int : MorningOf(d)

CalmInv == LastPostPast /\ Calm

\* The numbers of a morning, in hours.
LEMMA MorningNumbers ==
  ASSUME SmallError
  PROVE  /\ MinutesPerHour \in Int /\ MinutesPerHour > 0
         /\ MaxError \in Int /\ MaxError >= 0
         /\ Early = MaxError + 1 /\ Early \in Int /\ Early <= 4 * MinutesPerHour
         /\ Hours(7) = 7 * MinutesPerHour
BY Constants DEF SmallError, Early, Hours

\* The start of a morning is one instant of each day.
LEMMA Outset ==
  ASSUME SmallError, NEW u \in Int
  PROVE  /\ TimeOfDay(In(u)) = Hours(7) - Early => \E d \in Int : u = At(d) - Early
         /\ \A d \in Int : u = At(d) - Early => TimeOfDay(In(u)) = Hours(7) - Early
<1> USE MorningNumbers
<1>1. ASSUME TimeOfDay(In(u)) = Hours(7) - Early
      PROVE  u = At(Day(In(u))) - Early
  <2> DEFINE d == Day(In(u))
  <2>1. In(u) \in Int
      BY Walls
  <2>2. d \in Int /\ In(u) = Midnight(d) + (Hours(7) - Early)
      BY <1>1, <2>1, DayTime
  <2>3. /\ Midnight(d) \in Int /\ Seven(d) = Midnight(d) + 7 * MinutesPerHour
        /\ Midnight(d + 1) = Midnight(d) + 24 * MinutesPerHour
      BY <2>2, DayHours
  <2>4. At(d) \in Int
      BY <2>2, AtSevenOf
  <2> HIDE DEF d
  <2>5. Midnight(d) + 3 * MinutesPerHour <= In(u) /\ In(u) < Midnight(d + 1)
      BY <2>1, <2>2, <2>3
  <2>6. In(u) = Seven(d) + (u - At(d))
      BY <2>2, <2>5, MorningOut, MorningIn
  <2>7. u = At(d) - Early
      BY <2>1, <2>2, <2>3, <2>4, <2>6
  <2>8. QED BY <2>7 DEF d
<1>2. ASSUME NEW d \in Int, u = At(d) - Early
      PROVE  TimeOfDay(In(u)) = Hours(7) - Early
  <2>1. At(d) \in Int /\ Midnight(d) \in Int /\ Seven(d) = Midnight(d) + 7 * MinutesPerHour
      BY AtSevenOf, DayHours
  <2>2. At(d) - 4 * MinutesPerHour <= u /\ u < At(d) + 17 * MinutesPerHour
      BY <1>2, <2>1
  <2>3. In(u) = Seven(d) + (u - At(d))
      BY <2>2, MorningIn
  <2>4. In(u) = Midnight(d) + (Hours(7) - Early)
      BY <1>2, <2>1, <2>3
  <2>5. Hours(7) - Early \in Int /\ 0 <= Hours(7) - Early
        /\ Hours(7) - Early < 24 * MinutesPerHour
      OBVIOUS
  <2>6. QED BY <2>4, <2>5, TimeOfDayOf
<1>3. In(u) \in Int /\ (TimeOfDay(In(u)) = Hours(7) - Early => Day(In(u)) \in Int)
    BY Walls, DayTime
<1>4. QED BY <1>1, <1>2, <1>3

LEMMA InitCalm == SInit => CalmInv
BY DEF SInit, CalmInv, LastPostPast, Calm

\* A step that leaves alone what a morning is about keeps what is said of it.
LEMMA SameMorning ==
  ASSUME CalmInv, UNCHANGED <<now, error, up, lastPost, disturbed>>,
         \A d \in Int : MorningOf(d) => MorningOf(d)'
  PROVE  CalmInv'
BY AtConstant DEF CalmInv, LastPostPast, Calm

\* A step that disturbs the day says nothing about its announcement.
LEMMA Disturbs ==
  ASSUME CalmInv, disturbed', now' = now, lastPost' = lastPost \/ lastPost' = Never
  PROVE  CalmInv'
BY AtConstant DEF CalmInv, LastPostPast, Calm

\* The tick may be read, but not dropped while the clock shows a seven that was
\* not announced.
LEMMA SkipCalm == SmallError /\ IInv /\ CalmInv /\ Skip => CalmInv'
<1> SUFFICES ASSUME SmallError, IInv, CalmInv, Skip PROVE CalmInv'
    OBVIOUS
<1>1. UNCHANGED <<now, error, up, lastPost, disturbed, posting, fired>>
    BY DEF Skip, week, history
<1>2. ASSUME NEW d \in Int, MorningOf(d) PROVE MorningOf(d)'
  <2>1. now + error = At(d) => ~(lastPost # d)
    <3> SUFFICES ASSUME now + error = At(d) PROVE lastPost = d
        OBVIOUS
    <3>1. WallNow = Seven(d)
        BY AtSevenOf DEF WallNow, Clock
    <3>2. TimeOfDay(WallNow) = Hours(7) /\ Today = d
        BY <3>1, SevenOf DEF Today
    <3>3. QED BY <3>2 DEF Skip, Due
  <2>2. QED BY <1>1, <1>2, <2>1, AtConstant DEF MorningOf
<1>3. QED BY <1>1, <1>2, SameMorning

\* An announcement is that of the morning it falls in.
LEMMA AnnounceCalm == SmallError /\ IInv /\ CalmInv /\ Announce => CalmInv'
<1> SUFFICES ASSUME SmallError, IInv, CalmInv, Announce PROVE CalmInv'
    OBVIOUS
<1>1. /\ UNCHANGED <<now, error, up, disturbed>>
      /\ lastPost' = Today
    BY DEF Announce, week
<1>2. /\ now \in Int /\ error \in Int /\ error <= MaxError /\ -MaxError <= error
      /\ Today \in Int /\ now + error = At(Today)
    BY Numbers, ClockAtSeven, Constants DEF IInv, TypeOK, Announce, Due
<1>3. LastPostPast'
  <2>1. At(Today) \in Int
      BY <1>2, AtSevenOf
  <2>2. At(Today) <= now + MaxError
      BY <1>2, <2>1, Constants
  <2>3. QED BY <1>1, <2>2, AtConstant DEF LastPostPast
<1>4. ASSUME NEW d \in Int PROVE MorningOf(d)'
  <2> SUFFICES ASSUME At(d) - Early <= now, now < At(d + 1) - Early
               PROVE  Today = d
    <3>1. At(Today) \in Int
        BY <1>2, AtSevenOf
    <3>2. ~(now + error < At(Today)) /\ ~(now + error > At(Today))
        BY <1>2, <3>1
    <3>3. QED BY <1>1, <3>2, AtConstant DEF MorningOf
  <2>1. At(d) \in Int /\ At(d + 1) \in Int /\ At(Today) \in Int
      BY <1>2, AtSevenOf
  <2>2. ~(Today < d)
    <3> SUFFICES ASSUME Today < d PROVE FALSE
        OBVIOUS
    <3>1. At(Today) + 23 * MinutesPerHour <= At(d)
        BY <1>2, SevensApart
    <3>2. QED BY <1>2, <2>1, <3>1, MorningNumbers
  <2>3. ~(d < Today)
    <3> SUFFICES ASSUME d < Today PROVE FALSE
        OBVIOUS
    <3>1. Today = d + 1 \/ At(d + 1) + 23 * MinutesPerHour <= At(Today)
      <4>1. Today = d + 1 \/ d + 1 < Today
          BY <1>2
      <4>2. QED BY <1>2, <4>1, SevensApart
    <3>2. At(d + 1) <= At(Today)
        BY <2>1, <3>1, MorningNumbers
    <3>3. QED BY <1>2, <2>1, <3>2, MorningNumbers
  <2>4. QED BY <1>2, <2>2, <2>3
<1>5. QED BY <1>1, <1>3, <1>4 DEF CalmInv, Calm

\* A minute later: the morning that begins has not been announced; one under
\* way either was, or had its tick unread, which disturbs it.
LEMMA MinuteCalm == SmallError /\ IInv /\ CalmInv /\ Minute => CalmInv'
<1> SUFFICES ASSUME SmallError, IInv, CalmInv, Minute PROVE CalmInv'
    OBVIOUS
<1> USE MorningNumbers
<1>1. /\ now \in Int /\ now' \in Int /\ error \in Int
      /\ error <= MaxError /\ -MaxError <= error
      /\ now' = now \/ now' = now + 1
    BY Numbers, Constants DEF IInv, TypeOK, Minute, Tick
<1>2. UNCHANGED <<error, up, pending, lastPost, posting>>
    BY DEF Minute
<1>3. up => fired
    BY DEF Minute
<1>4. /\ now' = now => fired' = fired
      /\ now' # now => ~fired'
    BY DEF Minute, IInv, TypeOK
<1>5. LastPostPast'
  <2>1. \A d \in Int : At(d) \in Int /\ (At(d) <= now + MaxError => At(d) <= now' + MaxError)
      BY <1>1, AtSevenOf
  <2>2. QED BY <1>2, <2>1, AtConstant DEF CalmInv, LastPostPast
<1>6. CASE TimeOfDay(In(now')) = Hours(7) - Early
  <2>1. disturbed' <=> ~up \/ pending \/ posting # "no"
      BY <1>6 DEF Minute
  <2>2. PICK e \in Int : now' = At(e) - Early
      BY <1>1, <1>6, Outset
  <2>3. ASSUME posting = "no", NEW d \in Int PROVE MorningOf(d)'
    <3> SUFFICES ASSUME At(d) - Early <= now', now' < At(d + 1) - Early
                 PROVE  now' + error < At(d) /\ lastPost # d
        BY <1>1, <1>2, <2>3, AtConstant, AtSevenOf DEF MorningOf
    <3>1. At(d) \in Int /\ At(d + 1) \in Int /\ At(e) \in Int
        BY AtSevenOf
    <3>2. ~(d < e)
      <4> SUFFICES ASSUME d < e PROVE FALSE
          OBVIOUS
      <4>1. e = d + 1 \/ At(d + 1) + 23 * MinutesPerHour <= At(e)
        <5>1. e = d + 1 \/ d + 1 < e
            OBVIOUS
        <5>2. QED BY <5>1, SevensApart
      <4>2. QED BY <2>2, <3>1, <4>1
    <3>3. ~(e < d)
      <4> SUFFICES ASSUME e < d PROVE FALSE
          OBVIOUS
      <4>1. At(e) + 23 * MinutesPerHour <= At(d)
          BY SevensApart
      <4>2. QED BY <2>2, <3>1, <4>1
    <3>4. now' = At(d) - Early
        BY <2>2, <3>2, <3>3
    <3>5. now' + error < At(d)
        BY <1>1, <3>1, <3>4
    <3>6. lastPost # d
      <4> SUFFICES ASSUME lastPost = d PROVE FALSE
          OBVIOUS
      <4>1. d # Never => At(d) <= now + MaxError
          BY DEF CalmInv, LastPostPast
      <4>2. d # Never
          <5>1. Start \in Int /\ now' >= 8 * MinutesPerHour
              BY <1>1, Numbers, Constants DEF IInv
          <5>2. At(d) > 8 * MinutesPerHour
              BY <1>1, <3>1, <3>4, <5>1
          <5>3. d = Never => At(d) <= Midnight(-1) + 15 * MinutesPerHour
              BY AtSevenOf DEF Never
          <5>4. Midnight(-1) = -24 * MinutesPerHour
              BY Constants DEF Midnight, Hours
          <5>5. QED BY <3>1, <5>2, <5>3, <5>4
      <4>3. now <= now'
          BY <1>1
      <4>4. QED BY <1>1, <3>1, <3>4, <4>1, <4>2, <4>3
    <3>7. QED BY <3>5, <3>6
  <2>4. ~disturbed' => up /\ posting = "no"
      BY <2>1
  <2>5. QED BY <1>2, <1>5, <2>3, <2>4 DEF CalmInv, Calm
<1>7. CASE TimeOfDay(In(now')) # Hours(7) - Early
  <2>1. disturbed' <=> disturbed \/ pending
      BY <1>7 DEF Minute
  <2>2. SUFFICES ASSUME ~disturbed, ~pending PROVE up' /\ \A d \in Int : MorningOf(d)'
      BY <1>5, <2>1 DEF CalmInv, Calm
  <2>3. up /\ fired /\ \A d \in Int : MorningOf(d)
      BY <1>3, <2>2 DEF CalmInv, Calm
  <2>4. ASSUME NEW d \in Int PROVE MorningOf(d)'
    <3> SUFFICES ASSUME At(d) - Early <= now', now' < At(d + 1) - Early
                 PROVE  /\ now' + error < At(d) => posting = "no" /\ lastPost # d
                        /\ now' + error = At(d) =>
                               lastPost = d \/ (posting = "no" /\ lastPost # d /\ ~fired')
                        /\ now' + error > At(d) => lastPost = d
        BY <1>2, AtConstant DEF MorningOf
    <3>1. At(d) \in Int /\ At(d + 1) \in Int
        BY AtSevenOf
    <3>2. now' # At(d) - Early
        BY <1>1, <1>7, Outset
    <3>3. At(d) - Early <= now /\ now < At(d + 1) - Early
        BY <1>1, <3>1, <3>2
    <3>4. /\ now + error < At(d) => posting = "no" /\ lastPost # d
          /\ now + error = At(d) => lastPost = d
          /\ now + error > At(d) => lastPost = d
        BY <2>2, <2>3, <3>3 DEF MorningOf
    <3>5. CASE now' = now
        BY <3>4, <3>5
    <3>6. CASE now' = now + 1 /\ now' # now
      <4>1. ~fired'
          BY <1>4, <3>6
      <4>2. /\ now' + error < At(d) => now + error < At(d)
            /\ now' + error = At(d) => now + error < At(d)
            /\ now' + error > At(d) => now + error >= At(d)
          BY <1>1, <3>1, <3>6
      <4>3. now + error >= At(d) => now + error = At(d) \/ now + error > At(d)
          BY <1>1, <3>1
      <4>4. QED BY <3>4, <4>1, <4>2, <4>3
    <3>7. QED BY <1>1, <3>5, <3>6
  <2>5. QED BY <1>2, <2>3, <2>4
<1>8. QED BY <1>6, <1>7

LEMMA StepCalm ==
  ASSUME SmallError, IInv, CalmInv, [SNext]_vars
  PROVE  CalmInv'
<1>1. CASE Boot
  <2>1. disturbed
      BY <1>1 DEF Boot, CalmInv, Calm
  <2>2. QED BY <1>1, <2>1, Disturbs DEF Boot, week
<1>2. CASE Crash \/ Adjust
    BY <1>2, Disturbs DEF Crash, Adjust, week, process
<1>3. CASE Fire
    BY <1>3, SameMorning, AtConstant DEF Fire, week, history, MorningOf
<1>4. CASE ArchiveWeek \/ PostEnds
    BY <1>4, SameMorning, AtConstant DEF ArchiveWeek, PostEnds, week, history, MorningOf
<1>5. CASE Run \/ UNCHANGED vars
    BY <1>5, SameMorning, AtConstant
       DEF Run, EndRun, Poll, PollBegins, PollAnswered, PollFails, vars, week, process,
           history, MorningOf
<1>6. QED BY <1>1, <1>2, <1>3, <1>4, <1>5, SkipCalm, AnnounceCalm, MinuteCalm DEF SNext

-----------------------------------------------------------------------------
(* Theorems *)

LEMMA Invariant == SSpec => []IInv
BY InitInv, StepInv, PTL DEF SSpec

\* No tick and no post is left of a process that died, and every variable keeps
\* its values.
THEOREM TypeCorrect == SSpec => []TypeOK
<1>1. IInv => TypeOK
    BY DEF IInv
<1>2. QED BY <1>1, Invariant, PTL

\* The reset that WeeklyResetIn computes is the latest Tuesday, seven o'clock,
\* that has passed, whatever the length of an hour and the days on which the
\* clocks change.
THEOREM ResetIsLatest == SSpec => []ResetIsLatestTuesday
<1>1. IInv => ResetIsLatestTuesday
    BY Numbers, LatestTuesday DEF IInv
<1>2. QED BY <1>1, Invariant, PTL

\* A run polled within the interval of its end is skipped only if a reset came
\* in between, because the reset never moves back.
THEOREM LostAtReset == SSpec => []LostOnlyAtReset
<1>1. IInv => LostOnlyAtReset
    BY DEF IInv
<1>2. QED BY <1>1, Invariant, PTL

\* The queries compare the texts of two zones, and still return every stored
\* run of the week.
THEOREM NothingMissing == SSpec => []NothingMissed
<1>1. IInv => NothingMissed
  <2> SUFFICES ASSUME IInv, NEW t \in stored, t > WeeklyResetIn(Clock)
               PROVE  t >= In(WeeklyResetIn(Clock))
      BY DEF NothingMissed, ListKeysSince, AfterAsText
  <2>1. t \in Int /\ Clock \in Int
      BY Numbers, RunTimes DEF IInv
  <2>2. WeeklyResetIn(Clock) \in Int
      BY <2>1, ResetMonotone
  <2>3. QED BY <2>1, <2>2, Walls, Constants
<1>2. QED BY <1>1, Invariant, PTL

\* What they return of the week before ended in its last eight hours.
THEOREM EarlyByOffset == SSpec => []AtMostOffsetEarly
<1>1. IInv => AtMostOffsetEarly
  <2> SUFFICES ASSUME IInv, NEW t \in stored, t >= In(WeeklyResetIn(Clock))
               PROVE  t >= WeeklyResetIn(Clock) - Hours(8)
      BY DEF AtMostOffsetEarly, ListKeysSince, AfterAsText
  <2>1. t \in Int /\ Clock \in Int
      BY Numbers, RunTimes DEF IInv
  <2>2. WeeklyResetIn(Clock) \in Int
      BY <2>1, ResetMonotone
  <2>3. QED BY <2>1, <2>2, Walls, Constants DEF Hours
<1>2. QED BY <1>1, Invariant, PTL

\* Every announcement is made by Announce.
LEMMA Announcing ==
  ASSUME SNext, Announces
  PROVE  Announce
BY DEF SNext, Announces, Boot, Crash, Adjust, Fire, Skip, ArchiveWeek, PostEnds, Minute, Run,
       process

\* A day that Minute forgets is one the clock shows no more: whatever it is set
\* to, it is past that day's seven o'clock.
LEMMA Forgotten ==
  ASSUME TypeOK, NEW d \in Nat, now > At(d) + MaxError, TimeOfDay(WallNow) = Hours(7)
  PROVE  Today # d
<1>1. now + error = At(Today) /\ now \in Int /\ error \in Int /\ -MaxError <= error
    BY Numbers, ClockAtSeven
<1>2. At(d) \in Int
    BY AtSevenOf
<1>3. QED BY <1>1, <1>2, Constants

\* A day is announced again, by any process, only if the clock was set back
\* since: however far off it may be and however often it is set, and of any
\* days that were announced before, not only the last one.
THEOREM NeverRepeated == SSpec => RepeatedOnlyAfterSetBack
<1>1. IInv /\ [SNext]_vars => [Announces /\ Today \in tried => Today \in setBack]_vars
  <2> SUFFICES ASSUME IInv, SNext, Announces, Today \in tried, Today \notin setBack
               PROVE  FALSE
      OBVIOUS
  <2>1. pending /\ TimeOfDay(WallNow) = Hours(7) /\ Today # lastPost /\ up
      BY Announcing DEF Announce, Due, IInv, TypeOK
  <2>2. At(Today) < now + error
      BY <2>1 DEF IInv, PastAnnounced
  <2>3. now + error = At(Today) /\ now + error \in Int
      BY <2>1, ClockAtSeven, Numbers DEF IInv
  <2>4. QED BY <2>2, <2>3
<1>2. QED BY <1>1, Invariant, PTL DEF SSpec, RepeatedOnlyAfterSetBack

\* Whatever minute a clock that is less than four hours off shows, it shows
\* every seven o'clock for a whole minute, in which the ticker fires and the
\* goroutine, if nothing disturbs it, announces the day.
THEOREM CalmDays == ASSUME SmallError PROVE SSpec => []CalmDayAnnounced
<1>1. IInv /\ CalmInv => CalmDayAnnounced
  <2> SUFFICES ASSUME IInv, CalmInv, ~disturbed, TimeOfDay(In(now)) >= Hours(7) + Early
               PROVE  lastPost = Day(In(now))
      BY DEF CalmDayAnnounced
  <2> DEFINE d == Day(In(now))
             w == In(now)
  <2>1. /\ now \in Int /\ error \in Int /\ -MaxError <= error
        /\ w \in Int
      BY Numbers, Walls DEF IInv
  <2>2. /\ d \in Int /\ TimeOfDay(w) \in Int /\ TimeOfDay(w) < 24 * MinutesPerHour
        /\ w = Midnight(d) + TimeOfDay(w)
      BY <2>1, DayTime
  <2>3. /\ Midnight(d) \in Int /\ Seven(d) = Midnight(d) + 7 * MinutesPerHour
        /\ Midnight(d + 1) = Midnight(d) + 24 * MinutesPerHour
        /\ At(d) \in Int /\ At(d + 1) \in Int
        /\ At(d) + 23 * MinutesPerHour <= At(d + 1)
    <3>1. d + 1 \in Int /\ d < d + 1
        BY <2>2
    <3>2. QED BY <2>2, <3>1, DayHours, AtSevenOf, SevensApart
  <2>4. TimeOfDay(w) >= 7 * MinutesPerHour + Early
      BY MorningNumbers
  <2> HIDE DEF d, w
  <2>5. Midnight(d) + 3 * MinutesPerHour <= w /\ w < Midnight(d + 1)
      BY <2>2, <2>3, <2>4, MorningNumbers
  <2>6. /\ At(d) - 4 * MinutesPerHour <= now /\ now < At(d) + 17 * MinutesPerHour
        /\ w = Seven(d) + (now - At(d))
      BY <2>1, <2>2, <2>5, MorningOut, MorningIn DEF w
  <2>7. now >= At(d) + Early
      BY <2>1, <2>2, <2>3, <2>4, <2>6, MorningNumbers
  <2>8. /\ At(d) - Early <= now /\ now < At(d + 1) - Early
        /\ now + error > At(d)
      BY <2>1, <2>3, <2>6, <2>7, MorningNumbers
  <2>9. MorningOf(d)
      BY <2>2 DEF CalmInv, Calm
  <2>10. lastPost = d
      BY <2>8, <2>9 DEF MorningOf
  <2>11. QED BY <2>10 DEF d
<1>2. IInv /\ CalmInv /\ [SNext]_vars => CalmInv'
    BY StepCalm, SmallError
<1>3. QED BY <1>1, <1>2, InitCalm, Invariant, PTL DEF SSpec

\* A process whose clock is less than four hours off remembers only the last day
\* it announced, and announces the days in order all the same: after it, no
\* clock can show an earlier day's seven o'clock.
THEOREM AnnouncedInOrder == ASSUME SmallError PROVE SSpec => AnnouncesInOrder
<1>1. IInv /\ CalmInv /\ [SNext]_vars => [Announces => lastPost < Today]_vars
  <2> SUFFICES ASSUME IInv, CalmInv, SNext, Announces
               PROVE  lastPost < Today
      OBVIOUS
  <2>1. TimeOfDay(WallNow) = Hours(7) /\ Today # lastPost
      BY Announcing DEF Announce, Due
  <2>2. /\ now + error = At(Today) /\ now \in Int /\ error \in Int /\ -MaxError <= error
        /\ Today \in Nat /\ lastPost \in Int
      BY <2>1, ClockAtSeven, Numbers DEF IInv
  <2>3. CASE lastPost = Never
      BY <2>2, <2>3 DEF Never
  <2>4. CASE lastPost # Never
    <3> SUFFICES ASSUME Today < lastPost PROVE FALSE
        BY <2>1, <2>2
    <3>1. At(lastPost) <= now + MaxError
        BY <2>2, <2>4 DEF CalmInv, LastPostPast
    <3>2. At(Today) + 23 * MinutesPerHour <= At(lastPost)
        BY <2>2, SevensApart
    <3>3. At(Today) \in Int /\ At(lastPost) \in Int
        BY <2>2, AtSevenOf
    <3>4. QED BY <2>2, <3>1, <3>2, <3>3, MorningNumbers, SmallError
  <2>5. QED BY <2>3, <2>4
<1>2. IInv /\ CalmInv /\ [SNext]_vars => CalmInv'
    BY StepCalm, SmallError
<1>3. QED BY <1>1, <1>2, InitCalm, Invariant, PTL DEF SSpec, AnnouncesInOrder
=============================================================================
