------------------------- MODULE ScanSchedulerProofs -------------------------
(***************************************************************************)
(* Proofs about scheduled scans, for days and weeks of any length, any     *)
(* clock and any failures.                                                 *)
(***************************************************************************)
EXTENDS ScanScheduler, FiniteSetTheorems, TLAPS

\* Days have ticks and weeks have days.
CalendarAssumption == DayTicks \in Nat \ {0} /\ WeekDays \in Nat \ {0}

BoundsAssumption ==
    /\ MaxClock \in Nat /\ MaxEdits \in Nat /\ MaxBacks \in Nat
    /\ MaxFaults \in Nat /\ MaxCrashes \in Nat

-----------------------------------------------------------------------------
(* Division.                                                               *)

LEMMA DivMod ==
  ASSUME NEW a \in Int, NEW d \in Nat \ {0}
  PROVE  /\ a \div d \in Int /\ a % d \in 0 .. d - 1
         /\ a = (a \div d) * d + (a % d)
<1>1. a % d \in 0 .. d - 1 /\ a \div d \in Int
  OBVIOUS
<1>2. a = d * (a \div d) + (a % d)
  OBVIOUS
<1>3. d * (a \div d) = (a \div d) * d
  BY <1>1
<1> QED
  BY <1>1, <1>2, <1>3

LEMMA Multiples ==
  ASSUME NEW p \in Int, NEW q \in Int, NEW d \in Nat \ {0}, p < q
  PROVE  p * d \in Int /\ q * d \in Int /\ p * d + d <= q * d
<1>1. (q - p - 1) * d >= 0
  OBVIOUS
<1>2. (q - p - 1) * d = q * d - p * d - d
  OBVIOUS
<1> QED
  BY <1>1, <1>2

LEMMA DivUnique ==
  ASSUME NEW q \in Int, NEW d \in Nat \ {0}, NEW r \in 0 .. d - 1
  PROVE  (q * d + r) \div d = q /\ (q * d + r) % d = r
<1> DEFINE a == q * d + r
           x == a \div d
           y == a % d
<1>1. a \in Int /\ q * d \in Int /\ r \in Int /\ d \in Int
  OBVIOUS
<1>2. a = x * d + y /\ y \in 0 .. d - 1 /\ x \in Int
  BY <1>1, DivMod
<1> HIDE DEF x, y
<1>3. a = q * d + r
  OBVIOUS
<1> HIDE DEF a
<1>4. ~(x < q)
  <2> SUFFICES ASSUME x < q PROVE FALSE
    OBVIOUS
  <2>1. x * d + d <= q * d /\ x * d \in Int
    BY <1>2, Multiples
  <2> QED
    BY <1>1, <1>2, <1>3, <2>1
<1>5. ~(q < x)
  <2> SUFFICES ASSUME q < x PROVE FALSE
    OBVIOUS
  <2>1. q * d + d <= x * d /\ x * d \in Int
    BY <1>2, Multiples
  <2> QED
    BY <1>1, <1>2, <1>3, <2>1
<1>6. x = q
  BY <1>2, <1>4, <1>5
<1>7. y = r
  BY <1>1, <1>2, <1>3, <1>6
<1> QED
  BY <1>6, <1>7 DEF a, x, y

-----------------------------------------------------------------------------
(* The next run.                                                           *)

\* A time of day on a day.
On(day, tod) == day * DayTicks + tod

LEMMA OnFacts ==
  ASSUME CalendarAssumption, NEW day \in Int, NEW tod \in 0 .. DayTicks - 1
  PROVE  /\ On(day, tod) \in Int /\ On(day, tod) % DayTicks = tod
         /\ Today(On(day, tod)) = day
         /\ \A e \in Int : e < day => On(e, tod) <= On(day, tod) - DayTicks
<1>1. day * DayTicks \in Int /\ tod \in Int /\ DayTicks \in Int
  BY DEF CalendarAssumption
<1>2. ASSUME NEW e \in Int, e < day
      PROVE  e * DayTicks + tod <= day * DayTicks + tod - DayTicks
  <2>1. e * DayTicks \in Int /\ e * DayTicks + DayTicks <= day * DayTicks
    BY <1>2, Multiples DEF CalendarAssumption
  <2> QED
    BY <1>1, <2>1
<1> QED
  BY <1>1, <1>2, DivUnique DEF CalendarAssumption, On, Today

\* Now is within its day.
LEMMA TodayFacts ==
  ASSUME CalendarAssumption, NEW now \in Int, NEW tod \in 0 .. DayTicks - 1
  PROVE  /\ Today(now) \in Int
         /\ \A day \in Int : day < Today(now) => On(day, tod) < now
         /\ \A day \in Int : day > Today(now) => On(day, tod) > now
<1> DEFINE t == Today(now)
           r == now % DayTicks
<1>1. /\ t \in Int /\ r \in 0 .. DayTicks - 1 /\ now = t * DayTicks + r
      /\ t * DayTicks \in Int
  BY DivMod DEF CalendarAssumption, Today
<1> HIDE DEF t, r
<1>2. ASSUME NEW day \in Int, day < t PROVE On(day, tod) < now
  <2>1. day * DayTicks \in Int /\ day * DayTicks + DayTicks <= t * DayTicks
    BY <1>1, <1>2, Multiples DEF CalendarAssumption
  <2> QED
    BY <1>1, <2>1 DEF CalendarAssumption, On
<1>3. ASSUME NEW day \in Int, day > t PROVE On(day, tod) > now
  <2>1. day * DayTicks \in Int /\ t * DayTicks + DayTicks <= day * DayTicks
    BY <1>1, <1>3, Multiples DEF CalendarAssumption
  <2> QED
    BY <1>1, <2>1 DEF CalendarAssumption, On
<1> QED
  BY <1>1, <1>2, <1>3 DEF t

\* A time of day that comes back is a whole number of days away.
LEMMA OnDay ==
  ASSUME CalendarAssumption, NEW time \in Int, NEW tod, time % DayTicks = tod
  PROVE  Today(time) \in Int /\ time = On(Today(time), tod)
BY DivMod DEF CalendarAssumption, Today, On

LEMMA DailyIsSoonest ==
  ASSUME CalendarAssumption, NEW now \in Int, NEW tod \in 0 .. DayTicks - 1
  PROVE  LET next == DailyRun(now, tod) IN
         /\ next \in Int /\ next > now /\ next % DayTicks = tod
         /\ \A time \in Int :
              now < time /\ time < next => time % DayTicks # tod
<1> DEFINE t == Today(now)
           next == DailyRun(now, tod)
<1>1. t \in Int /\ On(t + 1, tod) = On(t, tod) + DayTicks
      /\ On(t, tod) \in Int /\ DayTicks \in Int
  <2>1. t \in Int /\ t * DayTicks \in Int /\ (t + 1) * DayTicks = t * DayTicks + DayTicks
    BY TodayFacts DEF CalendarAssumption
  <2> HIDE DEF t
  <2> QED
    BY <2>1 DEF On, CalendarAssumption
<1>2. next = IF On(t, tod) <= now THEN On(t + 1, tod) ELSE On(t, tod)
  BY <1>1 DEF DailyRun, On
<1> HIDE DEF t, next
<1>3. PICK day \in Int : next = On(day, tod) /\ now < next /\ On(day - 1, tod) <= now
  <2>1. CASE On(t, tod) <= now
    <3>1. On(t + 1, tod) > now /\ t + 1 - 1 = t /\ t + 1 \in Int
      BY <1>1, TodayFacts DEF t
    <3> DEFINE u == t + 1
    <3>2. u \in Int /\ u - 1 = t /\ next = On(u, tod) /\ On(u, tod) > now
      BY <1>1, <1>2, <2>1, <3>1
    <3> HIDE DEF u
    <3> QED
      BY <2>1, <3>2
  <2>2. CASE ~(On(t, tod) <= now)
    <3>1. On(t - 1, tod) < now /\ t - 1 \in Int
      BY <1>1, TodayFacts DEF t
    <3>2. On(t - 1, tod) \in Int
      BY <3>1, OnFacts
    <3> QED
      BY <1>1, <1>2, <2>2, <3>1, <3>2
  <2> QED
    BY <2>1, <2>2
<1>4. next \in Int /\ next % DayTicks = tod
  BY <1>3, OnFacts
<1>5. ASSUME NEW time \in Int, now < time, time < next, time % DayTicks = tod
      PROVE  FALSE
  <2>1. Today(time) \in Int /\ time = On(Today(time), tod)
    BY <1>5, OnDay
  <2>2. CASE Today(time) < day
    <3>1. Today(time) < day - 1 \/ Today(time) = day - 1
      BY <2>1, <2>2
    <3>2. On(Today(time), tod) <= On(day - 1, tod) /\ On(day - 1, tod) \in Int
      BY <2>1, <3>1, OnFacts DEF CalendarAssumption
    <3> QED
      BY <1>3, <1>5, <2>1, <3>2
  <2>3. CASE Today(time) = day
    BY <1>3, <1>5, <2>1, <2>3
  <2>4. CASE Today(time) > day
    BY <1>3, <1>4, <1>5, <2>1, <2>4, OnFacts DEF CalendarAssumption
  <2> QED
    BY <2>1, <2>2, <2>3, <2>4
<1> QED
  BY <1>3, <1>4, <1>5 DEF next

\* Days of the week come back after a week.
LEMMA WeekFacts ==
  ASSUME CalendarAssumption, NEW day \in Int, NEW e \in Int, e < day,
         DayOfWeek(e) = DayOfWeek(day)
  PROVE  e <= day - WeekDays
<1> DEFINE m == day \div WeekDays
           n == e \div WeekDays
           w == DayOfWeek(day)
<1>1. /\ m \in Int /\ n \in Int /\ w \in 0 .. WeekDays - 1 /\ WeekDays \in Nat \ {0}
      /\ day = m * WeekDays + w /\ e = n * WeekDays + w
  BY DivMod DEF CalendarAssumption, DayOfWeek
<1> HIDE DEF m, n, w
<1>2. m * WeekDays \in Int /\ n * WeekDays \in Int
  BY <1>1
<1>3. n < m
  <2>1. SUFFICES ASSUME m < n \/ m = n PROVE FALSE
    BY <1>1
  <2>2. m < n => m * WeekDays + WeekDays <= n * WeekDays
    BY <1>1, Multiples
  <2> QED
    BY <1>1, <1>2, <2>1, <2>2
<1>4. n * WeekDays + WeekDays <= m * WeekDays
  BY <1>1, <1>3, Multiples
<1> QED
  BY <1>1, <1>2, <1>4

LEMMA DaysAheadFacts ==
  ASSUME CalendarAssumption, NEW now \in Int, NEW tod \in 0 .. DayTicks - 1,
         NEW dow \in 0 .. WeekDays - 1
  PROVE  LET a == DaysAhead(now, tod, dow) t == Today(now) IN
         /\ a \in 0 .. WeekDays /\ t \in Int /\ DayOfWeek(t + a) = dow
         /\ a = 0 => On(t, tod) > now
         /\ a = WeekDays => On(t, tod) <= now
<1> DEFINE a == DaysAhead(now, tod, dow)
           t == Today(now)
           c == DayOfWeek(t)
           n == t \div WeekDays
<1>1. t \in Int /\ On(t, tod) \in Int
  BY TodayFacts, OnFacts
<1> HIDE DEF t
<1>2. /\ n \in Int /\ c \in 0 .. WeekDays - 1 /\ t = n * WeekDays + c
      /\ WeekDays \in Nat \ {0}
  BY <1>1, DivMod DEF CalendarAssumption, DayOfWeek
<1>3. a = CASE dow > c -> dow - c
            [] dow < c -> WeekDays - (c - dow)
            [] OTHER -> IF On(t, tod) <= now THEN WeekDays ELSE 0
  BY DEF DaysAhead, On, t
<1> HIDE DEF a, n, c
<1> DEFINE n1 == n + 1
<1>4. n * WeekDays \in Int /\ n1 \in Int
      /\ n1 * WeekDays = n * WeekDays + WeekDays
  BY <1>2
<1> HIDE DEF n1
<1>5. \A m \in Int : DayOfWeek(m * WeekDays + dow) = dow
  BY <1>2, DivUnique DEF DayOfWeek
<1>6. CASE dow > c
  <2>1. a = dow - c
    BY <1>2, <1>3, <1>6
  <2>2. t + a = n * WeekDays + dow /\ a \in 1 .. WeekDays - 1
    BY <1>2, <1>4, <1>6, <2>1
  <2> QED
    BY <1>1, <1>2, <1>5, <2>2 DEF a, t
<1>7. CASE dow < c
  <2>1. a = WeekDays - (c - dow)
    BY <1>2, <1>3, <1>7
  <2>2. t + a = n1 * WeekDays + dow /\ a \in 1 .. WeekDays - 1
    BY <1>2, <1>4, <1>7, <2>1
  <2> QED
    BY <1>1, <1>2, <1>4, <1>5, <2>2 DEF a, t
<1>8. CASE dow = c /\ On(t, tod) <= now
  <2>1. a = WeekDays
    BY <1>2, <1>3, <1>8
  <2>2. t + a = n1 * WeekDays + dow
    BY <1>2, <1>4, <1>8, <2>1
  <2>3. DayOfWeek(t + a) = dow
    BY <1>4, <1>5, <2>2
  <2>4. a \in 0 .. WeekDays /\ a # 0
    BY <1>2, <2>1
  <2> QED
    BY <1>1, <1>8, <2>3, <2>4 DEF a, t
<1>9. CASE dow = c /\ ~(On(t, tod) <= now)
  <2>1. a = 0
    BY <1>2, <1>3, <1>9
  <2>2. t + a = n * WeekDays + dow
    BY <1>2, <1>4, <1>9, <2>1
  <2> QED
    BY <1>1, <1>2, <1>5, <1>9, <2>1, <2>2 DEF a, t
<1> QED
  BY <1>2, <1>6, <1>7, <1>8, <1>9

LEMMA WeeklyIsSoonest ==
  ASSUME CalendarAssumption, NEW now \in Int, NEW tod \in 0 .. DayTicks - 1,
         NEW dow \in 0 .. WeekDays - 1
  PROVE  LET next == On(Today(now) + DaysAhead(now, tod, dow), tod) IN
         /\ next \in Int /\ next > now /\ next % DayTicks = tod
         /\ DayOfWeek(Today(next)) = dow
         /\ \A time \in Int :
              now < time /\ time < next /\ time % DayTicks = tod
                => DayOfWeek(Today(time)) # dow
<1> DEFINE t == Today(now)
           a == DaysAhead(now, tod, dow)
           day == t + a
           next == On(day, tod)
<1>1. /\ a \in 0 .. WeekDays /\ t \in Int /\ DayOfWeek(day) = dow
      /\ a = 0 => On(t, tod) > now
      /\ a = WeekDays => On(t, tod) <= now
  BY DaysAheadFacts
<1> HIDE DEF t, a
<1>2. day \in Int /\ WeekDays \in Nat \ {0}
  BY <1>1 DEF CalendarAssumption
<1>3. /\ next \in Int /\ next % DayTicks = tod /\ Today(next) = day
      /\ \A e \in Int : e < day => On(e, tod) <= next - DayTicks
  BY <1>2, OnFacts
<1>4. next > now
  <2>1. CASE a = 0
    <3>1. day = t
      BY <1>1, <2>1
    <3> QED
      BY <1>1, <2>1, <3>1
  <2>2. CASE a # 0
    <3>1. day > t
      BY <1>1, <1>2, <2>2
    <3> QED
      BY <1>2, <3>1, TodayFacts DEF t
  <2> QED
    BY <2>1, <2>2
<1> HIDE DEF next
<1>5. ASSUME NEW time \in Int, now < time, time < next, time % DayTicks = tod,
             DayOfWeek(Today(time)) = dow
      PROVE  FALSE
  <2> DEFINE e == Today(time)
  <2>1. e \in Int /\ time = On(e, tod) /\ DayOfWeek(e) = dow
    BY <1>5, OnDay
  <2> HIDE DEF e, day
  <2>2. e < day
    <3>1. SUFFICES ASSUME e = day \/ day < e PROVE FALSE
      BY <1>2, <2>1
    <3>2. day < e => On(day, tod) <= time - DayTicks
      BY <1>2, <2>1, OnFacts
    <3> QED
      BY <1>3, <1>5, <2>1, <3>1, <3>2 DEF next, CalendarAssumption
  <2>3. e <= day - WeekDays
    BY <1>1, <1>2, <2>1, <2>2, WeekFacts
  <2>4. e < t \/ (e = t /\ a = WeekDays)
    BY <1>1, <1>2, <2>1, <2>3 DEF day
  <2>5. CASE e < t
    <3>1. On(e, tod) < now
      BY <2>1, <2>5, TodayFacts DEF t
    <3> QED
      BY <1>5, <2>1, <3>1
  <2>6. CASE e = t /\ a = WeekDays
    <3>1. time <= now
      BY <1>1, <2>1, <2>6
    <3> QED
      BY <1>5, <3>1
  <2> QED
    BY <2>4, <2>5, <2>6
<1> QED
  BY <1>1, <1>3, <1>4, <1>5 DEF next, day, t, a

\* The next run is a week away at most.
LEMMA NextIsNear ==
  ASSUME CalendarAssumption, NEW now \in Int, now >= -1, NEW plan \in Plan
  PROVE  LET next == NextRun(now, plan) IN
         next = NoTime \/ (next \in Nat /\ next <= now + DayTicks * WeekDays)
<1> DEFINE next == NextRun(now, plan)
           t == Today(now)
           week == DayTicks * WeekDays
<1>1. week \in Nat /\ DayTicks <= week /\ DayTicks \in Nat /\ WeekDays \in Nat \ {0}
  <2>1. DayTicks \in Nat /\ WeekDays - 1 \in Nat /\ WeekDays \in Nat \ {0}
    BY DEF CalendarAssumption
  <2>2. DayTicks * (WeekDays - 1) >= 0 /\ DayTicks * WeekDays >= 0
    BY <2>1
  <2> QED
    BY <2>1, <2>2
<1>2. \A e \in Int, tod \in 0 .. DayTicks - 1 :
        On(e + WeekDays, tod) = On(e, tod) + week /\ On(e, tod) \in Int
  BY <1>1, OnFacts DEF On
<1>3. \A tod \in 0 .. DayTicks - 1 :
        t \in Int /\ \A day \in Int : day < t => On(day, tod) < now
  BY TodayFacts
<1> HIDE DEF t, week, next
<1>4. CASE plan.freq = "daily"
  <2> DEFINE tod == plan.tod
             candidate == On(t, tod)
  <2>1. tod \in 0 .. DayTicks - 1 /\ next = DailyRun(now, tod)
    BY <1>4 DEF Plan, NextRun, next
  <2>2. next \in Int /\ next > now
    BY <2>1, DailyIsSoonest
  <2>3. next = IF candidate <= now THEN candidate + DayTicks ELSE candidate
    BY <2>1 DEF DailyRun, On, t
  <2>4. candidate \in Int /\ candidate < now + DayTicks
    <3>1. t - 1 \in Int /\ t - 1 < t /\ t \in Int
      BY <1>3, <2>1
    <3>2. On(t - 1, tod) < now /\ On(t - 1, tod) \in Int /\ candidate \in Int
      BY <1>2, <1>3, <2>1, <3>1
    <3>3. t * DayTicks \in Int /\ (t - 1) * DayTicks = t * DayTicks - DayTicks
      BY <1>1, <3>1
    <3> QED
      BY <1>1, <2>1, <3>2, <3>3 DEF On
  <2> HIDE DEF candidate, tod
  <2>5. next <= now + DayTicks
    BY <1>1, <2>3, <2>4
  <2> QED
    BY <1>1, <2>2, <2>5 DEF next, week
<1>5. CASE plan.freq = "weekly"
  <2> DEFINE tod == plan.tod
             a == DaysAhead(now, tod, plan.dow)
             e == t + a - WeekDays
  <2>1. /\ tod \in 0 .. DayTicks - 1 /\ plan.dow \in 0 .. WeekDays - 1
        /\ next = On(t + a, tod)
    BY <1>5 DEF Plan, NextRun, On, next, t
  <2>2. next \in Int /\ next > now
    BY <2>1, WeeklyIsSoonest DEF t
  <2>3. a \in 0 .. WeekDays /\ t \in Int /\ (a = WeekDays => On(t, tod) <= now)
    BY <2>1, DaysAheadFacts DEF t
  <2> HIDE DEF tod, a
  <2>4. e \in Int /\ e + WeekDays = t + a /\ (e < t \/ (e = t /\ a = WeekDays))
    BY <1>1, <2>3
  <2> HIDE DEF e
  <2>5. On(e, tod) <= now /\ On(e, tod) \in Int
    BY <1>2, <1>3, <2>1, <2>3, <2>4
  <2>6. next = On(e, tod) + week
    BY <1>2, <2>1, <2>4
  <2> QED
    BY <1>1, <2>2, <2>5, <2>6 DEF next, week
<1>6. plan.freq = "off" => next = NoTime
  BY DEF NextRun, next
<1> QED
  BY <1>4, <1>5, <1>6 DEF Plan, next

-----------------------------------------------------------------------------
(* The theorems.                                                           *)

ClockInv == clock \in Nat

\* A key that is not held has started nothing.
KeyInv ==
    /\ starts \in [Key -> Nat]
    /\ \A k \in Key : starts[k] <= 1 /\ (k \notin held => starts[k] = 0)

LEMMA ClockStays == Spec => []ClockInv
<1>1. Init => ClockInv
  BY DEF Init, ClockInv
<1>2. ClockInv /\ [Next]_vars => ClockInv'
  BY DEF ClockInv, Next, Step, List, Take, Execute, ExecuteFails, Mark, Tick,
     SetBack, Edit, Crash, vars
<1> QED
  BY <1>1, <1>2, PTL DEF Spec

LEMMA KeysStay == Spec => []KeyInv
<1>1. Init => KeyInv
  BY DEF Init, KeyInv
<1>2. ASSUME KeyInv, Execute PROVE KeyInv'
  <2> DEFINE k == OccurrenceKey(hand.copy)
  <2>1. /\ held' = held \cup {k}
        /\ starts' = IF k \in held THEN starts
                     ELSE [starts EXCEPT ![k] = starts[k] + 1]
    BY <1>2 DEF Execute, OccurrenceKey
  <2> HIDE DEF k
  <2>2. CASE k \in held \/ k \notin Key
    BY <1>2, <2>1, <2>2 DEF KeyInv
  <2>3. CASE k \notin held /\ k \in Key
    BY <1>2, <2>1, <2>3 DEF KeyInv
  <2> QED
    BY <2>2, <2>3
<1>3. KeyInv /\ [Next]_vars => KeyInv'
  <2>1. KeyInv /\ UNCHANGED <<starts, held>> => KeyInv'
    BY DEF KeyInv
  <2> QED
    BY <1>2, <2>1
    DEF Next, Step, List, Take, ExecuteFails, Mark, Tick, SetBack, Edit, Crash, vars
<1> QED
  BY <1>1, <1>3, PTL DEF Spec

\* What is listed has a time.
DueInv ==
    /\ \A c \in due : c.row.next # NoTime
    /\ hand # Idle => hand.copy.row.next # NoTime

LEMMA PlansAreRows ==
  ASSUME CalendarAssumption, BoundsAssumption, NEW now \in -1 .. MaxClock, NEW plan \in Plan
  PROVE  NextRun(now, plan) \in Time \cup {NoTime} /\ Saved(now, plan) \in Row
<1>1. now \in Int /\ now >= -1 /\ now <= MaxClock /\ MaxClock \in Nat
  BY DEF BoundsAssumption
<1> DEFINE next == NextRun(now, plan)
           week == DayTicks * WeekDays
<1>2. next = NoTime \/ (next \in Nat /\ next <= now + week)
  BY <1>1, NextIsNear
<1>3. week \in Nat
  BY DEF CalendarAssumption
<1> HIDE DEF next, week
<1>4. next = NoTime \/ next \in 0 .. MaxClock + week
  BY <1>1, <1>2, <1>3
<1> QED
  BY <1>4 DEF next, week, Time, Saved, Row

LEMMA TypeStep ==
  ASSUME CalendarAssumption, BoundsAssumption, KeyInv, KeyInv', TypeOK, DueInv, [Next]_vars
  PROVE  TypeOK' /\ DueInv'
<1> DEFINE Bounded == /\ clock \in 0 .. MaxClock
                      /\ edits \in 0 .. MaxEdits /\ backs \in 0 .. MaxBacks
                      /\ faults \in 0 .. MaxFaults /\ crashes \in 0 .. MaxCrashes
           Table == rows \in [Schedules -> Row]
           Listed == /\ due \subseteq Copy /\ held \subseteq Key /\ DueInv
                     /\ hand \in {Idle} \cup [at : {"execute", "mark"}, copy : Copy]
<1>1. Bounded'
  BY DEF BoundsAssumption, TypeOK, Next, Step, List, Take, Execute, ExecuteFails, Mark, Tick,
     SetBack, Edit, Crash, vars, bounds
<1>2. starts' \in [Key -> 0 .. 3]
  BY DEF KeyInv
<1>3. clock \in -1 .. MaxClock /\ -1 \in -1 .. MaxClock
  BY DEF TypeOK, BoundsAssumption
<1>4. Table'
  <2>1. ASSUME NEW s \in Schedules, Edit(s) PROVE Table'
    BY <1>3, <2>1, PlansAreRows DEF Edit, TypeOK
  <2>2. CASE Mark
    <3>1. hand # Idle /\ hand.copy \in Copy
      BY <2>2 DEF Mark, TypeOK, Idle
    <3>2. hand.copy.id \in Schedules /\ hand.copy.row.plan \in Plan
      BY <3>1 DEF Copy, Row
    <3>3. \A row \in Row : Marked(row, hand.copy) \in Row
      BY <1>3, <3>2, PlansAreRows DEF Marked, Row
    <3> QED
      BY <2>2, <3>2, <3>3 DEF Mark, TypeOK
  <2>3. UNCHANGED rows => Table'
    BY DEF TypeOK
  <2> QED
    BY <2>1, <2>2, <2>3
    DEF Next, Step, List, Take, Execute, ExecuteFails, Tick, SetBack, Crash, vars
<1>5. Listed'
  <2>1. CASE List
    <3>1. \A s \in Schedules : [id |-> s, row |-> rows[s]] \in Copy
      BY DEF TypeOK, Copy
    <3> QED
      BY <2>1, <3>1 DEF List, TypeOK, DueInv, IsDue
  <2>2. CASE Take
    <3>1. PICK c \in due : due' = due \ {c} /\ hand' = [at |-> "execute", copy |-> c]
      BY <2>2 DEF Take
    <3> QED
      BY <2>2, <3>1 DEF Take, TypeOK, DueInv
  <2>3. CASE Execute \/ ExecuteFails
    <3>1. /\ hand \in [at : {"execute", "mark"}, copy : Copy]
          /\ hand' = [hand EXCEPT !.at = "mark"]
          /\ hand.copy \in Copy /\ hand.copy.row.next # NoTime
      BY <2>3 DEF Execute, ExecuteFails, TypeOK, Idle, DueInv
    <3>2. hand' \in [at : {"execute", "mark"}, copy : Copy] /\ hand'.copy = hand.copy
      BY <3>1
    <3>3. OccurrenceKey(hand.copy) \in Key
      BY <3>1 DEF OccurrenceKey, Key, Copy, Row
    <3> QED
      BY <2>3, <3>1, <3>2, <3>3 DEF Execute, ExecuteFails, TypeOK, DueInv
  <2>4. CASE Mark \/ Crash
    BY <2>4 DEF Mark, Crash, TypeOK, DueInv
  <2>5. UNCHANGED <<due, held, hand>> => Listed'
    BY DEF TypeOK, DueInv
  <2> QED
    BY <2>1, <2>2, <2>3, <2>4, <2>5 DEF Next, Step, Tick, SetBack, Edit, vars
<1> QED
  BY <1>1, <1>2, <1>4, <1>5 DEF TypeOK

\* Every row that save_scan_schedule and mark_schedule_run write has a next run
\* within a week, and what run_due_schedules lists was due.
THEOREM SchedulerTypes ==
  ASSUME CalendarAssumption, BoundsAssumption PROVE Spec => []TypeOK
<1>1. Init => TypeOK /\ DueInv
  <2>1. -1 \in -1 .. MaxClock
    BY DEF BoundsAssumption
  <2>2. \A plan \in Plan : Saved(-1, plan) \in Row
    BY <2>1, PlansAreRows
  <2> QED
    BY <2>2 DEF Init, TypeOK, DueInv, BoundsAssumption
<1>2. KeyInv /\ KeyInv' /\ TypeOK /\ DueInv /\ [Next]_vars => (TypeOK /\ DueInv)'
  BY TypeStep
<1> QED
  BY <1>1, <1>2, KeysStay, PTL DEF Spec

\* What run_due_schedules scans under the key of its occurrence is collected
\* once, however often the occurrence comes up: the key is of the time it was
\* due, not of the time it is tried.
THEOREM OneScan == Spec => []OneScanPerOccurrence
<1>1. KeyInv => OneScanPerOccurrence
  BY DEF KeyInv, OneScanPerOccurrence
<1> QED
  BY <1>1, KeysStay, PTL

\* Whatever the time of day, the day of the week and the clock are, the next run is
\* the soonest time after now that fits the plan.
LEMMA NextFits ==
  ASSUME CalendarAssumption, NEW now \in Int, now >= -1,
         NEW plan \in Plan, plan.freq # "off"
  PROVE  LET next == NextRun(now, plan) IN
         /\ next \in Int /\ next > now /\ Fits(next, plan)
         /\ \A time \in now + 1 .. next - 1 : ~Fits(time, plan)
<1> DEFINE next == NextRun(now, plan)
<1>1. NoTime = -1
  BY DEF NoTime
<1>2. CASE plan.freq = "daily"
  <2>1. plan.tod \in 0 .. DayTicks - 1 /\ next = DailyRun(now, plan.tod)
    BY <1>2 DEF Plan, NextRun
  <2> HIDE DEF next
  <2>2. /\ next \in Int /\ next > now /\ next % DayTicks = plan.tod
        /\ \A time \in Int :
             now < time /\ time < next => time % DayTicks # plan.tod
    BY <2>1, DailyIsSoonest
  <2>3. Fits(next, plan)
    BY <1>1, <1>2, <2>2 DEF Fits
  <2>4. \A time \in now + 1 .. next - 1 : ~Fits(time, plan)
    BY <2>2 DEF Fits
  <2> QED
    BY <2>2, <2>3, <2>4 DEF next
<1>3. CASE plan.freq = "weekly"
  <2>1. /\ plan.tod \in 0 .. DayTicks - 1 /\ plan.dow \in 0 .. WeekDays - 1
        /\ next = On(Today(now) + DaysAhead(now, plan.tod, plan.dow), plan.tod)
    BY <1>3 DEF Plan, NextRun, On
  <2> HIDE DEF next
  <2>2. /\ next \in Int /\ next > now /\ next % DayTicks = plan.tod
        /\ DayOfWeek(Today(next)) = plan.dow
        /\ \A time \in Int :
             now < time /\ time < next /\ time % DayTicks = plan.tod
               => DayOfWeek(Today(time)) # plan.dow
    BY <2>1, WeeklyIsSoonest
  <2>3. Fits(next, plan)
    BY <1>1, <1>3, <2>2 DEF Fits
  <2>4. \A time \in now + 1 .. next - 1 : ~Fits(time, plan)
    BY <1>3, <2>2 DEF Fits
  <2> QED
    BY <2>2, <2>3, <2>4 DEF next
<1> QED
  BY <1>2, <1>3 DEF Plan

\* compute_next_run_from returns the soonest time after now that fits the plan,
\* whatever the time of day, the day of the week and the clock are.
THEOREM NextIsSoonest ==
  ASSUME CalendarAssumption PROVE Spec => []NextRunIsSoonest
<1>1. ClockInv => NextRunIsSoonest
  BY NextFits DEF ClockInv, NextRunIsSoonest
<1> QED
  BY <1>1, ClockStays, PTL

-----------------------------------------------------------------------------
(* What writes a row, and what comes of it.                                *)

\* A row holds a time of its own plan, or is switched off.
Placed(row) == row.plan.freq = "off" \/ Fits(row.next, row.plan)

\* A row whose time has been computed now is not due, and it is placed when the
\* plan is its own.
LEMMA Computed ==
  ASSUME CalendarAssumption, NEW now \in Int, now >= -1, NEW plan \in Plan
  PROVE  /\ NextRun(now, plan) = NoTime \/ NextRun(now, plan) > now
         /\ Placed(Saved(now, plan))
<1>1. CASE plan.freq = "off"
  BY <1>1 DEF NextRun, Saved, Placed
<1>2. CASE plan.freq # "off"
  BY <1>2, NextFits DEF Saved, Placed
<1> QED
  BY <1>1, <1>2

\* What the statements of save_scan_schedule and mark_schedule_run leave in a row.
Written(s) ==
    \/ \E plan \in Plan : rows'[s] = Saved(clock, plan)
    \/ /\ Mark /\ hand.copy.id = s /\ hand.copy.row.plan \in Plan
       /\ rows'[s] = Marked(rows[s], hand.copy)

LEMMA StepWrites ==
  ASSUME TypeOK, [Next]_vars
  PROVE  \A s \in Schedules :
           rows'[s] = rows[s] \/ (Written(s) /\ clock' = clock)
<1>1. ASSUME NEW e \in Schedules, Edit(e), NEW s \in Schedules
      PROVE  rows'[s] = rows[s] \/ (Written(s) /\ clock' = clock)
  BY <1>1 DEF Edit, TypeOK, Written
<1>2. ASSUME Mark, NEW s \in Schedules
      PROVE  rows'[s] = rows[s] \/ (Written(s) /\ clock' = clock)
  <2>1. hand # Idle /\ hand.copy \in Copy
    BY <1>2 DEF Mark, TypeOK, Idle
  <2>2. hand.copy.id \in Schedules /\ hand.copy.row.plan \in Plan
    BY <2>1 DEF Copy, Row
  <2>3. \/ rows' = rows
        \/ rows' = [rows EXCEPT ![hand.copy.id] = Marked(rows[hand.copy.id], hand.copy)]
    BY <1>2 DEF Mark
  <2>4. rows \in [Schedules -> Row] /\ clock' = clock
    BY <1>2 DEF Mark, TypeOK
  <2> QED
    BY <1>2, <2>2, <2>3, <2>4 DEF Written
<1>3. UNCHANGED rows => \A s \in Schedules : rows'[s] = rows[s]
  OBVIOUS
<1> QED
  BY <1>1, <1>2, <1>3
  DEF Next, Step, List, Take, Execute, ExecuteFails, Tick, SetBack, Crash, vars

\* Only time makes a row due (what DueIsServed rests on): a row that is written,
\* by an edit or by a mark that comes late, is not due when the write returns,
\* so that no occurrence is scanned over and over.
THEOREM OnlyTimeMakesDue ==
  ASSUME CalendarAssumption, BoundsAssumption
  PROVE  Spec => [][\A s \in Schedules :
                      IsDue(rows[s])' => /\ rows'[s] = rows[s]
                                         /\ IsDue(rows[s]) \/ clock' > clock]_vars
<1> DEFINE OnlyTime == \A s \in Schedules :
                         IsDue(rows[s])' => /\ rows'[s] = rows[s]
                                            /\ IsDue(rows[s]) \/ clock' > clock
<1>1. ASSUME TypeOK, [Next]_vars, NEW s \in Schedules, IsDue(rows[s])'
      PROVE  rows'[s] = rows[s] /\ (IsDue(rows[s]) \/ clock' > clock)
  <2>1. clock \in Int /\ clock >= -1 /\ clock' \in Int
    <3>1. clock \in Int /\ clock >= -1
      BY <1>1 DEF TypeOK, BoundsAssumption
    <3> QED
      BY <1>1, <3>1
      DEF Next, Step, List, Take, Execute, ExecuteFails, Mark, Tick, SetBack, Edit, Crash, vars
  <2>2. rows'[s].next # NoTime /\ rows'[s].next <= clock'
    BY <1>1 DEF IsDue
  <2>3. rows[s] \in Row
    BY <1>1 DEF TypeOK
  <2>4. CASE Written(s) /\ clock' = clock
    <3>1. PICK plan \in Plan : rows'[s].next = NextRun(clock, plan)
      <4>1. ASSUME NEW plan \in Plan, rows'[s] = Saved(clock, plan)
            PROVE  rows'[s].next = NextRun(clock, plan)
        BY <4>1 DEF Saved
      <4>2. ASSUME rows'[s] = Marked(rows[s], hand.copy)
            PROVE  rows'[s].next = NextRun(clock, hand.copy.row.plan)
        BY <2>3, <4>2 DEF Marked, Row
      <4> QED
        BY <2>4, <4>1, <4>2 DEF Written
    <3>2. NextRun(clock, plan) = NoTime \/ NextRun(clock, plan) > clock
      BY <2>1, Computed
    <3>3. rows'[s].next > clock
      BY <2>2, <3>1, <3>2
    <3>4. rows'[s].next <= clock
      BY <2>2, <2>4
    <3>5. rows'[s].next \in Int
      <4>1. CASE plan.freq = "off"
        BY <2>2, <3>1, <4>1 DEF NextRun
      <4>2. CASE plan.freq # "off"
        BY <2>1, <3>1, <4>2, NextFits
      <4> QED
        BY <4>1, <4>2
    <3> QED
      BY <2>1, <3>3, <3>4, <3>5
  <2>5. CASE rows'[s] = rows[s]
    <3>1. rows[s].next \in Int
      BY <2>2, <2>3, <2>5 DEF Row, Time, NoTime, BoundsAssumption, CalendarAssumption
    <3>2. IsDue(rows[s]) \/ clock' > clock
      BY <1>1, <2>1, <2>5, <3>1 DEF IsDue
    <3> QED
      BY <2>5, <3>2
  <2> QED
    BY <1>1, <2>4, <2>5, StepWrites
<1>2. TypeOK /\ [Next]_vars => [OnlyTime]_vars
  BY <1>1
<1>3. Spec => [][OnlyTime]_vars
  BY <1>2, SchedulerTypes, PTL DEF Spec
<1> QED
  BY <1>3

\* A row holds a time of its own plan unless the loop marks it with the plan it had
\* when it was listed and the user has saved another since (the bound in
\* EditTakesEffect): no other step and no clock misplaces a row.
THEOREM MisplacedByStaleMark ==
  ASSUME CalendarAssumption, BoundsAssumption
  PROVE  Spec => [][\A s \in Schedules :
                      \/ rows'[s] = rows[s] \/ Placed(rows'[s])
                      \/ Mark /\ hand.copy.id = s /\ hand.copy.row.plan # rows[s].plan]_vars
<1> DEFINE Misplaced == \A s \in Schedules :
              \/ rows'[s] = rows[s] \/ Placed(rows'[s])
              \/ Mark /\ hand.copy.id = s /\ hand.copy.row.plan # rows[s].plan
<1>1. ASSUME TypeOK, [Next]_vars, NEW s \in Schedules
      PROVE  \/ rows'[s] = rows[s] \/ Placed(rows'[s])
             \/ Mark /\ hand.copy.id = s /\ hand.copy.row.plan # rows[s].plan
  <2>1. clock \in Int /\ clock >= -1
    BY <1>1 DEF TypeOK, BoundsAssumption
  <2>2. rows[s] \in Row
    BY <1>1 DEF TypeOK
  <2>3. ASSUME NEW plan \in Plan, rows'[s] = Saved(clock, plan)
        PROVE  Placed(rows'[s])
    BY <2>1, <2>3, Computed
  <2>4. ASSUME hand.copy.row.plan = rows[s].plan, rows'[s] = Marked(rows[s], hand.copy)
        PROVE  Placed(rows'[s])
    <3>1. rows[s].plan \in Plan /\ rows'[s] = Saved(clock, rows[s].plan)
      BY <2>2, <2>4 DEF Marked, Saved, Row
    <3> QED
      BY <2>1, <3>1, Computed
  <2> QED
    BY <1>1, <2>3, <2>4, StepWrites DEF Written
<1>2. TypeOK /\ [Next]_vars => [Misplaced]_vars
  BY <1>1
<1>3. Spec => [][Misplaced]_vars
  BY <1>2, SchedulerTypes, PTL DEF Spec
<1> QED
  BY <1>3

-----------------------------------------------------------------------------
(* A pass over the due rows.                                               *)

\* The steps of run_due_schedules left: three for each row it has listed.
StepsLeft == 3 * Cardinality(due) + (CASE hand.at = "idle" -> 0
                                       [] hand.at = "execute" -> 2
                                       [] OTHER -> 1)

DueIsFinite == IsFiniteSet(due) /\ Cardinality(due) <= Cardinality(Schedules)

LEMMA ListIsFinite ==
  ASSUME IsFiniteSet(Schedules), List
  PROVE  DueIsFinite'
<1> DEFINE D == {x \in Schedules : IsDue(rows[x])}
           f == [s \in D |-> [id |-> s, row |-> rows[s]]]
<1>1. IsFiniteSet(D) /\ Cardinality(D) <= Cardinality(Schedules)
  BY FS_Subset
<1>2. due' = {[id |-> s, row |-> rows[s]] : s \in D}
  BY DEF List
<1>3. f \in Surjection(D, due')
  BY <1>2 DEF Surjection
<1> HIDE DEF D, f
<1>4. IsFiniteSet(due') /\ Cardinality(due') <= Cardinality(D)
  BY <1>1, <1>3, FS_Surjection
<1>5. /\ Cardinality(due') \in Nat /\ Cardinality(D) \in Nat
      /\ Cardinality(Schedules) \in Nat
  BY <1>1, <1>4, FS_CardinalityType
<1> QED
  BY <1>1, <1>4, <1>5 DEF DueIsFinite

LEMMA TakeIsFinite ==
  ASSUME IsFiniteSet(Schedules), DueIsFinite, Take
  PROVE  /\ DueIsFinite' /\ Cardinality(due') = Cardinality(due) - 1
         /\ hand.at = "idle" /\ hand' # Idle /\ hand'.at = "execute"
<1>1. PICK c \in due : due' = due \ {c} /\ hand' = [at |-> "execute", copy |-> c]
  BY DEF Take
<1>2. IsFiniteSet(due') /\ Cardinality(due') = Cardinality(due) - 1
  BY <1>1, FS_RemoveElement DEF DueIsFinite
<1>3. Cardinality(due) \in Nat /\ Cardinality(Schedules) \in Nat
  BY FS_CardinalityType DEF DueIsFinite
<1>4. DueIsFinite'
  BY <1>2, <1>3 DEF DueIsFinite
<1>5. hand.at = "idle" /\ hand' # Idle /\ hand'.at = "execute"
  BY <1>1 DEF Take, Idle
<1> QED
  BY <1>2, <1>4, <1>5

LEMMA PassStep ==
  ASSUME IsFiniteSet(Schedules), TypeOK, DueIsFinite, [Next]_vars
  PROVE  /\ DueIsFinite'
         /\ List => StepsLeft' <= 3 * Cardinality(Schedules)
         /\ Step /\ ~List => StepsLeft' < StepsLeft
         /\ Crash => StepsLeft' = 0
         /\ ~(Step \/ Crash) => StepsLeft' = StepsLeft
<1> DEFINE N == Cardinality(Schedules)
           d == Cardinality(due)
           Bound == /\ DueIsFinite'
                    /\ List => StepsLeft' <= 3 * N
                    /\ Step /\ ~List => StepsLeft' < StepsLeft
                    /\ Crash => StepsLeft' = 0
                    /\ ~(Step \/ Crash) => StepsLeft' = StepsLeft
<1>1. d \in Nat /\ N \in Nat
  BY FS_CardinalityType DEF DueIsFinite
<1>2. hand # Idle => hand.at \in {"execute", "mark"} /\ hand.at # "idle"
  BY DEF TypeOK, Idle
<1>3. hand = Idle => hand.at = "idle"
  BY DEF Idle
<1>4. CASE List
  <2>1. DueIsFinite' /\ hand'.at = "idle" /\ hand = Idle
    BY <1>3, <1>4, ListIsFinite DEF List
  <2>2. Cardinality(due') <= N /\ Cardinality(due') \in Nat
    BY <2>1, FS_CardinalityType DEF DueIsFinite
  <2>3. StepsLeft' <= 3 * N
    BY <1>1, <2>1, <2>2 DEF StepsLeft
  <2>4. ~Crash
    <3>1. due' # {}
      BY <1>4 DEF List
    <3> QED
      BY <3>1 DEF Crash
  <2> QED
    BY <1>4, <2>1, <2>3, <2>4 DEF Step
<1>5. CASE Take
  <2>1. /\ DueIsFinite' /\ Cardinality(due') = d - 1
        /\ hand.at = "idle" /\ hand' # Idle /\ hand'.at = "execute"
    BY <1>5, TakeIsFinite
  <2>2. StepsLeft' < StepsLeft
    BY <1>1, <2>1 DEF StepsLeft
  <2>3. ~List /\ ~Crash
    BY <2>1 DEF List, Crash
  <2> QED
    BY <1>5, <2>1, <2>2, <2>3 DEF Step
<1>6. CASE Execute \/ ExecuteFails
  <2>1. /\ due' = due /\ hand.at = "execute" /\ hand # Idle
        /\ hand' = [hand EXCEPT !.at = "mark"]
    BY <1>3, <1>6 DEF Execute, ExecuteFails
  <2>2. hand' # Idle /\ hand'.at = "mark"
    <3>1. hand \in [at : {"execute", "mark"}, copy : Copy]
      BY <2>1 DEF TypeOK
    <3>2. hand'.at = "mark"
      BY <2>1, <3>1
    <3> QED
      BY <3>2 DEF Idle
  <2>3. StepsLeft' < StepsLeft
    BY <1>1, <2>1, <2>2 DEF StepsLeft
  <2>4. ~List /\ ~Crash
    BY <2>1, <2>2 DEF List, Crash
  <2> QED
    BY <1>6, <2>1, <2>3, <2>4 DEF Step, DueIsFinite
<1>7. CASE Mark
  <2>1. due' = due /\ hand.at = "mark" /\ hand # Idle /\ hand'.at = "idle"
    BY <1>3, <1>7 DEF Mark, Idle
  <2>2. StepsLeft' < StepsLeft
    BY <1>1, <2>1 DEF StepsLeft
  <2>3. ~List
    BY <2>1 DEF List
  <2>4. ~Crash
    <3>1. crashes' = crashes /\ crashes \in Int
      BY <1>7 DEF Mark, TypeOK
    <3> QED
      BY <3>1 DEF Crash
  <2> QED
    BY <1>7, <2>1, <2>2, <2>3, <2>4 DEF Step, DueIsFinite
<1>8. CASE Crash
  <2>1. due' = {} /\ hand'.at = "idle"
    BY <1>8 DEF Crash, Idle
  <2>2. DueIsFinite' /\ StepsLeft' = 0
    BY <1>1, <2>1, FS_EmptySet DEF DueIsFinite, StepsLeft
  <2>3. ~Step
    <3>1. crashes' = crashes + 1 /\ crashes \in Int
      BY <1>8 DEF Crash, TypeOK
    <3>2. Step => crashes' = crashes
      BY DEF Step, List, Take, Execute, ExecuteFails, Mark, bounds
    <3> QED
      BY <3>1, <3>2
  <2> QED
    BY <1>8, <2>2, <2>3 DEF Step
<1>9. CASE ~(Step \/ Crash)
  <2>1. UNCHANGED <<due, hand>>
    BY <1>9 DEF Next, Tick, SetBack, Edit, vars
  <2> QED
    BY <1>9, <2>1 DEF StepsLeft, DueIsFinite, Step
<1> QED
  BY <1>4, <1>5, <1>6, <1>7, <1>8, <1>9 DEF Step

\* A pass of run_due_schedules comes to its end, so that the loop looks again for what
\* is due (the other half of DueIsServed): it has three steps for each of the
\* rows it listed, each of them uses one, also those that fail, and no edit, no
\* clock and no other schedule adds one.
THEOREM PassRunsOut ==
  ASSUME CalendarAssumption, BoundsAssumption, IsFiniteSet(Schedules)
  PROVE  /\ Spec => [](StepsLeft \in Nat)
         /\ Spec => [][/\ List => StepsLeft' <= 3 * Cardinality(Schedules)
                       /\ Step /\ ~List => StepsLeft' < StepsLeft
                       /\ Crash => StepsLeft' = 0
                       /\ ~(Step \/ Crash) => StepsLeft' = StepsLeft]_vars
<1> DEFINE Shorter == /\ List => StepsLeft' <= 3 * Cardinality(Schedules)
                      /\ Step /\ ~List => StepsLeft' < StepsLeft
                      /\ Crash => StepsLeft' = 0
                      /\ ~(Step \/ Crash) => StepsLeft' = StepsLeft
<1>1. Init => DueIsFinite
  <2>1. Cardinality(Schedules) \in Nat
    BY FS_CardinalityType
  <2> QED
    BY <2>1, FS_EmptySet DEF Init, DueIsFinite
<1>2. TypeOK /\ DueIsFinite /\ [Next]_vars => DueIsFinite'
  BY PassStep
<1>3. Spec => []DueIsFinite
  BY <1>1, <1>2, SchedulerTypes, PTL DEF Spec
<1>4. DueIsFinite => StepsLeft \in Nat
  BY FS_CardinalityType DEF DueIsFinite, StepsLeft
<1>5. TypeOK /\ DueIsFinite /\ [Next]_vars => [Shorter]_vars
  BY PassStep
<1>6. Spec => [][Shorter]_vars
  BY <1>3, <1>5, SchedulerTypes, PTL DEF Spec
<1> QED
  BY <1>3, <1>4, <1>6, PTL
=============================================================================
