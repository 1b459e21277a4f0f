----------------------- MODULE HwTimerPunctual_proofs -----------------------
(***************************************************************************)
(* When timers fire, for any number of timers, any intervals, any lateness *)
(* of the interrupt and any load delta.                                    *)
(*                                                                         *)
(* A timer's wait is the sum of the times up to it, less what has passed   *)
(* since the hardware timer was started.  The two histories stay within    *)
(* Delta ticks of it: latest is no less, and soonest no more, but for one  *)
(* tick behind a head of time 0, for which the hardware timer is loaded    *)
(* with one tick.  So each restart of the hardware timer, whatever it adds *)
(* or takes, is paid for by what the histories are charged with.           *)
(***************************************************************************)
EXTENDS HwTimerPunctual, HwTimerList_proofs

\* The ticks from the start of the hardware timer to the expiry of each timer.
Waits == [i \in 0..Len(active) |-> TimeUpTo(active, i)]

WaitsInv ==
  /\ Len(active) \in Nat /\ Waits[0] = 0
  /\ \A i \in 0..Len(active) : Waits[i] \in Nat
  /\ \A i \in 1..Len(active) :
       active[i] \in Timer /\ Waits[i] = Waits[i - 1] + time[active[i]]

HeadTime == time[Head(active)]

\* How the hardware timer was loaded for the head.
LoadInv ==
  active # <<>> =>
    /\ hw.since <= HeadTime + MaxLate
    /\ hw.left > 0 =>
         hw.left + hw.since = IF HeadTime > Delta THEN HeadTime - Delta ELSE 1

HistoryType == latest \in [Timer -> Int] /\ soonest \in [Timer -> Int]

Slack == IF HeadTime = 0 THEN 1 ELSE 0

LateInv ==
  \A i \in 1..Len(active) : latest[active[i]] >= Waits[i] - hw.since - Delta

EarlyInv ==
  \A i \in 1..Len(active) : soonest[active[i]] <= Waits[i] - hw.since - Delta + Slack

TimedInv == HistoryType /\ LoadInv /\ LateInv /\ EarlyInv

----------------------------------------------------------------------------
(* Waits. *)

LEMMA WaitsAre == Parts => WaitsInv
<1> SUFFICES ASSUME Parts PROVE WaitsInv
  OBVIOUS
<1>1. active \in Seq(Timer) /\ Len(active) \in Nat /\ \A i \in 1..Len(active) : active[i] \in Timer
  BY Typed, LenProperties, ElementOfSeq
<1>2. /\ TimeUpTo(active, 0) = 0
      /\ \A i \in 0..Len(active) : TimeUpTo(active, i) \in Nat
      /\ \A i \in 1..Len(active) :
           TimeUpTo(active, i) = TimeUpTo(active, i - 1) + time[active[i]]
  BY <1>1, Typed, TimeUpToIs
<1>3. \A i \in 0..Len(active) : Waits[i] = TimeUpTo(active, i)
  BY DEF Waits
<1>4. \A i \in 1..Len(active) : i \in 0..Len(active) /\ i - 1 \in 0..Len(active)
  BY <1>1
<1> QED
  BY <1>1, <1>2, <1>3, <1>4 DEF WaitsInv

LEMMA NextWaitsAre == Parts' => WaitsInv'
BY WaitsAre, PTL

\* Two lists of sums with the same steps from some place on.
Alike(f, g, a, n, k) ==
  /\ \A i \in a..n : f[i] \in Int /\ g[i + k] \in Int
  /\ \A i \in a + 1..n : f[i] - f[i - 1] = g[i + k] - g[i + k - 1]

Shifted(f, g, a, n, k) == \A i \in a..n : f[i] - f[a] = g[i + k] - g[a + k]

LEMMA SameSteps ==
  ASSUME NEW f, NEW g, NEW a \in Nat, NEW n \in Nat, NEW k \in Int, Alike(f, g, a, n, k)
  PROVE  Shifted(f, g, a, n, k)
<1> DEFINE Bad == {i \in a..n : f[i] - f[a] # g[i + k] - g[a + k]}
<1> SUFFICES ASSUME Bad # {} PROVE FALSE
  BY DEF Shifted
<1>1. Bad \in SUBSET Nat
  OBVIOUS
<1>2. PICK m \in Bad : \A i \in Bad : m <= i
  BY <1>1, LeastNatural
<1>3. m \in a..n /\ f[m] - f[a] # g[m + k] - g[a + k]
  BY <1>2
<1>4. a \in a..n
  BY <1>3
<1>5. m # a
  BY <1>3, <1>4 DEF Alike
<1>6. m \in a + 1..n /\ m - 1 \in a..n /\ ~(m <= m - 1) /\ m - 1 + k = m + k - 1
  BY <1>3, <1>5
<1>7. m - 1 \notin Bad
  <2> HIDE DEF Bad
  <2> QED
    BY <1>2, <1>6, Zenon
<1>8. f[m - 1] - f[a] = g[m - 1 + k] - g[a + k]
  BY <1>6, <1>7
<1>9. /\ f[m] \in Int /\ f[m - 1] \in Int /\ f[a] \in Int
      /\ g[m + k] \in Int /\ g[m - 1 + k] \in Int /\ g[a + k] \in Int
  BY <1>3, <1>4, <1>6 DEF Alike
<1>10. f[m] - f[m - 1] = g[m + k] - g[m - 1 + k]
  BY <1>6 DEF Alike
<1> QED
  BY <1>3, <1>8, <1>9, <1>10

\* Waits grow along the list.
LEMMA WaitsGrow ==
  ASSUME Parts, NEW i \in 0..Len(active), NEW j \in 0..Len(active), i <= j
  PROVE  Waits[i] <= Waits[j]
<1> DEFINE Bad == {m \in i..Len(active) : ~(Waits[i] <= Waits[m])}
<1>1. Len(active) \in Nat /\ WaitsInv
  BY WaitsAre DEF WaitsInv
<1>2. Bad = {}
  <2> SUFFICES ASSUME Bad # {} PROVE FALSE
    OBVIOUS
  <2>1. Bad \in SUBSET Nat
    BY <1>1
  <2>2. PICK m \in Bad : \A l \in Bad : m <= l
    BY <2>1, LeastNatural
  <2>3. m \in i..Len(active) /\ ~(Waits[i] <= Waits[m]) /\ Waits[i] \in Nat
    BY <1>1, <2>2 DEF WaitsInv
  <2>4. m # i
    BY <2>3
  <2>5. m \in 1..Len(active) /\ m - 1 \in 0..Len(active) /\ m - 1 \in i..Len(active)
        /\ ~(m <= m - 1)
    BY <1>1, <2>3, <2>4
  <2>6. m - 1 \notin Bad
    <3> HIDE DEF Bad
    <3> QED
      BY <2>2, <2>5, Zenon
  <2>7. Waits[i] <= Waits[m - 1]
    BY <2>5, <2>6
  <2>8. Waits[m] = Waits[m - 1] + time[active[m]] /\ time[active[m]] \in Nat /\ Waits[m - 1] \in Nat
    BY <1>1, <2>5, Typed DEF WaitsInv, Timed
  <2> QED
    BY <2>3, <2>7, <2>8
<1> QED
  BY <1>1, <1>2

\* The waits in the list behind the head.
LEMMA TailWaits ==
  ASSUME Parts, active # <<>>
  PROVE  /\ Waits[1] = HeadTime /\ HeadTime \in Nat
         /\ \A i \in 0..Len(active) - 1 : TimeUpTo(Tail(active), i) = Waits[i + 1] - HeadTime
<1> DEFINE rest == Tail(active)
           f    == [i \in 0..Len(rest) |-> TimeUpTo(rest, i)]
<1>1. /\ Len(active) \in Nat \ {0} /\ Head(active) = active[1] /\ Head(active) \in Timer
      /\ rest \in Seq(Timer) /\ Len(rest) = Len(active) - 1
      /\ \A i \in 1..Len(active) - 1 : rest[i] = active[i + 1]
  BY TailFacts
<1>2. WaitsInv /\ Timed
  BY WaitsAre, Typed
<1>3. HeadTime \in Nat
  BY <1>1, <1>2 DEF HeadTime, Timed
<1>4. Waits[1] = HeadTime
  <2>1. 1 \in 1..Len(active)
    BY <1>1
  <2>2. Waits[1] = Waits[1 - 1] + time[active[1]]
    BY <1>2, <2>1 DEF WaitsInv
  <2> QED
    BY <1>1, <1>2, <1>3, <2>2 DEF WaitsInv, HeadTime
<1>5. /\ TimeUpTo(rest, 0) = 0
      /\ \A n \in 0..Len(rest) : TimeUpTo(rest, n) \in Nat
      /\ \A n \in 1..Len(rest) : TimeUpTo(rest, n) = TimeUpTo(rest, n - 1) + time[rest[n]]
  BY <1>1, <1>2, TimeUpToIs
<1> HIDE DEF rest
<1>6. \A i \in 0..Len(rest) : f[i] = TimeUpTo(rest, i)
  OBVIOUS
<1> HIDE DEF f
<1>7. \A i \in 0..Len(rest) : f[i] \in Int /\ Waits[i + 1] \in Int
  <2> SUFFICES ASSUME NEW i \in 0..Len(rest) PROVE f[i] \in Int /\ Waits[i + 1] \in Int
    OBVIOUS
  <2>1. i + 1 \in 0..Len(active)
    BY <1>1
  <2> QED
    BY <1>2, <1>5, <1>6, <2>1 DEF WaitsInv
<1>8. \A i \in 0 + 1..Len(rest) : f[i] - f[i - 1] = Waits[i + 1] - Waits[i + 1 - 1]
  <2> SUFFICES ASSUME NEW i \in 1..Len(rest)
               PROVE  f[i] - f[i - 1] = Waits[i + 1] - Waits[i + 1 - 1]
    OBVIOUS
  <2>1. i \in 0..Len(rest) /\ i - 1 \in 0..Len(rest) /\ i + 1 \in 1..Len(active)
        /\ i \in 0..Len(active) /\ i + 1 - 1 = i
    BY <1>1
  <2>2. f[i] = f[i - 1] + time[active[i + 1]]
    BY <1>1, <1>5, <1>6, <2>1
  <2>3. Waits[i + 1] = Waits[i] + time[active[i + 1]] /\ active[i + 1] \in Timer
    BY <1>2, <2>1 DEF WaitsInv
  <2>4. time[active[i + 1]] \in Nat /\ f[i - 1] \in Int /\ Waits[i] \in Nat
    BY <1>2, <1>7, <2>1, <2>3 DEF WaitsInv, Timed
  <2> QED
    BY <2>1, <2>2, <2>3, <2>4
<1>9. Len(rest) \in Nat /\ 0 \in Nat /\ 1 \in Int /\ 0 \in 0..Len(rest)
  BY <1>1
<1>10. \A i \in 0..Len(rest) : f[i] - f[0] = Waits[i + 1] - Waits[0 + 1]
  <2>1. Alike(f, Waits, 0, Len(rest), 1)
    BY <1>7, <1>8 DEF Alike
  <2>2. Shifted(f, Waits, 0, Len(rest), 1)
    BY <1>9, <2>1, SameSteps, Zenon
  <2> QED
    BY <2>2 DEF Shifted
<1>11. ASSUME NEW i \in 0..Len(rest) PROVE TimeUpTo(rest, i) = Waits[i + 1] - HeadTime
  <2>1. f[i] - f[0] = Waits[i + 1] - Waits[1] /\ f[i] = TimeUpTo(rest, i) /\ f[0] = 0
    BY <1>5, <1>6, <1>9, <1>10
  <2> QED
    BY <1>3, <1>4, <1>7, <2>1
<1> QED
  BY <1>1, <1>3, <1>4, <1>11 DEF rest

\* Timers of the old list that follow each other in the new one, k places on,
\* with their times: their waits change by the same.
Moved(a, n, k) ==
  /\ a <= n /\ n <= Len(active) /\ 0 <= a + k /\ n + k <= Len(active')
  /\ \A i \in a + 1..n : active'[i + k] = active[i] /\ time'[active[i]] = time[active[i]]

MovedWaits(a, n, k) ==
  \A i \in a..n : Waits'[i + k] = Waits[i] - (Waits[a] - Waits'[a + k])

LEMMA SameMoves ==
  ASSUME Parts, Parts', NEW a \in Nat, NEW n \in Nat, NEW k \in Int, Moved(a, n, k)
  PROVE  MovedWaits(a, n, k)
<1>1. /\ Len(active) \in Nat
      /\ \A i \in 0..Len(active) : Waits[i] \in Nat
      /\ \A i \in 1..Len(active) :
           active[i] \in Timer /\ Waits[i] = Waits[i - 1] + time[active[i]]
  BY WaitsAre DEF WaitsInv
<1>2. /\ Len(active') \in Nat
      /\ \A i \in 0..Len(active') : Waits'[i] \in Nat
      /\ \A i \in 1..Len(active') : Waits'[i] = Waits'[i - 1] + time'[active'[i]]
  BY NextWaitsAre DEF WaitsInv
<1>3. \A i \in a..n : /\ i \in 0..Len(active) /\ i + k \in 0..Len(active')
                      /\ Waits[i] \in Int /\ Waits'[i + k] \in Int
  <2> SUFFICES ASSUME NEW i \in a..n
               PROVE  /\ i \in 0..Len(active) /\ i + k \in 0..Len(active')
                      /\ Waits[i] \in Int /\ Waits'[i + k] \in Int
    OBVIOUS
  <2>1. i \in 0..Len(active) /\ i + k \in 0..Len(active')
    BY <1>1, <1>2 DEF Moved
  <2> QED
    BY <1>1, <1>2, <2>1
<1>4. ASSUME NEW i \in a + 1..n
      PROVE  Waits[i] - Waits[i - 1] = Waits'[i + k] - Waits'[i + k - 1]
  <2> DEFINE j == i + k
  <2>1. /\ i \in 1..Len(active) /\ j \in 1..Len(active') /\ i - 1 \in a..n
        /\ (i - 1) + k = j - 1
    BY <1>1, <1>2 DEF Moved
  <2>2. active'[j] = active[i] /\ time'[active[i]] = time[active[i]]
    BY DEF Moved
  <2> HIDE DEF j
  <2>3. Waits[i] = Waits[i - 1] + time[active[i]] /\ active[i] \in Timer
    BY <1>1, <2>1
  <2>4. Waits'[j] = Waits'[j - 1] + time[active[i]]
    BY <1>2, <2>1, <2>2
  <2>5. Waits[i - 1] \in Int /\ Waits'[j - 1] \in Int
    BY <1>3, <2>1
  <2>6. time[active[i]] \in Nat
    BY <2>3, Typed DEF Timed
  <2>7. Waits[i] - Waits[i - 1] = Waits'[j] - Waits'[j - 1]
    BY <2>3, <2>4, <2>5, <2>6
  <2> QED
    BY <2>7 DEF j
<1>5. Alike(Waits, Waits', a, n, k)
  BY <1>3, <1>4 DEF Alike
<1>6. Shifted(Waits, Waits', a, n, k)
  BY <1>5, SameSteps, Zenon
<1>7. a \in a..n
  BY DEF Moved
<1>8. ASSUME NEW i \in a..n
      PROVE  Waits'[i + k] = Waits[i] - (Waits[a] - Waits'[a + k])
  <2>1. Waits[i] - Waits[a] = Waits'[i + k] - Waits'[a + k]
    BY <1>6 DEF Shifted
  <2>2. /\ Waits[i] \in Int /\ Waits'[i + k] \in Int
        /\ Waits[a] \in Int /\ Waits'[a + k] \in Int
    BY <1>3, <1>7
  <2>3. Waits'[i + k] = Waits[i] - (Waits[a] - Waits'[a + k])
    BY <2>1, <2>2
  <2> QED
    BY <2>3
<1> QED
  BY <1>8 DEF MovedWaits

\* The first places of the list as they were.
LEMMA SameFront ==
  ASSUME Parts, Parts', NEW n \in Nat, Moved(0, n, 0)
  PROVE  \A i \in 0..n : Waits'[i] = Waits[i]
<1>1. MovedWaits(0, n, 0)
  BY SameMoves
<1>2. Waits[0] = 0 /\ Waits'[0] = 0 /\ \A i \in 0..n : Waits[i] \in Nat
  <2>1. Len(active) \in Nat /\ n <= Len(active)
    BY WaitsAre DEF WaitsInv, Moved
  <2> QED
    BY <2>1, WaitsAre, NextWaitsAre DEF WaitsInv
<1>3. ASSUME NEW i \in 0..n PROVE Waits'[i] = Waits[i]
  <2>1. Waits'[i] = Waits[i] - (Waits[0] - Waits'[0])
    <3>1. Waits'[i + 0] = Waits[i] - (Waits[0] - Waits'[0 + 0])
      BY <1>1 DEF MovedWaits
    <3>2. i + 0 = i /\ 0 + 0 = 0
      OBVIOUS
    <3> QED
      BY <3>1, <3>2
  <2>2. Waits[i] \in Nat
    BY <1>2
  <2>3. Waits'[i] = Waits[i]
    BY <1>2, <2>1, <2>2
  <2> QED
    BY <2>3
<1> QED
  BY <1>3

\* The wait at a place of the new list.
LEMMA NextWait ==
  ASSUME Parts', NEW i \in 1..Len(active')
  PROVE  Waits'[i] = Waits'[i - 1] + time'[active'[i]]
BY NextWaitsAre DEF WaitsInv


\* A timer in front of the head.
LEMMA StartFirstWaits ==
  ASSUME Parts, Parts', NEW t \in Timer, t \notin ToSet(active), NEW ticks \in Nat,
         StartFirst(t, ticks)
  PROVE  /\ Len(active') = Len(active) + 1 /\ active'[1] = t /\ Waits'[1] = ticks
         /\ \A i \in 1..Len(active) :
              active'[i + 1] = active[i] /\ Waits'[i + 1] = Waits[i] - (HeadTime - hw.left)
<1>1. /\ active' = <<t>> \o active /\ active # <<>> /\ hw.left > ticks
      /\ time' = [time EXCEPT ![t] = ticks, ![Head(active)] = hw.left - ticks]
  BY Zenon DEF StartFirst
<1>2. /\ Len(active) \in Nat \ {0} /\ Head(active) = active[1] /\ Head(active) \in Timer
      /\ \A i \in 1..Len(active) : active[i] \in Timer
      /\ \A i, j \in 1..Len(active) : active[i] = active[j] => i = j
  BY <1>1, TailFacts
<1>3. /\ Len(active') = Len(active) + 1 /\ active'[1] = t
      /\ \A i \in 1..Len(active) : active'[i + 1] = active[i]
  BY <1>1, Typed
<1>4. \A i \in 1..Len(active) : active[i] # t
  BY Typed, ElementsOfList
<1>5. Timed /\ hw.left \in Nat
  BY Typed DEF HwType
<1>6. Waits[1] = HeadTime /\ HeadTime \in Nat
  BY <1>1, TailWaits
<1>7. /\ time'[t] = ticks /\ time'[active[1]] = hw.left - ticks
      /\ \A i \in 2..Len(active) : time'[active[i]] = time[active[i]]
  <2>1. active[1] \in Timer /\ active[1] # t
    BY <1>2, <1>4
  <2>2. \A i \in 2..Len(active) : active[i] \in Timer /\ active[i] # t /\ active[i] # active[1]
    BY <1>2, <1>4
  <2> QED
    BY <1>1, <1>2, <1>5, <2>1, <2>2 DEF Timed
<1>8. Waits'[1] = ticks /\ Waits'[2] = hw.left
  <2>1. 1 \in 1..Len(active') /\ 2 \in 1..Len(active') /\ 1 \in 1..Len(active)
    BY <1>2, <1>3
  <2>2. Waits'[1] = Waits'[1 - 1] + time'[active'[1]]
        /\ Waits'[2] = Waits'[2 - 1] + time'[active'[2]]
        /\ Waits'[0] = 0
    BY <2>1, NextWait, NextWaitsAre DEF WaitsInv
  <2>3. active'[2] = active[1]
    BY <1>3, <2>1
  <2>4. Waits'[1] = ticks
    BY <1>3, <1>7, <2>2
  <2>5. Waits'[2] = Waits'[1] + (hw.left - ticks)
    BY <1>7, <2>2, <2>3
  <2> QED
    BY <1>5, <2>4, <2>5
<1>9. MovedWaits(1, Len(active), 1)
  <2>1. Moved(1, Len(active), 1)
    BY <1>2, <1>3, <1>7 DEF Moved
  <2> QED
    BY <1>2, <2>1, SameMoves
<1>10. ASSUME NEW i \in 1..Len(active) PROVE Waits'[i + 1] = Waits[i] - (HeadTime - hw.left)
  <2>1. Waits'[i + 1] = Waits[i] - (Waits[1] - Waits'[1 + 1])
    BY <1>9 DEF MovedWaits
  <2>2. Waits'[i + 1] = Waits[i] - (HeadTime - hw.left)
    BY <1>6, <1>8, <2>1
  <2> QED
    BY <2>2
<1> QED
  BY <1>3, <1>8, <1>10

\* A timer behind the head.
LEMMA StartLaterWaits ==
  ASSUME Parts, Parts', NEW t \in Timer, t \notin ToSet(active), NEW ticks \in Nat,
         StartLater(t, ticks)
  PROVE  \E p \in 2..Len(active) + 1 :
           /\ Len(active') = Len(active) + 1 /\ active'[p] = t
           /\ Waits'[p] = HeadTime + (ticks - hw.left)
           /\ \A i \in 1..p - 1 : active'[i] = active[i] /\ Waits'[i] = Waits[i]
           /\ \A i \in p..Len(active) : active'[i + 1] = active[i] /\ Waits'[i + 1] = Waits[i]
<1> DEFINE rest  == Tail(active)
           n     == DueBefore(rest, ticks - hw.left)
           after == ticks - hw.left - TimeUpTo(rest, n)
           p     == n + 2
<1>1. /\ active # <<>> /\ hw.left <= ticks
      /\ active' = InsertAt(active, n + 2, t)
      /\ time' = [u \in Timer |->
                    IF u = t THEN after
                    ELSE IF n < Len(rest) /\ u = rest[n + 1] THEN time[u] - after
                    ELSE time[u]]
  BY Zenon DEF StartLater
<1>2. /\ Len(active) \in Nat \ {0} /\ Head(active) = active[1]
      /\ rest \in Seq(Timer) /\ Len(rest) = Len(active) - 1
      /\ \A i \in 1..Len(active) - 1 : rest[i] = active[i + 1]
      /\ \A i \in 1..Len(active) : active[i] \in Timer
      /\ \A i, j \in 1..Len(active) : active[i] = active[j] => i = j
  BY <1>1, TailFacts
<1>3. \A i \in 1..Len(active) : active[i] # t
  BY Typed, ElementsOfList
<1>4. hw.left \in Nat /\ ticks - hw.left \in Nat /\ Timed
  BY <1>1, Typed DEF HwType
<1>5. n \in 0..Len(rest)
  BY <1>2, <1>4, DueBeforeIs
<1>6. /\ Waits[1] = HeadTime /\ HeadTime \in Nat
      /\ \A i \in 0..Len(active) - 1 : TimeUpTo(rest, i) = Waits[i + 1] - HeadTime
  BY <1>1, TailWaits
<1>7. \A i \in 0..Len(active) : Waits[i] \in Nat
  BY WaitsAre DEF WaitsInv
<1>8. after \in Int
  <2>1. TimeUpTo(rest, n) \in Nat
    BY <1>2, <1>4, <1>5, TimeUpToIs
  <2> QED
    BY <1>4, <2>1
<1>9. after = ticks - hw.left - (Waits[n + 1] - HeadTime)
  BY <1>2, <1>5, <1>6
<1> HIDE DEF rest, n, after
<1>10. p \in 2..Len(active) + 1 /\ p \in 1..Len(active) + 1 /\ n + 1 = p - 1
       /\ p - 1 \in 1..Len(active)
       /\ p - 1 \in 0..Len(active) /\ p = n + 2
  BY <1>2, <1>5
<1>11. /\ Len(active') = Len(active) + 1
       /\ \A j \in 1..Len(active) + 1 :
            active'[j] = IF j < p THEN active[j] ELSE IF j = p THEN t ELSE active[j - 1]
  <2>1. Inserted(InsertAt(active, p, t), active, p, t)
    BY <1>10, Typed, InsertAtProperties, Zenon
  <2>2. active' = InsertAt(active, p, t)
    BY <1>1
  <2> QED
    BY <2>1, <2>2 DEF Inserted
<1>12. /\ time'[t] = after
       /\ p <= Len(active) => time'[active[p]] = time[active[p]] - after
       /\ \A i \in 1..Len(active) : i # p => time'[active[i]] = time[active[i]]
  <2>1. n < Len(rest) <=> p <= Len(active)
    BY <1>2, <1>5, <1>10
  <2>2. p <= Len(active) => p \in 1..Len(active) /\ rest[n + 1] = active[p]
    BY <1>2, <1>5, <1>10
  <2>3. \A u \in Timer :
          time'[u] = IF u = t THEN after
                     ELSE IF p <= Len(active) /\ u = active[p] THEN time[u] - after
                     ELSE time[u]
    BY <1>1, <2>1, <2>2
  <2> HIDE DEF p
  <2>4. p <= Len(active) => active[p] # t /\ active[p] \in Timer
    BY <1>2, <1>3, <2>2
  <2>5. ASSUME NEW i \in 1..Len(active), i # p PROVE time'[active[i]] = time[active[i]]
    <3>1. active[i] \in Timer /\ active[i] # t /\ ~(p <= Len(active) /\ active[i] = active[p])
      BY <1>2, <1>3, <2>2, <2>5
    <3> QED
      BY <2>3, <3>1
  <2> QED
    BY <2>3, <2>4, <2>5
<1> HIDE DEF p
<1>13. \A i \in 0..p - 1 : Waits'[i] = Waits[i]
  <2>1. Moved(0, p - 1, 0)
    <3> SUFFICES ASSUME NEW i \in 1..p - 1
                 PROVE  active'[i] = active[i] /\ time'[active[i]] = time[active[i]]
      BY <1>2, <1>10, <1>11 DEF Moved
    <3>1. i \in 1..Len(active) /\ i \in 1..Len(active) + 1 /\ i < p /\ i # p
      BY <1>2, <1>10
    <3> QED
      BY <1>11, <1>12, <3>1
  <2> QED
    BY <1>2, <1>10, <2>1, SameFront
<1>14. Waits'[p] = HeadTime + (ticks - hw.left)
  <2>1. Waits'[p] = Waits'[p - 1] + time'[active'[p]]
    BY <1>10, <1>11, NextWait
  <2>2. active'[p] = t /\ Waits'[p - 1] = Waits[p - 1]
    BY <1>10, <1>11, <1>13
  <2>3. Waits'[p] = Waits[p - 1] + after
    BY <1>12, <2>1, <2>2
  <2>4. Waits[p - 1] \in Nat /\ after = ticks - hw.left - (Waits[p - 1] - HeadTime)
    BY <1>7, <1>9, <1>10
  <2> QED
    BY <1>4, <1>6, <2>3, <2>4
<1>15. ASSUME NEW i \in p..Len(active)
       PROVE  active'[i + 1] = active[i] /\ Waits'[i + 1] = Waits[i]
  <2>1. p \in 1..Len(active) /\ p \in 0..Len(active) /\ p + 1 \in 1..Len(active') /\ (p + 1) - 1 = p
        /\ p \in Nat /\ p <= Len(active)
    BY <1>2, <1>10, <1>11
  <2>2. \A j \in p..Len(active) : /\ j \in 1..Len(active) /\ j + 1 \in 1..Len(active) + 1
                                  /\ ~(j + 1 < p) /\ j + 1 # p /\ (j + 1) - 1 = j
    BY <1>2, <1>10
  <2>3. \A j \in p..Len(active) : active'[j + 1] = active[j]
    BY <1>11, <2>2
  <2>4. Waits'[p + 1] = Waits[p]
    <3>1. Waits'[p + 1] = Waits'[p] + time'[active'[p + 1]]
      BY <2>1, NextWait
    <3>2. active'[p + 1] = active[p] /\ time'[active[p]] = time[active[p]] - after
      BY <1>12, <2>1, <2>3
    <3>3. Waits[p] = Waits[p - 1] + time[active[p]] /\ active[p] \in Timer
      BY <2>1, WaitsAre DEF WaitsInv
    <3>4. Waits[p - 1] \in Nat /\ after = ticks - hw.left - (Waits[p - 1] - HeadTime)
          /\ time[active[p]] \in Nat
      BY <1>4, <1>7, <1>9, <1>10, <3>3 DEF Timed
    <3>5. Waits'[p + 1] = HeadTime + (ticks - hw.left) + (time[active[p]] - after)
      BY <1>14, <3>1, <3>2
    <3> DEFINE d == ticks - hw.left
    <3>6. /\ d \in Int /\ HeadTime \in Int /\ Waits[p - 1] \in Int
          /\ time[active[p]] \in Int /\ after \in Int
      BY <1>4, <1>6, <1>8, <3>4
    <3>7. after = d - (Waits[p - 1] - HeadTime)
          /\ Waits'[p + 1] = HeadTime + d + (time[active[p]] - after)
      BY <3>4, <3>5
    <3> HIDE DEF d
    <3>8. Waits'[p + 1] = Waits[p - 1] + time[active[p]]
      BY <3>6, <3>7
    <3> QED
      BY <3>3, <3>8
  <2>5. Moved(p, Len(active), 1)
    <3> SUFFICES ASSUME NEW j \in p + 1..Len(active)
                 PROVE  active'[j + 1] = active[j] /\ time'[active[j]] = time[active[j]]
      BY <1>2, <1>11, <2>1 DEF Moved
    <3>1. j \in p..Len(active) /\ j \in 1..Len(active) /\ j # p
      BY <2>1
    <3> QED
      BY <1>12, <2>3, <3>1
  <2>6. MovedWaits(p, Len(active), 1)
    BY <1>2, <2>1, <2>5, SameMoves
  <2>7. Waits'[i + 1] = Waits[i] - (Waits[p] - Waits'[p + 1])
    BY <2>6 DEF MovedWaits
  <2>8. Waits[i] \in Nat /\ Waits[p] \in Nat
    BY <1>7, <2>1, <2>2
  <2>9. Waits'[i + 1] = Waits[i]
    BY <2>4, <2>7, <2>8
  <2> QED
    BY <2>3, <2>9
<1>16. /\ active'[p] = t
       /\ \A i \in 1..p - 1 : active'[i] = active[i] /\ Waits'[i] = Waits[i]
  <2>1. \A i \in 1..p - 1 : i \in 0..p - 1 /\ i \in 1..Len(active) + 1 /\ i < p
    BY <1>2, <1>10
  <2> QED
    BY <1>10, <1>11, <1>13, <2>1
<1> QED
  BY <1>10, <1>11, <1>14, <1>15, <1>16

\* The first k timers leave the list, and the others wait c ticks less.
Shortened(k, c) ==
  /\ Len(active') = Len(active) - k
  /\ \A i \in 1..Len(active) - k : active'[i] = active[i + k] /\ Waits'[i] = Waits[i + k] - c

LEMMA StopHeadWaits ==
  ASSUME Parts, Parts', NEW t \in Timer, StopHead(t), Len(active) # 1
  PROVE  Shortened(1, HeadTime - hw.left) /\ active # <<>> /\ hw.left \in Nat \ {0}
<1>1. /\ active # <<>> /\ hw.left > 0 /\ active' = Tail(active)
      /\ time' = [time EXCEPT ![active[2]] = @ + hw.left]
  BY Zenon DEF StopHead
<1>2. /\ Len(active) \in Nat \ {0} /\ Len(Tail(active)) = Len(active) - 1
      /\ \A i \in 1..Len(active) - 1 : Tail(active)[i] = active[i + 1]
      /\ \A i \in 1..Len(active) : active[i] \in Timer
      /\ \A i, j \in 1..Len(active) : active[i] = active[j] => i = j
  BY <1>1, TailFacts
<1>3. /\ Len(active') = Len(active) - 1
      /\ \A i \in 1..Len(active) - 1 : active'[i] = active[i + 1]
      /\ 1 \in 1..Len(active) /\ 2 \in 1..Len(active) /\ 1 \in 1..Len(active')
  BY <1>1, <1>2
<1>4. Timed /\ hw.left \in Nat
  BY Typed DEF HwType
<1>5. Waits[1] = HeadTime /\ HeadTime \in Nat
  BY <1>1, TailWaits
<1>6. /\ time'[active[2]] = time[active[2]] + hw.left
      /\ \A i \in 3..Len(active) : time'[active[i]] = time[active[i]]
  <2>1. active[2] \in Timer /\ \A i \in 3..Len(active) : active[i] \in Timer /\ active[i] # active[2]
    BY <1>2, <1>3
  <2> QED
    BY <1>1, <1>4, <2>1 DEF Timed
<1>7. Waits'[1] = time[active[2]] + hw.left /\ time[active[2]] \in Nat
  <2>1. Waits'[1] = Waits'[1 - 1] + time'[active'[1]] /\ Waits'[0] = 0
    BY <1>3, NextWait, NextWaitsAre DEF WaitsInv
  <2>2. active'[1] = active[2] /\ time[active[2]] \in Nat
    BY <1>2, <1>3, <1>4 DEF Timed
  <2> QED
    BY <1>4, <1>6, <2>1, <2>2
<1>8. Waits[2] = HeadTime + time[active[2]]
  <2>1. Waits[2] = Waits[2 - 1] + time[active[2]]
    BY <1>3, WaitsAre DEF WaitsInv
  <2> QED
    BY <1>5, <2>1
<1>9. MovedWaits(2, Len(active), -1)
  <2>1. Moved(2, Len(active), -1)
    <3> SUFFICES ASSUME NEW i \in 3..Len(active)
                 PROVE  active'[i + (-1)] = active[i] /\ time'[active[i]] = time[active[i]]
      BY <1>2, <1>3 DEF Moved
    <3>1. i - 1 \in 1..Len(active) - 1 /\ (i - 1) + 1 = i /\ i + (-1) = i - 1
      BY <1>2
    <3> QED
      BY <1>3, <1>6, <3>1
  <2> QED
    BY <1>2, <2>1, SameMoves
<1>10. ASSUME NEW i \in 1..Len(active) - 1 PROVE Waits'[i] = Waits[i + 1] - (HeadTime - hw.left)
  <2>1. i + 1 \in 2..Len(active) /\ i + 1 \in 0..Len(active) /\ (i + 1) + (-1) = i /\ 2 + (-1) = 1
    BY <1>2
  <2>2. Waits'[i] = Waits[i + 1] - (Waits[2] - Waits'[1])
    <3>1. Waits'[(i + 1) + (-1)] = Waits[i + 1] - (Waits[2] - Waits'[2 + (-1)])
      BY <1>9, <2>1, Zenon DEF MovedWaits
    <3> QED
      BY <2>1, <3>1
  <2>3. Waits[2] - Waits'[1] = HeadTime - hw.left
    BY <1>4, <1>5, <1>7, <1>8
  <2> QED
    BY <2>2, <2>3
<1> QED
  BY <1>1, <1>3, <1>4, <1>10 DEF Shortened

\* The timers behind the head that are due with it.
LEMMA DueWaits ==
  ASSUME Parts, active # <<>>
  PROVE  LET d == DueWithin(Tail(active), Overrun)
             c == HeadTime + Overrun
         IN /\ d \in 0..Len(active) - 1 /\ c \in Nat
            /\ \A i \in 1..d + 1 : Waits[i] <= c
            /\ Overrun - TimeUpTo(Tail(active), d) = c - Waits[d + 1]
<1> DEFINE d == DueWithin(Tail(active), Overrun)
           c == HeadTime + Overrun
<1>1. /\ Len(active) \in Nat \ {0} /\ Len(Tail(active)) = Len(active) - 1
      /\ Tail(active) \in Seq(Timer) /\ Timed /\ Overrun \in Nat
  BY TailFacts, OverrunIs, Typed
<1>2. d \in 0..Len(Tail(active)) /\ TimeUpTo(Tail(active), d) <= Overrun
  BY <1>1, DueWithinIs
<1>3. /\ HeadTime \in Nat
      /\ \A i \in 0..Len(active) - 1 : TimeUpTo(Tail(active), i) = Waits[i + 1] - HeadTime
  BY TailWaits
<1> HIDE DEF d
<1>4. d \in 0..Len(active) - 1 /\ d + 1 \in 0..Len(active) /\ d + 1 \in 1..Len(active)
  BY <1>1, <1>2
<1>5. \A i \in 0..Len(active) : Waits[i] \in Nat
  BY WaitsAre DEF WaitsInv
<1>6. TimeUpTo(Tail(active), d) = Waits[d + 1] - HeadTime /\ Waits[d + 1] \in Nat
  BY <1>3, <1>4, <1>5
<1>7. Waits[d + 1] <= c /\ c \in Nat
  BY <1>1, <1>2, <1>3, <1>6
<1>8. ASSUME NEW i \in 1..d + 1 PROVE Waits[i] <= c
  <2>1. i \in 0..Len(active) /\ i <= d + 1
    BY <1>1, <1>4
  <2>2. Waits[i] <= Waits[d + 1] /\ Waits[i] \in Nat
    BY <1>4, <1>5, <2>1, WaitsGrow
  <2> QED
    BY <1>6, <1>7, <2>2
<1>9. Overrun - TimeUpTo(Tail(active), d) = c - Waits[d + 1]
  BY <1>1, <1>3, <1>6
<1> QED
  BY <1>4, <1>7, <1>8, <1>9 DEF d

\* Stopping an overdue head: what is due with it waits no more.
LEMMA StopExpiredWaits ==
  ASSUME Parts, Parts', NEW t \in Timer, StopExpiredHead(t)
  PROVE  LET c == HeadTime + Overrun IN
         /\ Len(active') = Len(active) - 1
         /\ \A i \in 1..Len(active) - 1 :
              /\ active'[i] = active[i + 1]
              /\ \/ Waits'[i] = Waits[i + 1] - c
                 \/ Waits'[i] = 0 /\ Waits[i + 1] <= c
<1> DEFINE rest  == Tail(active)
           due   == DueWithin(rest, Overrun)
           after == Overrun - TimeUpTo(rest, due)
           c     == HeadTime + Overrun
<1>1. /\ Len(active) > 1 /\ active' = rest
      /\ time' = [u \in Timer |->
                    IF \E i \in 1 .. due : u = rest[i] THEN 0
                    ELSE IF due < Len(rest) /\ u = rest[due + 1] THEN time[u] - after
                    ELSE time[u]]
  BY Zenon DEF StopExpiredHead
<1>2. active # <<>>
  BY <1>1
<1>3. /\ Len(active) \in Nat \ {0} /\ Len(rest) = Len(active) - 1
      /\ \A i \in 1..Len(active) - 1 : rest[i] = active[i + 1]
      /\ \A i \in 1..Len(active) : active[i] \in Timer
      /\ \A i, j \in 1..Len(active) : active[i] = active[j] => i = j
  BY <1>2, TailFacts
<1>4. /\ due \in 0..Len(active) - 1 /\ c \in Nat
      /\ \A i \in 1..due + 1 : Waits[i] <= c
      /\ after = c - Waits[due + 1]
  BY <1>2, DueWaits
<1> HIDE DEF due, after, c
<1>5. /\ Len(active') = Len(active) - 1
      /\ \A i \in 1..Len(active) - 1 : active'[i] = active[i + 1]
  BY <1>1, <1>3
<1>6. \A i \in 0..Len(active) : Waits[i] \in Nat
  BY WaitsAre DEF WaitsInv
<1>7. \A i \in 2..due + 1 : time'[active[i]] = 0
  <2> SUFFICES ASSUME NEW i \in 2..due + 1 PROVE time'[active[i]] = 0
    OBVIOUS
  <2>1. i - 1 \in 1..due /\ i - 1 \in 1..Len(active) - 1 /\ (i - 1) + 1 = i /\ i \in 1..Len(active)
    BY <1>3, <1>4
  <2>2. active[i] = rest[i - 1] /\ active[i] \in Timer
    BY <1>3, <2>1
  <2> QED
    BY <1>1, <2>1, <2>2
<1>8. \A i \in due + 2..Len(active) :
        time'[active[i]] = IF i = due + 2 THEN time[active[i]] - after ELSE time[active[i]]
  <2> SUFFICES ASSUME NEW i \in due + 2..Len(active)
               PROVE  time'[active[i]] = IF i = due + 2 THEN time[active[i]] - after
                                         ELSE time[active[i]]
    OBVIOUS
  <2>1. i \in 1..Len(active) /\ active[i] \in Timer
    BY <1>3, <1>4
  <2>2. due < Len(rest) /\ due + 2 \in 1..Len(active) /\ rest[due + 1] = active[due + 2]
    <3>1. due + 1 \in 1..Len(active) - 1 /\ (due + 1) + 1 = due + 2
      BY <1>3, <1>4
    <3> QED
      BY <1>3, <1>4, <3>1
  <2>3. ASSUME NEW j \in 1..due PROVE active[i] # rest[j]
    <3>1. j \in 1..Len(active) - 1 /\ j + 1 \in 1..Len(active) /\ j + 1 # i
      BY <1>3, <1>4
    <3> QED
      BY <1>3, <2>1, <3>1
  <2>4. active[i] = rest[due + 1] <=> i = due + 2
    BY <1>3, <2>1, <2>2
  <2> HIDE DEF rest
  <2> QED
    BY <1>1, <2>1, <2>2, <2>3, <2>4
<1> HIDE DEF rest
<1>9. \A i \in 0..due : Waits'[i] = 0
  <2> DEFINE zero == [i \in 0..due |-> 0]
  <2>1. Alike(Waits', zero, 0, due, 0)
    <3>1. \A i \in 0..due : Waits'[i] \in Int /\ zero[i + 0] \in Int
      <4>1. \A i \in 0..due : i \in 0..Len(active') /\ i + 0 = i
        BY <1>3, <1>4, <1>5
      <4> QED
        BY <4>1, NextWaitsAre DEF WaitsInv
    <3>2. ASSUME NEW i \in 1..due PROVE Waits'[i] - Waits'[i - 1] = zero[i + 0] - zero[i + 0 - 1]
      <4>1. i \in 1..Len(active') /\ i \in 1..Len(active) - 1 /\ i + 1 \in 2..due + 1
            /\ i + 0 = i /\ i - 1 \in 0..due /\ i \in 0..due
        BY <1>3, <1>4, <1>5
      <4>2. Waits'[i] = Waits'[i - 1] + time'[active'[i]]
        BY <4>1, NextWait
      <4>3. active'[i] = active[i + 1] /\ time'[active[i + 1]] = 0
        BY <1>5, <1>7, <4>1
      <4>4. Waits'[i - 1] \in Int
        BY <3>1, <4>1
      <4>5. Waits'[i] - Waits'[i - 1] = 0
        BY <4>2, <4>3, <4>4
      <4>6. zero[i + 0] = 0 /\ zero[i + 0 - 1] = 0
        BY <4>1
      <4> QED
        BY <4>5, <4>6
    <3> HIDE DEF zero
    <3> QED
      BY <3>1, <3>2 DEF Alike
  <2>2. due \in Nat /\ 0 \in Nat /\ 0 \in Int
    BY <1>4
  <2>3. Shifted(Waits', zero, 0, due, 0)
    BY <2>1, <2>2, SameSteps, Zenon
  <2>4. ASSUME NEW i \in 0..due PROVE Waits'[i] = 0
    <3>1. Waits'[i] - Waits'[0] = zero[i + 0] - zero[0 + 0]
      BY <2>3, Zenon DEF Shifted
    <3>2. zero[i + 0] = 0 /\ zero[0 + 0] = 0 /\ Waits'[i] \in Int
      BY <2>1, <2>2 DEF Alike
    <3>3. Waits'[0] = 0
      BY NextWaitsAre DEF WaitsInv
    <3> HIDE DEF zero
    <3>4. Waits'[i] = 0
      BY <3>1, <3>2, <3>3
    <3> QED
      BY <3>4
  <2> QED
    BY <2>4
<1>10. ASSUME NEW i \in due + 1..Len(active) - 1 PROVE Waits'[i] = Waits[i + 1] - c
  <2> DEFINE q == due + 2
  <2>1. /\ q \in 1..Len(active) /\ q \in due + 2..Len(active) /\ q - 1 = due + 1
        /\ due + 1 \in 1..Len(active') /\ due + 1 \in 1..Len(active) - 1 /\ (due + 1) + 1 = q
        /\ (due + 1) - 1 = due /\ q + (-1) = due + 1 /\ due \in 0..due /\ due + 1 \in 0..Len(active)
        /\ i + 1 \in q..Len(active) /\ (i + 1) + (-1) = i /\ q \in Nat /\ q \in 0..Len(active)
    BY <1>3, <1>4, <1>5
  <2> HIDE DEF q
  <2>2. Waits[q] - Waits'[due + 1] = c
    <3>1. Waits'[due + 1] = Waits'[due] + time'[active'[due + 1]]
      BY <2>1, NextWait
    <3>2. active'[due + 1] = active[q] /\ time'[active[q]] = time[active[q]] - after
          /\ Waits'[due] = 0
      <4>1. q = due + 2
        BY DEF q
      <4> QED
        BY <1>5, <1>8, <1>9, <2>1, <4>1
    <3>3. Waits[q] = Waits[due + 1] + time[active[q]] /\ active[q] \in Timer
      BY <2>1, WaitsAre DEF WaitsInv
    <3>4. /\ time[active[q]] \in Int /\ Waits[due + 1] \in Int /\ c \in Int
      BY <1>4, <1>6, <2>1, <3>3, Typed DEF Timed
    <3>5. Waits'[due + 1] = 0 + (time[active[q]] - (c - Waits[due + 1]))
      BY <1>4, <3>1, <3>2
    <3> QED
      BY <3>3, <3>4, <3>5
  <2>3. MovedWaits(q, Len(active), -1)
    <3>1. Moved(q, Len(active), -1)
      <4> SUFFICES ASSUME NEW j \in q + 1..Len(active)
                   PROVE  active'[j + (-1)] = active[j] /\ time'[active[j]] = time[active[j]]
        BY <1>3, <1>5, <2>1 DEF Moved
      <4>1. /\ j - 1 \in 1..Len(active) - 1 /\ (j - 1) + 1 = j /\ j + (-1) = j - 1
            /\ j \in due + 2..Len(active) /\ j # due + 2
        BY <1>3, <1>4, <2>1
      <4> QED
        BY <1>5, <1>8, <4>1
    <3> QED
      BY <1>3, <2>1, <3>1, SameMoves
  <2>4. Waits'[i] = Waits[i + 1] - (Waits[q] - Waits'[due + 1])
    <3>1. Waits'[(i + 1) + (-1)] = Waits[i + 1] - (Waits[q] - Waits'[q + (-1)])
      BY <2>1, <2>3, Zenon DEF MovedWaits
    <3> QED
      BY <2>1, <3>1
  <2> QED
    BY <2>2, <2>4
<1>11. ASSUME NEW i \in 1..Len(active) - 1
       PROVE  /\ active'[i] = active[i + 1]
              /\ \/ Waits'[i] = Waits[i + 1] - c
                 \/ Waits'[i] = 0 /\ Waits[i + 1] <= c
  <2>1. CASE i <= due
    <3>1. i \in 0..due /\ i + 1 \in 1..due + 1
      BY <1>4, <2>1
    <3> QED
      BY <1>4, <1>5, <1>9, <3>1
  <2>2. CASE ~(i <= due)
    <3>1. i \in due + 1..Len(active) - 1
      BY <1>3, <1>4, <2>2
    <3>2. Waits'[i] = Waits[i + 1] - c
      BY <1>10, <3>1
    <3>3. active'[i] = active[i + 1]
      BY <1>5
    <3> QED
      BY <3>2, <3>3
  <2> QED
    BY <2>1, <2>2
<1> QED
  BY <1>5, <1>11 DEF c

\* The handler takes the timers that are due off the list.
LEMMA FireWaits ==
  ASSUME Parts, Parts', IrqFire
  PROVE  /\ active # <<>> /\ HeadTime <= hw.since + Delta
         /\ DueNow \in 1..Len(active)
         /\ Shortened(DueNow, HeadTime + Overrun)
         /\ \A i \in 1..DueNow : Waits[i] <= HeadTime + Overrun
<1> DEFINE d     == DueWithin(Tail(active), Overrun)
           c     == HeadTime + Overrun
           rest  == SubSeq(active, DueNow + 1, Len(active))
           after == Overrun - TimeUpTo(Tail(active), DueNow - 1)
<1>1. /\ active # <<>> /\ ~(HeadTime > hw.since + Delta)
      /\ active' = rest
      /\ time' = IF rest = <<>> THEN time ELSE [time EXCEPT ![Head(rest)] = @ - after]
  BY Zenon DEF IrqFire, Early, HeadTime
<1>2. /\ Len(active) \in Nat \ {0} /\ active \in Seq(Timer) /\ IsInjective(active)
      /\ \A i \in 1..Len(active) : active[i] \in Timer
      /\ \A i, j \in 1..Len(active) : active[i] = active[j] => i = j
  BY <1>1, Typed, TailFacts
<1>3. /\ d \in 0..Len(active) - 1 /\ c \in Nat
      /\ \A i \in 1..d + 1 : Waits[i] <= c
      /\ Overrun - TimeUpTo(Tail(active), d) = c - Waits[d + 1]
  BY <1>1, DueWaits
<1>4. DueNow = 1 + d
  BY DEF DueNow
<1> HIDE DEF d, c
<1>5. /\ DueNow \in 1..Len(active) /\ DueNow \in 0..Len(active) /\ DueNow - 1 = d /\ DueNow = d + 1
  BY <1>2, <1>3, <1>4
<1>6. after = c - Waits[DueNow]
  BY <1>3, <1>5
<1> HIDE DEF after
<1>7. /\ rest \in Seq(Timer) /\ Len(rest) = Len(active) - DueNow
      /\ \A i \in 1..Len(active) - DueNow : rest[i] = active[DueNow + i]
  BY <1>2, <1>5, SplitDistinct
<1> HIDE DEF rest
<1>8. HeadTime <= hw.since + Delta
  <2>1. HeadTime \in Nat /\ hw.since \in Nat /\ Delta \in Nat
    BY <1>1, TailWaits, Typed, TickAssumption DEF HwType
  <2> QED
    BY <1>1, <2>1
<1>9. ASSUME NEW i \in 1..Len(active) - DueNow
      PROVE  active'[i] = active[i + DueNow] /\ Waits'[i] = Waits[i + DueNow] - c
  <2> DEFINE q == DueNow + 1
             k == -DueNow
  <2>1. /\ q \in 1..Len(active) /\ q \in 0..Len(active) /\ q - 1 = DueNow /\ q + k = 1
        /\ i + DueNow \in q..Len(active) /\ (i + DueNow) + k = i /\ q \in Nat /\ k \in Int
        /\ 1 \in 1..Len(active) - DueNow /\ i + DueNow = DueNow + i
    <3>1. /\ DueNow \in Nat /\ Len(active) \in Nat /\ i \in Nat /\ 1 <= DueNow
          /\ 1 <= i /\ i <= Len(active) - DueNow
      BY <1>2, <1>5
    <3> QED
      BY <3>1
  <2> HIDE DEF q, k
  <2>2. rest # <<>> /\ Head(rest) = active[q] /\ active[q] \in Timer
    <3>1. q = DueNow + 1
      BY DEF q
    <3>2. Len(rest) # 0 /\ rest[1] = active[q]
      <4>1. rest[1] = active[DueNow + 1]
        BY <1>7, <2>1
      <4>2. Len(active) - DueNow # 0
        BY <2>1
      <4> QED
        BY <1>7, <3>1, <4>1, <4>2
    <3>3. rest # <<>>
      BY <1>7, <3>2, EmptySeq
    <3>4. Head(rest) = rest[1]
      BY <1>7, <3>3, HeadTailProperties
    <3> QED
      BY <1>2, <2>1, <3>2, <3>3, <3>4
  <2>3. time' = [time EXCEPT ![active[q]] = time[active[q]] - after]
    BY <1>1, <2>2
  <2>4. time'[active[q]] = time[active[q]] - after
        /\ \A j \in q + 1..Len(active) : time'[active[j]] = time[active[j]]
    <3>1. \A j \in q + 1..Len(active) : active[j] \in Timer /\ active[j] # active[q]
      BY <1>2, <2>1
    <3> QED
      BY <2>2, <2>3, <3>1, Typed DEF Timed
  <2>5. Waits[q] - Waits'[1] = c
    <3>1. 1 \in 1..Len(active')
      BY <1>1, <1>7, <2>1
    <3>2. Waits'[1] = Waits'[1 - 1] + time'[active'[1]] /\ Waits'[0] = 0
      BY <3>1, NextWait, NextWaitsAre DEF WaitsInv
    <3>3. active'[1] = active[q]
      <4>1. active' # <<>> /\ active' \in Seq(Timer) /\ Head(active') = active[q]
        BY <1>1, <1>7, <2>2
      <4> QED
        BY <4>1, HeadTailProperties
    <3>4. Waits[q] = Waits[DueNow] + time[active[q]]
      BY <2>1, WaitsAre DEF WaitsInv
    <3>5. time[active[q]] \in Int /\ Waits[DueNow] \in Int /\ c \in Int
      <4>1. Waits[DueNow] \in Nat
        BY <1>5, WaitsAre DEF WaitsInv
      <4> QED
        BY <1>3, <2>2, <4>1, Typed DEF Timed
    <3>6. Waits'[1] = 0 + (time[active[q]] - (c - Waits[DueNow]))
      BY <1>6, <2>4, <3>2, <3>3
    <3> QED
      BY <3>4, <3>5, <3>6
  <2>6. active'[i] = active[i + DueNow]
    BY <1>1, <1>7, <2>1
  <2>7. MovedWaits(q, Len(active), k)
    <3>1. Moved(q, Len(active), k)
      <4> SUFFICES ASSUME NEW j \in q + 1..Len(active)
                   PROVE  active'[j + k] = active[j] /\ time'[active[j]] = time[active[j]]
        <5>1. Len(active) + k = Len(active')
          BY <1>1, <1>2, <1>5, <1>7 DEF k
        <5>2. q <= Len(active) /\ 0 <= q + k /\ Len(active) <= Len(active)
          BY <1>2, <2>1
        <5> QED
          BY <5>1, <5>2 DEF Moved
      <4>1. j + k \in 1..Len(active) - DueNow /\ DueNow + (j + k) = j
        BY <1>2, <1>5 DEF q, k
      <4> QED
        BY <1>1, <1>7, <2>4, <4>1
    <3> QED
      BY <1>2, <2>1, <3>1, SameMoves
  <2>8. Waits'[i] = Waits[i + DueNow] - (Waits[q] - Waits'[1])
    <3>1. Waits'[(i + DueNow) + k] = Waits[i + DueNow] - (Waits[q] - Waits'[q + k])
      BY <2>1, <2>7, Zenon DEF MovedWaits
    <3> QED
      BY <2>1, <3>1
  <2> QED
    BY <2>5, <2>6, <2>8
<1>10. Shortened(DueNow, c)
  BY <1>1, <1>7, <1>9 DEF Shortened
<1> QED
  BY <1>1, <1>3, <1>5, <1>8, <1>10 DEF c

\* Stopping a timer behind the head.
LEMMA StopBehindWaits ==
  ASSUME Parts, Parts', NEW t \in Timer, StopInner(t) \/ StopLast(t)
  PROVE  \E p \in 2..Len(active) :
           /\ Len(active') = Len(active) - 1
           /\ \A i \in 1..p - 1 : active'[i] = active[i] /\ Waits'[i] = Waits[i]
           /\ \A i \in p..Len(active) - 1 :
                active'[i] = active[i + 1] /\ Waits'[i] = Waits[i + 1]
<1>1. /\ active \in Seq(Timer) /\ IsInjective(active) /\ Len(active) \in Nat
      /\ \A i \in 1..Len(active) : active[i] \in Timer
      /\ \A i, j \in 1..Len(active) : active[i] = active[j] => i = j
  BY Typed, LenProperties, ElementsOfList, ElementOfSeq
<1>2. \A i \in 0..Len(active) : Waits[i] \in Nat
  BY WaitsAre DEF WaitsInv
<1>3. CASE StopLast(t)
  <2>1. Len(active) > 1 /\ active' = Front(active) /\ time' = time /\ active # <<>>
    BY <1>3 DEF StopLast
  <2>2. Len(active') = Len(active) - 1 /\ \A i \in 1..Len(active) - 1 : active'[i] = active[i]
    BY <1>1, <2>1, FrontDistinct
  <2>3. \A i \in 0..Len(active) - 1 : Waits'[i] = Waits[i]
    <3>1. Moved(0, Len(active) - 1, 0)
      BY <1>1, <2>1, <2>2 DEF Moved
    <3> QED
      BY <1>1, <2>1, <3>1, SameFront
  <2>4. /\ Len(active) \in 2..Len(active)
        /\ \A i \in 1..Len(active) - 1 : active'[i] = active[i] /\ Waits'[i] = Waits[i]
        /\ \A i \in Len(active)..Len(active) - 1 : FALSE
    BY <1>1, <2>1, <2>2, <2>3
  <2> QED
    BY <2>2, <2>4
<1>4. CASE StopInner(t)
  <2>1. PICK p \in 2..Len(active) - 1 :
          /\ active[p] = t
          /\ active' = RemoveAt(active, p)
          /\ time' = [time EXCEPT ![active[p + 1]] = @ + time[t]]
    BY <1>4 DEF StopInner
  <2>2. /\ p \in 1..Len(active) /\ p + 1 \in 1..Len(active) /\ p - 1 \in 1..Len(active)
        /\ p + 1 \in 0..Len(active) /\ (p + 1) - 1 = p /\ p \in 2..Len(active)
        /\ p - 1 \in Nat /\ p + 1 \in Nat /\ p - 1 \in 0..Len(active)
    BY <1>1
  <2>3. /\ Len(active') = Len(active) - 1
        /\ \A j \in 1..Len(active) - 1 :
             active'[j] = IF j < p THEN active[j] ELSE active[j + 1]
    BY <1>1, <2>1, <2>2, RemoveAtProperties
  <2>4. /\ time'[active[p + 1]] = time[active[p + 1]] + time[active[p]]
        /\ \A i \in 1..Len(active) : i # p + 1 => time'[active[i]] = time[active[i]]
    <3>1. active[p + 1] \in Timer
      BY <1>1, <2>2
    <3>2. \A i \in 1..Len(active) : i # p + 1 => active[i] \in Timer /\ active[i] # active[p + 1]
      BY <1>1, <2>2
    <3> QED
      BY <2>1, <3>1, <3>2, Typed DEF Timed
  <2>5. \A i \in 0..p - 1 : Waits'[i] = Waits[i]
    <3>1. Moved(0, p - 1, 0)
      <4> SUFFICES ASSUME NEW i \in 1..p - 1
                   PROVE  active'[i] = active[i] /\ time'[active[i]] = time[active[i]]
        BY <1>1, <2>2, <2>3 DEF Moved
      <4>1. i \in 1..Len(active) - 1 /\ i \in 1..Len(active) /\ i < p /\ i # p + 1
        BY <1>1, <2>2
      <4> QED
        BY <2>3, <2>4, <4>1
    <3> QED
      BY <2>2, <3>1, SameFront
  <2>6. Waits'[p] = Waits[p + 1]
    <3>1. p \in 1..Len(active') /\ p \in 1..Len(active) - 1 /\ ~(p < p) /\ p - 1 \in 0..p - 1
      BY <1>1, <2>2, <2>3
    <3>2. Waits'[p] = Waits'[p - 1] + time'[active'[p]]
      BY <3>1, NextWait
    <3>3. active'[p] = active[p + 1] /\ Waits'[p - 1] = Waits[p - 1]
      BY <2>3, <2>5, <3>1
    <3>4. Waits'[p] = Waits[p - 1] + (time[active[p + 1]] + time[active[p]])
      BY <2>4, <3>2, <3>3
    <3>5. /\ Waits[p] = Waits[p - 1] + time[active[p]]
          /\ Waits[p + 1] = Waits[p] + time[active[p + 1]]
      <4>1. \A i \in 1..Len(active) : Waits[i] = Waits[i - 1] + time[active[i]]
        BY WaitsAre DEF WaitsInv
      <4> QED
        BY <2>2, <4>1
    <3>6. Waits[p - 1] \in Int /\ time[active[p]] \in Int /\ time[active[p + 1]] \in Int
      BY <1>1, <1>2, <2>2, Typed DEF Timed
    <3> QED
      BY <3>4, <3>5, <3>6
  <2>7. ASSUME NEW i \in p..Len(active) - 1
        PROVE  active'[i] = active[i + 1] /\ Waits'[i] = Waits[i + 1]
    <3>1. active'[i] = active[i + 1]
      BY <1>1, <2>2, <2>3
    <3>2. MovedWaits(p + 1, Len(active), -1)
      <4>1. Moved(p + 1, Len(active), -1)
        <5> SUFFICES ASSUME NEW j \in p + 2..Len(active)
                     PROVE  active'[j + (-1)] = active[j] /\ time'[active[j]] = time[active[j]]
          BY <1>1, <2>2, <2>3 DEF Moved
        <5>1. /\ j - 1 \in 1..Len(active) - 1 /\ (j - 1) + 1 = j /\ j + (-1) = j - 1
              /\ ~(j - 1 < p) /\ j \in 1..Len(active) /\ j # p + 1
          BY <1>1, <2>2
        <5> QED
          BY <2>3, <2>4, <5>1
      <4> QED
        BY <1>1, <2>2, <4>1, SameMoves
    <3>3. i + 1 \in p + 1..Len(active) /\ (i + 1) + (-1) = i /\ (p + 1) + (-1) = p
          /\ i + 1 \in 0..Len(active)
      BY <1>1, <2>2
    <3>4. Waits'[i] = Waits[i + 1] - (Waits[p + 1] - Waits'[p])
      <4>1. Waits'[(i + 1) + (-1)] = Waits[i + 1] - (Waits[p + 1] - Waits'[(p + 1) + (-1)])
        BY <3>2, <3>3, Zenon DEF MovedWaits
      <4> QED
        BY <3>3, <4>1
    <3>5. Waits[i + 1] \in Nat /\ Waits[p + 1] \in Nat
      BY <1>2, <2>2, <3>3
    <3>6. Waits'[i] = Waits[i + 1]
      BY <2>6, <3>4, <3>5
    <3> QED
      BY <3>1, <3>6
  <2>8. \A i \in 1..p - 1 : active'[i] = active[i] /\ Waits'[i] = Waits[i]
    <3>1. \A i \in 1..p - 1 : i \in 1..Len(active) - 1 /\ i < p /\ i \in 0..p - 1
      BY <1>1, <2>2
    <3> QED
      BY <2>3, <2>5, <3>1
  <2> QED
    BY <2>2, <2>3, <2>7, <2>8
<1> QED
  BY <1>3, <1>4

----------------------------------------------------------------------------
(* The hardware timer and the histories, as numbers. *)

LEMMA MaxOfTwo ==
  ASSUME NEW a \in Int, NEW b \in Int
  PROVE  Max({a, b}) = IF a >= b THEN a ELSE b
<1> DEFINE m == IF a >= b THEN a ELSE b
<1>1. m \in {a, b} /\ \A y \in {a, b} : m >= y
  OBVIOUS
<1>2. \E x \in {a, b} : \A y \in {a, b} : x >= y
  BY <1>1
<1>3. Max({a, b}) \in {a, b} /\ \A y \in {a, b} : Max({a, b}) >= y
  BY <1>2, Zenon DEF Max
<1> QED
  BY <1>3

LEMMA Bounds == Delta \in Nat /\ Delta >= 1 /\ MaxLate \in Nat /\ Floor \in Int
BY TickAssumption DEF Floor

LEMMA DownIs ==
  ASSUME NEW n \in Int, NEW k \in Int
  PROVE  Down(n, k) = (IF n - k >= Floor THEN n - k ELSE Floor) /\ Down(n, k) \in Int
<1>1. n - k \in Int /\ Floor \in Int
  BY Bounds
<1> QED
  BY <1>1, MaxOfTwo DEF Down

LEMMA Numbers ==
  ASSUME Parts, active # <<>>
  PROVE  /\ hw.left \in Nat /\ hw.since \in Nat /\ HeadTime \in Nat /\ Overrun \in Nat
         /\ Slack \in {0, 1} /\ (HeadTime # 0 => Slack = 0) /\ (HeadTime = 0 => Slack = 1)
         /\ hw.since <= HeadTime + Overrun
         /\ (hw.since >= HeadTime => HeadTime + Overrun = hw.since)
         /\ (hw.since < HeadTime => Overrun = 0)
         /\ hw.left + hw.since + Delta >= HeadTime
<1>1. hw.left \in Nat /\ hw.since \in Nat /\ HeadTime \in Nat
  BY TailWaits, Typed DEF HwType
<1>2. Overrun = IF hw.since > HeadTime THEN hw.since - HeadTime ELSE 0
  BY DEF Overrun, HeadTime
<1>3. hw.left + hw.since + Delta >= HeadTime
  BY DEF Parts, CounterInv, HeadTime
<1> QED
  BY <1>1, <1>2, <1>3 DEF Slack

\* What a restart for timers that wait c ticks less may take off.
Covered(c) == c + Slack <= hw.since + Delta

LEMMA DueCovered ==
  ASSUME Parts, active # <<>>, HeadTime <= hw.since + Delta
  PROVE  Covered(HeadTime + Overrun)
BY Numbers, Bounds DEF Covered

LEMMA HeadCovered ==
  ASSUME Parts, active # <<>>
  PROVE  Covered(HeadTime - hw.left)
BY Numbers, Bounds DEF Covered

LEMMA Charged ==
  ASSUME Parts, active # <<>>, NEW s \in Int, NEW w \in Int, NEW v \in Nat, NEW c \in Int,
         s <= w - hw.since - Delta + Slack, v >= w - c, Covered(c)
  PROVE  Down(s, Delta) <= v - Delta
<1>1. Down(s, Delta) = IF s - Delta >= Floor THEN s - Delta ELSE Floor
  <2>1. Delta \in Int
    BY Bounds
  <2> QED
    BY <2>1, DownIs
<1>2. hw.since \in Nat /\ Slack \in Int /\ Delta \in Nat /\ MaxLate \in Nat
  BY Numbers, Bounds
<1>3. Floor <= v - Delta
  BY <1>2 DEF Floor
<1>4. s - Delta <= v - Delta
  BY <1>2 DEF Covered
<1> QED
  BY <1>1, <1>3, <1>4

\* What a restart must take off the waits for latest to stay above them.
LEMMA LateEnough ==
  ASSUME NEW l \in Int, NEW w \in Int, NEW v \in Int, NEW c \in Int, NEW n \in Int,
         l >= w - n - Delta, v <= w - c, c >= n
  PROVE  l >= v - Delta
BY Bounds

\* The hardware timer starts for a new head.
LEMMA RestartLoads ==
  ASSUME Parts, Parts', active' # <<>>, hw' \in {HwStart(HeadTime'), HwRestart(HeadTime')}
  PROVE  LoadInv' /\ hw'.since = 0 /\ HeadTime' \in Nat /\ Slack' \in {0, 1}
<1> DEFINE load == HeadTime'
           left == IF load > Delta THEN load - Delta ELSE 1
<1>1. load \in Nat /\ Delta \in Nat /\ MaxLate \in Nat
  <2>1. Head(active') \in Timer /\ time' \in [Timer -> Nat]
    <3>1. active' \in Seq(Timer) /\ time' \in [Timer -> Nat]
      BY DEF Parts, TypeOK
    <3> QED
      BY <3>1, HeadTailProperties
  <2> QED
    BY <2>1, Bounds DEF HeadTime
<1>2. hw \in HwType
  BY Typed
<1> HIDE DEF load
<1>3. HwStart(load) = [hw EXCEPT !.on = TRUE, !.since = 0, !.left = left]
  BY Zenon DEF HwStart
<1>4. HwRestart(load) = [HwStart(load) EXCEPT !.irq = FALSE]
  BY Zenon DEF HwRestart
<1>5. hw'.since = 0 /\ hw'.left = left
  <2>1. hw' = HwStart(load) \/ hw' = HwRestart(load)
    BY DEF load
  <2> HIDE DEF left
  <2>2. HwStart(load).since = 0 /\ HwStart(load).left = left
    BY <1>2, <1>3 DEF HwType
  <2>3. HwRestart(load).since = 0 /\ HwRestart(load).left = left
    <3>1. HwStart(load) = [on |-> TRUE, left |-> left, since |-> 0, irq |-> hw.irq]
      BY <1>2, <1>3 DEF HwType
    <3> QED
      BY <1>4, <3>1
  <2> QED
    BY <2>1, <2>2, <2>3
<1>6. LoadInv'
  <2>1. hw'.since <= load + MaxLate
    BY <1>1, <1>5
  <2>2. hw'.left + hw'.since = IF load > Delta THEN load - Delta ELSE 1
    BY <1>1, <1>5
  <2> QED
    BY <2>1, <2>2 DEF LoadInv, load
<1>7. Slack' \in {0, 1}
  BY DEF Slack
<1> QED
  BY <1>1, <1>5, <1>6, <1>7 DEF load

\* The active timers in both histories.
AllActive == \A i \in 1..Len(active) : active[i] \in Timer /\ state[active[i]] = "ACTIVE"

LEMMA ActiveOnes == Parts => AllActive
<1> SUFFICES ASSUME Parts, NEW i \in 1..Len(active)
             PROVE  active[i] \in Timer /\ state[active[i]] = "ACTIVE"
  BY DEF AllActive
<1>1. active[i] \in Timer /\ active[i] \in ToSet(active)
  BY Typed, ElementOfSeq, ElementsOfList
<1> QED
  BY <1>1 DEF Parts, Places

LEMMA NextActiveOnes == Parts' => AllActive'
BY ActiveOnes, PTL

LEMMA ChargeIs ==
  ASSUME Parts, NEW hist \in [Timer -> Int], NEW k \in Int
  PROVE  /\ Charge(hist, k) \in [Timer -> Int]
         /\ \A i \in 1..Len(active) : Charge(hist, k)[active[i]] = Down(hist[active[i]], k)
<1>1. \A u \in Timer : Down(hist[u], k) \in Int
  BY DownIs
<1> QED
  BY <1>1, ActiveOnes DEF Charge, AllActive

LEMMA KeptIs ==
  ASSUME Parts', NEW hist \in [Timer -> Int]
  PROVE  /\ Kept(hist) \in [Timer -> Int]
         /\ \A i \in 1..Len(active') : Kept(hist)[active'[i]] = hist[active'[i]]
BY NextActiveOnes DEF Kept, AllActive

HeadWaitsFirst == active # <<>> => Waits[1] = HeadTime /\ HeadTime \in Nat

LEMMA HeadWaits == Parts => HeadWaitsFirst
BY TailWaits DEF HeadWaitsFirst

LEMMA NextHeadWaits == Parts' => HeadWaitsFirst'
BY HeadWaits, PTL

\* The bound on soonest stays above Floor.
LEMMA AboveFloor ==
  ASSUME Parts, TimedInv, active # <<>>, NEW i \in 1..Len(active)
  PROVE  /\ Waits[i] \in Nat /\ HeadTime <= Waits[i]
         /\ Floor < Waits[i] - hw.since - Delta
<1>1. Len(active) \in Nat \ {0} /\ i \in 0..Len(active) /\ 1 \in 0..Len(active) /\ 1 <= i
  BY TailFacts
<1>2. Waits[1] <= Waits[i] /\ Waits[1] = HeadTime /\ HeadTime \in Nat
  BY <1>1, WaitsGrow, HeadWaits DEF HeadWaitsFirst
<1>3. Waits[i] \in Nat
  BY <1>1, WaitsAre DEF WaitsInv
<1>4. hw.since \in Nat /\ hw.since <= HeadTime + MaxLate /\ MaxLate \in Nat /\ Delta \in Nat
      /\ Delta >= 1
  BY Numbers, Bounds DEF TimedInv, LoadInv
<1> QED
  BY <1>2, <1>3, <1>4 DEF Floor

----------------------------------------------------------------------------
(* Starting a timer. *)

LEMMA StartIsTimed ==
  ASSUME Parts, Parts', TimedInv, NEW t \in Timer, NEW ticks \in Delta..MaxTicks,
         TimedStart(t, ticks)
  PROVE  TimedInv'
<1> DEFINE late  == IF active = <<>> THEN 0 ELSE Overrun
           rearm == active # <<>> /\ hw.left > ticks
           k     == IF rearm THEN Delta ELSE 0
<1>1. /\ Start(t, ticks)
      /\ latest' = [latest EXCEPT ![t] = ticks]
      /\ soonest' = [Charge(soonest, k) EXCEPT ![t] = ticks - late - Delta]
  BY Zenon DEF TimedStart
<1>2. ticks \in Nat /\ ticks >= 1 /\ Delta \in Nat /\ Delta >= 1 /\ MaxLate \in Nat /\ k \in Int
  BY TickAssumption
<1>3. late \in Nat
  BY Numbers
<1>4. latest \in [Timer -> Int] /\ soonest \in [Timer -> Int]
  BY DEF TimedInv, HistoryType
<1>5. t \notin ToSet(active)
  BY <1>1 DEF Start, CanStart, Parts, Places
<1>6. /\ Len(active) \in Nat
      /\ \A i \in 1..Len(active) : active[i] \in Timer /\ active[i] # t
  <2>1. active \in Seq(Timer)
    BY Typed
  <2> QED
    BY <1>5, <2>1, LenProperties, ElementsOfList, ElementOfSeq
<1>7. /\ Charge(soonest, k) \in [Timer -> Int]
      /\ \A i \in 1..Len(active) : Charge(soonest, k)[active[i]] = Down(soonest[active[i]], k)
  BY <1>2, <1>4, ChargeIs
<1> HIDE DEF late
<1>8. HistoryType'
  <2>1. ticks - late - Delta \in Int
    BY <1>2, <1>3
  <2> QED
    BY <1>1, <1>2, <1>4, <1>7, <2>1 DEF HistoryType
<1>9. latest'[t] = ticks /\ soonest'[t] = ticks - late - Delta
  BY <1>1, <1>4, <1>7
<1>10. \A i \in 1..Len(active) :
         /\ latest'[active[i]] = latest[active[i]] /\ latest[active[i]] \in Int
         /\ soonest'[active[i]] = Down(soonest[active[i]], k) /\ soonest[active[i]] \in Int
  BY <1>1, <1>4, <1>6, <1>7
<1>11. CASE StartAlone(t, ticks)
  <2>1. active' = <<t>> /\ time' = [time EXCEPT ![t] = ticks] /\ hw' = HwStart(ticks)
        /\ active = <<>>
    BY <1>11 DEF StartAlone
  <2>2. active' # <<>> /\ Len(active') = 1 /\ active'[1] = t /\ Head(active') = t
    BY <2>1
  <2>3. time'[t] = ticks
    BY <2>1, Typed DEF Timed
  <2>4. HeadTime' = ticks
    BY <2>2, <2>3 DEF HeadTime
  <2>5. LoadInv' /\ hw'.since = 0 /\ Slack' \in {0, 1}
    BY <2>1, <2>2, <2>4, RestartLoads
  <2>6. Waits'[1] = ticks
    BY <2>2, <2>4, NextHeadWaits DEF HeadWaitsFirst
  <2>7. LateInv'
    <3> SUFFICES ASSUME NEW i \in 1..1
                 PROVE  latest'[active'[i]] >= Waits'[i] - hw'.since - Delta
      BY <2>2 DEF LateInv
    <3> QED
      BY <1>2, <1>9, <2>2, <2>5, <2>6
  <2>8. EarlyInv'
    <3> SUFFICES ASSUME NEW i \in 1..1
                 PROVE  soonest'[active'[i]] <= Waits'[i] - hw'.since - Delta + Slack'
      BY <2>2 DEF EarlyInv
    <3> QED
      BY <1>2, <1>3, <1>9, <2>2, <2>5, <2>6
  <2> QED
    BY <1>8, <2>5, <2>7, <2>8 DEF TimedInv
<1>12. CASE StartFirst(t, ticks)
  <2>1. /\ Len(active') = Len(active) + 1 /\ active'[1] = t /\ Waits'[1] = ticks
        /\ \A i \in 1..Len(active) :
             active'[i + 1] = active[i] /\ Waits'[i + 1] = Waits[i] - (HeadTime - hw.left)
    BY <1>2, <1>5, <1>12, StartFirstWaits
  <2>2. active # <<>> /\ hw.left > ticks /\ hw' = HwRestart(ticks)
    BY <1>12 DEF StartFirst
  <2>3. active' # <<>>
    BY <1>6, <2>1, EmptySeq
  <2>4. HeadTime' = ticks
    BY <2>1, <2>3, NextHeadWaits DEF HeadWaitsFirst
  <2>5. LoadInv' /\ hw'.since = 0 /\ Slack' \in {0, 1}
    BY <2>2, <2>3, <2>4, RestartLoads
  <2>6. k = Delta
    BY <2>2
  <2>7. /\ hw.left \in Nat /\ hw.since \in Nat /\ HeadTime \in Nat /\ Slack \in {0, 1}
        /\ HeadTime - hw.left >= hw.since
    <3>1. hw.left \in Nat /\ hw.since \in Nat /\ HeadTime \in Nat /\ Slack \in {0, 1}
      BY <2>2, Numbers
    <3>2. hw.left > 0 /\ hw.left + hw.since = IF HeadTime > Delta THEN HeadTime - Delta ELSE 1
      BY <1>2, <2>2, <3>1 DEF TimedInv, LoadInv
    <3>3. hw.left > 1
      BY <1>2, <2>2, <3>1
    <3>4. hw.left + hw.since = HeadTime - Delta
      BY <3>1, <3>2, <3>3
    <3> QED
      BY <1>2, <3>1, <3>4
  <2>8. ASSUME NEW i \in 1..Len(active)
        PROVE  /\ latest'[active'[i + 1]] >= Waits'[i + 1] - hw'.since - Delta
               /\ soonest'[active'[i + 1]] <= Waits'[i + 1] - hw'.since - Delta + Slack'
    <3>1. /\ active'[i + 1] = active[i] /\ Waits'[i + 1] = Waits[i] - (HeadTime - hw.left)
          /\ Waits[i] \in Nat /\ Waits'[i + 1] \in Nat
      <4>1. i + 1 \in 0..Len(active')
        BY <1>6, <2>1
      <4> QED
        BY <2>1, <2>2, <4>1, AboveFloor, NextWaitsAre DEF WaitsInv
    <3>2. /\ latest[active[i]] >= Waits[i] - hw.since - Delta
          /\ soonest[active[i]] <= Waits[i] - hw.since - Delta + Slack
      BY DEF TimedInv, LateInv, EarlyInv
    <3>3. latest[active[i]] \in Int /\ latest'[active'[i + 1]] = latest[active[i]]
      BY <1>10, <3>1
    <3>4. soonest[active[i]] \in Int /\ soonest'[active'[i + 1]] = Down(soonest[active[i]], Delta)
      BY <1>10, <2>6, <3>1
    <3>5. Down(soonest[active[i]], Delta) <= Waits'[i + 1] - Delta
      <4>1. HeadTime - hw.left \in Int /\ Waits[i] \in Int
            /\ Waits'[i + 1] >= Waits[i] - (HeadTime - hw.left)
        BY <2>7, <3>1
      <4> QED
        BY <2>2, <3>1, <3>2, <3>4, <4>1, HeadCovered, Charged
    <3>6. latest'[active'[i + 1]] >= Waits'[i + 1] - hw'.since - Delta
      <4>1. /\ HeadTime - hw.left \in Int /\ Waits[i] \in Int /\ Waits'[i + 1] \in Int
            /\ hw.since \in Int /\ Waits'[i + 1] <= Waits[i] - (HeadTime - hw.left)
        BY <2>7, <3>1
      <4>2. latest[active[i]] >= Waits'[i + 1] - Delta
        BY <2>7, <3>2, <3>3, <4>1, LateEnough
      <4>3. Waits'[i + 1] - hw'.since - Delta = Waits'[i + 1] - Delta
        BY <1>2, <2>5, <4>1
      <4> QED
        BY <3>3, <4>2, <4>3
    <3>7. soonest'[active'[i + 1]] <= Waits'[i + 1] - hw'.since - Delta + Slack'
      <4> HIDE DEF k
      <4>1. Down(soonest[active[i]], Delta) \in Int
        <5>1. Delta \in Int
          BY <1>2
        <5> QED
          BY <3>4, <5>1, DownIs
      <4>2. Waits'[i + 1] - Delta <= Waits'[i + 1] - hw'.since - Delta + Slack'
        BY <1>2, <2>5, <3>1
      <4>3. /\ Waits'[i + 1] - Delta \in Int
            /\ Waits'[i + 1] - hw'.since - Delta + Slack' \in Int
        BY <1>2, <2>5, <3>1
      <4> QED
        BY <3>4, <3>5, <4>1, <4>2, <4>3
    <3> QED
      BY <3>6, <3>7
  <2>9. ASSUME NEW i \in 1..Len(active')
        PROVE  /\ latest'[active'[i]] >= Waits'[i] - hw'.since - Delta
               /\ soonest'[active'[i]] <= Waits'[i] - hw'.since - Delta + Slack'
    <3>1. CASE i = 1
      BY <1>2, <1>3, <1>9, <2>1, <2>5, <3>1
    <3>2. CASE i # 1
      <4>1. i - 1 \in 1..Len(active) /\ (i - 1) + 1 = i
        BY <1>6, <2>1, <3>2
      <4> HIDE DEF k
      <4>2. /\ latest'[active'[(i - 1) + 1]] >= Waits'[(i - 1) + 1] - hw'.since - Delta
            /\ soonest'[active'[(i - 1) + 1]] <= Waits'[(i - 1) + 1] - hw'.since - Delta + Slack'
        BY <2>8, <4>1
      <4> QED
        BY <4>1, <4>2
    <3> QED
      BY <3>1, <3>2
  <2>10. LateInv' /\ EarlyInv'
    BY <2>9 DEF LateInv, EarlyInv
  <2> QED
    BY <1>8, <2>5, <2>10 DEF TimedInv
<1>13. CASE StartLater(t, ticks)
  <2>1. active # <<>> /\ hw.left <= ticks /\ hw' = hw
    BY <1>13 DEF StartLater
  <2>2. PICK p \in 2..Len(active) + 1 :
           /\ Len(active') = Len(active) + 1 /\ active'[p] = t
           /\ Waits'[p] = HeadTime + (ticks - hw.left)
           /\ \A i \in 1..p - 1 : active'[i] = active[i] /\ Waits'[i] = Waits[i]
           /\ \A i \in p..Len(active) : active'[i + 1] = active[i] /\ Waits'[i + 1] = Waits[i]
    BY <1>2, <1>5, <1>13, StartLaterWaits
  <2>3. /\ hw.left \in Nat /\ hw.since \in Nat /\ HeadTime \in Nat /\ Slack \in {0, 1}
        /\ Overrun \in Nat /\ hw.since <= HeadTime + Overrun /\ (HeadTime = 0 => Slack = 1)
        /\ hw.left + hw.since + Delta >= HeadTime
    BY <2>1, Numbers
  <2>4. k = 0 /\ late = Overrun
    BY <1>2, <2>1, <2>3 DEF late
  <2>5. HeadTime' = HeadTime /\ active' # <<>> /\ Slack' = Slack
    <3>1. active' # <<>>
      BY <1>6, <2>2, EmptySeq
    <3>2. 1 \in 1..p - 1
      BY <1>6, <2>2
    <3>3. Waits'[1] = Waits[1]
      BY <2>2, <3>2
    <3>4. HeadTime' = HeadTime
      BY <2>1, <3>1, <3>3, HeadWaits, NextHeadWaits DEF HeadWaitsFirst
    <3> QED
      BY <3>1, <3>4 DEF Slack
  <2>6. LoadInv'
    BY <2>1, <2>5 DEF TimedInv, LoadInv
  <2>7. ASSUME NEW i \in 1..Len(active)
        PROVE  /\ latest'[active[i]] >= Waits[i] - hw.since - Delta
               /\ soonest'[active[i]] <= Waits[i] - hw.since - Delta + Slack
    <3>1. /\ latest[active[i]] >= Waits[i] - hw.since - Delta
          /\ soonest[active[i]] <= Waits[i] - hw.since - Delta + Slack
      BY DEF TimedInv, LateInv, EarlyInv
    <3>2. Floor < Waits[i] - hw.since - Delta /\ Waits[i] \in Nat
      BY <2>1, AboveFloor
    <3>3. soonest'[active[i]] = Down(soonest[active[i]], 0) /\ soonest[active[i]] \in Int
          /\ latest'[active[i]] = latest[active[i]]
      BY <1>10, <2>4
    <3> HIDE DEF k
    <3>4. soonest'[active[i]] = IF soonest[active[i]] - 0 >= Floor THEN soonest[active[i]] - 0
                                ELSE Floor
      BY <3>3, DownIs
    <3>5. Floor \in Int
      BY Bounds
    <3>6. soonest'[active[i]] <= Waits[i] - hw.since - Delta + Slack
      <4> DEFINE b == Waits[i] - hw.since - Delta
      <4>1. b \in Int /\ Slack \in Nat /\ soonest[active[i]] <= b + Slack /\ Floor < b
        <5>1. hw.since \in Nat /\ Slack \in {0, 1} /\ Delta \in Nat
          BY <1>2, <2>3
        <5>2. b \in Int /\ Slack \in Nat
          BY <3>2, <5>1
        <5> QED
          BY <3>1, <3>2, <5>2
      <4> HIDE DEF b
      <4>2. soonest'[active[i]] <= b + Slack
        BY <3>3, <3>4, <3>5, <4>1
      <4> QED
        BY <4>2 DEF b
    <3> QED
      BY <3>1, <3>3, <3>6
  <2> DEFINE w == HeadTime + (ticks - hw.left)
  <2>8. /\ ticks >= w - hw.since - Delta
        /\ ticks - Overrun - Delta <= w - hw.since - Delta + Slack
    <3>1. hw.left + hw.since <= HeadTime + Overrun + Slack
      <4>1. CASE hw.left = 0
        BY <2>3, <4>1
      <4>2. CASE hw.left # 0
        <5>1. hw.left + hw.since = IF HeadTime > Delta THEN HeadTime - Delta ELSE 1
          BY <2>1, <2>3, <4>2 DEF TimedInv, LoadInv
        <5> QED
          BY <1>2, <2>3, <5>1
      <4> QED
        BY <4>1, <4>2
    <3> HIDE DEF k
    <3>2. ticks \in Int /\ Delta \in Int /\ HeadTime \in Int /\ hw.left \in Int
          /\ hw.since \in Int /\ Slack \in Int /\ Overrun \in Int
      BY <1>2, <2>3
    <3>3. HeadTime <= hw.left + hw.since + Delta
      BY <2>3
    <3>4. ticks >= w - hw.since - Delta
      BY <3>2, <3>3
    <3>5. ticks - Overrun - Delta <= w - hw.since - Delta + Slack
      BY <3>1, <3>2
    <3> QED
      BY <3>4, <3>5
  <2>9. ASSUME NEW i \in 1..Len(active')
        PROVE  /\ latest'[active'[i]] >= Waits'[i] - hw'.since - Delta
               /\ soonest'[active'[i]] <= Waits'[i] - hw'.since - Delta + Slack'
    <3>1. CASE i = p
      <4>1. /\ latest'[t] >= Waits'[p] - hw.since - Delta
            /\ soonest'[t] <= Waits'[p] - hw.since - Delta + Slack
        <5>1. latest'[t] = ticks /\ soonest'[t] = ticks - Overrun - Delta /\ Waits'[p] = w
          BY <1>9, <2>2, <2>4
        <5> HIDE DEF w
        <5> QED
          BY <2>8, <5>1, Zenon
      <4> QED
        BY <2>1, <2>2, <2>5, <3>1, <4>1
    <3>2. CASE i < p
      <4>1. i \in 1..p - 1 /\ i \in 1..Len(active)
        BY <1>6, <2>2, <3>2
      <4> QED
        BY <2>1, <2>2, <2>5, <2>7, <4>1
    <3>3. CASE i > p
      <4> DEFINE j == i - 1
      <4>1. j \in p..Len(active) /\ j \in 1..Len(active) /\ j + 1 = i
        BY <1>6, <2>2, <3>3
      <4> HIDE DEF j
      <4>2. active'[i] = active[j] /\ Waits'[i] = Waits[j]
        <5>1. active'[j + 1] = active[j] /\ Waits'[j + 1] = Waits[j]
          BY <2>2, <4>1
        <5> QED
          BY <4>1, <5>1
      <4> QED
        BY <2>1, <2>5, <2>7, <4>1, <4>2
    <3>4. i = p \/ i < p \/ i > p
      BY <1>6, <2>2
    <3> QED
      BY <3>1, <3>2, <3>3, <3>4
  <2>10. LateInv' /\ EarlyInv'
    BY <2>9 DEF LateInv, EarlyInv
  <2> QED
    BY <1>8, <2>6, <2>10 DEF TimedInv
<1> QED
  BY <1>1, <1>11, <1>12, <1>13 DEF Start
----------------------------------------------------------------------------
(* Stopping a timer, and the handler: the hardware timer starts again. *)

\* The first k timers leave the list, and the others wait at most c ticks less.
Freed(k, c) ==
  /\ Len(active') = Len(active) - k
  /\ \A i \in 1..Len(active) - k : active'[i] = active[i + k] /\ Waits'[i] >= Waits[i + k] - c

LEMMA RestartIsEarly ==
  ASSUME Parts, Parts', TimedInv, active # <<>>, active' # <<>>, NEW k \in Nat, NEW c \in Int,
         Freed(k, c), Covered(c), hw'.since = 0, Slack' \in {0, 1},
         soonest' = Kept(Charge(soonest, Delta))
  PROVE  EarlyInv'
<1>1. Delta \in Nat /\ Delta \in Int
  BY Bounds
<1>2. soonest \in [Timer -> Int]
  BY DEF TimedInv, HistoryType
<1>3. /\ Charge(soonest, Delta) \in [Timer -> Int]
      /\ \A i \in 1..Len(active) :
           Charge(soonest, Delta)[active[i]] = Down(soonest[active[i]], Delta)
  BY <1>1, <1>2, ChargeIs
<1>4. \A i \in 1..Len(active') : soonest'[active'[i]] = Charge(soonest, Delta)[active'[i]]
  BY <1>3, KeptIs
<1>5. ASSUME NEW i \in 1..Len(active')
      PROVE  soonest'[active'[i]] <= Waits'[i] - hw'.since - Delta + Slack'
  <2> DEFINE j == i + k
  <2>1. i \in 1..Len(active) - k /\ j \in 1..Len(active) /\ i \in 0..Len(active')
    <3>1. Len(active) \in Nat /\ Len(active') = Len(active) - k
      BY TailFacts DEF Freed
    <3> QED
      BY <3>1
  <2>2. active'[i] = active[j] /\ Waits'[i] >= Waits[j] - c
    BY <2>1 DEF Freed
  <2> HIDE DEF j
  <2>3. Waits[j] \in Int /\ Waits'[i] \in Nat
    BY <2>1, AboveFloor, NextWaitsAre DEF WaitsInv
  <2>4. soonest[active[j]] <= Waits[j] - hw.since - Delta + Slack
    BY <2>1 DEF TimedInv, EarlyInv
  <2>5. soonest[active[j]] \in Int
    BY <1>2, <2>1, ActiveOnes DEF AllActive
  <2>6. Down(soonest[active[j]], Delta) <= Waits'[i] - Delta
    BY <2>2, <2>3, <2>4, <2>5, Charged
  <2>7. Down(soonest[active[j]], Delta) \in Int
    BY <1>1, <2>5, DownIs
  <2>8. soonest'[active'[i]] = Down(soonest[active[j]], Delta)
    BY <1>3, <1>4, <2>1, <2>2
  <2>9. /\ Waits'[i] - Delta \in Int
        /\ Waits'[i] - hw'.since - Delta + Slack' \in Int
        /\ Waits'[i] - Delta <= Waits'[i] - hw'.since - Delta + Slack'
    BY <1>1, <2>3
  <2> QED
    BY <2>6, <2>7, <2>8, <2>9
<1> QED
  BY <1>5 DEF EarlyInv

LEMMA RestartIsLate ==
  ASSUME Parts', hw'.since = 0, \A i \in 1..Len(active') : latest'[active'[i]] >= Waits'[i] - Delta
  PROVE  LateInv'
<1> SUFFICES ASSUME NEW i \in 1..Len(active')
             PROVE  latest'[active'[i]] >= Waits'[i] - hw'.since - Delta
  BY DEF LateInv
<1>1. Len(active') \in Nat /\ \A j \in 0..Len(active') : Waits'[j] \in Nat
  BY NextWaitsAre DEF WaitsInv
<1>2. Waits'[i] \in Int /\ Delta \in Int
  BY <1>1, Bounds
<1>3. Waits'[i] - hw'.since - Delta = Waits'[i] - Delta
  BY <1>2
<1> QED
  BY <1>3

\* With nobody left nothing is promised.
LEMMA EmptyIsTimed ==
  ASSUME active' = <<>>, HistoryType' PROVE TimedInv'
<1>1. Len(active') = 0
  OBVIOUS
<1> QED
  BY <1>1 DEF TimedInv, LoadInv, LateInv, EarlyInv

LEMMA ShortenedFrees ==
  ASSUME Parts, Parts', NEW k \in Nat, NEW c \in Int, Shortened(k, c)
  PROVE  Freed(k, c)
<1> SUFFICES ASSUME NEW i \in 1..Len(active) - k
             PROVE  active'[i] = active[i + k] /\ Waits'[i] >= Waits[i + k] - c
  BY DEF Freed, Shortened
<1>1. i + k \in 0..Len(active) /\ Len(active) \in Nat
  BY WaitsAre DEF WaitsInv
<1>2. Waits[i + k] \in Nat
  BY <1>1, WaitsAre DEF WaitsInv
<1>3. active'[i] = active[i + k] /\ Waits'[i] = Waits[i + k] - c
  BY DEF Shortened
<1> QED
  BY <1>2, <1>3

\* The handler.
LEMMA FireIsTimed ==
  ASSUME Parts, Parts', TimedInv, TimedFire
  PROVE  TimedInv'
<1> DEFINE rest  == SubSeq(active, DueNow + 1, Len(active))
           after == Overrun - TimeUpTo(Tail(active), DueNow - 1)
           c     == HeadTime + Overrun
<1>1. IrqFire /\ latest' = Kept(latest) /\ soonest' = Kept(Charge(soonest, Delta))
  BY DEF TimedFire
<1>2. /\ active' = rest
      /\ time' = IF rest = <<>> THEN time ELSE [time EXCEPT ![Head(rest)] = @ - after]
      /\ hw' = IF rest = <<>> THEN HwStop ELSE HwStart(time[Head(rest)] - after)
  BY <1>1, Zenon DEF IrqFire, Rearm
<1> HIDE DEF rest, after
<1>3. /\ active # <<>> /\ HeadTime <= hw.since + Delta
      /\ DueNow \in 1..Len(active)
      /\ Shortened(DueNow, c)
  BY <1>1, FireWaits
<1>4. /\ hw.since \in Nat /\ c \in Nat /\ hw.since <= c
  BY <1>3, Numbers
<1> HIDE DEF c
<1>5. latest \in [Timer -> Int] /\ soonest \in [Timer -> Int] /\ Delta \in Int
  BY Bounds DEF TimedInv, HistoryType
<1>6. HistoryType'
  <2>1. Charge(soonest, Delta) \in [Timer -> Int]
    BY <1>5, ChargeIs
  <2> QED
    BY <1>1, <1>5, <2>1, KeptIs DEF HistoryType
<1>7. CASE rest = <<>>
  BY <1>2, <1>6, <1>7, EmptyIsTimed
<1>8. CASE rest # <<>>
  <2>1. HeadTime' = time[Head(rest)] - after
    <3>1. Head(rest) \in Timer
      <4>1. rest \in Seq(Timer)
        BY <1>2 DEF Parts, TypeOK
      <4> QED
        BY <1>8, <4>1, HeadTailProperties
    <3>2. time' = [time EXCEPT ![Head(rest)] = time[Head(rest)] - after]
      BY <1>2, <1>8
    <3>3. time'[Head(rest)] = time[Head(rest)] - after
      BY <3>1, <3>2, Typed DEF Timed
    <3> QED
      BY <1>2, <3>3 DEF HeadTime
  <2>2. active' # <<>> /\ hw' = HwStart(HeadTime')
    BY <1>2, <1>8, <2>1
  <2>3. LoadInv' /\ hw'.since = 0 /\ Slack' \in {0, 1}
    BY <2>2, RestartLoads
  <2>4. Covered(c)
    BY <1>3, DueCovered DEF c
  <2>5. Freed(DueNow, c)
    BY <1>3, <1>4, ShortenedFrees
  <2>6. EarlyInv'
    <3>1. DueNow \in Nat /\ c \in Int
      BY <1>3, <1>4
    <3> QED
      BY <1>1, <1>3, <2>2, <2>3, <2>4, <2>5, <3>1, RestartIsEarly
  <2>7. ASSUME NEW i \in 1..Len(active') PROVE latest'[active'[i]] >= Waits'[i] - Delta
    <3>1. Len(active) \in Nat /\ Len(active') = Len(active) - DueNow
      BY WaitsAre, <1>3 DEF WaitsInv, Shortened
    <3> DEFINE j == i + DueNow
    <3>2. i \in 1..Len(active) - DueNow /\ j \in 1..Len(active)
      BY <1>3, <3>1
    <3>3. active'[i] = active[j] /\ Waits'[i] = Waits[j] - c
      BY <1>3, <3>2 DEF Shortened
    <3> HIDE DEF j
    <3>4. latest'[active'[i]] = latest[active[j]] /\ latest[active[j]] \in Int
      BY <1>1, <1>5, <3>2, <3>3, KeptIs, ActiveOnes DEF AllActive
    <3>5. Waits[j] \in Int /\ latest[active[j]] >= Waits[j] - hw.since - Delta
      BY <1>3, <3>2, AboveFloor DEF TimedInv, LateInv
    <3>6. Waits'[i] \in Int /\ c \in Int /\ hw.since \in Int /\ Waits'[i] <= Waits[j] - c
      BY <1>4, <3>3, <3>5
    <3>7. latest[active[j]] >= Waits'[i] - Delta
      BY <1>4, <3>4, <3>5, <3>6, LateEnough
    <3> QED
      BY <3>4, <3>7
  <2>8. LateInv'
    BY <2>3, <2>7, RestartIsLate
  <2> QED
    BY <1>6, <2>3, <2>6, <2>8 DEF TimedInv
<1> QED
  BY <1>7, <1>8
\* Stopping a head that has not expired.
LEMMA StopHeadIsTimed ==
  ASSUME Parts, Parts', TimedInv, HistoryType', NEW t \in Timer, StopHead(t), Len(active) # 1,
         latest' = Kept(Prolonged(t)), soonest' = Kept(Charge(soonest, Delta))
  PROVE  TimedInv'
<1> DEFINE c == HeadTime - hw.left
<1>1. /\ active' = Tail(active) /\ Head(active) = t
      /\ time' = [time EXCEPT ![active[2]] = @ + hw.left]
      /\ hw' = HwRestart(time[active[2]] + hw.left)
  BY Zenon DEF StopHead
<1>2. Shortened(1, c) /\ active # <<>> /\ hw.left \in Nat \ {0}
  BY StopHeadWaits
<1>3. /\ hw.since \in Nat /\ HeadTime \in Nat /\ c \in Int /\ HeadTime = time[t]
  BY <1>1, <1>2, Numbers DEF HeadTime
<1>4. Covered(c)
  BY <1>2, HeadCovered
<1>5. /\ Len(active) \in Nat \ {0, 1} /\ Len(active') = Len(active) - 1 /\ active[2] \in Timer
      /\ Tail(active)[1] = active[2] /\ active' \in Seq(Timer)
  <2>1. /\ Len(active) \in Nat \ {0} /\ Len(Tail(active)) = Len(active) - 1
        /\ \A i \in 1..Len(active) - 1 : Tail(active)[i] = active[i + 1]
        /\ \A i \in 1..Len(active) : active[i] \in Timer /\ Tail(active) \in Seq(Timer)
    BY <1>2, TailFacts
  <2>2. 1 \in 1..Len(active) - 1 /\ 2 \in 1..Len(active)
    BY <2>1
  <2> QED
    BY <1>1, <2>1, <2>2
<1> HIDE DEF c
<1>6. active' # <<>> /\ Head(active') = active[2]
  <2>1. active' # <<>>
    BY <1>5, EmptySeq
  <2> QED
    BY <1>1, <1>5, <2>1, HeadTailProperties
<1>7. HeadTime' = time[active[2]] + hw.left
  BY <1>1, <1>5, <1>6, Typed DEF Timed, HeadTime
<1>8. LoadInv' /\ hw'.since = 0 /\ Slack' \in {0, 1}
  BY <1>1, <1>6, <1>7, RestartLoads
<1>9. EarlyInv'
  <2>1. Freed(1, c) /\ 1 \in Nat
    BY <1>2, <1>3, ShortenedFrees
  <2> QED
    BY <1>2, <1>3, <1>4, <1>6, <1>8, <2>1, RestartIsEarly
<1>10. Rounding(t) \in Int /\ Rounding(t) >= hw.left + hw.since - HeadTime
  <2>1. hw.left + hw.since - time[t] \in Int
    BY <1>2, <1>3
  <2> QED
    BY <1>3, <2>1, MaxOfTwo DEF Rounding
<1>11. Prolonged(t) = [u \in Timer |-> latest[u] + Rounding(t)]
  BY <1>2 DEF Prolonged
<1>12. Prolonged(t) \in [Timer -> Int] /\ latest \in [Timer -> Int]
  BY <1>10, <1>11 DEF TimedInv, HistoryType
<1>13. ASSUME NEW i \in 1..Len(active') PROVE latest'[active'[i]] >= Waits'[i] - Delta
  <2> DEFINE j == i + 1
  <2>1. i \in 1..Len(active) - 1 /\ j \in 1..Len(active)
    BY <1>5
  <2>2. active'[i] = active[j] /\ Waits'[i] = Waits[j] - c
    BY <1>2, <2>1 DEF Shortened
  <2> HIDE DEF j
  <2>3. active[j] \in Timer /\ Waits[j] \in Int /\ latest[active[j]] \in Int
        /\ latest[active[j]] >= Waits[j] - hw.since - Delta
    BY <1>2, <1>12, <2>1, AboveFloor, ActiveOnes DEF AllActive, TimedInv, LateInv
  <2>4. latest'[active'[i]] = latest[active[j]] + Rounding(t)
    BY <1>11, <1>12, <2>2, <2>3, KeptIs
  <2>5. Rounding(t) >= hw.since - c
    BY <1>2, <1>3, <1>10 DEF c
  <2>6. Delta \in Int /\ hw.since \in Int
    BY <1>3, Bounds
  <2> DEFINE l == latest[active[j]]
             r == Rounding(t)
             n == hw.since
  <2>7. /\ l \in Int /\ r \in Int /\ n \in Int /\ c \in Int /\ Delta \in Int /\ Waits[j] \in Int
        /\ l >= Waits[j] - n - Delta /\ r >= n - c
        /\ latest'[active'[i]] = l + r /\ Waits'[i] = Waits[j] - c
    BY <1>3, <1>10, <2>2, <2>3, <2>4, <2>5, <2>6
  <2> HIDE DEF l, r, n
  <2> QED
    BY <2>7
<1>14. LateInv'
  BY <1>8, <1>13, RestartIsLate
<1> QED
  BY <1>8, <1>9, <1>14 DEF TimedInv

\* Stopping an expired head.
LEMMA StopExpiredIsTimed ==
  ASSUME Parts, Parts', TimedInv, HistoryType', NEW t \in Timer, StopExpiredHead(t),
         latest' = Kept(Prolonged(t)), soonest' = Kept(Charge(soonest, Delta))
  PROVE  TimedInv'
<1> DEFINE c == HeadTime + Overrun
<1>1. /\ Len(active) > 1 /\ hw.left = 0 /\ active' = Tail(active)
      /\ hw' = HwRestart(time'[Tail(active)[1]])
  BY Zenon DEF StopExpiredHead
<1>2. active # <<>>
  BY <1>1
<1>3. /\ Len(active') = Len(active) - 1
      /\ \A i \in 1..Len(active) - 1 :
           /\ active'[i] = active[i + 1]
           /\ \/ Waits'[i] = Waits[i + 1] - c
              \/ Waits'[i] = 0 /\ Waits[i + 1] <= c
  BY StopExpiredWaits
<1>4. /\ hw.since \in Nat /\ HeadTime \in Nat /\ c \in Nat /\ hw.since <= c
      /\ HeadTime <= hw.since + Delta /\ Delta \in Int
  <2>1. hw.left + hw.since + Delta >= HeadTime
    BY <1>2, Numbers
  <2> QED
    BY <1>1, <1>2, <2>1, Numbers, Bounds
<1>5. Covered(c)
  BY <1>2, <1>4, DueCovered
<1> HIDE DEF c
<1>6. Len(active) \in Nat /\ Tail(active) \in Seq(Timer)
      /\ \A i \in 0..Len(active) : Waits[i] \in Nat
  <2>1. Len(active) \in Nat /\ Tail(active) \in Seq(Timer)
    BY <1>2, TailFacts
  <2>2. \A i \in 0..Len(active) : Waits[i] \in Nat
    BY WaitsAre DEF WaitsInv
  <2> QED
    BY <2>1, <2>2
<1>7. active' # <<>> /\ HeadTime' = time'[Tail(active)[1]]
  <2>1. active' # <<>>
    <3>1. Len(active') = Len(active) - 1 /\ Len(active) \in Nat /\ Len(active) > 1
      BY <1>1, <1>3, <1>6
    <3>2. Len(active') # 0
      BY <3>1
    <3> QED
      BY <3>2, EmptySeq
  <2>2. Head(active') = Tail(active)[1]
    BY <1>1, <1>6, <2>1, HeadTailProperties
  <2> QED
    BY <2>1, <2>2 DEF HeadTime
<1>8. LoadInv' /\ hw'.since = 0 /\ Slack' \in {0, 1}
  BY <1>1, <1>7, RestartLoads
<1>9. Freed(1, c)
  <2> SUFFICES ASSUME NEW i \in 1..Len(active) - 1
               PROVE  active'[i] = active[i + 1] /\ Waits'[i] >= Waits[i + 1] - c
    BY <1>3 DEF Freed
  <2>1. i + 1 \in 0..Len(active)
    BY <1>6
  <2>2. Waits[i + 1] \in Nat
    BY <1>6, <2>1
  <2>3. /\ active'[i] = active[i + 1]
        /\ Waits'[i] = Waits[i + 1] - c \/ (Waits'[i] = 0 /\ Waits[i + 1] <= c)
    BY <1>3
  <2>4. c \in Int
    BY <1>4
  <2>5. Waits'[i] >= Waits[i + 1] - c
    BY <2>2, <2>3, <2>4
  <2> QED
    BY <2>3, <2>5
<1>10. EarlyInv'
  <2>1. 1 \in Nat /\ c \in Int
    BY <1>4
  <2> QED
    BY <1>2, <1>5, <1>7, <1>8, <1>9, <2>1, RestartIsEarly
<1>11. Prolonged(t) = [u \in Timer |-> Max({0, latest[u]})]
  BY <1>1 DEF Prolonged
<1>12. latest \in [Timer -> Int]
  BY DEF TimedInv, HistoryType
<1>13. \A u \in Timer : Max({0, latest[u]}) = IF 0 >= latest[u] THEN 0 ELSE latest[u]
  BY <1>12, MaxOfTwo
<1>14. Prolonged(t) \in [Timer -> Int]
  <2>1. \A u \in Timer : Max({0, latest[u]}) \in Int
    BY <1>12, <1>13
  <2> QED
    BY <1>11, <2>1
<1>15. ASSUME NEW i \in 1..Len(active') PROVE latest'[active'[i]] >= Waits'[i] - Delta
  <2> DEFINE j == i + 1
  <2>1. i \in 1..Len(active) - 1 /\ j \in 1..Len(active)
    BY <1>3, <1>6
  <2>2. /\ active'[i] = active[j]
        /\ Waits'[i] = Waits[j] - c \/ (Waits'[i] = 0 /\ Waits[j] <= c)
    BY <1>3, <2>1
  <2> HIDE DEF j
  <2>3. active[j] \in Timer /\ Waits[j] \in Int /\ latest[active[j]] \in Int
        /\ latest[active[j]] >= Waits[j] - hw.since - Delta
    BY <1>2, <1>12, <2>1, AboveFloor, ActiveOnes DEF AllActive, TimedInv, LateInv
  <2>4. latest'[active'[i]] = Max({0, latest[active[j]]})
    BY <1>11, <1>14, <2>2, <2>3, KeptIs
  <2>5. latest'[active'[i]] >= 0 /\ latest'[active'[i]] >= latest[active[j]]
    <3> DEFINE l == latest[active[j]]
    <3>1. l \in Int /\ Max({0, l}) = IF 0 >= l THEN 0 ELSE l
      BY <1>13, <2>3
    <3> HIDE DEF l
    <3>2. Max({0, l}) >= 0 /\ Max({0, l}) >= l
      BY <3>1
    <3> QED
      BY <2>4, <3>2 DEF l
  <2>6. latest'[active'[i]] \in Int
    BY <1>14, <2>2, <2>3, KeptIs
  <2>7. CASE Waits'[i] = 0
    BY <1>4, <2>5, <2>6, <2>7, Bounds
  <2>8. CASE Waits'[i] = Waits[j] - c
    <3>1. Waits'[i] \in Int /\ c \in Int /\ hw.since \in Int /\ Waits'[i] <= Waits[j] - c
      BY <1>4, <2>3, <2>8
    <3>2. latest[active[j]] >= Waits'[i] - Delta
      BY <1>4, <2>3, <3>1, LateEnough
    <3> QED
      BY <1>4, <2>3, <2>5, <2>6, <3>1, <3>2
  <2> QED
    BY <2>2, <2>7, <2>8
<1>16. LateInv'
  BY <1>8, <1>15, RestartIsLate
<1> QED
  BY <1>8, <1>10, <1>16 DEF TimedInv

\* Stopping a timer behind the head.
LEMMA StopBehindIsTimed ==
  ASSUME Parts, Parts', TimedInv, HistoryType', NEW t \in Timer, StopInner(t) \/ StopLast(t),
         latest' = Kept(latest), soonest' = Kept(Charge(soonest, 0))
  PROVE  TimedInv'
<1>1. hw' = hw
  BY DEF StopInner, StopLast
<1>2. PICK p \in 2..Len(active) :
        /\ Len(active') = Len(active) - 1
        /\ \A i \in 1..p - 1 : active'[i] = active[i] /\ Waits'[i] = Waits[i]
        /\ \A i \in p..Len(active) - 1 :
             active'[i] = active[i + 1] /\ Waits'[i] = Waits[i + 1]
  BY StopBehindWaits
<1>3. Len(active) \in Nat
  BY WaitsAre DEF WaitsInv
<1>4. active # <<>> /\ active' # <<>>
  <2>1. Len(active) # 0 /\ Len(active') # 0
    BY <1>2, <1>3
  <2> QED
    BY <2>1, EmptySeq
<1>5. HeadTime' = HeadTime /\ Slack' = Slack
  <2>1. 1 \in 1..p - 1
    BY <1>2, <1>3
  <2>2. Waits'[1] = Waits[1]
    BY <1>2, <2>1
  <2>3. HeadTime' = HeadTime
    BY <1>4, <2>2, HeadWaits, NextHeadWaits DEF HeadWaitsFirst
  <2> QED
    BY <2>3 DEF Slack
<1>6. LoadInv'
  BY <1>1, <1>4, <1>5 DEF TimedInv, LoadInv
<1>7. /\ latest \in [Timer -> Int] /\ soonest \in [Timer -> Int]
      /\ Charge(soonest, 0) \in [Timer -> Int]
      /\ \A i \in 1..Len(active) : Charge(soonest, 0)[active[i]] = Down(soonest[active[i]], 0)
  <2>1. latest \in [Timer -> Int] /\ soonest \in [Timer -> Int] /\ 0 \in Int
    BY DEF TimedInv, HistoryType
  <2> QED
    BY <2>1, ChargeIs
<1>8. ASSUME NEW i \in 1..Len(active')
      PROVE  /\ latest'[active'[i]] >= Waits'[i] - hw.since - Delta
             /\ soonest'[active'[i]] <= Waits'[i] - hw.since - Delta + Slack
  <2>1. PICK j \in 1..Len(active) : active'[i] = active[j] /\ Waits'[i] = Waits[j]
    <3>1. CASE i < p
      <4>1. i \in 1..p - 1 /\ i \in 1..Len(active)
        BY <1>2, <1>3, <3>1
      <4> QED
        BY <1>2, <4>1
    <3>2. CASE ~(i < p)
      <4>1. i \in p..Len(active) - 1 /\ i + 1 \in 1..Len(active)
        BY <1>2, <1>3, <3>2
      <4> QED
        BY <1>2, <4>1
    <3> QED
      BY <3>1, <3>2
  <2>2. /\ latest[active[j]] >= Waits[j] - hw.since - Delta
        /\ soonest[active[j]] <= Waits[j] - hw.since - Delta + Slack
    BY DEF TimedInv, LateInv, EarlyInv
  <2>3. latest'[active'[i]] = latest[active[j]]
    BY <1>7, <2>1, KeptIs
  <2>4. soonest'[active'[i]] = Down(soonest[active[j]], 0) /\ soonest[active[j]] \in Int
    BY <1>7, <2>1, KeptIs, ActiveOnes DEF AllActive
  <2>5. soonest'[active'[i]] <= Waits[j] - hw.since - Delta + Slack
    <3>1. soonest'[active'[i]] = IF soonest[active[j]] - 0 >= Floor THEN soonest[active[j]] - 0
                                 ELSE Floor
      <4>1. 0 \in Int
        OBVIOUS
      <4> QED
        BY <2>4, <4>1, DownIs
    <3> DEFINE b == Waits[j] - hw.since - Delta
    <3>2. b \in Int /\ Slack \in Nat /\ Floor < b /\ soonest[active[j]] <= b + Slack
      <4>1. Waits[j] \in Nat /\ Floor < b
        BY <1>4, AboveFloor
      <4>2. hw.since \in Nat /\ Slack \in {0, 1} /\ Delta \in Nat
        BY <1>4, Numbers, Bounds
      <4> QED
        BY <2>2, <4>1, <4>2
    <3>3. Floor \in Int
      BY Bounds
    <3> HIDE DEF b
    <3>4. soonest'[active'[i]] <= b + Slack
      BY <2>4, <3>1, <3>2, <3>3
    <3> QED
      BY <3>4 DEF b
  <2> QED
    BY <2>1, <2>2, <2>3, <2>5
<1>9. LateInv' /\ EarlyInv'
  BY <1>1, <1>5, <1>8 DEF LateInv, EarlyInv
<1> QED
  BY <1>6, <1>9 DEF TimedInv

LEMMA StopIsTimed ==
  ASSUME Parts, Parts', TimedInv, NEW t \in Timer, TimedStop(t)
  PROVE  TimedInv'
<1> DEFINE atHead == Head(active) = t
<1>1. /\ StopHead(t) \/ StopExpiredHead(t) \/ StopInner(t) \/ StopLast(t)
      /\ latest' = Kept(IF atHead THEN Prolonged(t) ELSE latest)
      /\ soonest' = Kept(Charge(soonest, IF atHead THEN Delta ELSE 0))
  BY DEF TimedStop, StopActive
<1>2. active # <<>>
  BY <1>1 DEF StopHead, StopExpiredHead, StopInner, StopLast
<1>3. Delta \in Int /\ 0 \in Int /\ latest \in [Timer -> Int] /\ soonest \in [Timer -> Int]
  BY Bounds DEF TimedInv, HistoryType
<1>4. HistoryType'
  <2>1. Prolonged(t) \in [Timer -> Int]
    <3>1. /\ hw.left + hw.since - time[t] \in Int
      BY <1>2, Numbers, Typed DEF Timed
    <3>2. Rounding(t) \in Int
      BY <3>1, MaxOfTwo DEF Rounding
    <3>3. \A u \in Timer : latest[u] \in Int /\ Max({0, latest[u]}) \in Int
      BY <1>3, MaxOfTwo
    <3> QED
      BY <3>2, <3>3 DEF Prolonged
  <2>2. Kept(Prolonged(t)) \in [Timer -> Int] /\ Kept(latest) \in [Timer -> Int]
    BY <1>3, <2>1, KeptIs
  <2>3. /\ Kept(Charge(soonest, Delta)) \in [Timer -> Int]
        /\ Kept(Charge(soonest, 0)) \in [Timer -> Int]
    BY <1>3, ChargeIs, KeptIs
  <2> QED
    BY <1>1, <2>2, <2>3 DEF HistoryType
<1>5. CASE StopHead(t)
  <2>1. atHead /\ active' = Tail(active)
    BY <1>5 DEF StopHead
  <2>2. CASE Len(active) = 1
    <3>1. active' = <<>>
      BY <2>1, <2>2, Typed
    <3> QED
      BY <1>4, <3>1, EmptyIsTimed
  <2>3. CASE Len(active) # 1
    BY <1>1, <1>4, <1>5, <2>1, <2>3, StopHeadIsTimed
  <2> QED
    BY <2>2, <2>3
<1>6. CASE StopExpiredHead(t)
  <2>1. atHead
    BY <1>6 DEF StopExpiredHead
  <2> QED
    BY <1>1, <1>4, <1>6, <2>1, StopExpiredIsTimed
<1>7. CASE StopInner(t) \/ StopLast(t)
  <2>1. ~atHead
    <3>1. /\ Len(active) \in Nat \ {0} /\ Head(active) = active[1]
          /\ \A i, j \in 1..Len(active) : active[i] = active[j] => i = j
      BY <1>2, TailFacts
    <3>2. PICK i \in 2..Len(active) : active[i] = t
      BY <1>7, <3>1 DEF StopInner, StopLast
    <3>3. 1 \in 1..Len(active) /\ i \in 1..Len(active) /\ i # 1
      BY <3>1
    <3> QED
      BY <3>1, <3>2, <3>3
  <2> QED
    BY <1>1, <1>4, <1>7, <2>1, StopBehindIsTimed
<1> QED
  BY <1>1, <1>5, <1>6, <1>7
----------------------------------------------------------------------------
(* Time passing, and the steps that leave the list alone. *)

\* The list and its times stay.
LEMMA SameWaits ==
  ASSUME Parts, Parts', active' = active, time' = time
  PROVE  /\ \A i \in 1..Len(active) : Waits'[i] = Waits[i]
         /\ HeadTime' = HeadTime /\ Slack' = Slack
<1>1. Len(active) \in Nat
  BY WaitsAre DEF WaitsInv
<1>2. Moved(0, Len(active), 0)
  BY <1>1 DEF Moved
<1>3. \A i \in 0..Len(active) : Waits'[i] = Waits[i]
  BY <1>1, <1>2, SameFront
<1>4. HeadTime' = HeadTime
  BY DEF HeadTime
<1> QED
  BY <1>1, <1>3, <1>4 DEF Slack

LEMMA TickIsTimed ==
  ASSUME Parts, Parts', TimedInv, TimedTick
  PROVE  TimedInv'
<1>1. Tick /\ latest' = Charge(latest, 1) /\ soonest' = Charge(soonest, 1)
  BY DEF TimedTick
<1>2. active' = active /\ time' = time
  BY <1>1 DEF Tick, lists
<1>3. latest \in [Timer -> Int] /\ soonest \in [Timer -> Int] /\ 1 \in Int
  BY DEF TimedInv, HistoryType
<1>4. HistoryType'
  BY <1>1, <1>3, ChargeIs DEF HistoryType
<1>5. CASE active = <<>>
  BY <1>2, <1>4, <1>5, EmptyIsTimed
<1>6. CASE active # <<>>
  <2>1. /\ hw.left \in Nat /\ hw.since \in Nat /\ HeadTime \in Nat /\ Slack \in {0, 1}
        /\ Delta \in Nat /\ MaxLate \in Nat
    BY <1>6, Numbers, Bounds
  <2>2. hw.since < HeadTime + MaxLate
    BY <1>1, <1>6 DEF Tick, HeadTime
  <2>3. hw'.since = hw.since + 1 /\ hw'.left = IF hw.left > 0 THEN hw.left - 1 ELSE 0
    BY <1>1, Typed DEF Tick, HwType
  <2>4. /\ \A i \in 1..Len(active) : Waits'[i] = Waits[i]
        /\ HeadTime' = HeadTime /\ Slack' = Slack
    BY <1>2, SameWaits
  <2>5. LoadInv'
    <3>1. hw.left > 0 =>
            hw.left + hw.since = IF HeadTime > Delta THEN HeadTime - Delta ELSE 1
      BY <1>6 DEF TimedInv, LoadInv
    <3>2. hw'.since <= HeadTime + MaxLate
      BY <2>1, <2>2, <2>3
    <3>3. hw'.left > 0 => hw'.left + hw'.since = hw.left + hw.since /\ hw.left > 0
      BY <2>1, <2>3
    <3> QED
      BY <2>4, <3>1, <3>2, <3>3 DEF LoadInv
  <2>6. ASSUME NEW i \in 1..Len(active)
        PROVE  /\ latest'[active[i]] >= Waits[i] - hw'.since - Delta
               /\ soonest'[active[i]] <= Waits[i] - hw'.since - Delta + Slack
    <3> DEFINE l == latest[active[i]]
               s == soonest[active[i]]
               b == Waits[i] - hw.since - Delta
    <3>1. /\ l >= b /\ s <= b + Slack
      BY DEF TimedInv, LateInv, EarlyInv
    <3>2. b \in Int /\ Floor < b /\ Floor \in Int
      BY <1>6, <2>1, AboveFloor, Bounds
    <3>3. l \in Int /\ s \in Int
      BY <1>3, ActiveOnes DEF AllActive
    <3>4. latest'[active[i]] = Down(l, 1) /\ soonest'[active[i]] = Down(s, 1)
      BY <1>1, <1>3, ChargeIs
    <3>5. Waits[i] - hw'.since - Delta = b - 1
      <4>1. Waits[i] \in Nat
        BY <1>6, AboveFloor
      <4> QED
        BY <2>1, <2>3, <4>1
    <3> HIDE DEF l, s, b
    <3>6. /\ Down(l, 1) = IF l - 1 >= Floor THEN l - 1 ELSE Floor
          /\ Down(s, 1) = IF s - 1 >= Floor THEN s - 1 ELSE Floor
      BY <1>3, <3>3, DownIs
    <3>7. Down(l, 1) >= b - 1 /\ Down(s, 1) <= b - 1 + Slack
      BY <2>1, <3>1, <3>2, <3>3, <3>6
    <3> QED
      BY <3>4, <3>5, <3>7
  <2>7. LateInv' /\ EarlyInv'
    <3>1. active' = active /\ \A i \in 1..Len(active) : Waits'[i] = Waits[i]
      BY <1>2, <2>4
    <3> QED
      BY <2>4, <2>6, <3>1 DEF LateInv, EarlyInv
  <2> QED
    BY <1>4, <2>5, <2>7 DEF TimedInv
<1> QED
  BY <1>5, <1>6

LEMMA SameIsTimed ==
  ASSUME Parts, Parts', TimedInv, UNCHANGED <<active, time, latest, soonest>>,
         hw'.left = hw.left, hw'.since = hw.since
  PROVE  TimedInv'
<1>1. /\ \A i \in 1..Len(active) : Waits'[i] = Waits[i]
      /\ HeadTime' = HeadTime /\ Slack' = Slack
  BY SameWaits
<1>2. HistoryType' /\ LoadInv'
  BY <1>1 DEF TimedInv, HistoryType, LoadInv
<1>3. LateInv' /\ EarlyInv'
  BY <1>1 DEF TimedInv, LateInv, EarlyInv
<1> QED
  BY <1>2, <1>3 DEF TimedInv

LEMMA UntimedIsTimed ==
  ASSUME Parts, Parts', TimedInv, Untimed
  PROVE  TimedInv'
<1>1. UNCHANGED <<active, time, latest, soonest>>
  BY DEF Untimed, AllocPop, AllocMark, Free, StopLastTraps, StopFired, IrqEnter, IrqSpurious,
         CallbackReturn, lists
<1>2. hw'.left = hw.left /\ hw'.since = hw.since
  <2>1. CASE IrqEnter
    BY <2>1, Typed DEF IrqEnter, HwType
  <2>2. CASE ~IrqEnter
    BY <2>2 DEF Untimed, AllocPop, AllocMark, Free, StopLastTraps, StopFired, IrqSpurious,
                CallbackReturn, lists
  <2> QED
    BY <2>1, <2>2
<1> QED
  BY <1>1, <1>2, SameIsTimed

----------------------------------------------------------------------------
(* The invariant. *)

LEMMA TimedStepIsStep == [TimedNext]_timedVars => [Next]_vars
<1> SUFFICES ASSUME [TimedNext]_timedVars PROVE [Next]_vars
  OBVIOUS
<1>1. CASE UNCHANGED timedVars
  BY <1>1 DEF timedVars
<1>2. CASE TimedNext
  <2>1. ~fault /\ (Client \/ Tick \/ Handler)
    BY <1>2, Zenon DEF TimedNext, TimedStart, TimedStop, TimedTick, TimedFire, Untimed,
                       Client, Handler
  <2> QED
    BY <2>1 DEF Next
<1> QED
  BY <1>1, <1>2

LEMMA TimedStep == Parts /\ Parts' /\ TimedInv /\ [TimedNext]_timedVars => TimedInv'
<1> SUFFICES ASSUME Parts, Parts', TimedInv, [TimedNext]_timedVars PROVE TimedInv'
  OBVIOUS
<1>1. CASE UNCHANGED timedVars
  BY <1>1, SameIsTimed DEF timedVars, vars, lists
<1>2. CASE TimedNext
  BY <1>2, StartIsTimed, StopIsTimed, TickIsTimed, FireIsTimed, UntimedIsTimed, Zenon DEF TimedNext
<1> QED
  BY <1>1, <1>2

LEMMA AlwaysTimed == TimedSpec => [](Parts /\ TimedInv)
<1>1. TimedInit => Parts /\ TimedInv
  <2> SUFFICES ASSUME TimedInit PROVE Parts /\ TimedInv
    OBVIOUS
  <2>1. Init /\ HistoryType
    BY DEF TimedInit, HistoryType
  <2>2. active = <<>> /\ Len(active) = 0
    BY <2>1 DEF Init
  <2> QED
    BY <2>1, <2>2, InitParts DEF TimedInv, LoadInv, LateInv, EarlyInv
<1>2. Parts /\ TimedInv /\ [TimedNext]_timedVars => Parts' /\ TimedInv'
  BY TimedStepIsStep, NextParts, TimedStep, Zenon
<1> QED
  BY <1>1, <1>2, PTL DEF TimedSpec

\* Where an active timer is.
LEMMA PlaceOf ==
  ASSUME Parts, NEW t \in Timer, state[t] = "ACTIVE"
  PROVE  \E i \in 1..Len(active) : active[i] = t
<1>1. t \in ToSet(active) /\ active \in Seq(Timer)
  BY Typed DEF Parts, Places
<1> QED
  BY <1>1, ElementsOfList

\* The interrupt is held off by at most MaxLate and the hardware timer is loaded at most
\* Delta ticks short, so no timer waits longer past its interval than both together, however
\* many starts and stops have moved it in the list or restarted the hardware timer meanwhile.
THEOREM TimersNeverLate == TimedSpec => []NeverLate
<1>1. Parts /\ TimedInv => NeverLate
  <2> SUFFICES ASSUME Parts, TimedInv, NEW t \in Timer, state[t] = "ACTIVE"
               PROVE  latest[t] >= -(MaxLate + Delta)
    BY DEF NeverLate
  <2>1. PICK i \in 1..Len(active) : active[i] = t
    BY PlaceOf
  <2>2. active # <<>>
    BY <2>1
  <2>3. /\ Waits[i] \in Nat /\ HeadTime <= Waits[i]
        /\ latest[t] >= Waits[i] - hw.since - Delta
    BY <2>1, <2>2, AboveFloor DEF TimedInv, LateInv
  <2>4. hw.since <= HeadTime + MaxLate
    BY <2>2 DEF TimedInv, LoadInv
  <2>5. hw.since \in Nat /\ HeadTime \in Nat /\ MaxLate \in Nat /\ Delta \in Nat
        /\ latest[t] \in Int
    BY <2>2, Numbers, Bounds DEF TimedInv, HistoryType
  <2> QED
    BY <2>3, <2>4, <2>5
<1> QED
  BY <1>1, AlwaysTimed, PTL

\* Only the handler takes a timer from the active list to its callback, and only when the time
\* of the head and of the timers before it is over: what Delta and the overdue head took off
\* the interval is all that soonest allows for, so no timer is called back before it.
THEOREM TimersNeverEarly == TimedSpec => NeverEarly
<1>1. Parts /\ Parts' /\ TimedInv /\ [TimedNext]_timedVars =>
        [\A t \in Timer :
           state[t] = "ACTIVE" /\ state'[t] \in {"FIRED", "CALLBACK"} => soonest[t] <= 0
        ]_timedVars
  <2> SUFFICES ASSUME Parts, Parts', TimedInv, TimedNext, NEW t \in Timer,
                      state[t] = "ACTIVE", state'[t] \in {"FIRED", "CALLBACK"}
               PROVE  soonest[t] <= 0
    OBVIOUS
  <2>1. IrqFire
    <3> SUFFICES ASSUME ~IrqFire PROVE FALSE
      OBVIOUS
    <3>1. state \in [Timer -> TimerState]
      BY DEF Parts, TypeOK
    <3>2. ASSUME NEW u \in Timer, NEW ticks \in Delta..MaxTicks, TimedStart(u, ticks) PROVE FALSE
      BY <3>1, <3>2 DEF TimedStart, Start
    <3>3. ASSUME NEW u \in Timer, TimedStop(u) PROVE FALSE
      BY <3>1, <3>3 DEF TimedStop, StopActive
    <3>4. CASE TimedTick
      BY <3>4 DEF TimedTick, Tick
    <3>5. CASE Untimed /\ ~CallbackReturn
      BY <3>1, <3>5 DEF Untimed, AllocPop, AllocMark, Free, StopLastTraps, StopFired, IrqEnter,
                        IrqSpurious
    <3>6. CASE CallbackReturn
      <4>1. /\ running \in Timer
            /\ \/ state' = AfterCallback
               \/ /\ running' \in Timer /\ state[running'] = "FIRED"
                  /\ state' = [AfterCallback EXCEPT ![running'] = "CALLBACK"]
        BY <3>6, CallbackReturnKeeps
      <4>2. AfterCallback[t] = "ACTIVE" /\ AfterCallback \in [Timer -> STRING]
        BY <3>1, <4>1 DEF AfterCallback, TimerState
      <4> HIDE DEF AfterCallback
      <4>3. state'[t] = "ACTIVE"
        BY <4>1, <4>2
      <4> QED
        BY <4>3
    <3> QED
      BY <3>2, <3>3, <3>4, <3>5, <3>6, Zenon DEF TimedNext, TimedFire
  <2>2. /\ active # <<>> /\ HeadTime <= hw.since + Delta
        /\ DueNow \in 1..Len(active)
        /\ Shortened(DueNow, HeadTime + Overrun)
        /\ \A i \in 1..DueNow : Waits[i] <= HeadTime + Overrun
    BY <2>1, FireWaits
  <2>3. PICK i \in 1..Len(active) : active[i] = t
    BY PlaceOf
  <2>4. i \in 1..DueNow
    <3> SUFFICES ASSUME i \notin 1..DueNow PROVE FALSE
      OBVIOUS
    <3>1. Len(active) \in Nat /\ Len(active') = Len(active) - DueNow
      BY <2>2, WaitsAre DEF WaitsInv, Shortened
    <3> DEFINE j == i - DueNow
    <3>2. j \in 1..Len(active) - DueNow /\ j \in 1..Len(active') /\ j + DueNow = i
      BY <2>2, <3>1
    <3> HIDE DEF j
    <3>3. active'[j] = t
      BY <2>2, <2>3, <3>2 DEF Shortened
    <3>4. state'[t] = "ACTIVE"
      BY <3>2, <3>3, NextActiveOnes DEF AllActive
    <3> QED
      BY <3>4
  <2>5. /\ soonest[t] <= Waits[i] - hw.since - Delta + Slack /\ soonest[t] \in Int
        /\ Waits[i] <= HeadTime + Overrun
    BY <2>2, <2>3, <2>4 DEF TimedInv, EarlyInv, HistoryType
  <2>6. HeadTime + Overrun + Slack <= hw.since + Delta
    BY <2>2, DueCovered DEF Covered
  <2>7. /\ Waits[i] \in Nat /\ hw.since \in Nat /\ HeadTime \in Nat /\ Overrun \in Nat
        /\ Slack \in {0, 1} /\ Delta \in Nat
    BY <2>2, AboveFloor, Numbers, Bounds
  <2> QED
    BY <2>5, <2>6, <2>7
<1> QED
  BY <1>1, AlwaysTimed, PTL DEF TimedSpec, NeverEarly
=============================================================================
