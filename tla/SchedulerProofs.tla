-------------------------- MODULE SchedulerProofs --------------------------
(***************************************************************************)
(* What max_instances and the interval promise, proved for any fleet, any   *)
(* interval, limit and durations: when a run of the job is missed, how long *)
(* a device goes unpolled, and how old the sample is that a rate refers to. *)
(***************************************************************************)
EXTENDS Scheduler, FiniteSetTheorems, NaturalsInduction, WellFoundedInduction, TLAPS

\* How long a tick may take for the first n devices.
Time ==
  [n \in 0 .. Devices |->
     Cardinality((1 .. n) \cap slow) * Slow + Cardinality((1 .. n) \ slow) * Quick]

TypeInv ==
  /\ due \in 0 .. Interval
  /\ tick \in [Instance -> [dev : 0 .. Devices, left : Nat, since : Nat]]
  /\ \A i \in Instance : tick[i].dev = 0 => tick[i] = Free
  /\ slow \in SUBSET Device
  /\ missed \in BOOLEAN
  /\ age \in [Device -> Nat \cup {-1}]
  /\ ended \in [Device -> Nat \cup {-1}]
  /\ fresh \in [Device -> Nat \cup {-1}] /\ \A d \in Device : fresh[d] \in {-1, ended[d]}

\* Somebody is on the way to device d; or past it since its last poll began, and will
\* be free in time; or the next tick will come in time.
Coming(i, d) ==
  /\ 0 < tick[i].dev /\ tick[i].dev < d
  /\ age[d] + tick[i].left + Time[d - 1] - Time[tick[i].dev] <= Longest + Interval

Leaving(i, d) ==
  /\ d <= tick[i].dev
  /\ age[d] + tick[i].left <= Time[tick[i].dev] - Time[d - 1]

Awaited(d) ==
  /\ \E i \in Instance : tick[i].dev = 0
  /\ age[d] + due + Time[d - 1] <= Longest + Interval

TurnInv ==
  \A d \in Device :
    age[d] = -1 \/ Awaited(d) \/ \E i \in Instance : Coming(i, d) \/ Leaving(i, d)

\* As long as no run is missed, an instance can be told by how many firings came after
\* its own, rank[i].  This is how long it has been under way.
Elapsed(i, rank) == rank[i] * Interval + Interval - due

OnTime(rank) ==
  /\ \A i, j \in Busy : rank[i] = rank[j] => i = j
  /\ \A i \in Busy :
       /\ Elapsed(i, rank) + tick[i].left <= Time[tick[i].dev]
       /\ tick[i].since <= Elapsed(i, rank)

\* Each of the last k ticks is under way and has not finished the poll of d.
Unfinished(rank, k, d) ==
  \A n \in 0 .. k - 1 : \E i \in Busy : rank[i] = n /\ tick[i].dev <= d

\* The last turn of d that is over is not older than the tick before those; there is none
\* only if no other tick is under way.
Recent(rank, k, d) ==
  /\ ended[d] # -1 => ended[d] <= k * Interval + Interval - due
  /\ ended[d] = -1 => \A i \in Busy : rank[i] < k
  /\ Unfinished(rank, k, d)

KeepsUp(rank) ==
  /\ OnTime(rank)
  /\ \A d \in Device : \E k \in Nat : Recent(rank, k, d)

CapacityInv == WithinCapacity => ~missed /\ \E rank \in [Instance -> Nat] : KeepsUp(rank)

Inv == TypeInv /\ TurnInv /\ CapacityInv

-----------------------------------------------------------------------------
\* Numbers and durations

\* A set of numbers that is not empty has a least one.
LEMMA LeastNumber ==
  ASSUME NEW S \in SUBSET Nat, S # {}
  PROVE  \E m \in S : \A n \in S : m <= n
<1> DEFINE R == {ss \in Nat \X Nat : ss[1] < ss[2]}
<1>1. IsWellFoundedOn(R, Nat)
  BY NatLessThanWellFounded DEF OpToRel
<1>2. \E x \in S : \A y \in S : ~(<<y, x>> \in R)
  <2> HIDE DEF R
  <2> QED BY <1>1, WFMin
<1>3. PICK x \in S : \A y \in S : ~(<<y, x>> \in R)
  BY <1>2
<1>4. \A y \in S : ~(y < x)
  BY <1>3
<1> QED BY <1>4

\* What the proofs need of the constants, in one place.
LEMMA Constants ==
  /\ Devices \in Nat /\ Devices >= 1
  /\ Interval \in Nat /\ Interval >= 1
  /\ MaxInstances \in Nat /\ MaxInstances >= 1
  /\ Slow \in Nat /\ Quick \in Nat /\ Window \in Nat
BY FleetAssumption, TimeAssumption

\* A duration for m and n devices of each kind is a number, and grows with both.
LEMMA Product ==
  ASSUME NEW m \in Nat, NEW n \in Nat, NEW t \in Nat, m <= n
  PROVE  m * t \in Nat /\ n * t \in Nat /\ m * t <= n * t
OBVIOUS

\* The devices are finitely many, those of each kind too.
LEMMA FewDevices ==
  ASSUME NEW n \in 0 .. Devices
  PROVE  /\ IsFiniteSet((1 .. n) \cap slow) /\ IsFiniteSet((1 .. n) \ slow)
         /\ Cardinality((1 .. n) \cap slow) \in Nat /\ Cardinality((1 .. n) \ slow) \in Nat
<1>1. IsFiniteSet(1 .. n)
  BY FS_Interval, Constants
<1>2. IsFiniteSet((1 .. n) \cap slow) /\ IsFiniteSet((1 .. n) \ slow)
  BY <1>1, FS_Subset
<1> QED BY <1>2, FS_CardinalityType

LEMMA TimeType ==
  Time \in [0 .. Devices -> Nat]
<1> SUFFICES ASSUME NEW n \in 0 .. Devices
             PROVE  Cardinality((1 .. n) \cap slow) * Slow + Cardinality((1 .. n) \ slow) * Quick \in Nat
  BY DEF Time
<1>1. Cardinality((1 .. n) \cap slow) \in Nat /\ Cardinality((1 .. n) \ slow) \in Nat
  BY FewDevices
<1>2. Cardinality((1 .. n) \cap slow) * Slow \in Nat
  BY <1>1, Constants
<1>3. Cardinality((1 .. n) \ slow) * Quick \in Nat
  BY <1>1, Constants
<1> QED BY <1>2, <1>3

\* More devices take no less time.
LEMMA TimeGrows ==
  ASSUME NEW m \in 0 .. Devices, NEW n \in 0 .. Devices, m <= n
  PROVE  Time[m] <= Time[n]
<1>1. (1 .. m) \cap slow \subseteq (1 .. n) \cap slow /\ (1 .. m) \ slow \subseteq (1 .. n) \ slow
  BY Constants
<1>2. /\ Cardinality((1 .. m) \cap slow) <= Cardinality((1 .. n) \cap slow)
      /\ Cardinality((1 .. m) \ slow) <= Cardinality((1 .. n) \ slow)
  BY <1>1, FewDevices, FS_Subset
<1>3. /\ Cardinality((1 .. m) \cap slow) \in Nat /\ Cardinality((1 .. n) \cap slow) \in Nat
      /\ Cardinality((1 .. m) \ slow) \in Nat /\ Cardinality((1 .. n) \ slow) \in Nat
  BY FewDevices
<1>4. Cardinality((1 .. m) \cap slow) * Slow <= Cardinality((1 .. n) \cap slow) * Slow
  BY <1>2, <1>3, Product, Constants
<1>5. Cardinality((1 .. m) \ slow) * Quick <= Cardinality((1 .. n) \ slow) * Quick
  BY <1>2, <1>3, Product, Constants
<1>6. /\ Cardinality((1 .. m) \cap slow) * Slow \in Nat /\ Cardinality((1 .. n) \cap slow) * Slow \in Nat
      /\ Cardinality((1 .. m) \ slow) * Quick \in Nat /\ Cardinality((1 .. n) \ slow) * Quick \in Nat
  BY <1>3, Product, Constants
<1> QED BY <1>4, <1>5, <1>6 DEF Time

\* One device more takes its own time.
LEMMA TimeOfOne ==
  ASSUME NEW d \in Device
  PROVE  Time[d] = Time[d - 1] + IF d \in slow THEN Slow ELSE Quick
<1>1. d - 1 \in 0 .. Devices /\ d \in 0 .. Devices /\ d \notin 1 .. d - 1 /\ 1 .. d = (1 .. d - 1) \cup {d}
  BY Constants DEF Device
<1> DEFINE a == Cardinality((1 .. d - 1) \cap slow)
           b == Cardinality((1 .. d - 1) \ slow)
<1>2. a \in Nat /\ b \in Nat
  BY <1>1, FewDevices
<1>3. CASE d \in slow
  <2>1. (1 .. d) \cap slow = ((1 .. d - 1) \cap slow) \cup {d} /\ (1 .. d) \ slow = (1 .. d - 1) \ slow
    BY <1>1, <1>3
  <2>2. Cardinality((1 .. d) \cap slow) = a + 1
    BY <1>1, <2>1, FewDevices, FS_AddElement
  <2>3. Time[d] = (a + 1) * Slow + b * Quick /\ Time[d - 1] = a * Slow + b * Quick
    BY <1>1, <2>1, <2>2 DEF Time
  <2> HIDE DEF a, b
  <2> QED BY <1>2, <1>3, <2>3, Constants
<1>4. CASE d \notin slow
  <2>1. (1 .. d) \ slow = ((1 .. d - 1) \ slow) \cup {d} /\ (1 .. d) \cap slow = (1 .. d - 1) \cap slow
    BY <1>1, <1>4
  <2>2. Cardinality((1 .. d) \ slow) = b + 1
    BY <1>1, <2>1, FewDevices, FS_AddElement
  <2>3. Time[d] = a * Slow + (b + 1) * Quick /\ Time[d - 1] = a * Slow + b * Quick
    BY <1>1, <2>1, <2>2 DEF Time
  <2> HIDE DEF a, b
  <2> QED BY <1>2, <1>4, <2>3, Constants
<1> QED BY <1>3, <1>4

\* No devices take no time, all of them the time of the longest tick.
LEMMA TimeOfAll ==
  ASSUME slow \in SUBSET Device
  PROVE  Time[0] = 0 /\ Time[Devices] = Longest /\ Longest \in Nat
<1>1. (1 .. 0) \cap slow = {} /\ (1 .. 0) \ slow = {}
  OBVIOUS
<1>2. Time[0] = 0 * Slow + 0 * Quick
  BY <1>1, FS_EmptySet, Constants DEF Time
<1>3. IsFiniteSet(Device) /\ Cardinality(Device) = Devices
  BY FS_Interval, Constants DEF Device
<1>4. Device \cap slow = slow
  OBVIOUS
<1>5. Cardinality(Device \ slow) = Devices - Cardinality(slow)
  <2>1. IsFiniteSet(slow) /\ IsFiniteSet(Device \ slow)
    BY <1>3, FS_Subset
  <2>2. slow \cup (Device \ slow) = Device /\ slow \cap (Device \ slow) = {}
    OBVIOUS
  <2>3. Devices = Cardinality(slow) + Cardinality(Device \ slow) - Cardinality({})
    BY <1>3, <2>1, <2>2, FS_Union
  <2>4. Cardinality(slow) \in Nat /\ Cardinality(Device \ slow) \in Nat /\ Cardinality({}) = 0
    BY <2>1, FS_CardinalityType, FS_EmptySet
  <2> QED BY <2>3, <2>4, Constants
<1>6. Time[Devices] = Longest
  <2>1. Time[Devices] = Cardinality(Device \cap slow) * Slow + Cardinality(Device \ slow) * Quick
    BY Constants DEF Time, Device
  <2> QED BY <2>1, <1>4, <1>5 DEF Longest
<1>7. Time[Devices] \in Nat
  BY TimeType, Constants
<1>8. Time[0] = 0
  BY <1>2, Constants
<1> QED BY <1>6, <1>7, <1>8

\* What a tick may take depends on nothing that changes.
LEMMA TimeStays ==
  ASSUME slow' = slow
  PROVE  Time' = Time /\ Longest' = Longest /\ (WithinCapacity' <=> WithinCapacity)
BY DEF Time, Longest, WithinCapacity

-----------------------------------------------------------------------------
\* Types

\* An instance is busy exactly if it has a device in hand.
LEMMA BusyHasDevice ==
  ASSUME TypeInv
  PROVE  /\ Busy = {i \in Instance : tick[i].dev # 0}
         /\ \A i \in Busy : i \in Instance /\ tick[i].dev \in Device /\ tick[i].left \in Nat
                            /\ tick[i].since \in Nat
<1>1. \A i \in Instance : tick[i] # Free <=> tick[i].dev # 0
  BY DEF TypeInv, Free
<1>2. Busy = {i \in Instance : tick[i].dev # 0}
  BY <1>1 DEF Busy
<1>3. \A i \in Instance : tick[i].dev # 0 => tick[i].dev \in Device
  BY Constants DEF TypeInv, Device
<1> QED BY <1>2, <1>3 DEF TypeInv

\* The poll of a device takes its time at most.
LEMMA DurationBound ==
  ASSUME NEW d \in Device, NEW n \in Durations(d)
  PROVE  n \in Nat /\ n <= IF d \in slow THEN Slow ELSE Quick
BY Constants DEF Durations

\* A firing is taken by an instance that is free.
LEMMA Taken ==
  ASSUME TypeInv, Fire
  PROVE  \E i \in Instance, n \in Nat :
           /\ tick[i].dev = 0
           /\ n <= IF 1 \in slow THEN Slow ELSE Quick
           /\ tick' = [tick EXCEPT ![i] = [dev |-> 1, left |-> n, since |-> 0]]
           /\ age' = [age EXCEPT ![1] = 0]
<1> DEFINE i == Idle
<1>1. Instance \ Busy # {} /\ Instance \ Busy \in SUBSET Nat
  BY DEF Fire, Busy, Instance
<1>2. \E x \in Instance \ Busy : \A j \in Instance \ Busy : x <= j
  BY <1>1, LeastNumber
<1>3. i \in Instance \ Busy
  BY <1>2 DEF Idle
<1>4. Poll(i, 1)
  BY DEF Fire
<1> HIDE DEF i
<1>5. PICK n \in Durations(1) : tick' = [tick EXCEPT ![i] = [dev |-> 1, left |-> n, since |-> 0]]
  BY <1>4 DEF Poll
<1>6. 1 \in Device
  BY Constants DEF Device
<1>7. n \in Nat /\ n <= IF 1 \in slow THEN Slow ELSE Quick
  BY <1>5, <1>6, DurationBound
<1>8. tick[i].dev = 0
  BY <1>3, BusyHasDevice
<1> QED BY <1>3, <1>4, <1>5, <1>7, <1>8 DEF Poll

\* An instance that turns to the next device.
LEMMA Turned ==
  ASSUME TypeInv, NEW i \in Instance, NextDevice(i)
  PROVE  LET e == tick[i].dev IN
         /\ e \in Device /\ e + 1 \in Device /\ tick[i].left = 0
         /\ \E n \in Nat :
              /\ n <= IF e + 1 \in slow THEN Slow ELSE Quick
              /\ tick' = [tick EXCEPT ![i] = [dev |-> e + 1, left |-> n, since |-> 0]]
         /\ age' = [age EXCEPT ![e + 1] = 0]
<1> DEFINE e == tick[i].dev
<1>1. e \in Device /\ e + 1 \in Device
  BY BusyHasDevice, Constants DEF NextDevice, Device
<1>2. PICK n \in Durations(e + 1) : tick' = [tick EXCEPT ![i] = [dev |-> e + 1, left |-> n, since |-> 0]]
  BY DEF NextDevice, Poll
<1>3. n \in Nat /\ n <= IF e + 1 \in slow THEN Slow ELSE Quick
  BY <1>1, <1>2, DurationBound
<1> QED BY <1>1, <1>2, <1>3 DEF NextDevice, Poll

\* The end of a poll ends a turn of its device and of no other one.
LEMMA SampledType ==
  ASSUME TypeInv, NEW i \in Busy, Sampled(i)
  PROVE  /\ ended' \in [Device -> Nat \cup {-1}]
         /\ fresh' \in [Device -> Nat \cup {-1}] /\ \A d \in Device : fresh'[d] \in {-1, ended'[d]}
         /\ \A d \in Device : d # tick[i].dev => ended'[d] = ended[d]
         /\ ended'[tick[i].dev] \in Nat /\ ended'[tick[i].dev] <= tick[i].since
         /\ ended[tick[i].dev] # -1 => ended'[tick[i].dev] <= ended[tick[i].dev]
<1>1. tick[i].dev \in Device /\ tick[i].since \in Nat
  BY BusyHasDevice
<1>2. /\ ended \in [Device -> Nat \cup {-1}]
      /\ fresh \in [Device -> Nat \cup {-1}] /\ \A d \in Device : fresh[d] \in {-1, ended[d]}
  BY DEF TypeInv
<1>3. CASE NotOvertaken(i)
  <2>1. ended' = [ended EXCEPT ![tick[i].dev] = tick[i].since]
    BY <1>3 DEF Sampled
  <2>2. PICK a \in {tick[i].since, -1} : fresh' = [fresh EXCEPT ![tick[i].dev] = a]
    BY <1>3 DEF Sampled
  <2>3. /\ \A d \in Device : ended'[d] = IF d = tick[i].dev THEN tick[i].since ELSE ended[d]
        /\ \A d \in Device : fresh'[d] = IF d = tick[i].dev THEN a ELSE fresh[d]
    BY <1>2, <2>1, <2>2
  <2>4. ended' \in [Device -> Nat \cup {-1}] /\ fresh' \in [Device -> Nat \cup {-1}]
    BY <1>1, <1>2, <2>1, <2>2
  <2>5. \A d \in Device : fresh'[d] \in {-1, ended'[d]}
    BY <1>2, <2>2, <2>3
  <2> QED BY <1>1, <1>2, <1>3, <2>3, <2>4, <2>5 DEF NotOvertaken
<1>4. CASE ~NotOvertaken(i)
  <2>1. ended' = ended /\ fresh' = fresh
    BY <1>4 DEF Sampled
  <2> QED BY <1>1, <1>2, <1>4, <2>1 DEF NotOvertaken
<1> QED BY <1>3, <1>4

\* So does a cut, which costs the devices behind it their turn besides.
LEMMA CutType ==
  ASSUME TypeInv, NEW i \in Instance, CutShort(i)
  PROVE  /\ i \in Busy
         /\ age' \in [Device -> Nat \cup {-1}] /\ ended' \in [Device -> Nat \cup {-1}]
         /\ fresh' \in [Device -> Nat \cup {-1}] /\ \A d \in Device : fresh'[d] \in {-1, ended'[d]}
         /\ \A d \in Device : age'[d] = IF d > tick[i].dev THEN -1 ELSE age[d]
         /\ \A d \in Device : d < tick[i].dev => ended'[d] = ended[d]
         /\ \A d \in Device : d >= tick[i].dev =>
              /\ ended'[d] \in Nat /\ ended'[d] <= tick[i].since
              /\ ended[d] # -1 => ended'[d] <= ended[d]
<1>1. i \in Busy
  BY DEF CutShort
<1>2. tick[i].dev \in Device /\ tick[i].since \in Nat
  BY <1>1, BusyHasDevice
<1>3. /\ age \in [Device -> Nat \cup {-1}] /\ ended \in [Device -> Nat \cup {-1}]
      /\ fresh \in [Device -> Nat \cup {-1}] /\ \A d \in Device : fresh[d] \in {-1, ended[d]}
  BY DEF TypeInv
<1>4. age' = [e \in Device |-> IF e > tick[i].dev THEN -1 ELSE age[e]]
  BY DEF CutShort
<1>5. ended' = [e \in Device |-> IF e > tick[i].dev THEN 0
                                ELSE IF e = tick[i].dev /\ NotOvertaken(i) THEN tick[i].since ELSE ended[e]]
  BY DEF CutShort
<1>6. fresh' = [e \in Device |-> IF e > tick[i].dev \/ (e = tick[i].dev /\ NotOvertaken(i)) THEN -1
                                ELSE fresh[e]]
  BY DEF CutShort
<1>7. ASSUME NEW d \in Device
      PROVE  /\ age'[d] \in Nat \cup {-1} /\ ended'[d] \in Nat \cup {-1}
             /\ fresh'[d] \in {-1, ended'[d]}
             /\ d < tick[i].dev => ended'[d] = ended[d]
  <2>1. d \in Nat /\ tick[i].dev \in Nat
    BY <1>2 DEF Device
  <2> QED BY <1>2, <1>3, <1>4, <1>5, <1>6, <2>1
<1>8. ASSUME NEW d \in Device, d >= tick[i].dev
      PROVE  /\ ended'[d] \in Nat /\ ended'[d] <= tick[i].since
             /\ ended[d] # -1 => ended'[d] <= ended[d]
  <2>1. d \in Nat /\ tick[i].dev \in Nat
    BY <1>2 DEF Device
  <2>2. CASE d > tick[i].dev
    BY <1>2, <1>3, <1>5, <2>1, <2>2
  <2>3. CASE d = tick[i].dev
    BY <1>2, <1>3, <1>5, <2>1, <2>3 DEF NotOvertaken
  <2> QED BY <1>8, <2>1, <2>2, <2>3
<1>9. \A d \in Device : age'[d] = IF d > tick[i].dev THEN -1 ELSE age[d]
  BY <1>4
<1>10. /\ age' \in [Device -> Nat \cup {-1}] /\ ended' \in [Device -> Nat \cup {-1}]
       /\ fresh' \in [Device -> Nat \cup {-1}]
  BY <1>4, <1>5, <1>6, <1>7
<1> QED BY <1>1, <1>7, <1>8, <1>9, <1>10

\* Time makes every clock older, and starts none.
LEMMA OlderType ==
  ASSUME NEW a \in [Device -> Nat \cup {-1}]
  PROVE  /\ Older(a) \in [Device -> Nat \cup {-1}]
         /\ \A d \in Device : Older(a)[d] = IF a[d] = -1 THEN -1 ELSE a[d] + 1
BY DEF Older

\* When time passes, the busy instances get on, and the others stay free.
LEMMA PassTicks ==
  ASSUME TypeInv, Pass
  PROVE  /\ tick' \in [Instance -> [dev : 0 .. Devices, left : Nat, since : Nat]]
         /\ \A i \in Instance :
              IF tick[i].dev = 0 THEN tick'[i] = Free
              ELSE /\ tick[i].left > 0
                   /\ tick'[i].dev = tick[i].dev
                   /\ tick'[i].left = tick[i].left - 1
                   /\ tick'[i].since = tick[i].since + 1
<1>1. tick' = [i \in Instance |->
                 IF i \in Busy THEN [tick[i] EXCEPT !.left = @ - 1, !.since = @ + 1] ELSE Free]
  BY DEF Pass
<1>2. Busy = {i \in Instance : tick[i].dev # 0}
  BY BusyHasDevice
<1>3. \A i \in Instance : tick[i] \in [dev : 0 .. Devices, left : Nat, since : Nat]
  BY DEF TypeInv
<1>4. Free \in [dev : 0 .. Devices, left : Nat, since : Nat]
  BY Constants DEF Free
<1>5. ASSUME NEW i \in Instance, tick[i].dev # 0
      PROVE  /\ tick[i].left > 0
             /\ tick'[i].dev = tick[i].dev
             /\ tick'[i].left = tick[i].left - 1
             /\ tick'[i].since = tick[i].since + 1
             /\ tick'[i] \in [dev : 0 .. Devices, left : Nat, since : Nat]
  <2>1. tick[i].left > 0
    BY <1>2, <1>5 DEF Pass
  <2>2. tick'[i] = [tick[i] EXCEPT !.left = @ - 1, !.since = @ + 1]
    BY <1>1, <1>2, <1>5
  <2>3. tick[i] \in [dev : 0 .. Devices, left : Nat, since : Nat]
    BY <1>3
  <2>4. tick'[i] = [dev |-> tick[i].dev, left |-> tick[i].left - 1, since |-> tick[i].since + 1]
    BY <2>2, <2>3
  <2>5. tick[i].left - 1 \in Nat /\ tick[i].since + 1 \in Nat /\ tick[i].dev \in 0 .. Devices
    BY <2>1, <2>3
  <2> QED BY <2>1, <2>4, <2>5
<1>6. \A i \in Instance : tick[i].dev = 0 => tick'[i] = Free
  BY <1>1, <1>2
<1>7. \A i \in Instance : tick'[i] \in [dev : 0 .. Devices, left : Nat, since : Nat]
  BY <1>4, <1>5, <1>6
<1>8. tick' \in [Instance -> [dev : 0 .. Devices, left : Nat, since : Nat]]
  BY <1>1, <1>7
<1> QED BY <1>5, <1>6, <1>8

LEMMA InitTyped ==
  ASSUME Init
  PROVE  TypeInv
<1>1. tick \in [Instance -> [dev : 0 .. Devices, left : Nat, since : Nat]]
  BY Constants DEF Init, Free
<1>2. \A i \in Instance : tick[i].dev = 0 => tick[i] = Free
  BY DEF Init
<1>3. /\ age \in [Device -> Nat \cup {-1}] /\ ended \in [Device -> Nat \cup {-1}]
      /\ slow \in SUBSET Device
      /\ fresh \in [Device -> Nat \cup {-1}] /\ \A d \in Device : fresh[d] \in {-1, ended[d]}
  BY DEF Init
<1>4. due \in 0 .. Interval
  BY Constants DEF Init
<1>5. missed \in BOOLEAN
  BY Zenon DEF Init
<1> QED BY <1>1, <1>2, <1>3, <1>4, <1>5 DEF TypeInv

LEMMA StepTyped ==
  ASSUME TypeInv, [Next]_vars
  PROVE  TypeInv'
<1>t. /\ due \in 0 .. Interval /\ missed \in BOOLEAN /\ slow \in SUBSET Device
      /\ tick \in [Instance -> [dev : 0 .. Devices, left : Nat, since : Nat]]
      /\ \A i \in Instance : tick[i].dev = 0 => tick[i] = Free
      /\ age \in [Device -> Nat \cup {-1}] /\ ended \in [Device -> Nat \cup {-1}]
      /\ fresh \in [Device -> Nat \cup {-1}] /\ \A d \in Device : fresh[d] \in {-1, ended[d]}
  BY DEF TypeInv
<1>1. CASE Fire
  <2>1. PICK i \in Instance, n \in Nat :
          /\ tick' = [tick EXCEPT ![i] = [dev |-> 1, left |-> n, since |-> 0]]
          /\ age' = [age EXCEPT ![1] = 0]
    BY <1>1, Taken
  <2>2. tick' \in [Instance -> [dev : 0 .. Devices, left : Nat, since : Nat]]
    BY <2>1, Constants DEF TypeInv
  <2>3. \A j \in Instance : tick'[j].dev = 0 => tick'[j] = Free
    BY <1>t, <2>1
  <2>4. due' \in 0 .. Interval /\ slow' = slow /\ ended' = ended /\ fresh' = fresh
    BY <1>1, Constants DEF Fire
  <2>6. missed' \in BOOLEAN
    BY <1>1, Zenon DEF Fire
  <2>5. age' \in [Device -> Nat \cup {-1}]
    BY <2>1 DEF TypeInv
  <2> QED BY <1>t, <2>2, <2>3, <2>4, <2>5, <2>6 DEF TypeInv
<1>7. CASE FireInVain
  <2>1. due' \in 0 .. Interval /\ tick' = tick /\ slow' = slow
    BY <1>7, Constants DEF FireInVain
  <2>2. missed' \in BOOLEAN
    BY <1>7, Zenon DEF FireInVain
  <2>3. /\ age' \in [Device -> Nat \cup {-1}] /\ ended' \in [Device -> Nat \cup {-1}]
        /\ fresh' \in [Device -> Nat \cup {-1}] /\ \A d \in Device : fresh'[d] \in {-1, ended'[d]}
    BY <1>7 DEF FireInVain
  <2> QED BY <1>t, <2>1, <2>2, <2>3 DEF TypeInv
<1>2. CASE Skip
  <2>1. due' \in 0 .. Interval
    BY <1>2, Constants DEF Skip
  <2>2. missed' \in BOOLEAN
    BY <1>2, Zenon DEF Skip
  <2>3. tick' = tick /\ slow' = slow /\ age' = age /\ ended' = ended /\ fresh' = fresh
    BY <1>2 DEF Skip
  <2> QED BY <1>t, <2>1, <2>2, <2>3 DEF TypeInv
<1>3. CASE Pass
  <2>1. due' \in 0 .. Interval
    <3>1. due > 0 /\ due' = due - 1
      BY <1>3 DEF Pass
    <3> QED BY <1>t, <3>1, Constants
  <2>3. tick' \in [Instance -> [dev : 0 .. Devices, left : Nat, since : Nat]]
    BY <1>3, PassTicks
  <2>4. \A i \in Instance : tick'[i].dev = 0 => tick'[i] = Free
    BY <1>3, <1>t, PassTicks
  <2>5. age' \in [Device -> Nat \cup {-1}] /\ ended' \in [Device -> Nat \cup {-1}]
    BY <1>3, <1>t, OlderType DEF Pass
  <2>7. fresh' \in [Device -> Nat \cup {-1}]
    BY <1>3, <1>t, OlderType DEF Pass
  <2>6. \A d \in Device : fresh'[d] \in {-1, ended'[d]}
    <3>1. \A d \in Device : fresh'[d] = IF fresh[d] = -1 THEN -1 ELSE fresh[d] + 1
      BY <1>3 DEF Pass, Older
    <3>2. \A d \in Device : ended'[d] = IF ended[d] = -1 THEN -1 ELSE ended[d] + 1
      BY <1>3 DEF Pass, Older
    <3> QED BY <1>t, <3>1, <3>2
  <2> QED BY <1>t, <1>3, <2>1, <2>3, <2>4, <2>5, <2>6, <2>7 DEF Pass, TypeInv
<1>4. ASSUME NEW i \in Instance, NextDevice(i) PROVE TypeInv'
  <2>1. PICK n \in Nat : tick' = [tick EXCEPT ![i] = [dev |-> tick[i].dev + 1, left |-> n, since |-> 0]]
    BY <1>4, Turned
  <2>2. tick[i].dev + 1 \in Device /\ age' = [age EXCEPT ![tick[i].dev + 1] = 0]
    BY <1>4, Turned
  <2>3. tick' \in [Instance -> [dev : 0 .. Devices, left : Nat, since : Nat]]
    BY <2>1, <2>2, Constants DEF TypeInv, Device
  <2>4. \A j \in Instance : tick'[j].dev = 0 => tick'[j] = Free
    BY <2>1, <2>2 DEF TypeInv, Device
  <2>5. age' \in [Device -> Nat \cup {-1}]
    BY <2>2 DEF TypeInv
  <2>6. /\ ended' \in [Device -> Nat \cup {-1}]
        /\ fresh' \in [Device -> Nat \cup {-1}] /\ \A d \in Device : fresh'[d] \in {-1, ended'[d]}
    BY <1>4, SampledType DEF NextDevice
  <2> QED BY <1>4, <2>3, <2>4, <2>5, <2>6 DEF NextDevice, TypeInv
<1>5. ASSUME NEW i \in Instance, EndTick(i) PROVE TypeInv'
  <2>1. tick' \in [Instance -> [dev : 0 .. Devices, left : Nat, since : Nat]]
    BY <1>5, Constants DEF EndTick, TypeInv, Free
  <2>2. \A j \in Instance : tick'[j].dev = 0 => tick'[j] = Free
    BY <1>5 DEF EndTick, TypeInv
  <2>3. /\ ended' \in [Device -> Nat \cup {-1}]
        /\ fresh' \in [Device -> Nat \cup {-1}] /\ \A d \in Device : fresh'[d] \in {-1, ended'[d]}
    BY <1>5, SampledType DEF EndTick
  <2> QED BY <1>5, <2>1, <2>2, <2>3 DEF EndTick, TypeInv
<1>8. ASSUME NEW i \in Instance, CutShort(i) PROVE TypeInv'
  <2>1. tick' = [tick EXCEPT ![i] = Free] /\ due' = due /\ slow' = slow /\ missed' = missed
    BY <1>8 DEF CutShort
  <2>2. tick' \in [Instance -> [dev : 0 .. Devices, left : Nat, since : Nat]]
    BY <1>t, <2>1, Constants DEF Free
  <2>3. \A j \in Instance : tick'[j].dev = 0 => tick'[j] = Free
    BY <1>t, <2>1
  <2> QED BY <1>t, <1>8, <2>1, <2>2, <2>3, CutType DEF TypeInv
<1>6. CASE UNCHANGED vars
  BY <1>6 DEF vars, TypeInv
<1> QED BY <1>1, <1>2, <1>3, <1>4, <1>5, <1>6, <1>7, <1>8 DEF Next

-----------------------------------------------------------------------------
\* Every device gets its turn

\* What a step keeps of how long things take.
LEMMA Clock ==
  ASSUME TypeInv
  PROVE  /\ Time \in [0 .. Devices -> Nat] /\ Longest \in Nat
         /\ \A d \in Device : /\ d \in 0 .. Devices /\ d - 1 \in 0 .. Devices
                              /\ Time[d] \in Nat /\ Time[d - 1] \in Nat
                              /\ Time[d] = Time[d - 1] + IF d \in slow THEN Slow ELSE Quick
                              /\ Time[d - 1] <= Time[d] /\ Time[d] <= Longest
<1>1. slow \in SUBSET Device
  BY DEF TypeInv
<1>2. Time \in [0 .. Devices -> Nat] /\ Longest \in Nat /\ Time[Devices] = Longest
  BY <1>1, TimeType, TimeOfAll
<1>3. ASSUME NEW d \in Device
      PROVE  /\ d \in 0 .. Devices /\ d - 1 \in 0 .. Devices
             /\ Time[d] \in Nat /\ Time[d - 1] \in Nat
             /\ Time[d] = Time[d - 1] + IF d \in slow THEN Slow ELSE Quick
             /\ Time[d - 1] <= Time[d] /\ Time[d] <= Longest
  <2>1. d \in 0 .. Devices /\ d - 1 \in 0 .. Devices /\ Devices \in 0 .. Devices /\ d - 1 <= d /\ d <= Devices
    BY Constants DEF Device
  <2>2. Time[d - 1] <= Time[d] /\ Time[d] <= Time[Devices]
    BY <2>1, TimeGrows
  <2>3. Time[d] = Time[d - 1] + IF d \in slow THEN Slow ELSE Quick
    BY TimeOfOne
  <2>4. Time[d] \in Nat /\ Time[d - 1] \in Nat
    BY <1>2, <2>1
  <2> QED BY <1>2, <2>1, <2>2, <2>3, <2>4
<1> QED BY <1>2, <1>3

LEMMA InitTurns ==
  ASSUME Init
  PROVE  TurnInv
<1> SUFFICES ASSUME NEW d \in Device
             PROVE  Awaited(d)
  BY DEF TurnInv
<1>1. Time[d - 1] \in Nat /\ Time[d - 1] <= Longest /\ Longest \in Nat
  BY InitTyped, Clock
<1>2. 1 \in Instance
  BY Constants DEF Instance
<1>3. tick[1].dev = 0 /\ age[d] = 0 /\ due = Interval
  BY <1>2 DEF Init, Free
<1> QED BY <1>1, <1>2, <1>3, Constants DEF Awaited

LEMMA FireTurns ==
  ASSUME TypeInv, TurnInv, Fire
  PROVE  TurnInv'
<1>1. PICK i \in Instance, n \in Nat :
        /\ tick[i].dev = 0
        /\ n <= IF 1 \in slow THEN Slow ELSE Quick
        /\ tick' = [tick EXCEPT ![i] = [dev |-> 1, left |-> n, since |-> 0]]
        /\ age' = [age EXCEPT ![1] = 0]
  BY Taken
<1>2. due = 0 /\ slow' = slow
  BY DEF Fire
<1>3. Time' = Time /\ Longest' = Longest
  BY <1>2, TimeStays
<1>4. tick'[i] = [dev |-> 1, left |-> n, since |-> 0] /\ \A j \in Instance \ {i} : tick'[j] = tick[j]
  BY <1>1 DEF TypeInv
<1>5. 1 \in Device /\ Time[0] = 0 /\ n <= Time[1] /\ Time[1] \in Nat
  <2>1. 1 \in Device
    BY Constants DEF Device
  <2>2. Time[0] = 0
    BY TimeOfAll DEF TypeInv
  <2>3. Time[1] \in Nat /\ Time[1] = Time[0] + IF 1 \in slow THEN Slow ELSE Quick
    BY <2>1, Clock
  <2> QED BY <1>1, <2>1, <2>2, <2>3, Constants
<1> SUFFICES ASSUME NEW d \in Device, age'[d] # -1
             PROVE  Awaited(d)' \/ \E j \in Instance : Coming(j, d)' \/ Leaving(j, d)'
  BY DEF TurnInv
<1>6. Time[d - 1] \in Nat /\ Longest \in Nat
  BY Clock DEF TypeInv
<1>7. CASE d = 1
  <2>1. age'[d] = 0
    BY <1>1, <1>7 DEF TypeInv
  <2>2. Leaving(i, d)'
    BY <1>3, <1>4, <1>5, <1>7, <2>1 DEF Leaving
  <2> QED BY <2>2
<1>8. CASE d # 1
  <2>1. age'[d] = age[d] /\ age[d] \in Nat /\ d \in Nat /\ d > 1
    <3>1. age \in [Device -> Nat \cup {-1}]
      BY DEF TypeInv
    <3>2. age'[d] = age[d]
      BY <1>1, <1>8, <3>1
    <3>3. d \in Nat /\ d >= 1
      BY DEF Device
    <3> QED BY <1>8, <3>1, <3>2, <3>3
  <2>2. ASSUME NEW j \in Instance, Coming(j, d) \/ Leaving(j, d)
        PROVE  Coming(j, d)' \/ Leaving(j, d)'
    <3>1. 0 < tick[j].dev \/ d <= tick[j].dev
      BY <2>2 DEF Coming, Leaving
    <3>2. j # i
      BY <1>1, <2>1, <3>1
    <3>3. tick'[j] = tick[j]
      BY <1>4, <3>2
    <3> QED BY <1>3, <2>1, <2>2, <3>3 DEF Coming, Leaving
  <2>3. ASSUME Awaited(d)
        PROVE  Coming(i, d)'
    <3>1. age[d] + Time[d - 1] <= Longest + Interval
      BY <1>2, <1>6, <2>1, <2>3 DEF Awaited
    <3>2. age[d] + n + Time[d - 1] - Time[1] <= Longest + Interval
      BY <1>5, <1>6, <2>1, <3>1, Constants
    <3> QED BY <1>3, <1>4, <2>1, <3>2 DEF Coming
  <2> QED BY <2>1, <2>2, <2>3 DEF TurnInv
<1> QED BY <1>7, <1>8

\* A firing that is refused finds nobody who waits for it.
LEMMA SkipTurns ==
  ASSUME TypeInv, TurnInv, Skip
  PROVE  TurnInv'
<1>1. tick' = tick /\ age' = age /\ slow' = slow
  BY DEF Skip
<1>2. Time' = Time /\ Longest' = Longest
  BY <1>1, TimeStays
<1>3. \A i \in Instance : tick[i].dev # 0
  BY BusyHasDevice DEF Skip
<1> SUFFICES ASSUME NEW d \in Device, age'[d] # -1
             PROVE  \E j \in Instance : Coming(j, d)' \/ Leaving(j, d)'
  BY DEF TurnInv
<1>4. PICK j \in Instance : Coming(j, d) \/ Leaving(j, d)
  BY <1>1, <1>3 DEF TurnInv, Awaited
<1> QED BY <1>1, <1>2, <1>4 DEF Coming, Leaving

LEMMA PassTurns ==
  ASSUME TypeInv, TurnInv, Pass
  PROVE  TurnInv'
<1>1. slow' = slow /\ due > 0 /\ due' = due - 1 /\ age' = Older(age)
  BY DEF Pass
<1>2. Time' = Time /\ Longest' = Longest
  BY <1>1, TimeStays
<1> SUFFICES ASSUME NEW d \in Device, age'[d] # -1
             PROVE  Awaited(d)' \/ \E j \in Instance : Coming(j, d)' \/ Leaving(j, d)'
  BY DEF TurnInv
<1>3. /\ age[d] \in Nat /\ Time[d - 1] \in Nat /\ Longest \in Nat /\ due \in Nat
      /\ age'[d] = age[d] + 1
  BY <1>1, Clock, OlderType, Constants DEF TypeInv
<1>4. ASSUME NEW j \in Instance, Coming(j, d) \/ Leaving(j, d)
      PROVE  Coming(j, d)' \/ Leaving(j, d)'
  <2>1. tick[j].dev # 0 /\ tick[j].dev \in 0 .. Devices /\ tick[j].left \in Nat
    BY <1>4 DEF Coming, Leaving, Device, TypeInv
  <2>2. tick'[j].dev = tick[j].dev /\ tick'[j].left = tick[j].left - 1
    BY <2>1, PassTicks
  <2>3. Time[tick[j].dev] \in Nat
    BY <2>1, Clock
  <2> QED BY <1>2, <1>3, <1>4, <2>1, <2>2, <2>3 DEF Coming, Leaving
<1>5. ASSUME Awaited(d)
      PROVE  Awaited(d)'
  <2>1. PICK i \in Instance : tick[i].dev = 0
    BY <1>5 DEF Awaited
  <2>2. tick'[i].dev = 0
    BY <2>1, PassTicks DEF Free
  <2> QED BY <1>1, <1>2, <1>3, <1>5, <2>2, Constants DEF Awaited
<1> QED BY <1>3, <1>4, <1>5 DEF TurnInv

LEMMA NextDeviceTurns ==
  ASSUME TypeInv, TurnInv, NEW i \in Instance, NextDevice(i)
  PROVE  TurnInv'
<1> DEFINE e == tick[i].dev
<1>1. e \in Device /\ e + 1 \in Device /\ tick[i].left = 0 /\ age' = [age EXCEPT ![e + 1] = 0]
  BY Turned
<1>2. PICK n \in Nat :
        /\ n <= IF e + 1 \in slow THEN Slow ELSE Quick
        /\ tick' = [tick EXCEPT ![i] = [dev |-> e + 1, left |-> n, since |-> 0]]
  BY Turned
<1>3. due' = due /\ slow' = slow
  BY DEF NextDevice
<1>4. Time' = Time /\ Longest' = Longest
  BY <1>3, TimeStays
<1>5. tick'[i] = [dev |-> e + 1, left |-> n, since |-> 0] /\ \A j \in Instance \ {i} : tick'[j] = tick[j]
  BY <1>2 DEF TypeInv
<1> HIDE DEF e
<1>6. Time[e] \in Nat /\ Time[e + 1] \in Nat /\ n <= Time[e + 1] - Time[e] /\ e \in Nat
  <2>1. (e + 1) - 1 = e /\ e \in Nat
    BY <1>1 DEF Device
  <2>2. /\ Time[e + 1] \in Nat /\ Time[(e + 1) - 1] \in Nat
        /\ Time[e + 1] = Time[(e + 1) - 1] + IF e + 1 \in slow THEN Slow ELSE Quick
    BY <1>1, Clock
  <2> QED BY <1>2, <2>1, <2>2, Constants
<1> SUFFICES ASSUME NEW d \in Device, age'[d] # -1
             PROVE  Awaited(d)' \/ \E j \in Instance : Coming(j, d)' \/ Leaving(j, d)'
  BY DEF TurnInv
<1>7. Time[d - 1] \in Nat /\ Longest \in Nat /\ due \in Nat /\ d \in Nat
  BY Clock, Constants DEF TypeInv, Device
<1>8. CASE d = e + 1
  <2>1. age'[d] = 0 /\ d - 1 = e
    BY <1>1, <1>6, <1>8 DEF TypeInv
  <2>2. Leaving(i, d)'
    BY <1>4, <1>5, <1>6, <1>8, <2>1 DEF Leaving
  <2> QED BY <2>2
<1>9. CASE d # e + 1
  <2>1. age'[d] = age[d] /\ age[d] \in Nat
    BY <1>1, <1>9 DEF TypeInv
  <2>2. ASSUME NEW j \in Instance, j # i, Coming(j, d) \/ Leaving(j, d)
        PROVE  Coming(j, d)' \/ Leaving(j, d)'
    BY <1>4, <1>5, <2>1, <2>2 DEF Coming, Leaving
  <2>3. ASSUME Coming(i, d)
        PROVE  Coming(i, d)'
    <3>1. e < d /\ age[d] + 0 + Time[d - 1] - Time[e] <= Longest + Interval
      BY <1>1, <2>3 DEF Coming, e
    <3>2. e + 1 < d /\ age[d] + n + Time[d - 1] - Time[e + 1] <= Longest + Interval
      BY <1>6, <1>7, <1>9, <2>1, <3>1, Constants
    <3>3. 0 < e + 1
      BY <1>6
    <3> QED BY <1>4, <1>5, <2>1, <3>2, <3>3 DEF Coming
  <2>4. ASSUME Leaving(i, d)
        PROVE  Leaving(i, d)'
    <3>1. d <= e /\ age[d] + 0 <= Time[e] - Time[d - 1]
      BY <1>1, <2>4 DEF Leaving, e
    <3>2. d <= e + 1 /\ age[d] + n <= Time[e + 1] - Time[d - 1]
      BY <1>6, <1>7, <2>1, <3>1
    <3> QED BY <1>4, <1>5, <2>1, <3>2 DEF Leaving
  <2>5. ASSUME Awaited(d)
        PROVE  Awaited(d)'
    <3>1. PICK j \in Instance : tick[j].dev = 0
      BY <2>5 DEF Awaited
    <3>2. j # i
      BY <1>1, <3>1 DEF e, Device
    <3>3. tick'[j].dev = 0
      BY <1>5, <3>1, <3>2
    <3> QED BY <1>3, <1>4, <2>1, <2>5, <3>3 DEF Awaited
  <2> QED BY <2>1, <2>2, <2>3, <2>4, <2>5 DEF TurnInv
<1> QED BY <1>8, <1>9

\* A tick that ends at device e makes room for the next one, within an interval; the
\* devices it leaves out are not counted.
LEMMA FreedTurns ==
  ASSUME TypeInv, TurnInv, NEW i \in Busy, tick[i].left = 0, tick' = [tick EXCEPT ![i] = Free],
         due' = due, slow' = slow,
         \A d \in Device : age'[d] # -1 => d <= tick[i].dev /\ age'[d] = age[d]
  PROVE  TurnInv'
<1>1. Time' = Time /\ Longest' = Longest
  BY TimeStays
<1>2. i \in Instance /\ tick[i].dev \in Device
  BY BusyHasDevice
<1>3. tick'[i].dev = 0 /\ \A j \in Instance \ {i} : tick'[j] = tick[j]
  BY <1>2 DEF TypeInv, Free
<1> SUFFICES ASSUME NEW d \in Device, age'[d] # -1
             PROVE  Awaited(d)' \/ \E j \in Instance : Coming(j, d)' \/ Leaving(j, d)'
  BY DEF TurnInv
<1>4. /\ age'[d] = age[d] /\ age[d] \in Nat /\ d <= tick[i].dev
      /\ Time[d - 1] \in Nat /\ Longest \in Nat /\ due \in Nat /\ due <= Interval
      /\ d \in Nat /\ tick[i].dev \in Nat
      /\ Time[tick[i].dev] \in Nat /\ Time[tick[i].dev] <= Longest
  <2>1. age'[d] = age[d] /\ d <= tick[i].dev
    OBVIOUS
  <2>2. age[d] \in Nat \cup {-1} /\ due \in Nat /\ due <= Interval
    BY Constants DEF TypeInv
  <2>3. /\ Time[d - 1] \in Nat /\ Longest \in Nat
        /\ Time[tick[i].dev] \in Nat /\ Time[tick[i].dev] <= Longest
    BY <1>2, Clock
  <2>4. d \in Nat /\ tick[i].dev \in Nat
    BY <1>2 DEF Device
  <2> QED BY <2>1, <2>2, <2>3, <2>4
<1>5. ~Coming(i, d)
  BY <1>4 DEF Coming
<1>6. ASSUME NEW j \in Instance, j # i, Coming(j, d) \/ Leaving(j, d)
      PROVE  Coming(j, d)' \/ Leaving(j, d)'
  BY <1>1, <1>3, <1>4, <1>6 DEF Coming, Leaving
<1>7. ASSUME Leaving(i, d)
      PROVE  Awaited(d)'
  <2>1. age[d] + 0 <= Time[tick[i].dev] - Time[d - 1]
    BY <1>7 DEF Leaving
  <2>2. age[d] + due + Time[d - 1] <= Longest + Interval
    BY <1>4, <2>1, Constants
  <2> QED BY <1>1, <1>2, <1>3, <1>4, <2>2 DEF Awaited
<1>8. ASSUME Awaited(d)
      PROVE  Awaited(d)'
  BY <1>1, <1>2, <1>3, <1>4, <1>8 DEF Awaited
<1> QED BY <1>4, <1>5, <1>6, <1>7, <1>8 DEF TurnInv

LEMMA EndTickTurns ==
  ASSUME TypeInv, TurnInv, NEW i \in Instance, EndTick(i)
  PROVE  TurnInv'
<1>1. /\ i \in Busy /\ tick[i].dev = Devices /\ tick[i].left = 0 /\ tick' = [tick EXCEPT ![i] = Free]
      /\ due' = due /\ slow' = slow /\ age' = age
  BY DEF EndTick
<1>2. \A d \in Device : d <= tick[i].dev
  BY <1>1, Constants DEF Device
<1> QED BY <1>1, <1>2, FreedTurns

LEMMA CutShortTurns ==
  ASSUME TypeInv, TurnInv, NEW i \in Instance, CutShort(i)
  PROVE  TurnInv'
<1>1. /\ i \in Busy /\ tick[i].left = 0 /\ tick' = [tick EXCEPT ![i] = Free]
      /\ due' = due /\ slow' = slow
  BY DEF CutShort
<1>2. ASSUME NEW d \in Device, age'[d] # -1
      PROVE  d <= tick[i].dev /\ age'[d] = age[d]
  <2>1. d \in Nat /\ tick[i].dev \in Nat
    BY <1>1, BusyHasDevice DEF Device
  <2>2. age'[d] = IF d > tick[i].dev THEN -1 ELSE age[d]
    BY CutType
  <2> QED BY <1>2, <2>1, <2>2
<1> QED BY <1>1, <1>2, FreedTurns

\* A tick that ends before its first poll costs every device its turn.
LEMMA FireInVainTurns ==
  ASSUME FireInVain
  PROVE  TurnInv'
BY DEF FireInVain, TurnInv

\* What the turns promise.
LEMMA TurnsInTime ==
  ASSUME TypeInv, TurnInv
  PROVE  NoDeviceForgotten
<1> SUFFICES ASSUME NEW d \in Device
             PROVE  age[d] <= Longest + Interval
  BY DEF NoDeviceForgotten
<1>1. age[d] \in Nat \cup {-1} /\ Time[d - 1] \in Nat /\ Longest \in Nat /\ due \in Nat /\ d \in Nat /\ d <= Devices
  BY Clock, Constants DEF TypeInv, Device
<1>2. CASE Awaited(d)
  BY <1>1, <1>2, Constants DEF Awaited
<1>3. ASSUME NEW i \in Instance, Coming(i, d) \/ Leaving(i, d)
      PROVE  age[d] <= Longest + Interval
  <2>1. tick[i].dev \in 0 .. Devices /\ tick[i].left \in Nat
    BY DEF TypeInv
  <2>2. tick[i].dev \in Device
    BY <1>1, <1>3, <2>1 DEF Coming, Leaving, Device
  <2>3. Time[tick[i].dev] \in Nat /\ Time[tick[i].dev] <= Longest
    BY <2>2, Clock
  <2>4. CASE Leaving(i, d)
    BY <1>1, <2>1, <2>3, <2>4, Constants DEF Leaving
  <2>5. CASE Coming(i, d)
    <3>1. tick[i].dev \in 0 .. Devices /\ d - 1 \in 0 .. Devices /\ tick[i].dev <= d - 1
      BY <1>1, <2>1, <2>5, Constants DEF Coming
    <3>2. Time[tick[i].dev] <= Time[d - 1]
      BY <3>1, TimeGrows
    <3> QED BY <1>1, <2>1, <2>3, <2>5, <3>2, Constants DEF Coming
  <2> QED BY <1>3, <2>4, <2>5
<1>4. CASE age[d] = -1
  BY <1>1, <1>4, Constants
<1> QED BY <1>2, <1>3, <1>4 DEF TurnInv

-----------------------------------------------------------------------------
\* Within capacity

\* Of as many different ranks as there are instances one is the last at least.
LEMMA OneIsLate ==
  ASSUME NEW rank \in [Instance -> Nat], \A i, j \in Instance : rank[i] = rank[j] => i = j
  PROVE  \E i \in Instance : rank[i] >= MaxInstances - 1
<1> SUFFICES ASSUME \A i \in Instance : rank[i] <= MaxInstances - 2
             PROVE  FALSE
  BY Constants
<1> DEFINE S == Instance  T == 0 .. MaxInstances - 2
<1>1. IsFiniteSet(S) /\ Cardinality(S) = MaxInstances
  BY FS_Interval, Constants DEF Instance
<1>2. IsFiniteSet(T) /\ Cardinality(T) = MaxInstances - 1
  BY FS_Interval, Constants
<1>3. rank \in [S -> T]
  BY Constants
<1>4. Cardinality(T) < Cardinality(S)
  BY <1>1, <1>2, Constants
<1>5. \E i, j \in S : i # j /\ rank[i] = rank[j]
  <2> HIDE DEF S, T
  <2> QED BY <1>1, <1>2, <1>3, <1>4, FS_PigeonHole
<1> QED BY <1>5

\* A number of intervals.
LEMMA Periods ==
  ASSUME NEW k \in Nat
  PROVE  k * Interval \in Nat /\ (k + 1) * Interval = k * Interval + Interval
BY Constants

LEMMA LongerPeriods ==
  ASSUME NEW k \in Nat, NEW n \in Nat, n <= k
  PROVE  n * Interval <= k * Interval
BY Constants, Product

\* The types that the arithmetic needs.
LEMMA RankTypes ==
  ASSUME TypeInv, NEW rank \in [Instance -> Nat], NEW i \in Busy
  PROVE  /\ i \in Instance /\ tick[i].dev \in Device /\ tick[i].left \in Nat /\ tick[i].since \in Nat
         /\ rank[i] \in Nat /\ rank[i] * Interval \in Nat /\ Elapsed(i, rank) \in Nat
         /\ due \in Nat /\ due <= Interval
<1>1. i \in Instance /\ tick[i].dev \in Device /\ tick[i].left \in Nat /\ tick[i].since \in Nat
  BY BusyHasDevice
<1>2. due \in Nat /\ due <= Interval
  BY Constants DEF TypeInv
<1>3. rank[i] \in Nat /\ rank[i] * Interval \in Nat
  BY <1>1, Periods
<1> QED BY <1>1, <1>2, <1>3, Constants DEF Elapsed

LEMMA InitKeepsUp ==
  ASSUME Init
  PROVE  CapacityInv
<1> DEFINE rank == [i \in Instance |-> 0]
<1>1. rank \in [Instance -> Nat]
  OBVIOUS
<1>2. Busy = {}
  BY DEF Init, Busy
<1> HIDE DEF rank
<1>3. OnTime(rank)
  BY <1>2 DEF OnTime
<1>4. ASSUME NEW d \in Device PROVE Recent(rank, 0, d)
  <2>1. ended[d] = -1
    BY DEF Init
  <2>2. 0 .. 0 - 1 = {}
    OBVIOUS
  <2> QED BY <1>2, <2>1, <2>2 DEF Recent, Unfinished
<1>5. KeepsUp(rank)
  BY <1>3, <1>4 DEF KeepsUp
<1>6. ~missed
  BY DEF Init
<1> QED BY <1>1, <1>5, <1>6 DEF CapacityInv

\* Within capacity there is always a free instance when the trigger fires.
LEMMA NoSkip ==
  ASSUME TypeInv, CapacityInv, WithinCapacity
  PROVE  ~Skip
<1> SUFFICES ASSUME Skip PROVE FALSE
  OBVIOUS
<1>1. PICK rank \in [Instance -> Nat] : KeepsUp(rank)
  BY DEF CapacityInv
<1>2. Busy = Instance /\ due = 0
  BY DEF Skip
<1>3. PICK i \in Instance : rank[i] >= MaxInstances - 1
  BY <1>1, <1>2, OneIsLate DEF KeepsUp, OnTime
<1>4. Elapsed(i, rank) + tick[i].left <= Time[tick[i].dev]
  BY <1>1, <1>2 DEF KeepsUp, OnTime
<1>5. /\ tick[i].dev \in Device /\ tick[i].left \in Nat
      /\ rank[i] \in Nat /\ rank[i] * Interval \in Nat
  BY <1>2, RankTypes
<1>6. Time[tick[i].dev] \in Nat /\ Time[tick[i].dev] <= Longest /\ Longest \in Nat
  BY <1>5, Clock
<1>7. (MaxInstances - 1) * Interval <= rank[i] * Interval
  BY <1>3, <1>5, LongerPeriods, Constants
<1>8. MaxInstances * Interval = (MaxInstances - 1) * Interval + Interval /\ (MaxInstances - 1) * Interval \in Nat
  BY Periods, Constants
<1>9. MaxInstances * Interval <= Longest
  BY <1>2, <1>4, <1>5, <1>6, <1>7, <1>8, Constants DEF Elapsed
<1>10. Longest < MaxInstances * Interval
  BY DEF WithinCapacity
<1> QED BY <1>6, <1>8, <1>9, <1>10, Constants

LEMMA FireKeepsUp ==
  ASSUME TypeInv, CapacityInv, Fire
  PROVE  CapacityInv'
<1>1. due = 0 /\ due' = Interval /\ slow' = slow /\ ended' = ended /\ ~missed'
  BY DEF Fire
<1>2. Time' = Time /\ (WithinCapacity' <=> WithinCapacity)
  BY <1>1, TimeStays
<1> SUFFICES ASSUME WithinCapacity
             PROVE  \E rank \in [Instance -> Nat] : KeepsUp(rank)'
  BY <1>1, <1>2 DEF CapacityInv
<1>3. PICK old \in [Instance -> Nat] : KeepsUp(old)
  BY DEF CapacityInv
<1>4. PICK i \in Instance, n \in Nat :
        /\ tick[i].dev = 0
        /\ n <= IF 1 \in slow THEN Slow ELSE Quick
        /\ tick' = [tick EXCEPT ![i] = [dev |-> 1, left |-> n, since |-> 0]]
  BY Taken
<1> DEFINE rank == [j \in Instance |-> IF j = i THEN 0 ELSE old[j] + 1]
<1>5. rank \in [Instance -> Nat] /\ rank[i] = 0 /\ \A j \in Instance \ {i} : rank[j] = old[j] + 1
  OBVIOUS
<1> HIDE DEF rank
<1>6. tick'[i] = [dev |-> 1, left |-> n, since |-> 0] /\ \A j \in Instance \ {i} : tick'[j] = tick[j]
  BY <1>4 DEF TypeInv
<1>7. Busy' = Busy \cup {i} /\ i \notin Busy /\ Busy \subseteq Instance \ {i}
  <2>1. i \notin Busy /\ Busy \subseteq Instance
    BY <1>4, BusyHasDevice
  <2>2. tick'[i] # Free
    BY <1>6 DEF Free
  <2> QED BY <1>6, <2>1, <2>2 DEF Busy
<1>8. \A j \in Busy : rank[j] = old[j] + 1 /\ tick'[j] = tick[j] /\ Elapsed(j, rank)' = Elapsed(j, old)
  <2> SUFFICES ASSUME NEW j \in Busy
               PROVE  rank[j] = old[j] + 1 /\ tick'[j] = tick[j] /\ Elapsed(j, rank)' = Elapsed(j, old)
    OBVIOUS
  <2>1. rank[j] = old[j] + 1 /\ tick'[j] = tick[j] /\ old[j] \in Nat
    BY <1>5, <1>6, <1>7
  <2>2. (old[j] + 1) * Interval = old[j] * Interval + Interval /\ old[j] * Interval \in Nat
    BY <2>1, Periods
  <2> QED BY <1>1, <2>1, <2>2, Constants DEF Elapsed
<1>9. OnTime(rank)'
  <2>1. \A j, k \in Busy' : rank[j] = rank[k] => j = k
    <3>1. \A j \in Busy : rank[j] = old[j] + 1 /\ old[j] \in Nat
      BY <1>7, <1>8
    <3>2. \A j, k \in Busy : old[j] = old[k] => j = k
      BY <1>3 DEF KeepsUp, OnTime
    <3> QED BY <1>5, <1>7, <3>1, <3>2
  <2>2. /\ Elapsed(i, rank)' + tick'[i].left <= Time'[tick'[i].dev]
        /\ tick'[i].since <= Elapsed(i, rank)'
    <3>1. Elapsed(i, rank)' = 0
      BY <1>1, <1>5, Constants DEF Elapsed
    <3>2. n <= Time[1]
      <4>1. 1 \in Device /\ 1 - 1 = 0
        BY Constants DEF Device
      <4>2. Time[0] = 0
        BY TimeOfAll DEF TypeInv
      <4>3. Time[1] \in Nat /\ Time[1] = Time[1 - 1] + IF 1 \in slow THEN Slow ELSE Quick
        BY <4>1, Clock
      <4> QED BY <1>4, <4>1, <4>2, <4>3, Constants
    <3> QED BY <1>2, <1>6, <3>1, <3>2
  <2>3. \A j \in Busy : /\ Elapsed(j, rank)' + tick'[j].left <= Time'[tick'[j].dev]
                        /\ tick'[j].since <= Elapsed(j, rank)'
    BY <1>2, <1>3, <1>8 DEF KeepsUp, OnTime
  <2> QED BY <1>7, <2>1, <2>2, <2>3 DEF OnTime
<1>10. ASSUME NEW d \in Device
       PROVE  \E k \in Nat : Recent(rank, k, d)'
  <2>1. PICK k \in Nat : Recent(old, k, d)
    BY <1>3 DEF KeepsUp
  <2>2. ended'[d] # -1 => ended'[d] <= (k + 1) * Interval + Interval - due'
    <3>1. (k + 1) * Interval = k * Interval + Interval /\ k * Interval \in Nat
      BY Periods
    <3>2. ended[d] \in Nat \cup {-1}
      BY DEF TypeInv
    <3> QED BY <1>1, <2>1, <3>1, <3>2, Constants DEF Recent
  <2>3. ended'[d] = -1 => \A j \in Busy' : rank[j] < k + 1
    BY <1>1, <1>5, <1>7, <1>8, <2>1 DEF Recent
  <2>4. ASSUME NEW m \in 0 .. (k + 1) - 1
        PROVE  \E j \in Busy' : rank[j] = m /\ tick'[j].dev <= d
    <3>1. CASE m = 0
      BY <1>5, <1>6, <1>7, <3>1 DEF Device
    <3>2. CASE m # 0
      <4>1. m - 1 \in 0 .. k - 1 /\ m \in Nat
        BY <3>2
      <4>2. PICK j \in Busy : old[j] = m - 1 /\ tick[j].dev <= d
        BY <2>1, <4>1 DEF Recent, Unfinished
      <4> QED BY <1>7, <1>8, <4>1, <4>2
    <3> QED BY <3>1, <3>2
  <2>5. Unfinished(rank, k + 1, d)'
    BY <2>4 DEF Unfinished
  <2>6. k + 1 \in Nat
    OBVIOUS
  <2>7. Recent(rank, k + 1, d)'
    BY <2>2, <2>3, <2>5 DEF Recent
  <2> QED BY <2>6, <2>7
<1>11. KeepsUp(rank)'
  BY <1>1, <1>9, <1>10 DEF KeepsUp
<1> QED BY <1>5, <1>11

LEMMA PassKeepsUp ==
  ASSUME TypeInv, CapacityInv, Pass
  PROVE  CapacityInv'
<1>1. due > 0 /\ due' = due - 1 /\ slow' = slow /\ missed' = missed
  BY DEF Pass
<1>2. Time' = Time /\ (WithinCapacity' <=> WithinCapacity)
  BY <1>1, TimeStays
<1> SUFFICES ASSUME WithinCapacity
             PROVE  \E rank \in [Instance -> Nat] : KeepsUp(rank)'
  BY <1>1, <1>2 DEF CapacityInv
<1>3. PICK rank \in [Instance -> Nat] : KeepsUp(rank)
  BY DEF CapacityInv
<1>4. Busy' = Busy
  <2>1. \A i \in Instance : tick[i].dev = 0 => tick'[i] = Free
    BY PassTicks
  <2>2. \A i \in Instance : tick[i].dev # 0 => tick'[i] # Free
    BY PassTicks DEF Free
  <2> QED BY <2>1, <2>2, BusyHasDevice DEF Busy
<1>5. ASSUME NEW i \in Busy
      PROVE  /\ tick'[i].dev = tick[i].dev
             /\ tick'[i].left = tick[i].left - 1 /\ tick'[i].since = tick[i].since + 1
             /\ Elapsed(i, rank)' = Elapsed(i, rank) + 1
  <2>1. i \in Instance /\ tick[i].dev # 0
    BY BusyHasDevice
  <2>2. rank[i] * Interval \in Nat /\ due \in Nat
    BY RankTypes
  <2>3. Elapsed(i, rank)' = Elapsed(i, rank) + 1
    BY <1>1, <2>2, Constants DEF Elapsed
  <2> QED BY <2>1, <2>3, PassTicks
<1>6. OnTime(rank)'
  <2>1. \A i, j \in Busy' : rank[i] = rank[j] => i = j
    BY <1>3, <1>4 DEF KeepsUp, OnTime
  <2>2. ASSUME NEW i \in Busy
        PROVE  /\ Elapsed(i, rank)' + tick'[i].left <= Time'[tick'[i].dev]
               /\ tick'[i].since <= Elapsed(i, rank)'
    <3>1. /\ Elapsed(i, rank) + tick[i].left <= Time[tick[i].dev]
          /\ tick[i].since <= Elapsed(i, rank)
      BY <1>3 DEF KeepsUp, OnTime
    <3>2. Elapsed(i, rank) \in Nat /\ tick[i].left \in Nat /\ tick[i].since \in Nat /\ tick[i].dev \in Device
      BY RankTypes
    <3>3. Time[tick[i].dev] \in Nat
      BY <3>2, Clock
    <3> QED BY <1>2, <1>5, <3>1, <3>2, <3>3
  <2> QED BY <1>4, <2>1, <2>2 DEF OnTime
<1>7. ASSUME NEW d \in Device, NEW k \in Nat, Recent(rank, k, d)
      PROVE  Recent(rank, k, d)'
  <2>1. ended[d] \in Nat \cup {-1} /\ due \in Nat
    BY Constants DEF TypeInv
  <2>2. ended'[d] = IF ended[d] = -1 THEN -1 ELSE ended[d] + 1
    BY DEF Pass, Older
  <2>3. ended'[d] # -1 => ended'[d] <= k * Interval + Interval - due'
    BY <1>1, <1>7, <2>1, <2>2, Periods, Constants DEF Recent
  <2>4. ended'[d] = -1 => \A i \in Busy' : rank[i] < k
    BY <1>4, <1>7, <2>1, <2>2 DEF Recent
  <2>5. Unfinished(rank, k, d)'
    BY <1>4, <1>5, <1>7 DEF Recent, Unfinished
  <2> QED BY <2>3, <2>4, <2>5 DEF Recent
<1>8. \A d \in Device : \E k \in Nat : Recent(rank, k, d)'
  BY <1>3, <1>7 DEF KeepsUp
<1>9. KeepsUp(rank)'
  BY <1>1, <1>6, <1>8 DEF KeepsUp
<1> QED BY <1>9

\* A turn that is over is as new as its tick, at least, whether its poll ended or a cut
\* took it away.
LEMMA TurnRecent ==
  ASSUME TypeInv, NEW rank \in [Instance -> Nat], KeepsUp(rank), NEW i \in Busy, NEW d \in Device,
         due' = due, Busy' \subseteq Busy,
         \A j \in Busy \ {i} : j \in Busy' /\ tick'[j] = tick[j],
         ended'[d] \in Nat, ended'[d] <= tick[i].since,
         ended[d] # -1 => ended'[d] <= ended[d]
  PROVE  \E k \in Nat : Recent(rank, k, d)'
<1>1. PICK k \in Nat : Recent(rank, k, d)
  BY DEF KeepsUp
<1>2. /\ tick[i].dev \in Device /\ tick[i].since \in Nat /\ rank[i] \in Nat /\ rank[i] * Interval \in Nat
      /\ i \in Instance /\ due \in Nat
  BY RankTypes
<1>3. tick[i].since <= rank[i] * Interval + Interval - due
  BY DEF KeepsUp, OnTime, Elapsed
<1>4. \A j \in Busy : rank[j] = rank[i] => j = i
  BY DEF KeepsUp, OnTime
<1>5. ended[d] \in Nat \cup {-1} /\ ended'[d] # -1
  BY DEF TypeInv
<1>6. CASE rank[i] < k
  <2>1. ended'[d] <= rank[i] * Interval + Interval - due'
    BY <1>2, <1>3, Constants
  <2>2. ASSUME NEW m \in 0 .. rank[i] - 1
        PROVE  \E j \in Busy' : rank[j] = m /\ tick'[j].dev <= d
    <3>1. m \in 0 .. k - 1 /\ m # rank[i]
      BY <1>2, <1>6
    <3>2. PICK j \in Busy : rank[j] = m /\ tick[j].dev <= d
      BY <1>1, <3>1 DEF Recent, Unfinished
    <3> QED BY <3>1, <3>2
  <2>3. Unfinished(rank, rank[i], d)'
    BY <2>2 DEF Unfinished
  <2>4. Recent(rank, rank[i], d)'
    BY <1>5, <2>1, <2>3 DEF Recent
  <2> QED BY <1>2, <2>4
<1>7. CASE ~(rank[i] < k)
  <2>1. ended[d] # -1
    BY <1>1, <1>7 DEF Recent
  <2>2. ended'[d] <= k * Interval + Interval - due'
    <3>1. ended[d] <= k * Interval + Interval - due
      BY <1>1, <2>1 DEF Recent
    <3> QED BY <1>2, <1>5, <2>1, <3>1, Periods, Constants
  <2>3. ASSUME NEW m \in 0 .. k - 1
        PROVE  \E j \in Busy' : rank[j] = m /\ tick'[j].dev <= d
    <3>1. m # rank[i]
      BY <1>2, <1>7
    <3>2. PICK j \in Busy : rank[j] = m /\ tick[j].dev <= d
      BY <1>1 DEF Recent, Unfinished
    <3> QED BY <3>1, <3>2
  <2>4. Unfinished(rank, k, d)'
    BY <2>3 DEF Unfinished
  <2>5. Recent(rank, k, d)'
    BY <1>5, <2>2, <2>4 DEF Recent
  <2> QED BY <2>5
<1> QED BY <1>6, <1>7

\* The other devices do not mind, those that the tick has not come to if it goes on.
LEMMA OtherRecent ==
  ASSUME TypeInv, NEW rank \in [Instance -> Nat], KeepsUp(rank), NEW i \in Busy, NEW d \in Device,
         due' = due, Busy' \subseteq Busy,
         \A j \in Busy \ {i} : j \in Busy' /\ tick'[j] = tick[j],
         ended'[d] = ended[d],
         tick[i].dev <= d => i \in Busy' /\ tick'[i].dev <= d
  PROVE  \E k \in Nat : Recent(rank, k, d)'
<1>1. PICK k \in Nat : Recent(rank, k, d)
  BY DEF KeepsUp
<1>2. ASSUME NEW m \in 0 .. k - 1
      PROVE  \E j \in Busy' : rank[j] = m /\ tick'[j].dev <= d
  <2>1. PICK j \in Busy : rank[j] = m /\ tick[j].dev <= d
    BY <1>1 DEF Recent, Unfinished
  <2> QED BY <2>1
<1>3. Unfinished(rank, k, d)'
  BY <1>2 DEF Unfinished
<1>4. Recent(rank, k, d)'
  BY <1>1, <1>3 DEF Recent
<1> QED BY <1>4

LEMMA NextDeviceKeepsUp ==
  ASSUME TypeInv, CapacityInv, NEW i \in Instance, NextDevice(i)
  PROVE  CapacityInv'
<1> DEFINE e == tick[i].dev
<1>1. due' = due /\ slow' = slow /\ missed' = missed /\ Sampled(i) /\ i \in Busy
  BY DEF NextDevice
<1>2. Time' = Time /\ (WithinCapacity' <=> WithinCapacity)
  BY <1>1, TimeStays
<1> SUFFICES ASSUME WithinCapacity
             PROVE  \E rank \in [Instance -> Nat] : KeepsUp(rank)'
  BY <1>1, <1>2 DEF CapacityInv
<1>3. PICK rank \in [Instance -> Nat] : KeepsUp(rank)
  BY DEF CapacityInv
<1>4. e \in Device /\ e + 1 \in Device /\ tick[i].left = 0
  BY Turned
<1>5. PICK n \in Nat :
        /\ n <= IF e + 1 \in slow THEN Slow ELSE Quick
        /\ tick' = [tick EXCEPT ![i] = [dev |-> e + 1, left |-> n, since |-> 0]]
  BY Turned
<1>6. tick'[i] = [dev |-> e + 1, left |-> n, since |-> 0] /\ \A j \in Instance \ {i} : tick'[j] = tick[j]
  BY <1>5 DEF TypeInv
<1>7. Busy' = Busy /\ Busy \subseteq Instance
  <2>1. tick'[i] # Free
    BY <1>4, <1>6 DEF Free, Device
  <2> QED BY <1>1, <1>6, <2>1 DEF Busy
<1>8. e \in Nat /\ Time[e] \in Nat /\ Time[e + 1] \in Nat /\ n <= Time[e + 1] - Time[e]
  <2>1. (e + 1) - 1 = e /\ e \in Nat
    BY <1>4 DEF Device
  <2>2. /\ Time[e + 1] \in Nat /\ Time[(e + 1) - 1] \in Nat
        /\ Time[e + 1] = Time[(e + 1) - 1] + IF e + 1 \in slow THEN Slow ELSE Quick
    BY <1>4, Clock
  <2> QED BY <1>5, <2>1, <2>2, Constants
<1>9. OnTime(rank)'
  <2>1. \A j \in Busy : Elapsed(j, rank)' = Elapsed(j, rank)
    BY <1>1 DEF Elapsed
  <2>2. /\ Elapsed(i, rank)' + tick'[i].left <= Time'[tick'[i].dev]
        /\ tick'[i].since <= Elapsed(i, rank)'
    <3>1. Elapsed(i, rank) + 0 <= Time[e]
      BY <1>1, <1>3, <1>4 DEF KeepsUp, OnTime
    <3>2. Elapsed(i, rank) \in Nat
      BY <1>1, RankTypes
    <3>3. Elapsed(i, rank) + n <= Time[e + 1]
      BY <1>8, <3>1, <3>2
    <3> QED BY <1>1, <1>2, <1>6, <2>1, <3>2, <3>3
  <2>3. \A j \in Busy \ {i} : /\ Elapsed(j, rank)' + tick'[j].left <= Time'[tick'[j].dev]
                              /\ tick'[j].since <= Elapsed(j, rank)'
    BY <1>2, <1>3, <1>6, <1>7, <2>1 DEF KeepsUp, OnTime
  <2>4. \A j, k \in Busy' : rank[j] = rank[k] => j = k
    BY <1>3, <1>7 DEF KeepsUp, OnTime
  <2> QED BY <1>7, <2>2, <2>3, <2>4 DEF OnTime
<1>10. ASSUME NEW d \in Device
       PROVE  \E k \in Nat : Recent(rank, k, d)'
  <2>1. \A j \in Busy \ {i} : j \in Busy' /\ tick'[j] = tick[j]
    BY <1>6, <1>7
  <2>2. Busy' \subseteq Busy /\ d \in Nat /\ tick[i].dev \in Nat
    BY <1>7, <1>8 DEF Device
  <2>3. CASE d = tick[i].dev
    <3>1. ended'[d] \in Nat /\ ended'[d] <= tick[i].since /\ (ended[d] # -1 => ended'[d] <= ended[d])
      BY <1>1, <2>3, SampledType
    <3> QED BY <1>1, <1>3, <2>1, <2>2, <3>1, TurnRecent
  <2>4. CASE d # tick[i].dev
    <3>1. ended'[d] = ended[d]
      BY <1>1, <2>4, SampledType
    <3>2. tick[i].dev <= d => i \in Busy' /\ tick'[i].dev <= d
      BY <1>1, <1>6, <1>7, <2>2, <2>4
    <3> QED BY <1>1, <1>3, <2>1, <2>2, <3>1, <3>2, OtherRecent
  <2> QED BY <2>3, <2>4
<1>11. KeepsUp(rank)'
  BY <1>1, <1>9, <1>10 DEF KeepsUp
<1> QED BY <1>11

\* A tick that ends, at its last device or before.
LEMMA FreedKeepsUp ==
  ASSUME TypeInv, CapacityInv, NEW i \in Busy, tick' = [tick EXCEPT ![i] = Free],
         due' = due, slow' = slow, missed' = missed,
         \A d \in Device : d < tick[i].dev => ended'[d] = ended[d],
         \A d \in Device : d >= tick[i].dev =>
           /\ ended'[d] \in Nat /\ ended'[d] <= tick[i].since
           /\ ended[d] # -1 => ended'[d] <= ended[d]
  PROVE  CapacityInv'
<1>1. Time' = Time /\ (WithinCapacity' <=> WithinCapacity)
  BY TimeStays
<1> SUFFICES ASSUME WithinCapacity
             PROVE  \E rank \in [Instance -> Nat] : KeepsUp(rank)'
  BY <1>1 DEF CapacityInv
<1>2. PICK rank \in [Instance -> Nat] : KeepsUp(rank)
  BY DEF CapacityInv
<1>3. i \in Instance /\ tick[i].dev \in Device
  BY BusyHasDevice
<1>4. tick'[i] = Free /\ \A j \in Instance \ {i} : tick'[j] = tick[j]
  BY <1>3 DEF TypeInv
<1>5. Busy' = Busy \ {i} /\ Busy \subseteq Instance
  BY <1>4 DEF Busy
<1>6. OnTime(rank)'
  <2>1. \A j \in Busy' : Elapsed(j, rank)' = Elapsed(j, rank) /\ tick'[j] = tick[j] /\ j \in Busy
    BY <1>4, <1>5 DEF Elapsed
  <2> QED BY <1>1, <1>2, <2>1 DEF KeepsUp, OnTime
<1>7. ASSUME NEW d \in Device
      PROVE  \E k \in Nat : Recent(rank, k, d)'
  <2>1. \A j \in Busy \ {i} : j \in Busy' /\ tick'[j] = tick[j]
    BY <1>4, <1>5
  <2>2. Busy' \subseteq Busy /\ d \in Nat /\ tick[i].dev \in Nat
    BY <1>3, <1>5 DEF Device
  <2>3. CASE d < tick[i].dev
    <3>1. ended'[d] = ended[d] /\ ~(tick[i].dev <= d)
      BY <2>2, <2>3
    <3> QED BY <1>2, <2>1, <2>2, <3>1, OtherRecent
  <2>4. CASE d >= tick[i].dev
    <3>1. ended'[d] \in Nat /\ ended'[d] <= tick[i].since /\ (ended[d] # -1 => ended'[d] <= ended[d])
      BY <2>4
    <3> QED BY <1>2, <2>1, <2>2, <3>1, TurnRecent
  <2> QED BY <2>2, <2>3, <2>4
<1>8. KeepsUp(rank)'
  BY <1>6, <1>7 DEF KeepsUp
<1> QED BY <1>8

LEMMA EndTickKeepsUp ==
  ASSUME TypeInv, CapacityInv, NEW i \in Instance, EndTick(i)
  PROVE  CapacityInv'
<1>1. /\ due' = due /\ slow' = slow /\ missed' = missed /\ Sampled(i) /\ i \in Busy
      /\ tick[i].dev = Devices /\ tick' = [tick EXCEPT ![i] = Free]
  BY DEF EndTick
<1>2. ASSUME NEW d \in Device, d < tick[i].dev
      PROVE  ended'[d] = ended[d]
  <2>1. d # tick[i].dev
    BY <1>1, <1>2, Constants DEF Device
  <2> QED BY <1>1, <2>1, SampledType
<1>3. ASSUME NEW d \in Device, d >= tick[i].dev
      PROVE  /\ ended'[d] \in Nat /\ ended'[d] <= tick[i].since
             /\ ended[d] # -1 => ended'[d] <= ended[d]
  <2>1. d = tick[i].dev
    BY <1>1, <1>3, Constants DEF Device
  <2> QED BY <1>1, <2>1, SampledType
<1> QED BY <1>1, <1>2, <1>3, FreedKeepsUp

LEMMA CutShortKeepsUp ==
  ASSUME TypeInv, CapacityInv, NEW i \in Instance, CutShort(i)
  PROVE  CapacityInv'
<1>1. /\ due' = due /\ slow' = slow /\ missed' = missed /\ i \in Busy
      /\ tick' = [tick EXCEPT ![i] = Free]
  BY DEF CutShort
<1> QED BY <1>1, CutType, FreedKeepsUp

\* A tick that ends before its first poll makes the others one firing older, and is
\* itself the last turn of every device.
LEMMA FireInVainKeepsUp ==
  ASSUME TypeInv, CapacityInv, FireInVain
  PROVE  CapacityInv'
<1>1. /\ due = 0 /\ due' = Interval /\ slow' = slow /\ tick' = tick /\ ~missed'
      /\ ended' = [d \in Device |-> 0]
  BY DEF FireInVain
<1>2. Time' = Time /\ (WithinCapacity' <=> WithinCapacity) /\ Busy' = Busy
  BY <1>1, TimeStays DEF Busy
<1> SUFFICES ASSUME WithinCapacity
             PROVE  \E rank \in [Instance -> Nat] : KeepsUp(rank)'
  BY <1>1, <1>2 DEF CapacityInv
<1>3. PICK old \in [Instance -> Nat] : KeepsUp(old)
  BY DEF CapacityInv
<1> DEFINE rank == [j \in Instance |-> old[j] + 1]
<1>4. rank \in [Instance -> Nat] /\ \A j \in Instance : rank[j] = old[j] + 1
  OBVIOUS
<1> HIDE DEF rank
<1>5. \A j \in Busy : j \in Instance /\ rank[j] = old[j] + 1 /\ Elapsed(j, rank)' = Elapsed(j, old)
  <2> SUFFICES ASSUME NEW j \in Busy
               PROVE  j \in Instance /\ rank[j] = old[j] + 1 /\ Elapsed(j, rank)' = Elapsed(j, old)
    OBVIOUS
  <2>1. j \in Instance /\ rank[j] = old[j] + 1 /\ old[j] \in Nat
    BY <1>4 DEF Busy
  <2>2. (old[j] + 1) * Interval = old[j] * Interval + Interval /\ old[j] * Interval \in Nat
    BY <2>1, Periods
  <2> QED BY <1>1, <2>1, <2>2, Constants DEF Elapsed
<1>6. OnTime(rank)'
  <2>1. \A j, k \in Busy : rank[j] = rank[k] => j = k
    <3>1. \A j, k \in Busy : old[j] = old[k] => j = k
      BY <1>3 DEF KeepsUp, OnTime
    <3> QED BY <1>5, <3>1
  <2>2. \A j \in Busy : /\ Elapsed(j, rank)' + tick[j].left <= Time[tick[j].dev]
                        /\ tick[j].since <= Elapsed(j, rank)'
    BY <1>3, <1>5 DEF KeepsUp, OnTime
  <2> QED BY <1>1, <1>2, <2>1, <2>2 DEF OnTime
<1>7. ASSUME NEW d \in Device
      PROVE  Recent(rank, 0, d)'
  <2>1. ended'[d] = 0 /\ 0 .. 0 - 1 = {}
    BY <1>1
  <2>2. 0 <= 0 * Interval + Interval - due'
    BY <1>1, Constants
  <2> QED BY <2>1, <2>2 DEF Recent, Unfinished
<1>8. KeepsUp(rank)'
  BY <1>6, <1>7 DEF KeepsUp
<1> QED BY <1>4, <1>8

-----------------------------------------------------------------------------
\* The invariant, and what it promises

LEMMA Invariant == Spec => []Inv
<1>1. Init => Inv
  BY InitTyped, InitTurns, InitKeepsUp DEF Inv
<1>2. Inv /\ [Next]_vars => Inv'
  <2> SUFFICES ASSUME Inv, [Next]_vars PROVE Inv'
    OBVIOUS
  <2>1. TypeInv /\ TurnInv /\ CapacityInv /\ TypeInv'
    BY StepTyped DEF Inv
  <2>2. CASE Fire
    BY <2>1, <2>2, FireTurns, FireKeepsUp DEF Inv
  <2>3. CASE Skip
    <3>1. ~WithinCapacity
      BY <2>1, <2>3, NoSkip
    <3>2. WithinCapacity' <=> WithinCapacity
      BY <2>3, TimeStays DEF Skip
    <3>3. CapacityInv'
      BY <3>1, <3>2 DEF CapacityInv
    <3> QED BY <2>1, <2>3, <3>3, SkipTurns DEF Inv
  <2>4. CASE Pass
    BY <2>1, <2>4, PassTurns, PassKeepsUp DEF Inv
  <2>5. ASSUME NEW i \in Instance, NextDevice(i) PROVE Inv'
    BY <2>1, <2>5, NextDeviceTurns, NextDeviceKeepsUp DEF Inv
  <2>6. ASSUME NEW i \in Instance, EndTick(i) PROVE Inv'
    BY <2>1, <2>6, EndTickTurns, EndTickKeepsUp DEF Inv
  <2>8. ASSUME NEW i \in Instance, CutShort(i) PROVE Inv'
    BY <2>1, <2>8, CutShortTurns, CutShortKeepsUp DEF Inv
  <2>9. CASE FireInVain
    BY <2>1, <2>9, FireInVainTurns, FireInVainKeepsUp DEF Inv
  <2>7. CASE UNCHANGED vars
    <3>1. /\ due' = due /\ tick' = tick /\ slow' = slow /\ missed' = missed /\ age' = age
          /\ ended' = ended /\ fresh' = fresh
      BY <2>7 DEF vars
    <3>2. Time' = Time /\ Longest' = Longest /\ (WithinCapacity' <=> WithinCapacity)
      BY <3>1, TimeStays
    <3>3. TurnInv'
      BY <2>1, <3>1, <3>2 DEF TurnInv, Awaited, Coming, Leaving
    <3>4. Busy' = Busy
      BY <3>1 DEF Busy
    <3>5. \A rank \in [Instance -> Nat] : OnTime(rank) => OnTime(rank)'
      BY <3>1, <3>2, <3>4 DEF OnTime, Elapsed
    <3>6. \A rank \in [Instance -> Nat], k \in Nat, d \in Device : Recent(rank, k, d) => Recent(rank, k, d)'
      BY <3>1, <3>4 DEF Recent, Unfinished
    <3>7. \A rank \in [Instance -> Nat] : KeepsUp(rank) => KeepsUp(rank)'
      BY <3>1, <3>5, <3>6 DEF KeepsUp
    <3>8. CapacityInv'
      BY <2>1, <3>1, <3>2, <3>7 DEF CapacityInv
    <3> QED BY <2>1, <3>3, <3>8 DEF Inv
  <2> QED BY <2>2, <2>3, <2>4, <2>5, <2>6, <2>7, <2>8, <2>9 DEF Next
<1> QED BY <1>1, <1>2, PTL DEF Spec

\* A run of the job is missed only when ticks are longer than max_instances of them can
\* be, for any fleet and any interval: three instances do prevent it up to there.
THEOREM MissedBeyondCapacity == Spec => []MissedOnlyBeyondCapacity
<1>1. Inv => MissedOnlyBeyondCapacity
  BY DEF Inv, CapacityInv, MissedOnlyBeyondCapacity
<1> QED BY <1>1, Invariant, PTL

\* No device goes unpolled for longer than a tick and an interval take, however many
\* runs are missed, unless a tick was cut short before it came to the device.
THEOREM EveryDeviceHasItsTurn == Spec => []NoDeviceForgotten
<1>1. Inv => NoDeviceForgotten
  BY TurnsInTime DEF Inv
<1> QED BY <1>1, Invariant, PTL

\* Within capacity a poll that ends finds a sample that is no older than a tick and an
\* interval, whichever polls overtook each other, if the last turn that is over left one.
THEOREM ReferenceInTime == Spec => []RateHasReference
<1>1. Inv => RateHasReference
  <2> SUFFICES ASSUME Inv, WithinCapacity, Longest + Interval <= Window,
                      NEW i \in Busy, tick[i].left = 0, fresh[tick[i].dev] # -1
               PROVE  fresh[tick[i].dev] - tick[i].since <= Window
    BY DEF RateHasReference
  <2> DEFINE d == tick[i].dev
  <2>1. PICK rank \in [Instance -> Nat] : KeepsUp(rank)
    BY DEF Inv, CapacityInv
  <2>2. d \in Device /\ tick[i].since \in Nat /\ due \in Nat
    BY <2>1, RankTypes DEF Inv
  <2> HIDE DEF d
  <2>3. PICK k \in Nat : Recent(rank, k, d)
    BY <2>1, <2>2 DEF KeepsUp
  <2>4. fresh[d] <= k * Interval + Interval - due /\ fresh[d] \in Nat
    BY <2>2, <2>3 DEF Recent, Inv, TypeInv, d
  <2>5. k * Interval - due <= Longest
    <3>1. Longest \in Nat
      BY Clock DEF Inv
    <3>2. CASE k = 0
      BY <2>2, <3>1, <3>2, Constants
    <3>3. CASE k # 0
      <4>1. k - 1 \in 0 .. k - 1 /\ k - 1 \in Nat /\ (k - 1) + 1 = k
        BY <3>3
      <4>2. PICK j \in Busy : rank[j] = k - 1 /\ tick[j].dev <= d
        BY <2>3, <4>1 DEF Recent, Unfinished
      <4>3. Elapsed(j, rank) + tick[j].left <= Time[tick[j].dev]
        BY <2>1 DEF KeepsUp, OnTime
      <4>4. tick[j].dev \in Device /\ tick[j].left \in Nat /\ Elapsed(j, rank) \in Nat
        BY RankTypes DEF Inv
      <4>5. Time[tick[j].dev] \in Nat /\ Time[tick[j].dev] <= Longest
        BY <4>4, Clock DEF Inv
      <4>6. k * Interval = (k - 1) * Interval + Interval /\ (k - 1) * Interval \in Nat
        BY <4>1, Periods
      <4>7. Elapsed(j, rank) = k * Interval - due
        BY <2>2, <4>2, <4>6, Constants DEF Elapsed
      <4> QED BY <3>1, <4>3, <4>4, <4>5, <4>7
    <3> QED BY <3>2, <3>3
  <2>6. k * Interval \in Nat /\ Longest \in Nat
    BY Periods, Clock DEF Inv
  <2>7. fresh[d] - tick[i].since <= Window
    BY <2>2, <2>4, <2>5, <2>6, Constants
  <2> QED BY <2>7 DEF d
<1> QED BY <1>1, Invariant, PTL

=============================================================================
