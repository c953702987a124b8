---------------------------- MODULE TrafficProofs ----------------------------
(***************************************************************************)
(* What _counter_delta makes of two readings, and what the samples of a     *)
(* device stand for, for any number of interfaces, pollers and polls, any   *)
(* widths of the counters, and any windows and lengths of the history.      *)
(***************************************************************************)
EXTENDS TrafficSeries, FiniteSetTheorems, TLAPS

-----------------------------------------------------------------------------
\* Counters

\* On a counter as wide as the wrap the code adds, the difference of two readings
\* is the number of octets counted between them, across a wrap too.
THEOREM DeltaExact ==
  ASSUME NEW width \in Nat, NEW prev \in 0 .. width - 1, NEW n \in 0 .. width - 1
  PROVE  CounterDelta(prev, CountOn(prev, n, width), width) = n
BY DEF CounterDelta, CountOn

\* On a narrower counter it is right until the counter wraps, and from then on too
\* large by the difference of the two widths.
THEOREM NarrowDelta ==
  ASSUME NEW wide \in Nat, NEW narrow \in 0 .. wide,
         NEW prev \in 0 .. narrow - 1, NEW n \in 0 .. narrow - 1
  PROVE  CounterDelta(prev, CountOn(prev, n, narrow), wide) =
           IF prev + n < narrow THEN n ELSE n + (wide - narrow)
BY DEF CounterDelta, CountOn

\* Whatever the readings, the difference is a number of octets, so a rate is
\* never negative.
THEOREM DeltaNatural ==
  ASSUME NEW wide \in Nat, NEW prev \in 0 .. wide - 1, NEW curr \in 0 .. wide - 1
  PROVE  CounterDelta(prev, curr, wide) \in 0 .. wide - 1
BY DEF CounterDelta

\* To count n octets and then m is to count n + m.
LEMMA CountTwice ==
  ASSUME NEW width \in Nat, NEW prev \in 0 .. width - 1, NEW n \in Nat, NEW m \in Nat,
         n + m < width
  PROVE  CountOn(CountOn(prev, n, width), m, width) = CountOn(prev, n + m, width)
BY DEF CountOn

\* A counter stays within its width.
LEMMA CountWithin ==
  ASSUME NEW width \in Nat, NEW prev \in 0 .. width - 1, NEW n \in 0 .. width - 1
  PROVE  CountOn(prev, n, width) \in 0 .. width - 1
BY DEF CountOn

-----------------------------------------------------------------------------
\* The invariants

Width(wide) == IF wide THEN Wide ELSE Narrow

Readings == [octets : Nat, wide : BOOLEAN, total : Nat, boot : Nat]

Row == [order : Nat, port : Ports, at : Nat, since : Nat,
        octets : Nat, wide : BOOLEAN, total : Nat, boot : Nat,
        hist : SUBSET Nat, delta : Int, dt : Int, ptotal : Nat, clean : BOOLEAN]

IdlePoll == [pc : {"idle"}, at : Int]
OpenPoll == [pc : {"open"}, at : Int, since : Nat, view : SUBSET Row]
ReadPoll == [pc : {"read"}, at : Nat, since : Nat, view : SUBSET Row]
RatePoll == [pc : {"rate"}, at : Nat, since : Nat, view : SUBSET Row,
             seen : UNION {[S -> Readings] : S \in SUBSET Ports}]
SavePoll == [pc : {"save"}, at : Nat, rows : SUBSET Row]

PollType == IdlePoll \cup OpenPoll \cup ReadPoll \cup RatePoll \cup SavePoll

\* The snapshot of a poll.
ViewOf(w) == IF poll[w].pc \in {"open", "read", "rate"} THEN poll[w].view ELSE {}

\* The samples of a poll that were not committed yet.
RowsOf(w) == IF poll[w].pc = "save" THEN poll[w].rows ELSE {}

TypeInv ==
  /\ now \in Nat /\ commits \in Nat /\ boot \in Nat
  /\ hc \in [Ports -> 0 .. Wide - 1] /\ low \in [Ports -> 0 .. Narrow - 1]
  /\ total \in [Ports -> Nat]
  /\ table \in SUBSET Row /\ IsFiniteSet(table)
  /\ poll \in [Pollers -> PollType]
  /\ \A w \in Pollers : IsFiniteSet(RowsOf(w)) /\ IsFiniteSet(ViewOf(w))

\* A sample was committed after its poll began; and those that had been committed
\* by then are not younger.
TableOrder ==
  /\ \A s \in table : s.since < s.order /\ s.order <= commits /\ s.at <= now
  /\ \A a, b \in table : a.order = b.order /\ a.port = b.port => a = b
  /\ \A a, b \in table : a.order <= b.since => a.at <= b.at

\* What is left of S is newer than what was taken from it.
Kept(R, S) == R \subseteq S /\ \A a \in R, c \in S \ R : c.at < a.at

\* The samples of the first n commits.
Old(n) == {s \in table : s.order <= n}

\* A snapshot has what had been committed when it was taken; of that the table has
\* what was not pruned.
ViewOrder(w) ==
  poll[w].pc \in {"open", "read", "rate"} =>
    /\ poll[w].since <= commits
    /\ mysql => /\ \A s \in poll[w].view : s.order <= poll[w].since
                /\ Kept(Old(poll[w].since), poll[w].view)

\* What had been committed is not younger than a poll either, nor than its samples,
\* one for each port.
PollOrder(w) ==
  /\ poll[w].pc \in {"read", "rate"} =>
       /\ poll[w].at <= now
       /\ \A s \in table : s.order <= poll[w].since => s.at <= poll[w].at
  /\ \A b \in RowsOf(w) :
       /\ b.at <= now /\ b.since <= commits
       /\ \A s \in table : s.order <= b.since => s.at <= b.at
       /\ \A a \in RowsOf(w) : a.port = b.port => a = b

OrderInv == TableOrder /\ \A w \in Pollers : ViewOrder(w) /\ PollOrder(w)

\* What a sample says its reading was.
Told(s) == [octets |-> s.octets, wide |-> s.wide, total |-> s.total, boot |-> s.boot]

\* The readings of a port that were taken, and are still of use.
Past(p) ==
  {r \in Readings :
     \/ \E s \in table : s.port = p /\ r = Told(s)
     \/ \E w \in Pollers : poll[w].pc = "rate" /\ p \in DOMAIN poll[w].seen /\ r = poll[w].seen[p]
     \/ \E w \in Pollers : \E s \in RowsOf(w) \cup ViewOf(w) : s.port = p /\ r = Told(s)}

All(p) == Past(p) \cup {Reading(p, TRUE), Reading(p, FALSE)}

\* Between two readings of a counter since one boot it counted what the port did,
\* as long as that is less than it holds.
Agree(a, b) ==
  a.wide = b.wide /\ a.boot = b.boot /\ a.total <= b.total /\ b.total - a.total < Width(a.wide)
  => b.octets = CountOn(a.octets, b.total - a.total, Width(a.wide))

\* The readings of a port are of one count.
Tally(p) ==
  /\ \A r \in Past(p) : r.octets < Width(r.wide) /\ r.total <= total[p] /\ r.boot <= boot
  /\ \A a, b \in All(p) : Agree(a, b)

\* A sample committed before a poll began was read before the poll reads.
ReadAfter(w) ==
  poll[w].pc = "rate" =>
    \A p \in DOMAIN poll[w].seen : \A s \in table \cup ViewOf(w) :
      s.port = p /\ s.order <= poll[w].since => s.total <= poll[w].seen[p].total

CountInv == (\A p \in Ports : Tally(p)) /\ (\A w \in Pollers : ReadAfter(w))

\* A rate is that of the readings it was computed from.
RateRight(s) ==
  s.dt > 0 /\ s.clean /\ s.wide /\ s.total - s.ptotal < Wide => s.delta = s.total - s.ptotal

\* The samples of the port of b that were there when its poll began.
Before(b, T) == {s \in T : s.port = b.port /\ s.order <= b.since}

\* A rate refers to the newest sample in S, if all of S is older than b.
Chosen(b, S) ==
  \A a \in S : a.at < b.at /\ (\A c \in S : c.at <= a.at) =>
    /\ b.dt = IF b.at - a.at <= Window THEN b.at - a.at ELSE 0
    /\ b.dt > 0 /\ (\A c \in S : c.at = a.at => c = a) =>
         b.ptotal = a.total /\ (a.wide = b.wide /\ a.boot = b.boot => b.clean)

\* The average takes in every sample in S newer than one it takes in.
Averaged(b, S) == \A a \in S : (\E h \in b.hist : h < a.at) => a.at \in b.hist

RowRight(b) == RateRight(b) /\ Cardinality(b.hist) <= HistLength /\ Averaged(b, Before(b, table))

RateInv ==
  /\ \A b \in table : RowRight(b) /\ (Undisturbed(b) => Chosen(b, Before(b, table)))
  /\ \A w \in Pollers : \A b \in RowsOf(w) :
       RowRight(b) /\ (commits = b.since => Chosen(b, Before(b, table)))

Inv == TypeInv /\ OrderInv /\ CountInv /\ RateInv

-----------------------------------------------------------------------------
\* Samples in their order

\* What the proofs need of the constants, in one place.
LEMMA Constants ==
  /\ Ports \subseteq Nat /\ IsFiniteSet(Ports)
  /\ Narrow \in Nat /\ Wide \in Nat /\ 0 < Narrow /\ Narrow <= Wide
  /\ Window \in Nat /\ Keep \in Nat /\ Window <= Keep
  /\ HistLimit \in Nat /\ HistLength \in Nat
BY PortsAssumption, WidthAssumption, WindowAssumption, HistoryAssumption

\* A LIMIT to n rows gives no more than n, and what is newer than one of them is one.
LEMMA TopsAre ==
  ASSUME NEW S \in SUBSET Row, IsFiniteSet(S), NEW n \in Nat, NEW T \in Tops(S, n)
  PROVE  /\ T \in SUBSET S /\ IsFiniteSet(T) /\ Cardinality(T) \in Nat /\ Cardinality(T) <= n
         /\ \A r \in T, a \in S : r.at < a.at => a \in T
<1>1. T \in SUBSET S /\ Cardinality(T) = IF n < Cardinality(S) THEN n ELSE Cardinality(S)
  BY DEF Tops
<1>2. IsFiniteSet(T) /\ Cardinality(T) \in Nat /\ Cardinality(S) \in Nat
  BY <1>1, FS_Subset, FS_CardinalityType
<1>3. \A r \in T, a \in S \ T : a.at <= r.at
  BY DEF Tops
<1>4. \A a \in S : a.at \in Nat
  BY DEF Row
<1>5. ASSUME NEW r \in T, NEW a \in S, r.at < a.at
      PROVE  a \in T
  BY <1>1, <1>3, <1>4, <1>5
<1> QED BY <1>1, <1>2, <1>5

\* The times of the samples of a finite set are no more than the samples.
LEMMA FewTimes ==
  ASSUME NEW S \in SUBSET Row, IsFiniteSet(S)
  PROVE  IsFiniteSet({s.at : s \in S}) /\ Cardinality({s.at : s \in S}) <= Cardinality(S)
<1> DEFINE f == [s \in S |-> s.at]
<1>1. f \in Surjection(S, {s.at : s \in S})
  BY DEF Surjection
<1> QED BY <1>1, FS_Surjection

-----------------------------------------------------------------------------
\* Types

\* What a poll holds at its place.
LEMMA PollFits ==
  ASSUME TypeInv, NEW w \in Pollers
  PROVE  /\ poll[w].pc = "idle" => poll[w] \in IdlePoll
         /\ poll[w].pc = "open" => poll[w] \in OpenPoll
         /\ poll[w].pc = "read" => poll[w] \in ReadPoll
         /\ poll[w].pc = "rate" =>
              /\ poll[w] \in RatePoll /\ DOMAIN poll[w].seen \subseteq Ports
              /\ \A p \in DOMAIN poll[w].seen : poll[w].seen[p] \in Readings
         /\ poll[w].pc = "save" => poll[w] \in SavePoll
         /\ RowsOf(w) \in SUBSET Row
         /\ ViewOf(w) \in SUBSET Row /\ IsFiniteSet(ViewOf(w))
         /\ poll[w].pc \in {"open", "read", "rate"} => poll[w].since \in Nat /\ ViewOf(w) = poll[w].view
<1>1. poll[w] \in PollType /\ IsFiniteSet(ViewOf(w))
  BY DEF TypeInv
<1>2. /\ poll[w].pc = "idle" => poll[w] \in IdlePoll
      /\ poll[w].pc = "open" => poll[w] \in OpenPoll
      /\ poll[w].pc = "read" => poll[w] \in ReadPoll
      /\ poll[w].pc = "rate" => poll[w] \in RatePoll
      /\ poll[w].pc = "save" => poll[w] \in SavePoll
  BY <1>1 DEF PollType, IdlePoll, OpenPoll, ReadPoll, RatePoll, SavePoll
<1>3. poll[w].pc = "rate" =>
        /\ DOMAIN poll[w].seen \subseteq Ports
        /\ \A p \in DOMAIN poll[w].seen : poll[w].seen[p] \in Readings
  BY <1>2 DEF RatePoll
<1>4. RowsOf(w) \in SUBSET Row
  BY <1>2 DEF RowsOf, SavePoll
<1>5. poll[w].pc \in {"open", "read", "rate"} =>
        poll[w].since \in Nat /\ poll[w].view \in SUBSET Row /\ ViewOf(w) = poll[w].view
  BY <1>2 DEF ViewOf, OpenPoll, ReadPoll, RatePoll
<1>6. ViewOf(w) \in SUBSET Row
  BY <1>5 DEF ViewOf
<1> QED BY <1>1, <1>2, <1>3, <1>4, <1>5, <1>6

\* What a reading of a counter is.
LEMMA ReadingFits ==
  ASSUME TypeInv, NEW p \in Ports, NEW wide \in BOOLEAN
  PROVE  /\ Reading(p, wide) \in Readings
         /\ Reading(p, wide).octets < Width(wide) /\ Reading(p, wide).wide = wide
         /\ Reading(p, wide).total = total[p] /\ Reading(p, wide).boot = boot
         /\ Reading(p, wide).octets = IF wide THEN hc[p] ELSE low[p]
BY Constants DEF TypeInv, Reading, Readings, Width

LEMMA TypeInit == Init => TypeInv
<1> SUFFICES ASSUME Init
             PROVE  TypeInv
  OBVIOUS
<1>1. hc \in [Ports -> 0 .. Wide - 1] /\ low \in [Ports -> 0 .. Narrow - 1]
  BY ShownAssumption DEF Init
<1>2. \A w \in Pollers : poll[w] = [pc |-> "idle", at |-> -1]
  BY DEF Init, Idle
<1>3. \A w \in Pollers : RowsOf(w) = {} /\ ViewOf(w) = {}
  BY <1>2 DEF RowsOf, ViewOf
<1>4. poll \in [Pollers -> PollType]
  <2>1. [pc |-> "idle", at |-> -1] \in IdlePoll
    BY DEF IdlePoll
  <2> QED BY <2>1, <1>2 DEF Init, PollType
<1> QED BY <1>1, <1>3, <1>4, FS_EmptySet DEF Init, TypeInv

\* What a poll holds does not change with the device.
LEMMA HeldSame ==
  ASSUME poll' = poll
  PROVE  \A w : RowsOf(w)' = RowsOf(w) /\ ViewOf(w)' = ViewOf(w)
BY DEF RowsOf, ViewOf

LEMMA TypeElapse ==
  ASSUME TypeInv, Elapse
  PROVE  TypeInv'
<1>1. PICK n \in [Ports -> Bursts] :
        /\ hc' = [p \in Ports |-> CountOn(hc[p], n[p], Wide)]
        /\ low' = [p \in Ports |-> CountOn(low[p], n[p], Narrow)]
        /\ total' = [p \in Ports |-> total[p] + n[p]]
  BY DEF Elapse
<1>2. \A p \in Ports : n[p] \in 0 .. Narrow - 1
  BY BurstAssumption
<1>3. \A p \in Ports : hc'[p] \in 0 .. Wide - 1 /\ low'[p] \in 0 .. Narrow - 1 /\ total'[p] \in Nat
  <2> TAKE p \in Ports
  <2>1. hc[p] \in 0 .. Wide - 1 /\ low[p] \in 0 .. Narrow - 1 /\ total[p] \in Nat
    BY DEF TypeInv
  <2>2. n[p] \in 0 .. Wide - 1
    BY <1>2, Constants
  <2>3. CountOn(hc[p], n[p], Wide) \in 0 .. Wide - 1
    BY <2>1, <2>2, Constants, CountWithin
  <2>4. CountOn(low[p], n[p], Narrow) \in 0 .. Narrow - 1
    BY <1>2, <2>1, Constants, CountWithin
  <2> QED BY <1>1, <1>2, <2>1, <2>3, <2>4, Constants
<1>4. /\ hc' \in [Ports -> 0 .. Wide - 1] /\ low' \in [Ports -> 0 .. Narrow - 1]
      /\ total' \in [Ports -> Nat]
  BY <1>1, <1>3
<1>5. \A w \in Pollers : RowsOf(w)' = RowsOf(w) /\ ViewOf(w)' = ViewOf(w)
  BY HeldSame DEF Elapse
<1>6. /\ now' = now + 1 /\ commits' = commits /\ boot' = boot
      /\ table' = table /\ poll' = poll
  BY DEF Elapse
<1> QED BY <1>4, <1>5, <1>6 DEF TypeInv

LEMMA TypeReboot ==
  ASSUME TypeInv, Reboot
  PROVE  TypeInv'
<1>1. \A w \in Pollers : RowsOf(w)' = RowsOf(w) /\ ViewOf(w)' = ViewOf(w)
  BY HeldSame DEF Reboot
<1>2. hc' \in [Ports -> 0 .. Wide - 1] /\ low' \in [Ports -> 0 .. Narrow - 1]
  BY Constants DEF Reboot
<1>3. /\ now' = now /\ commits' = commits /\ boot' = 1
      /\ table' = table /\ poll' = poll /\ total' = total
  BY DEF Reboot
<1> QED BY <1>1, <1>2, <1>3 DEF TypeInv

\* What a poll that goes on leaves alone.
Calm == UNCHANGED <<mysql, now, hc, low, total, boot>>

\* A step of one poller leaves the others alone.
LEMMA OthersStay ==
  ASSUME TypeInv, NEW w \in Pollers, NEW r, poll' = [poll EXCEPT ![w] = r]
  PROVE  /\ poll'[w] = r
         /\ RowsOf(w)' = IF r.pc = "save" THEN r.rows ELSE {}
         /\ ViewOf(w)' = IF r.pc \in {"open", "read", "rate"} THEN r.view ELSE {}
         /\ \A v \in Pollers : v # w =>
              poll'[v] = poll[v] /\ RowsOf(v)' = RowsOf(v) /\ ViewOf(v)' = ViewOf(v)
BY DEF TypeInv, RowsOf, ViewOf

\* A poller comes to hold r.
LEMMA TypePoll ==
  ASSUME TypeInv, Calm, NEW w \in Pollers, NEW r \in PollType,
         poll' = [poll EXCEPT ![w] = r],
         commits' \in Nat, table' \in SUBSET Row, IsFiniteSet(table'),
         r.pc = "save" => IsFiniteSet(r.rows),
         r.pc \in {"open", "read", "rate"} => IsFiniteSet(r.view)
  PROVE  TypeInv'
<1>1. \A v \in Pollers : IsFiniteSet(RowsOf(v)') /\ IsFiniteSet(ViewOf(v)')
  <2> TAKE v \in Pollers
  <2>1. CASE v = w
    BY <2>1, OthersStay, FS_EmptySet
  <2>2. CASE v # w
    <3>1. RowsOf(v)' = RowsOf(v) /\ ViewOf(v)' = ViewOf(v)
      BY <2>2, OthersStay
    <3> QED BY <3>1 DEF TypeInv
  <2> QED BY <2>1, <2>2
<1>2. poll' \in [Pollers -> PollType]
  BY DEF TypeInv
<1> QED BY <1>1, <1>2 DEF TypeInv, Calm

\* A poll that comes to an end, or ended.
LEMMA IdleFits ==
  ASSUME NEW at \in Int
  PROVE  Idle(at) \in PollType /\ Idle(at).pc = "idle"
BY DEF Idle, PollType, IdlePoll

\* A poll that opened its transaction.
LEMMA Opened ==
  ASSUME TypeInv, NEW w \in Pollers, Open(w)
  PROVE  /\ poll' = [poll EXCEPT ![w] = poll'[w]] /\ poll'[w] \in OpenPoll
         /\ poll'[w].pc = "open" /\ poll'[w].since = commits /\ poll'[w].view = table
         /\ ViewOf(w)' = table /\ RowsOf(w)' = {}
         /\ \A v \in Pollers : v # w =>
              poll'[v] = poll[v] /\ RowsOf(v)' = RowsOf(v) /\ ViewOf(v)' = ViewOf(v)
         /\ Calm /\ commits' = commits /\ table' = table
<1> DEFINE r == [pc |-> "open", at |-> poll[w].at, since |-> commits, view |-> table]
<1>1. poll[w].at \in Int
  BY PollFits DEF Open, IdlePoll
<1>2. r \in OpenPoll /\ r.pc = "open" /\ r.since = commits /\ r.view = table
  BY <1>1 DEF OpenPoll, TypeInv
<1>3. poll' = [poll EXCEPT ![w] = r] /\ Calm /\ commits' = commits /\ table' = table
  BY DEF Open, Calm
<1> HIDE DEF r
<1>4. poll'[w] = r
  BY <1>3, OthersStay
<1> QED BY <1>2, <1>3, <1>4, OthersStay

LEMMA TypeOpen ==
  ASSUME TypeInv, NEW w \in Pollers, Open(w)
  PROVE  TypeInv'
<1>1. poll'[w] \in PollType
  BY Opened DEF PollType
<1>2. IsFiniteSet(table) /\ table \in SUBSET Row /\ commits \in Nat
  BY DEF TypeInv
<1> QED BY <1>1, <1>2, Opened, TypePoll

\* A poll that began.
LEMMA Started ==
  ASSUME TypeInv, NEW w \in Pollers, Start(w)
  PROVE  /\ poll' = [poll EXCEPT ![w] = poll'[w]] /\ poll'[w] \in ReadPoll
         /\ poll'[w].pc = "read" /\ poll'[w].at = now
         /\ mysql => /\ poll[w].pc = "open" /\ poll'[w].since = poll[w].since
                     /\ poll'[w].view = poll[w].view
         /\ ~mysql => poll'[w].since = commits
         /\ poll'[w].view \subseteq ViewOf(w)
         /\ ViewOf(w)' = poll'[w].view /\ RowsOf(w)' = {}
         /\ \A v \in Pollers : v # w =>
              poll'[v] = poll[v] /\ RowsOf(v)' = RowsOf(v) /\ ViewOf(v)' = ViewOf(v)
         /\ Calm /\ commits' = commits /\ table' = table
<1> DEFINE since == IF mysql THEN poll[w].since ELSE commits
           view == IF mysql THEN poll[w].view ELSE {}
           r == [pc |-> "read", at |-> now, since |-> since, view |-> view]
<1>1. mysql => poll[w].pc = "open"
  BY DEF Start
<1>2. since \in Nat /\ view \in SUBSET Row /\ view \subseteq ViewOf(w)
  BY <1>1, PollFits DEF TypeInv
<1>3. r \in ReadPoll /\ r.pc = "read" /\ r.at = now /\ r.since = since /\ r.view = view
  BY <1>2 DEF ReadPoll, TypeInv
<1>4. poll' = [poll EXCEPT ![w] = r] /\ Calm /\ commits' = commits /\ table' = table
  BY DEF Start, Calm
<1>5. /\ mysql => since = poll[w].since /\ view = poll[w].view
      /\ ~mysql => since = commits
  OBVIOUS
<1> HIDE DEF r, since, view
<1>6. poll'[w] = r
  BY <1>4, OthersStay
<1>7. /\ ViewOf(w)' = r.view /\ RowsOf(w)' = {}
      /\ \A v \in Pollers : v # w =>
           poll'[v] = poll[v] /\ RowsOf(v)' = RowsOf(v) /\ ViewOf(v)' = ViewOf(v)
  BY <1>3, <1>4, OthersStay
<1> QED BY <1>1, <1>2, <1>3, <1>4, <1>5, <1>6, <1>7

LEMMA TypeStart ==
  ASSUME TypeInv, NEW w \in Pollers, Start(w)
  PROVE  TypeInv'
<1>1. poll'[w] \in PollType
  BY Started DEF PollType
<1>2. IsFiniteSet(poll'[w].view)
  BY Started, PollFits, FS_Subset
<1>3. IsFiniteSet(table) /\ table \in SUBSET Row /\ commits \in Nat
  BY DEF TypeInv
<1> QED BY <1>1, <1>2, <1>3, Started, TypePoll

\* The columns that were walked tell of ports only.
LEMMA MapsFit ==
  ASSUME NEW m \in OctetMaps
  PROVE  m.wide \in BOOLEAN /\ m.seen \subseteq Ports
<1>1. ASSUME NEW walks, walks \subseteq SUBSET Ports
      PROVE  \A s \in Both(walks) : s \subseteq Ports
  BY <1>1 DEF Both
<1>2. Walks(TRUE) \ {{}} \subseteq SUBSET Ports /\ Walks(FALSE) \subseteq SUBSET Ports
  BY DEF Walks
<1>3. CASE m \in {[wide |-> TRUE, seen |-> s] : s \in Both(Walks(TRUE) \ {{}})}
  <2>1. PICK s \in Both(Walks(TRUE) \ {{}}) : m = [wide |-> TRUE, seen |-> s]
    BY <1>3
  <2> QED BY <1>1, <1>2, <2>1
<1>4. CASE m \in {[wide |-> FALSE, seen |-> s] : s \in Both(Walks(FALSE))}
  <2>1. PICK s \in Both(Walks(FALSE)) : m = [wide |-> FALSE, seen |-> s]
    BY <1>4
  <2> QED BY <1>1, <1>2, <2>1
<1> QED BY <1>3, <1>4 DEF OctetMaps

\* What a poll has seen is what there was to read.
LEMMA HasRead ==
  ASSUME TypeInv, NEW w \in Pollers, Read(w)
  PROVE  /\ poll' = [poll EXCEPT ![w] = poll'[w]] /\ poll'[w] \in RatePoll
         /\ poll[w].pc = "read" /\ poll'[w].pc = "rate" /\ RowsOf(w)' = {}
         /\ poll'[w].at = poll[w].at /\ poll'[w].since = poll[w].since
         /\ poll'[w].view = poll[w].view /\ ViewOf(w)' = ViewOf(w)
         /\ DOMAIN poll'[w].seen \subseteq Ports
         /\ \E wide \in BOOLEAN : \A p \in DOMAIN poll'[w].seen : poll'[w].seen[p] = Reading(p, wide)
         /\ \A v \in Pollers : v # w =>
              poll'[v] = poll[v] /\ RowsOf(v)' = RowsOf(v) /\ ViewOf(v)' = ViewOf(v)
         /\ Calm /\ commits' = commits /\ table' = table
<1>1. PICK m \in OctetMaps :
        poll' = [poll EXCEPT ![w] =
                   [pc |-> "rate", at |-> poll[w].at, since |-> poll[w].since, view |-> poll[w].view,
                    seen |-> [p \in m.seen |-> Reading(p, m.wide)]]]
  BY DEF Read
<1>2. m.wide \in BOOLEAN /\ m.seen \in SUBSET Ports
  BY MapsFit
<1> DEFINE seen == [p \in m.seen |-> Reading(p, m.wide)]
           r == [pc |-> "rate", at |-> poll[w].at, since |-> poll[w].since, view |-> poll[w].view,
                 seen |-> seen]
<1>3. seen \in [m.seen -> Readings]
  BY <1>2, ReadingFits
<1>4. DOMAIN seen \subseteq Ports /\ \A p \in DOMAIN seen : seen[p] = Reading(p, m.wide)
  BY <1>2
<1>5. seen \in UNION {[S -> Readings] : S \in SUBSET Ports}
  BY <1>2, <1>3
<1>6. /\ poll[w].pc = "read" /\ poll[w].at \in Nat /\ poll[w].since \in Nat /\ poll[w].view \in SUBSET Row
      /\ ViewOf(w) = poll[w].view
  BY PollFits DEF Read, ReadPoll
<1>7. r.pc = "rate" /\ r.at = poll[w].at /\ r.since = poll[w].since /\ r.view = poll[w].view /\ r.seen = seen
  OBVIOUS
<1> HIDE DEF seen
<1>8. r \in RatePoll
  BY <1>5, <1>6 DEF RatePoll
<1>9. poll' = [poll EXCEPT ![w] = r] /\ Calm /\ commits' = commits /\ table' = table
  BY <1>1 DEF Read, Calm, seen
<1> HIDE DEF r
<1>10. poll'[w] = r
  BY <1>9, OthersStay
<1>11. /\ ViewOf(w)' = r.view /\ RowsOf(w)' = {}
       /\ \A v \in Pollers : v # w =>
            poll'[v] = poll[v] /\ RowsOf(v)' = RowsOf(v) /\ ViewOf(v)' = ViewOf(v)
  BY <1>7, <1>9, OthersStay
<1>12. \E wide \in BOOLEAN : \A p \in DOMAIN seen : seen[p] = Reading(p, wide)
  BY <1>2, <1>4
<1> QED BY <1>4, <1>6, <1>7, <1>8, <1>9, <1>10, <1>11, <1>12

LEMMA TypeRead ==
  ASSUME TypeInv, NEW w \in Pollers, Read(w)
  PROVE  TypeInv'
<1>1. poll'[w] \in PollType
  BY HasRead DEF PollType
<1>2. IsFiniteSet(poll'[w].view)
  BY HasRead, PollFits
<1>3. IsFiniteSet(table) /\ table \in SUBSET Row /\ commits \in Nat
  BY DEF TypeInv
<1> QED BY <1>1, <1>2, <1>3, HasRead, TypePoll

\* The sample a rate refers to, if there is one.
LEMMA PreviousIs ==
  ASSUME NEW S \in SUBSET Row, NEW p \in Ports, NEW at \in Nat, NEW prev \in Previous(S, p, at)
  PROVE  \/ prev = {} /\ \A s \in Newest(Usable(S, p, at)) : ~(s.at < at)
         \/ \E s \in Newest(Usable(S, p, at)) : prev = {s} /\ s \in S /\ s.port = p /\ s.at < at
<1> DEFINE older == {s \in Newest(Usable(S, p, at)) : s.at < at}
<1>1. prev \in IF older = {} THEN {{}} ELSE {{s} : s \in older}
  BY DEF Previous
<1>2. \A s \in older : s \in Newest(Usable(S, p, at)) /\ s \in S /\ s.port = p /\ s.at < at
  BY DEF Newest, Usable
<1>3. CASE older = {}
  BY <1>1, <1>3
<1>4. CASE older # {}
  <2>1. PICK s \in older : prev = {s}
    BY <1>1, <1>4
  <2> QED BY <1>2, <2>1
<1> QED BY <1>3, <1>4

\* The rate of b refers to s.
RefersTo(b, s) ==
  /\ b.delta = CounterDelta(s.octets, b.octets, Wide)
  /\ b.dt = b.at - s.at /\ b.ptotal = s.total
  /\ b.clean <=> s.wide = b.wide /\ s.boot = b.boot /\ s.order <= b.since

\* It refers to the newest in the window of the samples S, if that is older.
Refers(b, S) ==
  \/ b.dt = 0 /\ \A s \in Newest(Usable(S, b.port, b.at)) : ~(s.at < b.at)
  \/ \E s \in Newest(Usable(S, b.port, b.at)) :
       s \in S /\ s.port = b.port /\ s.at < b.at /\ RefersTo(b, s)

\* When samples were taken.
Ats(S) == {s.at : s \in S}

\* What is written of a sample.
LEMMA SampleFits ==
  ASSUME NEW S \in SUBSET Row, NEW p \in Ports, NEW at \in Nat, NEW since \in Nat,
         NEW r \in Readings, NEW prev \in Previous(S, p, at), NEW hist \in SUBSET S,
         NEW b, b = SampleOf(p, at, since, r, prev, hist)
  PROVE  /\ b \in Row /\ b.port = p /\ b.at = at /\ b.since = since /\ Told(b) = r
         /\ b.hist = Ats(hist)
         /\ Refers(b, S)
<1> DEFINE s == CHOOSE s \in prev : TRUE
           ats == Ats(hist)
           delta == IF prev = {} THEN 0 ELSE CounterDelta(s.octets, r.octets, Wide)
           dt == IF prev = {} THEN 0 ELSE at - s.at
           ptotal == IF prev = {} THEN r.total ELSE s.total
           clean == prev # {} => s.wide = r.wide /\ s.boot = r.boot /\ s.order <= since
<1>1. b = [order |-> 0, port |-> p, at |-> at, since |-> since,
           octets |-> r.octets, wide |-> r.wide, total |-> r.total, boot |-> r.boot,
           hist |-> ats, delta |-> delta, dt |-> dt, ptotal |-> ptotal, clean |-> clean]
  BY DEF SampleOf, Ats
<1>2. ats \in SUBSET Nat
  BY DEF Row, Ats
<1>3. r = [octets |-> r.octets, wide |-> r.wide, total |-> r.total, boot |-> r.boot]
  BY DEF Readings
<1>4. \/ prev = {} /\ \A t \in Newest(Usable(S, p, at)) : ~(t.at < at)
      \/ /\ prev # {} /\ s \in Newest(Usable(S, p, at))
         /\ s \in S /\ s.port = p /\ s.at < at
  <2>1. CASE \E t \in Newest(Usable(S, p, at)) : prev = {t} /\ t \in S /\ t.port = p /\ t.at < at
    <3>1. PICK t \in Newest(Usable(S, p, at)) : prev = {t} /\ t \in S /\ t.port = p /\ t.at < at
      BY <2>1
    <3>2. s = t
      BY <3>1
    <3> QED BY <3>1, <3>2
  <2> QED BY <2>1, PreviousIs
<1>5. delta \in Int /\ dt \in Int /\ ptotal \in Nat
  BY <1>4, Constants DEF CounterDelta, Row, Readings
<1>6. prev = {} => dt = 0
  OBVIOUS
<1>7. prev # {} => delta = CounterDelta(s.octets, r.octets, Wide) /\ dt = at - s.at /\ ptotal = s.total
  OBVIOUS
<1>8. prev # {} => (clean <=> s.wide = r.wide /\ s.boot = r.boot /\ s.order <= since)
  OBVIOUS
<1>9. clean \in BOOLEAN
  OBVIOUS
<1> HIDE DEF s, ats, delta, dt, ptotal, clean
<1>10. b \in Row /\ b.port = p /\ b.at = at /\ b.since = since
  BY <1>1, <1>2, <1>5, <1>9 DEF Row, Readings
<1>11. Told(b) = r /\ b.octets = r.octets /\ b.wide = r.wide /\ b.boot = r.boot
  BY <1>1, <1>3 DEF Told
<1>12. b.hist = ats /\ b.delta = delta /\ b.dt = dt /\ b.ptotal = ptotal /\ b.clean = clean
  BY <1>1
<1>13. prev # {} => RefersTo(b, s)
  BY <1>7, <1>8, <1>10, <1>11, <1>12 DEF RefersTo
<1>14. Refers(b, S)
  BY <1>4, <1>6, <1>10, <1>12, <1>13 DEF Refers
<1> QED BY <1>10, <1>11, <1>12, <1>14 DEF ats

\* What a query of a poll finds.
LEMMA VisibleFits ==
  ASSUME TypeInv, NEW w \in Pollers, poll[w].pc = "rate"
  PROVE  Visible(w) \in SUBSET Row /\ IsFiniteSet(Visible(w))
BY PollFits DEF Visible, TypeInv

\* A sample that Compare may make of port p.
CouldBe(b, w, p) == \E recent \in Tops(Visible(w), HistLimit) : b \in Samples(w, p, recent)

LEMMA SamplesFit ==
  ASSUME TypeInv, NEW w \in Pollers, poll[w].pc = "rate", NEW p \in DOMAIN poll[w].seen,
         NEW b, CouldBe(b, w, p)
  PROVE  /\ p \in Ports /\ poll[w].seen[p] \in Readings
         /\ b \in Row /\ b.port = p /\ b.at = poll[w].at /\ b.since = poll[w].since
         /\ Told(b) = poll[w].seen[p]
         /\ Cardinality(b.hist) <= HistLength
         /\ \A a \in Visible(w) : a.port = p /\ (\E h \in b.hist : h < a.at) => a.at \in b.hist
         /\ Refers(b, Visible(w))
<1>1. PICK recent \in Tops(Visible(w), HistLimit) : b \in Samples(w, p, recent)
  BY DEF CouldBe
<1> DEFINE mine == {s \in recent : s.port = p}
<1>2. PICK prev \in Previous(Visible(w), p, poll[w].at), hist \in Tops(mine, HistLength) :
        b = SampleOf(p, poll[w].at, poll[w].since, poll[w].seen[p], prev, hist)
  BY <1>1 DEF Samples
<1>3. Visible(w) \in SUBSET Row /\ IsFiniteSet(Visible(w)) /\ HistLimit \in Nat /\ HistLength \in Nat
  BY VisibleFits, Constants
<1>4. /\ recent \in SUBSET Visible(w) /\ IsFiniteSet(recent)
      /\ \A r \in recent, a \in Visible(w) : r.at < a.at => a \in recent
  BY <1>3, TopsAre
<1>5. mine \in SUBSET Row /\ IsFiniteSet(mine) /\ mine \subseteq recent
  BY <1>3, <1>4, FS_Subset
<1>6. \A a \in recent : a.port = p => a \in mine
  OBVIOUS
<1> HIDE DEF mine
<1>7. /\ hist \in SUBSET mine /\ IsFiniteSet(hist) /\ Cardinality(hist) <= HistLength
      /\ Cardinality(hist) \in Nat
      /\ \A h \in hist, a \in mine : h.at < a.at => a \in hist
  BY <1>3, <1>5, TopsAre
<1>8. /\ p \in Ports /\ poll[w].seen[p] \in Readings /\ poll[w].at \in Nat /\ poll[w].since \in Nat
  BY PollFits DEF RatePoll
<1>9. hist \in SUBSET Visible(w) /\ hist \in SUBSET Row
  BY <1>3, <1>4, <1>5, <1>7
<1>10. /\ b \in Row /\ b.port = p /\ b.at = poll[w].at /\ b.since = poll[w].since
       /\ Told(b) = poll[w].seen[p] /\ b.hist = Ats(hist)
       /\ Refers(b, Visible(w))
  <2>1. PICK V : V = Visible(w)
    OBVIOUS
  <2>2. PICK at, since, r : at = poll[w].at /\ since = poll[w].since /\ r = poll[w].seen[p]
    OBVIOUS
  <2>3. /\ V \in SUBSET Row /\ prev \in Previous(V, p, at) /\ hist \in SUBSET V
        /\ p \in Ports /\ at \in Nat /\ since \in Nat /\ r \in Readings
    BY <1>3, <1>8, <1>9, <2>1, <2>2
  <2>4. b = SampleOf(p, at, since, r, prev, hist)
    BY <1>2, <2>2
  <2>5. /\ b \in Row /\ b.port = p /\ b.at = at /\ b.since = since /\ Told(b) = r
        /\ b.hist = Ats(hist)
        /\ Refers(b, V)
    BY <2>3, <2>4, SampleFits
  <2> QED BY <2>1, <2>2, <2>5
<1>11. Cardinality(b.hist) <= HistLength
  <2>1. Cardinality(Ats(hist)) <= Cardinality(hist) /\ IsFiniteSet(Ats(hist))
    BY <1>7, <1>9, FewTimes DEF Ats
  <2>2. Cardinality(Ats(hist)) \in Nat
    BY <2>1, FS_CardinalityType
  <2>3. Cardinality(b.hist) = Cardinality(Ats(hist))
    BY <1>10
  <2> QED BY <1>3, <1>7, <2>1, <2>2, <2>3
<1>12. ASSUME NEW a \in Visible(w), a.port = p, NEW t \in b.hist, t < a.at
       PROVE  a.at \in b.hist
  <2>1. PICK h \in hist : t = h.at
    BY <1>10, <1>12 DEF Ats
  <2>2. h.at < a.at /\ h \in recent
    BY <1>5, <1>7, <1>12, <2>1
  <2>3. a \in mine
    BY <1>4, <1>6, <1>12, <2>2
  <2>4. a \in hist
    BY <1>7, <2>2, <2>3
  <2> QED BY <1>10, <2>4 DEF Ats
<1> QED BY <1>8, <1>10, <1>11, <1>12

\* The samples of a poll that has compared are those of what it had seen.
LEMMA Compared ==
  ASSUME TypeInv, NEW w \in Pollers, Compare(w)
  PROVE  /\ poll[w].pc = "rate" /\ poll[w] \in RatePoll /\ poll'[w] \in SavePoll
         /\ poll' = [poll EXCEPT ![w] = poll'[w]]
         /\ poll'[w].pc = "save" /\ ViewOf(w)' = {}
         /\ IsFiniteSet(RowsOf(w)') /\ RowsOf(w)' = poll'[w].rows
         /\ \A b \in RowsOf(w)' : b.port \in DOMAIN poll[w].seen /\ CouldBe(b, w, b.port)
         /\ \A a, b \in RowsOf(w)' : a.port = b.port => a = b
         /\ \A v \in Pollers : v # w =>
              poll'[v] = poll[v] /\ RowsOf(v)' = RowsOf(v) /\ ViewOf(v)' = ViewOf(v)
         /\ Calm /\ commits' = commits /\ table' = table
<1> DEFINE seen == DOMAIN poll[w].seen
<1>1. PICK recent \in Tops(Visible(w), HistLimit) :
      \E row \in [seen -> UNION {Samples(w, p, recent) : p \in seen}] :
        /\ \A p \in seen : row[p] \in Samples(w, p, recent)
        /\ poll' = [poll EXCEPT ![w] = [pc |-> "save", at |-> poll[w].at, rows |-> {row[p] : p \in seen}]]
  BY DEF Compare
<1>2. PICK row \in [seen -> UNION {Samples(w, p, recent) : p \in seen}] :
        /\ \A p \in seen : row[p] \in Samples(w, p, recent)
        /\ poll' = [poll EXCEPT ![w] = [pc |-> "save", at |-> poll[w].at, rows |-> {row[p] : p \in seen}]]
  BY <1>1
<1>3. poll[w].pc = "rate" /\ Calm /\ commits' = commits /\ table' = table
  BY DEF Compare, Calm
<1>4. poll[w] \in RatePoll /\ seen \subseteq Ports /\ poll[w].at \in Nat
  BY <1>3, PollFits DEF RatePoll
<1>5. \A p \in seen : CouldBe(row[p], w, p)
  BY <1>1, <1>2 DEF CouldBe
<1>6. \A p \in seen : row[p] \in Row /\ row[p].port = p
  BY <1>3, <1>5, SamplesFit
<1> DEFINE R == {row[p] : p \in seen}
           r == [pc |-> "save", at |-> poll[w].at, rows |-> R]
<1>7. R \in SUBSET Row
  BY <1>6
<1>8. IsFiniteSet(R)
  <2>1. IsFiniteSet(seen)
    BY <1>4, Constants, FS_Subset
  <2>2. row \in Surjection(seen, R)
    BY <1>2 DEF Surjection
  <2> QED BY <2>1, <2>2, FS_Surjection
<1>9. /\ \A b \in R : b.port \in seen /\ CouldBe(b, w, b.port)
      /\ \A a, b \in R : a.port = b.port => a = b
  BY <1>5, <1>6
<1>10. r \in SavePoll /\ r.pc = "save" /\ r.rows = R
  BY <1>4, <1>7 DEF SavePoll
<1>11. poll' = [poll EXCEPT ![w] = r]
  BY <1>2
<1> HIDE DEF r, R
<1>12. poll'[w] = r
  BY <1>11, OthersStay
<1>13. /\ RowsOf(w)' = R /\ ViewOf(w)' = {}
       /\ \A v \in Pollers : v # w =>
            poll'[v] = poll[v] /\ RowsOf(v)' = RowsOf(v) /\ ViewOf(v)' = ViewOf(v)
  BY <1>10, <1>11, OthersStay
<1> QED BY <1>3, <1>4, <1>8, <1>9, <1>10, <1>11, <1>12, <1>13

LEMMA TypeCompare ==
  ASSUME TypeInv, NEW w \in Pollers, Compare(w)
  PROVE  TypeInv'
<1>1. poll'[w] \in PollType
  BY Compared DEF PollType
<1>2. IsFiniteSet(poll'[w].rows)
  BY Compared
<1>3. IsFiniteSet(table) /\ table \in SUBSET Row /\ commits \in Nat
  BY DEF TypeInv
<1> QED BY <1>1, <1>2, <1>3, Compared, TypePoll

\* One of them.
LEMMA ComparedRow ==
  ASSUME TypeInv, NEW w \in Pollers, Compare(w), NEW b \in RowsOf(w)'
  PROVE  /\ b.port \in DOMAIN poll[w].seen /\ CouldBe(b, w, b.port)
         /\ b.port \in Ports /\ poll[w].seen[b.port] \in Readings
         /\ b \in Row /\ b.at = poll[w].at /\ b.since = poll[w].since
         /\ Told(b) = poll[w].seen[b.port]
BY Compared, SamplesFit

\* A sample that gets its number stays as it is.
Numbered(s, n) == [s EXCEPT !.order = n]

LEMMA NumberedFits ==
  ASSUME NEW s \in Row, NEW n \in Nat
  PROVE  /\ Numbered(s, n) \in Row /\ Numbered(s, n).order = n
         /\ Numbered(s, n).port = s.port /\ Numbered(s, n).at = s.at
         /\ Numbered(s, n).since = s.since /\ Told(Numbered(s, n)) = Told(s)
         /\ Numbered(s, n).total = s.total /\ Numbered(s, n).octets = s.octets
         /\ Numbered(s, n).wide = s.wide /\ Numbered(s, n).boot = s.boot
         /\ Numbered(s, n).hist = s.hist /\ Numbered(s, n).delta = s.delta
         /\ Numbered(s, n).dt = s.dt /\ Numbered(s, n).ptotal = s.ptotal
         /\ Numbered(s, n).clean = s.clean
BY DEF Numbered, Row, Told

\* What is committed.
LEMMA CommitFits ==
  ASSUME TypeInv, NEW w \in Pollers, Commit(w)
  PROVE  /\ poll[w] \in SavePoll /\ RowsOf(w) = poll[w].rows
         /\ commits' = commits + 1 /\ Calm
         /\ table' = table \cup {Numbered(s, commits + 1) : s \in RowsOf(w)}
         /\ poll' = [poll EXCEPT ![w] = Idle(poll[w].at)]
         /\ Idle(poll[w].at) \in PollType /\ Idle(poll[w].at).pc = "idle"
<1>1. poll[w] \in SavePoll /\ RowsOf(w) = poll[w].rows
  BY PollFits DEF Commit, RowsOf
<1>2. /\ commits' = commits + 1 /\ Calm
      /\ table' = table \cup {[s EXCEPT !.order = commits'] : s \in poll[w].rows}
      /\ poll' = [poll EXCEPT ![w] = Idle(poll[w].at)]
  BY DEF Commit, Calm
<1>3. Idle(poll[w].at) \in PollType /\ Idle(poll[w].at).pc = "idle"
  BY <1>1, IdleFits DEF SavePoll
<1> QED BY <1>1, <1>2, <1>3 DEF Numbered

LEMMA TypeCommit ==
  ASSUME TypeInv, NEW w \in Pollers, Commit(w)
  PROVE  TypeInv'
<1> DEFINE N == {Numbered(s, commits + 1) : s \in RowsOf(w)}
<1>1. commits + 1 \in Nat /\ IsFiniteSet(RowsOf(w)) /\ RowsOf(w) \in SUBSET Row
  BY PollFits DEF TypeInv
<1>2. N \in SUBSET Row
  BY <1>1, NumberedFits
<1>3. IsFiniteSet(N)
  <2> DEFINE f == [s \in RowsOf(w) |-> Numbered(s, commits + 1)]
  <2>1. f \in Surjection(RowsOf(w), N)
    BY DEF Surjection
  <2> QED BY <1>1, <2>1, FS_Surjection
<1>4. IsFiniteSet(table \cup N) /\ table \cup N \in SUBSET Row
  BY <1>2, <1>3, FS_Union DEF TypeInv
<1>5. table' = table \cup N
  BY CommitFits
<1> HIDE DEF N
<1> QED BY <1>1, <1>4, <1>5, CommitFits, TypePoll

\* A poll that leaves no sample.
LEMMA Failed ==
  ASSUME TypeInv, NEW w \in Pollers, Fail(w)
  PROVE  /\ poll' = [poll EXCEPT ![w] = poll'[w]] /\ poll'[w] \in PollType
         /\ poll'[w].pc = "idle" /\ RowsOf(w)' = {} /\ ViewOf(w)' = {}
         /\ \A v \in Pollers : v # w =>
              poll'[v] = poll[v] /\ RowsOf(v)' = RowsOf(v) /\ ViewOf(v)' = ViewOf(v)
         /\ Calm /\ commits' = commits /\ table' = table
<1> DEFINE r == Idle(poll[w].at)
<1>1. poll[w].at \in Int
  <2>1. poll[w] \in PollType
    BY DEF TypeInv
  <2> QED BY <2>1 DEF PollType, IdlePoll, OpenPoll, ReadPoll, RatePoll, SavePoll
<1>2. r \in PollType /\ r.pc = "idle"
  BY <1>1, IdleFits
<1>3. poll' = [poll EXCEPT ![w] = r] /\ Calm /\ commits' = commits /\ table' = table
  BY DEF Fail, Calm
<1> HIDE DEF r
<1>4. poll'[w] = r
  BY <1>3, OthersStay
<1>5. /\ RowsOf(w)' = {} /\ ViewOf(w)' = {}
      /\ \A v \in Pollers : v # w =>
           poll'[v] = poll[v] /\ RowsOf(v)' = RowsOf(v) /\ ViewOf(v)' = ViewOf(v)
  BY <1>2, <1>3, OthersStay
<1> QED BY <1>2, <1>3, <1>4, <1>5

LEMMA TypeFail ==
  ASSUME TypeInv, NEW w \in Pollers, Fail(w)
  PROVE  TypeInv'
<1>1. IsFiniteSet(table) /\ table \in SUBSET Row /\ commits \in Nat
  BY DEF TypeInv
<1> QED BY <1>1, Failed, TypePoll

LEMMA TypePrune ==
  ASSUME TypeInv, Prune
  PROVE  TypeInv'
<1>1. table' \in SUBSET table
  BY DEF Prune
<1>2. IsFiniteSet(table') /\ table' \in SUBSET Row
  BY <1>1, FS_Subset DEF TypeInv
<1>3. Calm /\ commits' = commits /\ poll' = poll
  BY DEF Prune, Calm
<1>4. \A w \in Pollers : RowsOf(w)' = RowsOf(w) /\ ViewOf(w)' = ViewOf(w)
  BY <1>3, HeldSame
<1> QED BY <1>2, <1>3, <1>4 DEF TypeInv, Calm

LEMMA TypeStep == TypeInv /\ [Next]_vars => TypeInv'
<1> SUFFICES ASSUME TypeInv, [Next]_vars
             PROVE  TypeInv'
  OBVIOUS
<1>1. CASE UNCHANGED vars
  <2>1. \A w \in Pollers : RowsOf(w)' = RowsOf(w) /\ ViewOf(w)' = ViewOf(w)
    BY <1>1, HeldSame DEF vars
  <2> QED BY <1>1, <2>1 DEF vars, TypeInv
<1>2. CASE Elapse \/ Reboot \/ Prune
  BY <1>2, TypeElapse, TypeReboot, TypePrune
<1>3. ASSUME NEW w \in Pollers,
             Open(w) \/ Start(w) \/ Read(w) \/ Compare(w) \/ Commit(w) \/ Fail(w)
      PROVE  TypeInv'
  BY <1>3, TypeOpen, TypeStart, TypeRead, TypeCompare, TypeCommit, TypeFail
<1> QED BY <1>1, <1>2, <1>3 DEF Next

LEMMA TypeInvariant == Spec => []TypeInv
<1>1. Init => TypeInv
  BY TypeInit
<1>2. TypeInv /\ [Next]_vars => TypeInv'
  BY TypeStep
<1> QED BY <1>1, <1>2, PTL DEF Spec

-----------------------------------------------------------------------------
\* The order of samples

LEMMA OrderInit == Init => OrderInv
<1> SUFFICES ASSUME Init
             PROVE  OrderInv
  OBVIOUS
<1>1. table = {} /\ \A w \in Pollers : poll[w] = [pc |-> "idle", at |-> -1]
  BY DEF Init, Idle
<1>2. \A w \in Pollers : RowsOf(w) = {}
  BY <1>1 DEF RowsOf
<1> QED BY <1>1, <1>2 DEF OrderInv, TableOrder, PollOrder, ViewOrder

\* A poller that another one leaves alone.
LEMMA OrderStays ==
  ASSUME OrderInv, Calm, commits' = commits, table' = table,
         NEW v \in Pollers, poll'[v] = poll[v], RowsOf(v)' = RowsOf(v)
  PROVE  ViewOrder(v)' /\ PollOrder(v)'
<1>1. ViewOrder(v) /\ PollOrder(v)
  BY DEF OrderInv
<1>2. mysql' = mysql /\ now' = now
  BY DEF Calm
<1>3. ViewOrder(v)'
  BY <1>1, <1>2 DEF ViewOrder, Old, Kept
<1>4. PollOrder(v)'
  BY <1>1, <1>2 DEF PollOrder
<1> QED BY <1>3, <1>4

LEMMA TableStays ==
  ASSUME OrderInv, Calm, commits' = commits, table' = table
  PROVE  TableOrder'
BY DEF OrderInv, TableOrder, Calm

\* Time does not bring a sample, and pruning takes the oldest.
LEMMA KeptPruned ==
  ASSUME NEW R, NEW S \in SUBSET Row, Kept(R, S), NEW n \in Nat,
         NEW Q, Q = {s \in R : s.at + Keep >= n}
  PROVE  Kept(Q, S)
<1>1. R \subseteq S /\ \A a \in R, c \in S \ R : c.at < a.at
  BY DEF Kept
<1>2. \A c \in S : c.at \in Nat
  BY DEF Row
<1>3. ASSUME NEW a \in Q, NEW c \in S \ Q
      PROVE  c.at < a.at
  <2>1. a \in R /\ a.at + Keep >= n /\ a.at \in Nat /\ c.at \in Nat
    BY <1>1, <1>2
  <2>2. CASE c \in R
    BY <2>1, <2>2, Constants
  <2>3. CASE c \notin R
    BY <1>1, <2>1, <2>3
  <2> QED BY <2>2, <2>3
<1> QED BY <1>1, <1>3 DEF Kept

\* A step that neither inserts a sample nor moves a poller.
LEMMA OrderQuiet ==
  ASSUME TypeInv, OrderInv, mysql' = mysql, now' \in Nat, now <= now', commits' = commits, poll' = poll,
         table' = table \/ table' = {s \in table : s.at + Keep >= now}
  PROVE  OrderInv'
<1>1. table' \subseteq table
  OBVIOUS
<1>2. TableOrder'
  <2>1. \A s \in table : s.at \in Nat
    BY DEF TypeInv, Row
  <2> QED BY <1>1, <2>1 DEF OrderInv, TableOrder, TypeInv
<1>3. ASSUME NEW w \in Pollers
      PROVE  PollOrder(w)'
  <2>1. RowsOf(w)' = RowsOf(w)
    BY HeldSame
  <2>2. PollOrder(w)
    BY DEF OrderInv
  <2>3. poll[w].pc \in {"read", "rate"} => poll[w].at \in Nat
    BY PollFits DEF ReadPoll, RatePoll
  <2>4. \A b \in RowsOf(w) : b.at \in Nat
    BY PollFits DEF Row
  <2>5. poll[w].pc \in {"read", "rate"} => poll[w].at <= now'
    BY <2>2, <2>3 DEF PollOrder, TypeInv
  <2>6. \A b \in RowsOf(w) : b.at <= now'
    BY <2>2, <2>4 DEF PollOrder, TypeInv
  <2> QED BY <1>1, <2>1, <2>2, <2>5, <2>6 DEF PollOrder
<1>4. ASSUME NEW w \in Pollers
      PROVE  ViewOrder(w)'
  <2> SUFFICES ASSUME poll[w].pc \in {"open", "read", "rate"}
               PROVE  /\ poll[w].since <= commits
                      /\ mysql => /\ \A s \in poll[w].view : s.order <= poll[w].since
                                  /\ Kept(Old(poll[w].since)', poll[w].view)
    BY DEF ViewOrder, Kept, Old
  <2>1. /\ poll[w].since <= commits
        /\ mysql => /\ \A s \in poll[w].view : s.order <= poll[w].since
                    /\ Kept(Old(poll[w].since), poll[w].view)
    BY DEF OrderInv, ViewOrder
  <2>2. CASE table' = table
    BY <2>1, <2>2 DEF Old
  <2>3. CASE table' = {s \in table : s.at + Keep >= now}
    <3>1. PICK O : O = Old(poll[w].since)
      OBVIOUS
    <3>2. PICK Q : Q = Old(poll[w].since)'
      OBVIOUS
    <3>3. Q = {s \in O : s.at + Keep >= now}
      BY <2>3, <3>1, <3>2 DEF Old
    <3>4. PICK V : V = poll[w].view
      OBVIOUS
    <3>5. V \in SUBSET Row /\ now \in Nat
      BY <3>4, PollFits DEF TypeInv
    <3>6. mysql => Kept(O, V)
      BY <2>1, <3>1, <3>4
    <3>7. mysql => Kept(Q, V)
      BY <3>3, <3>5, <3>6, KeptPruned
    <3> QED BY <2>1, <3>2, <3>4, <3>7
  <2> QED BY <2>2, <2>3
<1> QED BY <1>2, <1>3, <1>4 DEF OrderInv

LEMMA OrderOpen ==
  ASSUME TypeInv, OrderInv, NEW w \in Pollers, Open(w)
  PROVE  OrderInv'
<1>1. Old(commits) = table
  BY DEF OrderInv, TableOrder, Old
<1>2. ViewOrder(w)'
  <2>1. Kept(table, table)
    BY DEF Kept
  <2>2. Old(commits)' = table /\ commits \in Nat
    BY <1>1, Opened DEF Old, TypeInv
  <2>3. \A s \in table : s.order <= commits
    BY DEF OrderInv, TableOrder
  <2>4. poll'[w].since = commits /\ poll'[w].view = table /\ commits' = commits /\ table' = table
    BY Opened
  <2>5. commits <= commits'
    BY <2>2, <2>4
  <2> QED BY <2>1, <2>2, <2>3, <2>4, <2>5 DEF ViewOrder, Old
<1>3. PollOrder(w)'
  BY Opened DEF PollOrder
<1>4. \A v \in Pollers : v # w => ViewOrder(v)' /\ PollOrder(v)'
  BY Opened, OrderStays
<1>5. TableOrder'
  BY Opened, TableStays
<1> QED BY <1>2, <1>3, <1>4, <1>5 DEF OrderInv

LEMMA OrderStart ==
  ASSUME TypeInv, OrderInv, NEW w \in Pollers, Start(w)
  PROVE  OrderInv'
<1>1. mysql' = mysql /\ now' = now /\ commits' = commits /\ table' = table /\ commits \in Nat /\ now \in Nat
  BY Started DEF Calm, TypeInv
<1>2. ViewOrder(w)'
  <2>1. CASE mysql
    <3>1. /\ poll[w].pc = "open" /\ poll'[w].since = poll[w].since
          /\ poll'[w].view = poll[w].view
      BY <2>1, Started
    <3>2. ViewOrder(w)
      BY DEF OrderInv
    <3> QED BY <1>1, <3>1, <3>2 DEF ViewOrder, Old, Kept
  <2>2. CASE ~mysql
    BY <1>1, <2>2, Started DEF ViewOrder
  <2> QED BY <2>1, <2>2
<1>3. PollOrder(w)'
  BY <1>1, Started DEF PollOrder, OrderInv, TableOrder
<1>4. \A v \in Pollers : v # w => ViewOrder(v)' /\ PollOrder(v)'
  BY Started, OrderStays
<1>5. TableOrder'
  BY Started, TableStays
<1> QED BY <1>2, <1>3, <1>4, <1>5 DEF OrderInv

LEMMA OrderRead ==
  ASSUME TypeInv, OrderInv, NEW w \in Pollers, Read(w)
  PROVE  OrderInv'
<1>1. mysql' = mysql /\ now' = now /\ commits' = commits /\ table' = table
  BY HasRead DEF Calm
<1>2. ViewOrder(w) /\ PollOrder(w)
  BY DEF OrderInv
<1>3. ViewOrder(w)'
  BY <1>1, <1>2, HasRead DEF ViewOrder, Old, Kept
<1>4. PollOrder(w)'
  BY <1>1, <1>2, HasRead DEF PollOrder
<1>5. \A v \in Pollers : v # w => ViewOrder(v)' /\ PollOrder(v)'
  BY HasRead, OrderStays
<1>6. TableOrder'
  BY HasRead, TableStays
<1> QED BY <1>3, <1>4, <1>5, <1>6 DEF OrderInv

LEMMA OrderCompare ==
  ASSUME TypeInv, OrderInv, NEW w \in Pollers, Compare(w)
  PROVE  OrderInv'
<1>1. mysql' = mysql /\ now' = now /\ commits' = commits /\ table' = table
  BY Compared DEF Calm
<1>2. PollOrder(w)'
  <2>1. \A b \in RowsOf(w)' : b.at = poll[w].at /\ b.since = poll[w].since
    BY ComparedRow
  <2>2. \A a, b \in RowsOf(w)' : a.port = b.port => a = b
    BY Compared
  <2>3. /\ poll[w].at <= now /\ poll[w].since <= commits
        /\ \A s \in table : s.order <= poll[w].since => s.at <= poll[w].at
    BY Compared DEF OrderInv, PollOrder, ViewOrder
  <2> QED BY <1>1, <2>1, <2>2, <2>3, Compared DEF PollOrder
<1>3. ViewOrder(w)'
  BY Compared DEF ViewOrder
<1>4. \A v \in Pollers : v # w => ViewOrder(v)' /\ PollOrder(v)'
  BY Compared, OrderStays
<1>5. TableOrder'
  BY Compared, TableStays
<1> QED BY <1>2, <1>3, <1>4, <1>5 DEF OrderInv

LEMMA OrderFail ==
  ASSUME TypeInv, OrderInv, NEW w \in Pollers, Fail(w)
  PROVE  OrderInv'
<1>1. ViewOrder(w)' /\ PollOrder(w)'
  BY Failed DEF ViewOrder, PollOrder
<1>2. \A v \in Pollers : v # w => ViewOrder(v)' /\ PollOrder(v)'
  BY Failed, OrderStays
<1>3. TableOrder'
  BY Failed, TableStays
<1> QED BY <1>1, <1>2, <1>3 DEF OrderInv

\* What was in the table, and what is committed now.
LEMMA Committed ==
  ASSUME TypeInv, NEW w \in Pollers, Commit(w)
  PROVE  /\ commits' = commits + 1 /\ commits \in Nat /\ Calm
         /\ poll'[w].pc = "idle" /\ RowsOf(w)' = {} /\ ViewOf(w)' = {} /\ RowsOf(w) \in SUBSET Row
         /\ \A v \in Pollers : v # w =>
              poll'[v] = poll[v] /\ RowsOf(v)' = RowsOf(v) /\ ViewOf(v)' = ViewOf(v)
         /\ table \subseteq table'
         /\ \A s \in table' : s \in table \/ \E q \in RowsOf(w) : s = Numbered(q, commits')
<1>1. /\ commits' = commits + 1 /\ Calm
      /\ table' = table \cup {Numbered(s, commits + 1) : s \in RowsOf(w)}
      /\ poll' = [poll EXCEPT ![w] = Idle(poll[w].at)] /\ Idle(poll[w].at).pc = "idle"
  BY CommitFits
<1>2. /\ poll'[w].pc = "idle" /\ RowsOf(w)' = {} /\ ViewOf(w)' = {}
      /\ \A v \in Pollers : v # w =>
           poll'[v] = poll[v] /\ RowsOf(v)' = RowsOf(v) /\ ViewOf(v)' = ViewOf(v)
  BY <1>1, OthersStay
<1>3. RowsOf(w) \in SUBSET Row /\ commits \in Nat
  BY PollFits DEF TypeInv
<1> QED BY <1>1, <1>2, <1>3

\* What is inserted, as it is in the table.
LEMMA CommittedRow ==
  ASSUME TypeInv, NEW w \in Pollers, Commit(w), NEW q \in RowsOf(w), NEW s, s = Numbered(q, commits')
  PROVE  /\ s \in Row /\ q \in Row /\ s.order = commits' /\ s.port = q.port /\ s.at = q.at
         /\ s.since = q.since /\ Told(s) = Told(q)
         /\ s.total = q.total /\ s.octets = q.octets /\ s.wide = q.wide /\ s.boot = q.boot
         /\ s.hist = q.hist /\ s.delta = q.delta /\ s.dt = q.dt /\ s.ptotal = q.ptotal
         /\ s.clean = q.clean
<1>1. q \in Row /\ commits' \in Nat
  BY Committed
<1> QED BY <1>1, NumberedFits

LEMMA OrderCommit ==
  ASSUME TypeInv, OrderInv, NEW w \in Pollers, Commit(w)
  PROVE  OrderInv'
<1>1. PollOrder(w) /\ TableOrder
  BY DEF OrderInv
<1>2. ASSUME NEW s \in table', s \notin table
      PROVE  \E q \in RowsOf(w) :
               /\ s = Numbered(q, commits') /\ s.order = commits' /\ s.port = q.port
               /\ s.at = q.at /\ s.since = q.since
  BY <1>2, Committed, CommittedRow
<1>3. \A s \in table : s.order \in Nat /\ s.since \in Nat /\ s.order <= commits
  BY <1>1 DEF TableOrder, TypeInv, Row
<1>4. \A q \in RowsOf(w) : q.since \in Nat /\ q.since <= commits
  BY <1>1, Committed DEF PollOrder, Row
<1>5. commits' = commits + 1 /\ commits \in Nat /\ now' = now
  BY Committed DEF Calm
<1>6. TableOrder'
  <2>1. ASSUME NEW s \in table'
        PROVE  s.since < s.order /\ s.order <= commits' /\ s.at <= now'
    <3>1. CASE s \in table
      BY <3>1, <1>1, <1>3, <1>5 DEF TableOrder
    <3>2. CASE s \notin table
      <4>1. PICK q \in RowsOf(w) : s.order = commits' /\ s.at = q.at /\ s.since = q.since
        BY <3>2, <1>2
      <4> QED BY <4>1, <1>1, <1>4, <1>5 DEF PollOrder
    <3> QED BY <3>1, <3>2
  <2>2. ASSUME NEW a \in table', NEW b \in table', a.order = b.order, a.port = b.port
        PROVE  a = b
    <3>1. CASE a \in table /\ b \in table
      BY <2>2, <3>1, <1>1 DEF TableOrder
    <3>2. CASE a \notin table /\ b \notin table
      BY <2>2, <3>2, <1>1, <1>2 DEF PollOrder
    <3>3. CASE a \in table /\ b \notin table
      BY <2>2, <3>3, <1>2, <1>3, <1>5
    <3>4. CASE a \notin table /\ b \in table
      BY <2>2, <3>4, <1>2, <1>3, <1>5
    <3> QED BY <3>1, <3>2, <3>3, <3>4
  <2>3. ASSUME NEW a \in table', NEW b \in table', a.order <= b.since
        PROVE  a.at <= b.at
    <3>1. b.since <= commits
      <4>1. CASE b \in table
        BY <4>1, <1>1, <1>3, <1>5 DEF TableOrder
      <4>2. CASE b \notin table
        BY <4>2, <1>2, <1>4
      <4> QED BY <4>1, <4>2
    <3>2. b.since \in Nat
      BY <1>2, <1>3, <1>4
    <3>3. a \in table
      BY <2>3, <3>1, <3>2, <1>2, <1>5
    <3>4. CASE b \in table
      BY <2>3, <3>3, <3>4, <1>1 DEF TableOrder
    <3>5. CASE b \notin table
      BY <2>3, <3>3, <3>5, <1>1, <1>2 DEF PollOrder
    <3> QED BY <3>4, <3>5
  <2> QED BY <2>1, <2>2, <2>3 DEF TableOrder
<1>7. PollOrder(w)' /\ ViewOrder(w)'
  BY Committed DEF PollOrder, ViewOrder
<1>8. ASSUME NEW v \in Pollers, v # w
      PROVE  PollOrder(v)' /\ ViewOrder(v)'
  <2>1. PollOrder(v) /\ ViewOrder(v) /\ poll'[v] = poll[v] /\ RowsOf(v)' = RowsOf(v) /\ mysql' = mysql
    BY <1>8, Committed DEF OrderInv, Calm
  <2>2. \A s \in table' : s \in table \/ s.order = commits + 1
    BY <1>2, <1>5
  <2>3. poll[v].pc \in {"open", "read", "rate"} => poll[v].since \in Nat /\ poll[v].since <= commits
    BY <2>1, PollFits DEF ViewOrder
  <2>4. \A b \in RowsOf(v) : b.since \in Nat /\ b.since <= commits
    BY <2>1, PollFits DEF PollOrder, Row
  <2>5. poll[v].pc \in {"read", "rate"} =>
          \A s \in table' : s.order <= poll[v].since => s.at <= poll[v].at
    BY <1>5, <2>1, <2>2, <2>3 DEF PollOrder
  <2>6. \A b \in RowsOf(v) :
          /\ b.since <= commits'
          /\ \A s \in table' : s.order <= b.since => s.at <= b.at
    BY <1>5, <2>1, <2>2, <2>4 DEF PollOrder
  <2>7. poll[v].pc \in {"open", "read", "rate"} =>
          poll[v].since <= commits' /\ Old(poll[v].since)' = Old(poll[v].since)
    <3> SUFFICES ASSUME poll[v].pc \in {"open", "read", "rate"}
                 PROVE  poll[v].since <= commits' /\ Old(poll[v].since)' = Old(poll[v].since)
      OBVIOUS
    <3>1. PICK n : n = poll[v].since
      OBVIOUS
    <3>2. n \in Nat /\ n <= commits
      BY <2>3, <3>1
    <3>3. {s \in table' : s.order <= n} = {s \in table : s.order <= n}
      BY <1>5, <2>2, <3>2, Committed
    <3>4. Old(poll[v].since)' = {s \in table' : s.order <= n}
      BY <2>1, <3>1 DEF Old
    <3> QED BY <1>5, <3>1, <3>2, <3>3, <3>4 DEF Old
  <2>8. ViewOrder(v)'
    BY <2>1, <2>7 DEF ViewOrder, Old, Kept
  <2> QED BY <1>5, <2>1, <2>5, <2>6, <2>8 DEF PollOrder
<1> QED BY <1>6, <1>7, <1>8 DEF OrderInv

LEMMA OrderStep ==
  ASSUME TypeInv, OrderInv, [Next]_vars
  PROVE  OrderInv'
<1>1. CASE UNCHANGED vars \/ Elapse \/ Reboot \/ Prune
  <2>1. /\ mysql' = mysql /\ now' \in Nat /\ now <= now' /\ commits' = commits /\ poll' = poll
        /\ table' = table \/ table' = {s \in table : s.at + Keep >= now}
    BY <1>1 DEF vars, Elapse, Reboot, Prune, TypeInv
  <2> QED BY <2>1, OrderQuiet
<1>2. ASSUME NEW w \in Pollers,
             Open(w) \/ Start(w) \/ Read(w) \/ Compare(w) \/ Commit(w) \/ Fail(w)
      PROVE  OrderInv'
  BY <1>2, OrderOpen, OrderStart, OrderRead, OrderCompare, OrderCommit, OrderFail
<1> QED BY <1>1, <1>2 DEF Next

-----------------------------------------------------------------------------
\* The readings of a port

\* What was read is known.
LEMMA PastHas ==
  ASSUME TypeInv, NEW p \in Ports
  PROVE  /\ \A s \in table : s.port = p => Told(s) \in Past(p)
         /\ \A w \in Pollers : \A s \in RowsOf(w) \cup ViewOf(w) : s.port = p => Told(s) \in Past(p)
         /\ \A w \in Pollers : poll[w].pc = "rate" /\ p \in DOMAIN poll[w].seen => poll[w].seen[p] \in Past(p)
         /\ Past(p) \subseteq Readings
<1>1. \A s \in Row : Told(s) \in Readings
  BY DEF Told, Row, Readings
<1>2. table \subseteq Row /\ \A w \in Pollers : RowsOf(w) \subseteq Row /\ ViewOf(w) \subseteq Row
  BY PollFits DEF TypeInv
<1>3. \A w \in Pollers : poll[w].pc = "rate" /\ p \in DOMAIN poll[w].seen => poll[w].seen[p] \in Readings
  BY PollFits
<1> QED BY <1>1, <1>2, <1>3 DEF Past

\* What is known of a port after a step of one poller.
LEMMA PastStep ==
  ASSUME TypeInv, NEW w \in Pollers, NEW p \in Ports,
         \A v \in Pollers : v # w =>
           poll'[v] = poll[v] /\ RowsOf(v)' = RowsOf(v) /\ ViewOf(v)' = ViewOf(v),
         \A s \in table' : s.port = p => Told(s) \in Past(p),
         \A s \in RowsOf(w)' \cup ViewOf(w)' : s.port = p => Told(s) \in Past(p),
         poll'[w].pc = "rate" /\ p \in DOMAIN poll'[w].seen => poll'[w].seen[p] \in All(p)
  PROVE  Past(p)' \subseteq All(p)
<1> SUFFICES ASSUME NEW r \in Past(p)'
             PROVE  r \in All(p)
  OBVIOUS
<1>1. \/ \E s \in table' : s.port = p /\ r = Told(s)
      \/ \E v \in Pollers : poll'[v].pc = "rate" /\ p \in DOMAIN poll'[v].seen /\ r = poll'[v].seen[p]
      \/ \E v \in Pollers : \E s \in RowsOf(v)' \cup ViewOf(v)' : s.port = p /\ r = Told(s)
  BY DEF Past, Told
<1>2. CASE \E s \in table' : s.port = p /\ r = Told(s)
  BY <1>2 DEF All
<1>3. ASSUME NEW v \in Pollers, poll'[v].pc = "rate", p \in DOMAIN poll'[v].seen, r = poll'[v].seen[p]
      PROVE  r \in All(p)
  <2>1. CASE v = w
    BY <1>3, <2>1
  <2>2. CASE v # w
    BY <1>3, <2>2, PastHas DEF All
  <2> QED BY <2>1, <2>2
<1>4. ASSUME NEW v \in Pollers, NEW s \in RowsOf(v)' \cup ViewOf(v)', s.port = p, r = Told(s)
      PROVE  r \in All(p)
  <2>1. CASE v = w
    BY <1>4, <2>1 DEF All
  <2>2. CASE v # w
    BY <1>4, <2>2, PastHas DEF All
  <2> QED BY <2>1, <2>2
<1> QED BY <1>1, <1>2, <1>3, <1>4

\* A reading, taken or to be taken now, is one of its counter.
LEMMA AllFits ==
  ASSUME TypeInv, NEW p \in Ports, Tally(p), NEW r \in All(p)
  PROVE  /\ r \in Readings
         /\ r.octets < Width(r.wide) /\ r.total <= total[p] /\ r.boot <= boot
<1>1. CASE r \in Past(p)
  BY <1>1, PastHas DEF Tally
<1>2. CASE r \in {Reading(p, TRUE), Reading(p, FALSE)}
  <2>1. PICK wide \in BOOLEAN : r = Reading(p, wide)
    BY <1>2
  <2>2. total[p] \in Nat /\ boot \in Nat
    BY DEF TypeInv
  <2> QED BY <2>1, <2>2, ReadingFits
<1> QED BY <1>1, <1>2 DEF All

\* Nothing that is new disagrees while the device stays as it is.
LEMMA TallyKept ==
  ASSUME TypeInv, NEW p \in Ports, Tally(p), Calm, Past(p)' \subseteq All(p)
  PROVE  Tally(p)'
<1>1. \A wide \in BOOLEAN : Reading(p, wide)' = Reading(p, wide)
  BY DEF Reading, Calm
<1>2. All(p)' \subseteq All(p)
  BY <1>1 DEF All
<1>3. \A a, b \in All(p) : Agree(a, b)
  BY DEF Tally
<1>4. \A r \in Past(p)' : r.octets < Width(r.wide) /\ r.total <= total[p] /\ r.boot <= boot
  BY AllFits
<1> QED BY <1>2, <1>3, <1>4 DEF Tally, Calm, Agree, Width

LEMMA TallyOpen ==
  ASSUME TypeInv, NEW p \in Ports, Tally(p), NEW w \in Pollers, Open(w)
  PROVE  Tally(p)'
<1>1. \A s \in table' : s.port = p => Told(s) \in Past(p)
  BY Opened, PastHas
<1>2. Past(p)' \subseteq All(p)
  BY <1>1, Opened, PastStep
<1> QED BY <1>2, Opened, TallyKept

LEMMA TallyStart ==
  ASSUME TypeInv, NEW p \in Ports, Tally(p), NEW w \in Pollers, Start(w)
  PROVE  Tally(p)'
<1>1. \A s \in table' : s.port = p => Told(s) \in Past(p)
  BY Started, PastHas
<1>2. \A s \in ViewOf(w)' : s.port = p => Told(s) \in Past(p)
  BY Started, PastHas
<1>3. Past(p)' \subseteq All(p)
  BY <1>1, <1>2, Started, PastStep
<1> QED BY <1>3, Started, TallyKept

LEMMA TallyRead ==
  ASSUME TypeInv, NEW p \in Ports, Tally(p), NEW w \in Pollers, Read(w)
  PROVE  Tally(p)'
<1>1. poll'[w].pc = "rate" /\ p \in DOMAIN poll'[w].seen => poll'[w].seen[p] \in All(p)
  BY HasRead DEF All
<1>2. \A s \in table' : s.port = p => Told(s) \in Past(p)
  BY HasRead, PastHas
<1>3. \A s \in ViewOf(w)' : s.port = p => Told(s) \in Past(p)
  BY HasRead, PastHas
<1>4. Past(p)' \subseteq All(p)
  BY <1>1, <1>2, <1>3, HasRead, PastStep
<1> QED BY <1>4, HasRead, TallyKept

LEMMA TallyCompare ==
  ASSUME TypeInv, NEW p \in Ports, Tally(p), NEW w \in Pollers, Compare(w)
  PROVE  Tally(p)'
<1>1. \A s \in table' : s.port = p => Told(s) \in Past(p)
  BY Compared, PastHas
<1>2. ASSUME NEW s \in RowsOf(w)', s.port = p
      PROVE  Told(s) \in Past(p)
  <2>1. p \in DOMAIN poll[w].seen /\ Told(s) = poll[w].seen[p]
    BY <1>2, ComparedRow
  <2> QED BY <2>1, Compared, PastHas
<1>3. Past(p)' \subseteq All(p)
  BY <1>1, <1>2, Compared, PastStep
<1> QED BY <1>3, Compared, TallyKept

LEMMA TallyCommit ==
  ASSUME TypeInv, NEW p \in Ports, Tally(p), NEW w \in Pollers, Commit(w)
  PROVE  Tally(p)'
<1>1. ASSUME NEW s \in table', s.port = p
      PROVE  Told(s) \in Past(p)
  <2>1. CASE s \in table
    BY <1>1, <2>1, PastHas
  <2>2. CASE s \notin table
    <3>1. PICK q \in RowsOf(w) : s = Numbered(q, commits')
      BY <2>2, Committed
    <3>2. Told(s) = Told(q) /\ q.port = p
      BY <1>1, <3>1, CommittedRow
    <3> QED BY <3>2, PastHas
  <2> QED BY <2>1, <2>2
<1>2. Past(p)' \subseteq All(p)
  BY <1>1, Committed, PastStep
<1> QED BY <1>2, Committed, TallyKept

LEMMA TallyFail ==
  ASSUME TypeInv, NEW p \in Ports, Tally(p), NEW w \in Pollers, Fail(w)
  PROVE  Tally(p)'
<1>1. \A s \in table' : s.port = p => Told(s) \in Past(p)
  BY Failed, PastHas
<1>2. Past(p)' \subseteq All(p)
  BY <1>1, Failed, PastStep
<1> QED BY <1>2, Failed, TallyKept

LEMMA TallyPrune ==
  ASSUME TypeInv, NEW p \in Ports, Tally(p), Prune
  PROVE  Tally(p)'
<1>1. table' \subseteq table /\ poll' = poll /\ Calm
  BY DEF Prune, Calm
<1>2. Past(p)' \subseteq Past(p)
  BY <1>1 DEF Past, RowsOf, ViewOf, Told
<1> QED BY <1>1, <1>2, TallyKept DEF All

\* Nothing that is known changes when the device goes on.
LEMMA PastSame ==
  ASSUME NEW p, table' = table, poll' = poll
  PROVE  Past(p)' = Past(p)
BY DEF Past, RowsOf, ViewOf, Told

LEMMA TallyReboot ==
  ASSUME TypeInv, NEW p \in Ports, Tally(p), Reboot
  PROVE  Tally(p)'
<1>1. /\ boot = 0 /\ boot' = 1 /\ total' = total /\ table' = table /\ poll' = poll
      /\ hc'[p] = 0 /\ low'[p] = 0
  BY DEF Reboot
<1>2. Past(p)' = Past(p)
  BY <1>1, PastSame
<1>3. TypeInv'
  BY TypeReboot
<1>4. \A wide \in BOOLEAN :
        Reading(p, wide)' = [octets |-> 0, wide |-> wide, total |-> total[p], boot |-> 1]
  BY <1>1 DEF Reading
<1>5. \A r \in Past(p) : r \in Readings /\ r.octets < Width(r.wide) /\ r.total <= total[p] /\ r.boot <= boot
  BY PastHas DEF Tally
<1>6. \A r \in Past(p) : r.boot # 1
  BY <1>1, <1>5 DEF Readings
<1>7. ASSUME NEW a \in All(p)', NEW b \in All(p)'
      PROVE  Agree(a, b)
  <2>1. \A r \in All(p)' : r \in Past(p) \/ \E wide \in BOOLEAN : r = Reading(p, wide)'
    BY <1>2 DEF All
  <2>2. \A r \in All(p)' :
          \/ r \in Past(p)
          \/ r.octets = 0 /\ r.total = total[p] /\ r.wide \in BOOLEAN /\ r.boot = 1
    BY <2>1, <1>4
  <2>3. CASE a \in Past(p) /\ b \in Past(p)
    BY <2>3 DEF Tally, All
  <2>4. CASE a.boot # b.boot
    BY <2>4 DEF Agree
  <2>5. CASE a.octets = 0 /\ a.total = total[p] /\ a.wide \in BOOLEAN /\ b.octets = 0 /\ b.total = total[p]
    <3>1. total[p] \in Nat
      BY DEF TypeInv
    <3>2. CountOn(0, 0, Width(a.wide)) = 0
      BY <2>5, Constants DEF CountOn, Width
    <3> QED BY <2>5, <3>1, <3>2 DEF Agree
  <2> QED BY <2>2, <2>3, <2>4, <2>5, <1>6
<1>8. \A r \in Past(p)' : r.octets < Width(r.wide) /\ r.total <= total'[p] /\ r.boot <= boot'
  BY <1>1, <1>2, <1>5 DEF Readings
<1> QED BY <1>7, <1>8 DEF Tally, Agree, Width

LEMMA TallyElapse ==
  ASSUME TypeInv, NEW p \in Ports, Tally(p), Elapse
  PROVE  Tally(p)'
<1>1. PICK m \in [Ports -> Bursts] :
        /\ hc' = [q \in Ports |-> CountOn(hc[q], m[q], Wide)]
        /\ low' = [q \in Ports |-> CountOn(low[q], m[q], Narrow)]
        /\ total' = [q \in Ports |-> total[q] + m[q]]
  BY DEF Elapse
<1>2. PICK n \in 0 .. Narrow - 1 :
        /\ hc'[p] = CountOn(hc[p], n, Wide) /\ low'[p] = CountOn(low[p], n, Narrow)
        /\ total'[p] = total[p] + n
  BY <1>1, BurstAssumption
<1>3. boot' = boot /\ table' = table /\ poll' = poll
  BY DEF Elapse
<1>4. Past(p)' = Past(p)
  BY <1>3, PastSame
<1>5. total[p] \in Nat /\ boot \in Nat /\ n \in Nat
  BY DEF TypeInv
<1>6. \A wide \in BOOLEAN : Width(wide) \in Nat /\ n < Width(wide)
  BY Constants DEF Width
<1>7. \A r \in All(p) :
        /\ r \in Readings /\ r.octets \in 0 .. Width(r.wide) - 1
        /\ r.total <= total[p] /\ r.boot <= boot
  BY <1>6, AllFits DEF Readings
\* A counter as it is now, and as it will be.
<1>8. ASSUME NEW wide \in BOOLEAN
      PROVE  /\ Reading(p, wide)'.octets = CountOn(Reading(p, wide).octets, n, Width(wide))
             /\ Reading(p, wide)'.wide = wide /\ Reading(p, wide).wide = wide
             /\ Reading(p, wide)'.total = total[p] + n /\ Reading(p, wide).total = total[p]
             /\ Reading(p, wide)'.boot = boot /\ Reading(p, wide).boot = boot
             /\ Reading(p, wide) \in All(p)
             /\ Reading(p, wide).octets \in 0 .. Width(wide) - 1
  <2>1. Reading(p, wide)' =
          [octets |-> IF wide THEN hc'[p] ELSE low'[p], wide |-> wide, total |-> total'[p], boot |-> boot']
    BY DEF Reading
  <2>2. Reading(p, wide) =
          [octets |-> IF wide THEN hc[p] ELSE low[p], wide |-> wide, total |-> total[p], boot |-> boot]
    BY DEF Reading
  <2>3. Reading(p, wide) \in All(p)
    BY DEF All
  <2>4. Reading(p, wide).octets \in 0 .. Width(wide) - 1
    BY <2>2, <2>3, <1>7
  <2> QED BY <1>2, <1>3, <2>1, <2>2, <2>3, <2>4 DEF Width
<1>9. ASSUME NEW a \in Past(p), NEW wide \in BOOLEAN
      PROVE  Agree(a, Reading(p, wide)') /\ Agree(Reading(p, wide)', a)
  <2>r. PICK r : r = Reading(p, wide)
    OBVIOUS
  <2>s. PICK s : s = Reading(p, wide)'
    OBVIOUS
  <2>1. /\ s.octets = CountOn(r.octets, n, Width(wide)) /\ r.octets \in 0 .. Width(wide) - 1
        /\ s.wide = wide /\ r.wide = wide /\ s.boot = boot /\ r.boot = boot
        /\ s.total = total[p] + n /\ r.total = total[p] /\ r \in All(p)
    BY <1>8, <2>r, <2>s
  <2>2. a \in All(p) /\ Agree(a, r) /\ Agree(r, a)
    BY <2>1 DEF Tally, All
  <2>3. a.total \in Nat /\ a.total <= total[p] /\ a.octets \in 0 .. Width(a.wide) - 1
    BY <2>2, <1>7 DEF Readings
  <2>4. Agree(a, s)
    <3> SUFFICES ASSUME a.wide = s.wide, a.boot = s.boot, s.total - a.total < Width(a.wide)
                 PROVE  s.octets = CountOn(a.octets, s.total - a.total, Width(a.wide))
      BY DEF Agree
    <3> DEFINE k == total[p] - a.total
    <3>0. a.wide = wide /\ a.boot = boot /\ s.total - a.total = total[p] + n - a.total
      <4>1. a.wide = wide /\ a.boot = boot
        BY <2>1, Zenon
      <4>2. s.total - a.total = total[p] + n - a.total
        BY <1>5, <2>1, <2>3
      <4> QED BY <4>1, <4>2, Zenon
    <3>1. k \in Nat /\ k + n < Width(wide) /\ k < Width(wide) /\ total[p] + n - a.total = k + n
      BY <1>5, <1>6, <2>3, <3>0
    <3>2. r.octets = CountOn(a.octets, k, Width(wide))
      BY <2>1, <2>2, <2>3, <3>0, <3>1 DEF Agree
    <3> HIDE DEF k
    <3>3. CountOn(CountOn(a.octets, k, Width(wide)), n, Width(wide)) = CountOn(a.octets, k + n, Width(wide))
      BY <1>5, <1>6, <2>3, <3>0, <3>1, CountTwice
    <3> QED BY <2>1, <3>0, <3>1, <3>2, <3>3
  <2>5. Agree(s, a)
    <3> SUFFICES ASSUME a.wide = wide, a.boot = boot, total[p] + n <= a.total,
                        a.total - (total[p] + n) < Width(wide)
                 PROVE  a.octets = CountOn(s.octets, a.total - (total[p] + n), Width(wide))
      BY <2>1 DEF Agree
    <3>1. n = 0 /\ a.total = total[p] /\ 0 < Width(wide)
      BY <1>5, <1>6, <2>3
    <3>2. s.octets = r.octets /\ CountOn(r.octets, 0, Width(wide)) = r.octets
      BY <1>6, <2>1, <3>1 DEF CountOn
    <3>3. a.octets = CountOn(r.octets, 0, Width(wide))
      BY <1>5, <2>1, <2>2, <3>1 DEF Agree
    <3>4. a.total - (total[p] + n) = 0
      BY <1>5, <3>1
    <3> QED BY <3>2, <3>3, <3>4
  <2> QED BY <2>4, <2>5, <2>s
<1>10. ASSUME NEW wide \in BOOLEAN, NEW other \in BOOLEAN
       PROVE  Agree(Reading(p, wide)', Reading(p, other)')
  <2>1. CASE wide = other
    <3>s. PICK s : s = Reading(p, wide)'
      OBVIOUS
    <3>0. CountOn(Reading(p, wide).octets, n, Width(wide)) \in 0 .. Width(wide) - 1
      BY <1>6, <1>8, CountWithin
    <3>1. s.octets \in 0 .. Width(wide) - 1 /\ s.wide = wide /\ s.total \in Nat
      BY <1>5, <1>8, <3>0, <3>s
    <3>2. CountOn(s.octets, 0, Width(wide)) = s.octets /\ s.total - s.total = 0
      BY <1>6, <3>1 DEF CountOn
    <3>3. Agree(s, s)
      BY <3>1, <3>2 DEF Agree
    <3> QED BY <2>1, <3>3, <3>s
  <2>2. CASE wide # other
    BY <2>2, <1>8 DEF Agree
  <2> QED BY <2>1, <2>2
<1>11. ASSUME NEW a \in All(p)', NEW b \in All(p)'
       PROVE  Agree(a, b)
  <2>1. \A r \in All(p)' : r \in Past(p) \/ \E wide \in BOOLEAN : r = Reading(p, wide)'
    BY <1>4 DEF All
  <2>2. CASE a \in Past(p) /\ b \in Past(p)
    BY <2>2 DEF Tally, All
  <2> QED BY <2>1, <2>2, <1>9, <1>10
<1>12. \A r \in Past(p)' : r.octets < Width(r.wide) /\ r.total <= total'[p] /\ r.boot <= boot'
  <2> TAKE r \in Past(p)'
  <2>1. r \in All(p) /\ r \in Past(p)
    BY <1>4 DEF All
  <2>2. r.octets < Width(r.wide)
    BY <2>1 DEF Tally
  <2> QED BY <1>2, <1>3, <1>5, <1>7, <2>1, <2>2 DEF Readings
<1> QED BY <1>11, <1>12 DEF Tally, Agree, Width

LEMMA ReadAfterStep ==
  ASSUME TypeInv, OrderInv, \A p \in Ports : Tally(p), NEW w \in Pollers, ReadAfter(w), [Next]_vars
  PROVE  ReadAfter(w)'
<1>1. CASE UNCHANGED vars \/ Elapse \/ Reboot \/ Prune
  <2>1. table' \subseteq table /\ poll' = poll
    BY <1>1 DEF vars, Elapse, Reboot, Prune
  <2>2. ViewOf(w)' = ViewOf(w)
    BY <2>1, HeldSame
  <2> QED BY <2>1, <2>2 DEF ReadAfter
<1>2. ASSUME NEW v \in Pollers, Open(v) \/ Start(v) \/ Compare(v) \/ Fail(v)
      PROVE  ReadAfter(w)'
  <2>1. /\ poll'[v].pc # "rate" /\ table' = table
        /\ \A u \in Pollers : u # v => poll'[u] = poll[u] /\ ViewOf(u)' = ViewOf(u)
    BY <1>2, Opened, Started, Compared, Failed
  <2> QED BY <2>1 DEF ReadAfter
<1>3. ASSUME NEW v \in Pollers, Read(v)
      PROVE  ReadAfter(w)'
  <2>1. CASE w # v
    BY <1>3, <2>1, HasRead DEF ReadAfter
  <2>2. CASE w = v
    <3> SUFFICES ASSUME NEW p \in DOMAIN poll'[w].seen, NEW s \in table' \cup ViewOf(w)', s.port = p
                 PROVE  s.total <= poll'[w].seen[p].total
      BY DEF ReadAfter
    <3>1. p \in Ports /\ s \in table \cup ViewOf(w)
      BY <1>3, <2>2, HasRead
    <3>2. poll'[w].seen[p].total = total[p]
      BY <1>3, <2>2, <3>1, HasRead, ReadingFits
    <3>3. Told(s) \in Past(p) /\ Told(s).total = s.total
      BY <3>1, PastHas DEF Told
    <3>4. s.total <= total[p]
      BY <3>1, <3>3 DEF Tally
    <3> QED BY <3>2, <3>4
  <2> QED BY <2>1, <2>2
<1>4. ASSUME NEW v \in Pollers, Commit(v)
      PROVE  ReadAfter(w)'
  <2>1. CASE w = v
    BY <1>4, <2>1, Committed DEF ReadAfter
  <2>2. CASE w # v
    <3> SUFFICES ASSUME poll[w].pc = "rate", NEW p \in DOMAIN poll[w].seen,
                        NEW s \in table' \cup ViewOf(w), s.port = p, s.order <= poll[w].since
                 PROVE  s.total <= poll[w].seen[p].total
      BY <1>4, <2>2, Committed DEF ReadAfter
    <3>1. poll[w].since \in Nat /\ poll[w].since <= commits
      BY PollFits DEF OrderInv, ViewOrder
    <3>2. s \in ViewOf(w) \/ s \in table \/ s.order = commits + 1
      BY <1>4, Committed, CommittedRow
    <3>3. s \in table \cup ViewOf(w)
      BY <3>1, <3>2 DEF TypeInv
    <3> QED BY <3>3 DEF ReadAfter
  <2> QED BY <2>1, <2>2
<1> QED BY <1>1, <1>2, <1>3, <1>4 DEF Next

LEMMA CountInit == Init => CountInv
<1> SUFFICES ASSUME Init
             PROVE  CountInv
  OBVIOUS
<1>1. TypeInv
  BY TypeInit
<1>2. table = {} /\ \A w \in Pollers : poll[w].pc = "idle" /\ RowsOf(w) = {} /\ ViewOf(w) = {}
  BY DEF Init, Idle, RowsOf, ViewOf
<1>3. \A p \in Ports : Past(p) = {}
  BY <1>2 DEF Past
<1>4. ASSUME NEW p \in Ports, NEW a \in All(p), NEW b \in All(p)
      PROVE  Agree(a, b)
  <2>1. PICK wide \in BOOLEAN : a = Reading(p, wide)
    BY <1>3 DEF All
  <2>2. PICK other \in BOOLEAN : b = Reading(p, other)
    BY <1>3 DEF All
  <2>3. CASE wide = other
    <3>1. a \in Readings /\ a.octets < Width(wide) /\ a.wide = wide /\ a = b
      BY <1>1, <2>1, <2>2, <2>3, ReadingFits
    <3>2. CountOn(a.octets, 0, Width(wide)) = a.octets /\ a.total - a.total = 0
      BY <3>1, Constants DEF CountOn, Readings, Width
    <3> QED BY <3>1, <3>2 DEF Agree
  <2>4. CASE wide # other
    BY <1>1, <2>1, <2>2, <2>4, ReadingFits DEF Agree
  <2> QED BY <2>3, <2>4
<1> QED BY <1>2, <1>3, <1>4 DEF CountInv, Tally, ReadAfter

LEMMA CountStep ==
  ASSUME TypeInv, OrderInv, CountInv, [Next]_vars
  PROVE  CountInv'
<1>1. ASSUME NEW p \in Ports
      PROVE  Tally(p)'
  <2>1. Tally(p)
    BY DEF CountInv
  <2>2. CASE UNCHANGED vars
    <3>1. Past(p)' = Past(p) /\ Calm
      BY <2>2, PastSame DEF vars, Calm
    <3> QED BY <2>1, <3>1, TallyKept DEF All
  <2>3. CASE Elapse \/ Reboot \/ Prune
    BY <2>1, <2>3, TallyElapse, TallyReboot, TallyPrune
  <2>4. ASSUME NEW w \in Pollers,
               Open(w) \/ Start(w) \/ Read(w) \/ Compare(w) \/ Commit(w) \/ Fail(w)
        PROVE  Tally(p)'
    BY <2>1, <2>4, TallyOpen, TallyStart, TallyRead, TallyCompare, TallyCommit, TallyFail
  <2> QED BY <2>2, <2>3, <2>4 DEF Next
<1>2. \A w \in Pollers : ReadAfter(w)'
  BY ReadAfterStep DEF CountInv
<1> QED BY <1>1, <1>2 DEF CountInv

-----------------------------------------------------------------------------
\* Rates

\* What the code makes of two readings of one count of an HC counter.
LEMMA DeltaRight ==
  ASSUME NEW a \in Readings, NEW b \in Readings, a.wide, b.wide, a.boot = b.boot,
         a.octets < Width(a.wide), b.octets < Width(b.wide), a.total <= b.total, Agree(a, b),
         NEW delta, delta = CounterDelta(a.octets, b.octets, Wide),
         b.total - a.total < Wide
  PROVE  delta = b.total - a.total
<1> DEFINE real == b.total - a.total
<1>1. /\ a.octets \in Nat /\ b.octets \in Nat /\ a.total \in Nat /\ b.total \in Nat /\ real \in Nat
      /\ a.wide \in BOOLEAN /\ b.wide \in BOOLEAN
  BY DEF Readings
<1>2. Width(a.wide) = Wide /\ a.wide = b.wide
  BY <1>1 DEF Width
<1>3. a.octets \in 0 .. Wide - 1 /\ real \in 0 .. Wide - 1
  <2>1. a.octets < Wide
    BY <1>2, Zenon
  <2> QED BY <1>1, <2>1, Constants
<1>4. b.octets = CountOn(a.octets, real, Wide)
  BY <1>2 DEF Agree
<1> HIDE DEF real
<1>5. CounterDelta(a.octets, b.octets, Wide) = real
  BY <1>3, <1>4, DeltaExact, Constants
<1> QED BY <1>5 DEF real

\* What had been committed when a poll began is there when it compares, or was pruned,
\* and what it finds it read after.
LEMMA VisibleOld ==
  ASSUME TypeInv, OrderInv, CountInv, NEW w \in Pollers, poll[w].pc = "rate",
         NEW V, V = Visible(w)
  PROVE  /\ V \in SUBSET Row
         /\ Kept(Old(poll[w].since), {s \in V : s.order <= poll[w].since})
         /\ mysql \/ poll[w].since = commits => \A s \in V : s.order <= poll[w].since
         /\ \A p \in DOMAIN poll[w].seen : \A s \in V :
              s.port = p /\ s.order <= poll[w].since => s.total <= poll[w].seen[p].total
         /\ \A p \in Ports : \A s \in V : s.port = p => Told(s) \in Past(p)
<1>1. /\ V = IF mysql THEN ViewOf(w) ELSE table
      /\ ViewOf(w) = poll[w].view
  BY PollFits DEF Visible
<1>2. V \in SUBSET Row
  BY VisibleFits
<1>3. mysql => /\ \A s \in poll[w].view : s.order <= poll[w].since
               /\ Kept(Old(poll[w].since), poll[w].view)
  BY DEF OrderInv, ViewOrder
<1>4. Kept(Old(poll[w].since), {s \in V : s.order <= poll[w].since})
  <2>1. CASE mysql
    <3>1. {s \in V : s.order <= poll[w].since} = poll[w].view
      BY <1>1, <1>3, <2>1
    <3> QED BY <1>3, <2>1, <3>1
  <2>2. CASE ~mysql
    <3>1. {s \in V : s.order <= poll[w].since} = Old(poll[w].since)
      BY <1>1, <2>2 DEF Old
    <3> QED BY <3>1 DEF Kept
  <2> QED BY <2>1, <2>2
<1>5. mysql \/ poll[w].since = commits => \A s \in V : s.order <= poll[w].since
  <2>1. CASE mysql
    BY <1>1, <1>3, <2>1
  <2>2. CASE ~mysql
    BY <1>1, <2>2 DEF OrderInv, TableOrder
  <2> QED BY <2>1, <2>2
<1>6. \A p \in DOMAIN poll[w].seen : \A s \in V :
        s.port = p /\ s.order <= poll[w].since => s.total <= poll[w].seen[p].total
  BY <1>1 DEF CountInv, ReadAfter
<1>7. \A p \in Ports : \A s \in V : s.port = p => Told(s) \in Past(p)
  BY <1>1, PastHas
<1> QED BY <1>2, <1>4, <1>5, <1>6, <1>7

\* The rate of a new sample.
LEMMA NewRate ==
  ASSUME TypeInv, OrderInv, CountInv, NEW w \in Pollers, Compare(w), NEW b \in RowsOf(w)'
  PROVE  RateRight(b)
<1>0. PICK r : r = poll[w].seen[b.port]
  OBVIOUS
<1>1. /\ poll[w].pc = "rate" /\ b.port \in DOMAIN poll[w].seen /\ CouldBe(b, w, b.port)
      /\ b.port \in Ports /\ r \in Readings /\ b \in Row
      /\ b.since = poll[w].since /\ Told(b) = r
  BY <1>0, Compared, ComparedRow
<1>2. Refers(b, Visible(w))
  BY <1>1, SamplesFit
<1> SUFFICES ASSUME b.dt > 0, b.clean, b.wide, b.total - b.ptotal < Wide
             PROVE  b.delta = b.total - b.ptotal
  BY DEF RateRight
<1>3. PICK s \in Visible(w) : s.port = b.port /\ RefersTo(b, s)
  BY <1>2 DEF Refers
<1>4. /\ b.delta = CounterDelta(s.octets, b.octets, Wide) /\ b.ptotal = s.total
      /\ s.wide = b.wide /\ s.boot = b.boot /\ s.order <= b.since
  BY <1>3 DEF RefersTo
<1>5. s \in Row /\ Told(s) \in Past(b.port) /\ s.total <= r.total
  BY <1>0, <1>1, <1>3, <1>4, VisibleOld
<1>6. /\ r \in All(b.port) /\ Told(s) \in All(b.port) /\ Tally(b.port)
  BY <1>0, <1>1, <1>5, PastHas DEF All, CountInv
<1>7. /\ r.total = b.total /\ r.octets = b.octets /\ r.wide = b.wide /\ r.boot = b.boot
      /\ Told(s).total = s.total /\ Told(s).octets = s.octets
      /\ Told(s).wide = s.wide /\ Told(s).boot = s.boot
  <2>1. Told(b) = r
    BY <1>1
  <2> QED BY <2>1 DEF Told
<1>8. PICK t : t = Told(s)
  OBVIOUS
<1>9. /\ r \in Readings /\ r.octets < Width(r.wide) /\ t \in Readings /\ t.octets < Width(t.wide)
      /\ Agree(t, r)
  BY <1>1, <1>6, <1>8, AllFits DEF Tally
<1>10. /\ t.wide /\ r.wide /\ t.boot = r.boot /\ t.total <= r.total
       /\ b.delta = CounterDelta(t.octets, r.octets, Wide) /\ r.total - t.total < Wide
  BY <1>4, <1>5, <1>7, <1>8
<1>11. b.delta = r.total - t.total
  BY <1>9, <1>10, DeltaRight
<1> QED BY <1>4, <1>7, <1>8, <1>11

\* The average of a new sample.
LEMMA NewAverage ==
  ASSUME TypeInv, OrderInv, CountInv, NEW w \in Pollers, Compare(w), NEW b \in RowsOf(w)'
  PROVE  Cardinality(b.hist) <= HistLength /\ Averaged(b, Before(b, table))
<1>1. /\ poll[w].pc = "rate" /\ b.port \in DOMAIN poll[w].seen /\ CouldBe(b, w, b.port)
      /\ b.since = poll[w].since
  BY Compared, ComparedRow
<1>2. /\ Cardinality(b.hist) <= HistLength
      /\ \A a \in Visible(w) : a.port = b.port /\ (\E h \in b.hist : h < a.at) => a.at \in b.hist
  BY <1>1, SamplesFit
<1>3. Old(poll[w].since) \subseteq Visible(w)
  BY <1>1, VisibleOld DEF Kept
<1>4. Before(b, table) \subseteq Visible(w) /\ \A a \in Before(b, table) : a.port = b.port
  BY <1>1, <1>3 DEF Before, Old
<1> QED BY <1>2, <1>4 DEF Averaged

\* What a rate refers to, if all it finds is of its past.
LEMMA RefersChosen ==
  ASSUME NEW V \in SUBSET Row, NEW b \in Row, Refers(b, V), \A s \in V : s.order <= b.since
  PROVE  Chosen(b, Before(b, V))
<1> SUFFICES ASSUME NEW a \in V, a.port = b.port, a.at < b.at,
                    \A c \in V : c.port = b.port => c.at <= a.at
             PROVE  /\ b.dt = IF b.at - a.at <= Window THEN b.at - a.at ELSE 0
                    /\ b.dt > 0 /\ (\A c \in V : c.port = b.port /\ c.at = a.at => c = a) =>
                         b.ptotal = a.total /\ (a.wide = b.wide /\ a.boot = b.boot => b.clean)
  BY DEF Chosen, Before
<1>1. /\ a.at \in Nat /\ b.at \in Nat /\ Window \in Nat
      /\ \A c \in V : c.at \in Nat
  BY Constants DEF Row
<1>2. CASE b.at - a.at <= Window
  <2>1. a \in Newest(Usable(V, b.port, b.at))
    BY <1>1, <1>2 DEF Newest, Usable
  <2>2. PICK s \in V : s \in Newest(Usable(V, b.port, b.at)) /\ s.port = b.port /\ RefersTo(b, s)
    BY <2>1 DEF Refers
  <2>3. s.at = a.at
    BY <1>1, <2>1, <2>2 DEF Newest, Usable
  <2>4. b.dt = b.at - a.at
    BY <2>2, <2>3 DEF RefersTo
  <2>5. ASSUME \A c \in V : c.port = b.port /\ c.at = a.at => c = a
        PROVE  b.ptotal = a.total /\ (a.wide = b.wide /\ a.boot = b.boot => b.clean)
    <3>1. s = a
      BY <2>2, <2>3, <2>5
    <3> QED BY <2>2, <3>1 DEF RefersTo
  <2> QED BY <1>2, <2>4, <2>5
<1>3. CASE ~(b.at - a.at <= Window)
  <2>1. \A c \in V : c.port = b.port => c.at + Window < b.at
    BY <1>1, <1>3
  <2>2. Usable(V, b.port, b.at) = {}
    BY <1>1, <2>1 DEF Usable
  <2>3. Newest(Usable(V, b.port, b.at)) = {}
    BY <2>2 DEF Newest
  <2>4. b.dt = 0
    BY <2>3 DEF Refers
  <2> QED BY <1>3, <2>4
<1> QED BY <1>2, <1>3

\* What tells the same of what is left.
LEMMA KeptTells ==
  ASSUME NEW R, NEW S \in SUBSET Row, Kept(R, S), NEW b
  PROVE  (Chosen(b, S) => Chosen(b, R)) /\ (Averaged(b, S) => Averaged(b, R))
<1>1. R \subseteq S /\ \A a \in R, c \in S \ R : c.at < a.at
  BY DEF Kept
<1>2. \A c \in S : c.at \in Nat
  BY DEF Row
<1>3. ASSUME NEW a \in R
      PROVE  /\ (\A c \in R : c.at <= a.at) => \A c \in S : c.at <= a.at
             /\ \A c \in S : c.at = a.at => c \in R
  <2>1. a \in S /\ \A c \in S \ R : c.at < a.at
    BY <1>1
  <2> QED BY <1>2, <2>1
<1>4. ASSUME Chosen(b, S)
      PROVE  Chosen(b, R)
  <2> SUFFICES ASSUME NEW a \in R, a.at < b.at, \A c \in R : c.at <= a.at
               PROVE  /\ b.dt = IF b.at - a.at <= Window THEN b.at - a.at ELSE 0
                      /\ b.dt > 0 /\ (\A c \in R : c.at = a.at => c = a) =>
                           b.ptotal = a.total /\ (a.wide = b.wide /\ a.boot = b.boot => b.clean)
    BY DEF Chosen
  <2>1. a \in S /\ \A c \in S : c.at <= a.at
    BY <1>1, <1>3
  <2>2. (\A c \in R : c.at = a.at => c = a) => \A c \in S : c.at = a.at => c = a
    BY <1>3
  <2> QED BY <1>4, <2>1, <2>2 DEF Chosen
<1>5. ASSUME Averaged(b, S)
      PROVE  Averaged(b, R)
  BY <1>1, <1>5 DEF Averaged
<1> QED BY <1>4, <1>5

\* What the rate of a new sample refers to.
LEMMA NewChoice ==
  ASSUME TypeInv, OrderInv, CountInv, NEW w \in Pollers, Compare(w), NEW b \in RowsOf(w)',
         commits = b.since
  PROVE  Chosen(b, Before(b, table))
<1>1. /\ poll[w].pc = "rate" /\ b.port \in DOMAIN poll[w].seen /\ CouldBe(b, w, b.port)
      /\ b.since = poll[w].since /\ b \in Row
  BY Compared, ComparedRow
<1>2. PICK V : V = Visible(w)
  OBVIOUS
<1>3. Refers(b, V)
  BY <1>1, <1>2, SamplesFit
<1>4. /\ V \in SUBSET Row /\ \A s \in V : s.order <= b.since
      /\ Kept(Old(b.since), {s \in V : s.order <= b.since})
  BY <1>1, <1>2, VisibleOld
<1>5. Chosen(b, Before(b, V))
  BY <1>1, <1>3, <1>4, RefersChosen
<1>6. {s \in V : s.order <= b.since} = V
  BY <1>4
<1>7. Kept(Old(b.since), V)
  BY <1>4, <1>6
<1>8. Kept(Before(b, table), Before(b, V)) /\ Before(b, V) \in SUBSET Row
  <2>1. /\ \A s \in table : s.order <= b.since <=> s \in Old(b.since)
        /\ Old(b.since) \subseteq table
    BY DEF Old
  <2>2. Before(b, table) = {s \in Old(b.since) : s.port = b.port}
    BY <2>1 DEF Before
  <2>3. Before(b, V) = {s \in V : s.port = b.port}
    BY <1>4 DEF Before
  <2> QED BY <1>4, <1>7, <2>2, <2>3 DEF Kept
<1> QED BY <1>5, <1>8, KeptTells

\* What a sample tells does not depend on its number.
LEMMA SameTold ==
  ASSUME NEW b, NEW q, b.port = q.port, b.at = q.at, b.since = q.since,
         b.total = q.total, b.octets = q.octets, b.wide = q.wide, b.boot = q.boot,
         b.hist = q.hist, b.delta = q.delta, b.dt = q.dt, b.ptotal = q.ptotal, b.clean = q.clean,
         NEW S
  PROVE  /\ RateRight(q) => RateRight(b)
         /\ Chosen(q, S) => Chosen(b, S)
         /\ Averaged(q, S) => Averaged(b, S)
         /\ \A T : Before(b, T) = Before(q, T)
BY DEF RateRight, Chosen, Averaged, Before

LEMMA RateInit == Init => RateInv
<1> SUFFICES ASSUME Init
             PROVE  RateInv
  OBVIOUS
<1>1. table = {} /\ \A w \in Pollers : RowsOf(w) = {}
  BY DEF Init, Idle, RowsOf
<1> QED BY <1>1 DEF RateInv

\* A step that inserts no sample, and computes none.
LEMMA RateQuiet ==
  ASSUME RateInv, table' = table, commits' = commits, \A w \in Pollers : RowsOf(w)' \subseteq RowsOf(w)
  PROVE  RateInv'
BY DEF RateInv, RowRight, RateRight, Averaged, Chosen, Before, Undisturbed

LEMMA RateCompare ==
  ASSUME TypeInv, OrderInv, CountInv, RateInv, NEW w \in Pollers, Compare(w)
  PROVE  RateInv'
<1>1. table' = table /\ commits' = commits
  BY Compared
<1>2. ASSUME NEW b \in table'
      PROVE  RowRight(b)' /\ (Undisturbed(b) => Chosen(b, Before(b, table)))
  BY <1>1 DEF RateInv, RowRight, RateRight, Averaged, Before
<1>3. ASSUME NEW v \in Pollers, NEW b \in RowsOf(v)'
      PROVE  RowRight(b)' /\ (commits = b.since => Chosen(b, Before(b, table)))
  <2>1. RowRight(b) /\ (commits = b.since => Chosen(b, Before(b, table)))
    <3>1. CASE v = w
      BY <3>1, <1>3, NewRate, NewAverage, NewChoice DEF RowRight
    <3>2. CASE v # w
      BY <3>2, <1>3, Compared DEF RateInv
    <3> QED BY <3>1, <3>2
  <2> QED BY <1>1, <2>1 DEF RowRight, RateRight, Averaged, Before
<1> QED BY <1>1, <1>2, <1>3 DEF RateInv, Chosen, Before, Undisturbed

LEMMA RateCommit ==
  ASSUME TypeInv, OrderInv, RateInv, NEW w \in Pollers, Commit(w)
  PROVE  RateInv'
<1>1. commits' = commits + 1 /\ commits \in Nat /\ table \subseteq table'
  BY Committed
<1>2. \A s \in table' : s \in table \/ s.order = commits + 1
  BY <1>1, Committed, CommittedRow
\* A poll does not see what is committed after it began.
<1>3. ASSUME NEW b, b.since \in Nat, b.since <= commits
      PROVE  Before(b, table') = Before(b, table)
  BY <1>1, <1>2, <1>3 DEF Before
<1>4. ASSUME NEW b \in table
      PROVE  RateRight(b) /\ Cardinality(b.hist) <= HistLength
             /\ Averaged(b, Before(b, table')) /\ (Undisturbed(b) => Chosen(b, Before(b, table')))
  <2>1. b.since \in Nat /\ b.since <= commits
    <3>1. b.since \in Nat /\ b.order \in Nat /\ b.since < b.order /\ b.order <= commits
      BY DEF TypeInv, Row, OrderInv, TableOrder
    <3> QED BY <1>1, <3>1
  <2>2. Before(b, table') = Before(b, table)
    BY <1>3, <2>1
  <2> QED BY <2>2 DEF RateInv, RowRight
<1>5. ASSUME NEW v \in Pollers, NEW q \in RowsOf(v)
      PROVE  /\ RateRight(q) /\ Cardinality(q.hist) <= HistLength
             /\ Averaged(q, Before(q, table')) /\ (commits = q.since => Chosen(q, Before(q, table')))
             /\ q.since \in Nat /\ q.since <= commits
  <2>1. q.since \in Nat /\ q.since <= commits
    BY PollFits DEF Row, OrderInv, PollOrder
  <2>2. Before(q, table') = Before(q, table)
    BY <1>3, <2>1
  <2> QED BY <2>1, <2>2 DEF RateInv, RowRight
<1>6. ASSUME NEW b \in table', b \notin table
      PROVE  RateRight(b) /\ Cardinality(b.hist) <= HistLength
             /\ Averaged(b, Before(b, table')) /\ (Undisturbed(b) => Chosen(b, Before(b, table')))
  <2>1. PICK q \in RowsOf(w) : b = Numbered(q, commits')
    BY <1>6, Committed
  <2>2. /\ b.order = commits' /\ b.port = q.port /\ b.at = q.at /\ b.since = q.since
        /\ b.total = q.total /\ b.octets = q.octets /\ b.wide = q.wide /\ b.boot = q.boot
        /\ b.hist = q.hist /\ b.delta = q.delta /\ b.dt = q.dt /\ b.ptotal = q.ptotal
        /\ b.clean = q.clean
    BY <2>1, CommittedRow
  <2>3. /\ RateRight(q) => RateRight(b)
        /\ Chosen(q, Before(q, table')) => Chosen(b, Before(q, table'))
        /\ Averaged(q, Before(q, table')) => Averaged(b, Before(q, table'))
        /\ Before(b, table') = Before(q, table')
    BY <2>2, SameTold
  <2>4. Undisturbed(b) => commits = q.since
    BY <1>1, <1>5, <2>2 DEF Undisturbed
  <2> QED BY <1>5, <2>2, <2>3, <2>4
<1>7. \A b \in table' : RowRight(b)' /\ (Undisturbed(b) => Chosen(b, Before(b, table')))
  BY <1>4, <1>6 DEF RowRight, RateRight, Averaged, Before
<1>8. \A v \in Pollers : \A b \in RowsOf(v)' : RowRight(b)' /\ commits' # b.since
  <2>1. \A v \in Pollers : RowsOf(v)' \subseteq RowsOf(v)
    BY Committed
  <2>2. \A v \in Pollers : \A b \in RowsOf(v)' : commits' # b.since
    BY <1>1, <1>5, <2>1
  <2> QED BY <1>5, <2>1, <2>2 DEF RowRight, RateRight, Averaged, Before
<1> QED BY <1>7, <1>8 DEF RateInv, Chosen, Before, Undisturbed

LEMMA RatePrune ==
  ASSUME TypeInv, RateInv, Prune
  PROVE  RateInv'
<1>1. table' = {s \in table : s.at + Keep >= now} /\ commits' = commits /\ poll' = poll
  BY DEF Prune
<1>2. now \in Nat /\ table \subseteq Row
  BY DEF TypeInv
<1>3. ASSUME NEW b
      PROVE  /\ Averaged(b, Before(b, table)) => Averaged(b, Before(b, table'))
             /\ Chosen(b, Before(b, table)) => Chosen(b, Before(b, table'))
  <2>1. Before(b, table') = {s \in Before(b, table) : s.at + Keep >= now}
    BY <1>1 DEF Before
  <2>2. Before(b, table) \in SUBSET Row /\ Kept(Before(b, table), Before(b, table))
    BY <1>2 DEF Before, Kept
  <2>3. Kept(Before(b, table'), Before(b, table))
    BY <1>2, <2>1, <2>2, KeptPruned
  <2> QED BY <2>2, <2>3, KeptTells
<1>4. \A w \in Pollers : RowsOf(w)' = RowsOf(w)
  BY <1>1 DEF RowsOf
<1>5. ASSUME NEW b, RowRight(b)
      PROVE  RowRight(b)'
  <2>1. RateRight(b) /\ Cardinality(b.hist) <= HistLength /\ Averaged(b, Before(b, table'))
    BY <1>3, <1>5 DEF RowRight
  <2> QED BY <2>1 DEF RowRight, RateRight, Averaged, Before
<1>6. \A b \in table' : RowRight(b)' /\ (Undisturbed(b) => Chosen(b, Before(b, table')))
  BY <1>1, <1>3, <1>5 DEF RateInv
<1>7. \A w \in Pollers : \A b \in RowsOf(w) : RowRight(b)' /\ (commits = b.since => Chosen(b, Before(b, table')))
  BY <1>3, <1>5 DEF RateInv
<1> QED BY <1>1, <1>4, <1>6, <1>7 DEF RateInv, Chosen, Before, Undisturbed

LEMMA RateStep ==
  ASSUME TypeInv, OrderInv, CountInv, RateInv, [Next]_vars
  PROVE  RateInv'
<1>1. CASE UNCHANGED vars \/ Elapse \/ Reboot
  <2>1. table' = table /\ commits' = commits /\ poll' = poll
    BY <1>1 DEF vars, Elapse, Reboot
  <2>2. \A w \in Pollers : RowsOf(w)' = RowsOf(w)
    BY <2>1 DEF RowsOf
  <2> QED BY <2>1, <2>2, RateQuiet
<1>2. ASSUME NEW w \in Pollers, Open(w) \/ Start(w) \/ Read(w) \/ Fail(w)
      PROVE  RateInv'
  <2>1. /\ RowsOf(w)' = {} /\ table' = table /\ commits' = commits
        /\ \A v \in Pollers : v # w => RowsOf(v)' = RowsOf(v)
    BY <1>2, Opened, Started, HasRead, Failed
  <2>2. \A v \in Pollers : RowsOf(v)' \subseteq RowsOf(v)
    BY <2>1
  <2> QED BY <2>1, <2>2, RateQuiet
<1>3. ASSUME NEW w \in Pollers, Compare(w) \/ Commit(w)
      PROVE  RateInv'
  BY <1>3, RateCompare, RateCommit
<1> QED BY <1>1, <1>2, <1>3, RatePrune DEF Next

-----------------------------------------------------------------------------
LEMMA Invariant == Spec => []Inv
<1>1. Init => OrderInv /\ CountInv /\ RateInv
  BY OrderInit, CountInit, RateInit
<1>2. TypeInv /\ OrderInv /\ CountInv /\ RateInv /\ [Next]_vars => (OrderInv /\ CountInv /\ RateInv)'
  BY OrderStep, CountStep, RateStep
<1>3. TypeInv /\ OrderInv /\ CountInv /\ RateInv => Inv
  BY DEF Inv
<1> QED BY <1>1, <1>2, <1>3, TypeInvariant, PTL DEF Spec

\* A rate stands for the octets that were really counted between the two readings,
\* for any widths, bursts, windows and pollers and on either database: readings of
\* one HC counter since one boot agree, and the earlier one was committed before the
\* later one was taken.
THEOREM RatesTellTraffic == Spec => []RatesMatchTraffic
<1>1. RateInv => RatesMatchTraffic
  BY DEF RateInv, RowRight, RateRight, RatesMatchTraffic
<1> QED BY <1>1, Invariant, PTL DEF Inv

\* Between two consecutive samples of a port, what the later one refers to.
LEMMA TileChoice ==
  ASSUME TypeInv, OrderInv, RateInv, NEW a \in table, NEW b \in table,
         Consecutive(a, b), Undisturbed(b), InOrder(b)
  PROVE  /\ b.dt = IF b.at - a.at <= Window THEN b.at - a.at ELSE 0
         /\ b.dt > 0 /\ (\A c \in table : c.port = a.port /\ c.at = a.at => c = a) =>
              b.ptotal = a.total /\ (a.wide = b.wide /\ a.boot = b.boot => b.clean)
<1>1. a.port = b.port /\ a.at < b.at /\ b.order = b.since + 1
  BY DEF Consecutive, Undisturbed
<1>2. \A c \in table : c.at \in Nat /\ c.order \in Nat /\ c.since \in Nat
  BY DEF TypeInv, Row
<1>3. a.order <= b.since
  BY <1>1, <1>2 DEF InOrder
<1>4. ASSUME NEW c \in table, c.port = b.port, c.order <= b.since
      PROVE  c.at <= a.at
  <2>1. c # b
    BY <1>1, <1>2, <1>4
  <2>2. c.at <= b.at
    BY <1>4 DEF OrderInv, TableOrder
  <2>3. c.at < b.at
    BY <1>4, <2>1, <2>2 DEF InOrder
  <2>4. c.at <= a.at \/ b.at <= c.at
    BY <1>1, <1>4 DEF Consecutive
  <2> QED BY <1>2, <2>3, <2>4
<1>5. Chosen(b, Before(b, table))
  BY DEF RateInv
<1>6. a \in Before(b, table)
  BY <1>1, <1>3 DEF Before
<1>7. \A c \in Before(b, table) : c \in table /\ c.port = a.port /\ c.at <= a.at
  BY <1>1, <1>4 DEF Before
<1> QED BY <1>1, <1>5, <1>6, <1>7 DEF Chosen

\* The rates of a port tile time, for any windows, pollers and retention, and with
\* the snapshots of MySQL or without.
THEOREM RatesTileTime == Spec => []RatesTile
<1>1. TypeInv /\ OrderInv /\ RateInv => RatesTile
  BY TileChoice DEF RatesTile
<1> QED BY <1>1, Invariant, PTL DEF Inv

\* A reboot or a fallback costs one sample, and whatever an earlier rate was.
THEOREM OneSampleLost == Spec => []RatesRecover
<1>1. TypeInv /\ OrderInv /\ RateInv => RatesRecover
  <2> SUFFICES ASSUME TypeInv, OrderInv, RateInv, NEW a \in table, NEW b \in table,
                      Consecutive(a, b), Undisturbed(b), InOrder(b), b.dt > 0,
                      a.wide, b.wide, a.boot = b.boot, b.total - a.total < Wide,
                      \A c \in table : c.port = a.port /\ c.at = a.at => c = a
               PROVE  b.delta = b.total - a.total
    BY DEF RatesRecover
  <2>1. b.ptotal = a.total /\ (a.wide = b.wide /\ a.boot = b.boot => b.clean)
    BY TileChoice
  <2>2. a.wide = b.wide
    <3>1. a.wide \in BOOLEAN /\ b.wide \in BOOLEAN
      BY DEF TypeInv, Row
    <3> QED BY <3>1
  <2>3. RateRight(b)
    BY DEF RateInv, RowRight
  <2> QED BY <2>1, <2>2, <2>3 DEF RateRight
<1> QED BY <1>1, Invariant, PTL DEF Inv

\* An average is over the newest samples of its port, for any limits.
THEOREM AveragesAreNewest == Spec => []AverageIsOverNewest
<1>1. RateInv => AverageIsOverNewest
  BY DEF RateInv, RowRight, Averaged, Before, AverageIsOverNewest
<1> QED BY <1>1, Invariant, PTL DEF Inv

=============================================================================
