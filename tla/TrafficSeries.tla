--------------------------- MODULE TrafficSeries ---------------------------
(***************************************************************************)
(* The traffic samples of one device: how collect_device_metrics turns      *)
(* readings of octet counters into rates, while time passes, octets flow,   *)
(* the device reboots, other polls of the device run, and old samples are   *)
(* pruned.  One direction is modelled; the code treats the other alike.     *)
(*                                                                          *)
(* A rate is kept as the octets it was computed from (delta) and the time   *)
(* they are said to have taken (dt), dt = 0 standing for the rate 0 that is *)
(* recorded when no earlier sample can be used.  The ports of the device    *)
(* are known; what becomes of a poll that fails is the subject of Collector.*)
(***************************************************************************)
EXTENDS Counter, FiniteSets

CONSTANTS
  Ports,        \* the interfaces of the device, numbered in the order the code takes them
  Pollers,      \* threads that may poll it at the same time
  Wide,         \* 2**64 in the code: the wrap it assumes, the width of an HC counter
  Narrow,       \* 2**32: the width of the counters of ifInOctets
  Column,       \* 2**63: what a signed BigInteger column does not hold any more
  HasHC,        \* whether the device offers HC counters
  Databases,    \* whether it is MySQL: the databases to run on
  Window,       \* max(snmp_poll_interval * 3, 120)
  Keep,         \* metrics_retention_days
  HistLimit,    \* 500: newest samples of the device looked at for the average
  HistLength,   \* 5: samples of a port the average is taken over
  Shown,        \* what a counter may show at first, by whether it is an HC counter
  Bursts,       \* bound: octets a port counts in a unit of time
  MaxTime,      \* bound: the clock
  MaxPolls      \* bound: polls ever started

ASSUME PortsAssumption == Ports \subseteq Nat /\ IsFiniteSet(Ports) /\ HasHC \in BOOLEAN /\ Databases \subseteq BOOLEAN
ASSUME WidthAssumption == Narrow \in Nat \ {0} /\ Wide \in Nat /\ Narrow <= Wide /\ Column \in Nat
ASSUME ShownAssumption ==
  Shown \in [BOOLEAN -> SUBSET Nat] /\ Shown[TRUE] \subseteq 0 .. Wide - 1 /\ Shown[FALSE] \subseteq 0 .. Narrow - 1
ASSUME BurstAssumption == Bursts \subseteq 0 .. Narrow - 1
ASSUME WindowAssumption == Window \in Nat /\ Keep \in Nat /\ Window <= Keep
ASSUME HistoryAssumption == HistLimit \in Nat /\ HistLength \in Nat
ASSUME BoundsAssumption == MaxTime \in Nat /\ MaxPolls \in Nat

VARIABLES
  mysql,    \* whether the database is MySQL
  now,      \* the clock
  hc,       \* the HC counter of each port
  low,      \* its ifInOctets counter
  table,    \* port_traffic_samples of the device, inserted in the order of (order, port)
  poll,     \* the poll each poller is busy with
  polls,    \* how many polls were started
  \* The rest only observes.
  total,    \* octets each port ever counted
  boot,     \* how often the device rebooted
  commits   \* how many polls committed

vars == <<mysql, now, hc, low, table, poll, polls, total, boot, commits>>

\* What a poll read of a port.  wide, total, boot and since only observe: from
\* which counter, at which point of the traffic, and after how many commits.
Reading(p, wide) ==
  [octets |-> IF wide THEN hc[p] ELSE low[p], wide |-> wide, total |-> total[p], boot |-> boot]

\* Not polling; at is when the last poll began.
Idle(at) == [pc |-> "idle", at |-> at]

Init ==
  /\ mysql \in Databases
  /\ now = 0
  /\ hc \in [Ports -> Shown[TRUE]]
  /\ low \in [Ports -> Shown[FALSE]]
  /\ table = {}
  /\ poll = [w \in Pollers |-> Idle(-1)]
  /\ polls = 0
  /\ total = [p \in Ports |-> 0]
  /\ boot = 0 /\ commits = 0

-----------------------------------------------------------------------------
\* The device and the clock

Elapse ==
  /\ now < MaxTime
  /\ now' = now + 1
  /\ \E n \in [Ports -> Bursts] :
       /\ hc' = [p \in Ports |-> CountOn(hc[p], n[p], Wide)]
       /\ low' = [p \in Ports |-> CountOn(low[p], n[p], Narrow)]
       /\ total' = [p \in Ports |-> total[p] + n[p]]
  /\ UNCHANGED <<mysql, table, poll, polls, boot, commits>>

\* A reboot clears the counters.
Reboot ==
  /\ boot = 0
  /\ boot' = 1
  /\ hc' = [p \in Ports |-> 0]
  /\ low' = [p \in Ports |-> 0]
  /\ UNCHANGED <<mysql, now, table, poll, polls, total, commits>>

-----------------------------------------------------------------------------
\* A poll of the device

\* On MySQL a transaction reads one snapshot, which its first query takes: that of
\* the API key, of the devices of a tick, or of the next device of a tick.
Open(w) ==
  /\ mysql
  /\ poll[w].pc = "idle"
  /\ polls < MaxPolls
  /\ poll' = [poll EXCEPT ![w] = [pc |-> "open", at |-> poll[w].at, since |-> commits, view |-> table]]
  /\ UNCHANGED <<mysql, now, hc, low, table, polls, total, boot, commits>>

\* collect_device_metrics takes the time after that.  A poll lasts longer than the
\* clock's resolution, so that a thread never takes the same time twice ...
Start(w) ==
  /\ poll[w].pc = IF mysql THEN "open" ELSE "idle"
  /\ poll[w].at < now
  /\ polls < MaxPolls
  /\ polls' = polls + 1
  /\ poll' = [poll EXCEPT ![w] = [pc |-> "read", at |-> now,
                                  since |-> IF mysql THEN poll[w].since ELSE commits,
                                  view |-> IF mysql THEN poll[w].view ELSE {}]]
  /\ UNCHANGED <<mysql, now, hc, low, table, total, boot, commits>>

\* What a walk of a column of octet counters may give: snmpwalk may end with an
\* error half-way, and the rows it printed are taken for the answer; without any
\* the walk raises.  A device without HC counters has none in those columns.
Walks(wide) == IF wide /\ ~HasHC THEN {{}} ELSE SUBSET Ports

\* The ports that two walks tell of, one for each direction.
Both(walks) == {in \cap out : in \in walks, out \in walks}

\* _get_octet_maps: both from HC counters, or both from the 32-bit ones when an HC
\* walk raises or is empty.  A port without a value for each direction gets no
\* sample; when the last walks raise there is none at all.
OctetMaps ==
  {[wide |-> TRUE, seen |-> s] : s \in Both(Walks(TRUE) \ {{}})} \cup
  {[wide |-> FALSE, seen |-> s] : s \in Both(Walks(FALSE))}

\* ... and reads the counters later.
Read(w) ==
  /\ poll[w].pc = "read"
  /\ \E m \in OctetMaps :
       poll' = [poll EXCEPT ![w] =
                  [pc |-> "rate", at |-> poll[w].at, since |-> poll[w].since, view |-> poll[w].view,
                   seen |-> [p \in m.seen |-> Reading(p, m.wide)]]]
  /\ UNCHANGED <<mysql, now, hc, low, table, polls, total, boot, commits>>

\* The samples that a query of the poll finds.
Visible(w) == IF mysql THEN poll[w].view ELSE table

\* Mutant of Usable: no cutoff.
UsableAlways(S, p, at) == {s \in S : s.port = p}

\* Of the samples S, those of a port that a rate may refer to: not older than the cutoff.
Usable(S, p, at) == {s \in S : s.port = p /\ s.at + Window >= at}

\* Mutant of Newest: each row of the query replaces the one before in prev_samples.
NewestLast(S) == {a \in S : \A b \in S : a.at <= b.at}

\* ORDER BY recorded_at DESC, which leaves open which of the newest comes first.
Newest(S) == {a \in S : \A b \in S : b.at <= a.at}

\* Mutant of Tops: ORDER BY recorded_at without desc().
TopsOldest(S, n) ==
  {T \in SUBSET S : /\ Cardinality(T) = IF n < Cardinality(S) THEN n ELSE Cardinality(S)
                    /\ \A a \in T, b \in S \ T : a.at <= b.at}

\* What a LIMIT to n rows of that order may leave of S.
Tops(S, n) ==
  {T \in SUBSET S : /\ Cardinality(T) = IF n < Cardinality(S) THEN n ELSE Cardinality(S)
                    /\ \A a \in T, b \in S \ T : b.at <= a.at}

\* The sample s a rate refers to, as a set of one, or the empty set if the newest in
\* the window is not older than the poll.
Previous(S, p, at) ==
  LET older == {s \in Newest(Usable(S, p, at)) : s.at < at}
  IN IF older = {} THEN {{}} ELSE {{s} : s \in older}

\* The sample of port p that a poll which began at `at` makes of reading r; order is
\* that of its commit.  since, ptotal and clean only observe: how many polls had
\* committed when this one began, where in the traffic the sample referred to was
\* read, and whether both are readings of one counter since one boot, taken one poll
\* after the other.
SampleOf(p, at, since, r, prev, hist) ==
  LET s == CHOOSE s \in prev : TRUE
  IN [order |-> 0, port |-> p, at |-> at, since |-> since,
      octets |-> r.octets, wide |-> r.wide, total |-> r.total, boot |-> r.boot,
      hist |-> {h.at : h \in hist},
      delta |-> IF prev = {} THEN 0 ELSE CounterDelta(s.octets, r.octets, Wide),
      dt |-> IF prev = {} THEN 0 ELSE at - s.at,
      ptotal |-> IF prev = {} THEN r.total ELSE s.total,
      clean |-> prev # {} => s.wide = r.wide /\ s.boot = r.boot /\ s.order <= since]

\* What it may be; recent is what the query for the averages gave.
Samples(w, p, recent) ==
  {SampleOf(p, poll[w].at, poll[w].since, poll[w].seen[p], prev, hist) :
     prev \in Previous(Visible(w), p, poll[w].at),
     hist \in Tops({s \in recent : s.port = p}, HistLength)}

\* The queries for the earlier samples, and the rates.
Compare(w) ==
  /\ poll[w].pc = "rate"
  /\ \E recent \in Tops(Visible(w), HistLimit) :
       LET seen == DOMAIN poll[w].seen IN
       \E row \in [seen -> UNION {Samples(w, p, recent) : p \in seen}] :
         /\ \A p \in seen : row[p] \in Samples(w, p, recent)
         /\ poll' = [poll EXCEPT ![w] = [pc |-> "save", at |-> poll[w].at, rows |-> {row[p] : p \in seen}]]
  /\ UNCHANGED <<mysql, now, hc, low, table, polls, total, boot, commits>>

\* The columns are signed: a reading beyond them makes the flush raise.
Commit(w) ==
  /\ poll[w].pc = "save"
  /\ \A s \in poll[w].rows : s.octets < Column
  /\ commits' = commits + 1
  /\ table' = table \cup {[s EXCEPT !.order = commits'] : s \in poll[w].rows}
  /\ poll' = [poll EXCEPT ![w] = Idle(poll[w].at)]
  /\ UNCHANGED <<mysql, now, hc, low, polls, total, boot>>

\* A poll that raises, for that or at any other place, leaves no sample.
Fail(w) ==
  /\ poll[w].pc \notin {"idle", "open"}
  /\ poll' = [poll EXCEPT ![w] = Idle(poll[w].at)]
  /\ UNCHANGED <<mysql, now, hc, low, table, polls, total, boot, commits>>

\* prune_old_samples, at the end of any tick.
Prune ==
  /\ table' = {s \in table : s.at + Keep >= now}
  /\ UNCHANGED <<mysql, now, hc, low, poll, polls, total, boot, commits>>

Next ==
  \/ Elapse
  \/ Reboot
  \/ Prune
  \/ \E w \in Pollers : Open(w) \/ Start(w) \/ Read(w) \/ Compare(w) \/ Commit(w) \/ Fail(w)

Spec == Init /\ [][Next]_vars

-----------------------------------------------------------------------------
\* A rate stands for the octets that were really counted between the two
\* readings, as long as both are readings of one HC counter since one boot and the
\* sample referred to was committed before the poll began: with other polls under
\* way, walks that end half-way and fallbacks, a reading is never compared with one
\* of another port or counter, or in the wrong order.
RatesMatchTraffic ==
  \A s \in table :
    s.dt > 0 /\ s.wide /\ s.clean /\ s.total - s.ptotal < Wide => s.delta = s.total - s.ptotal

\* No poll of the device committed between the beginning of the poll that took b, on
\* MySQL that of its transaction, and its own commit.
Undisturbed(b) == b.order = b.since + 1

\* The other samples of the port that are not newer than b were committed before b
\* and are really older.
InOrder(b) ==
  \A c \in table \ {b} :
    c.port = b.port /\ c.at <= b.at => c.at < b.at /\ c.order < b.order

\* No sample of the port of a and b lies between them.
Consecutive(a, b) ==
  /\ a.port = b.port /\ a.at < b.at
  /\ \A c \in table : c.port = a.port => c.at <= a.at \/ b.at <= c.at

\* The rates of a port tile time: each begins where the port's sample before it
\* was taken, so that no octet is charged to two samples or to none, unless that
\* sample is too old to be compared with, other polls committed during the poll or
\* earlier readings after it, or another poll began at the same time.
RatesTile ==
  \A a, b \in table :
    Consecutive(a, b) /\ Undisturbed(b) /\ InOrder(b)
    => b.dt = IF b.at - a.at <= Window THEN b.at - a.at ELSE 0

\* A reboot, or a fallback to the 32-bit counters, costs one sample: where the
\* sample before was read from the HC counter of the same boot the rate is right,
\* whatever that sample's own rate was, unless it is one of several of its time.
RatesRecover ==
  \A a, b \in table :
    Consecutive(a, b) /\ Undisturbed(b) /\ InOrder(b) /\ b.dt > 0
      /\ a.wide /\ b.wide /\ a.boot = b.boot /\ b.total - a.total < Wide
      /\ (\A c \in table : c.port = a.port /\ c.at = a.at => c = a)
    => b.delta = b.total - a.total

\* The average of a sample is over the newest samples of its port: over all that
\* were there when its poll began and are newer than one it takes in.
AverageIsOverNewest ==
  \A b \in table :
    /\ Cardinality(b.hist) <= HistLength
    /\ \A a \in table :
         a.port = b.port /\ a.order <= b.since /\ (\E h \in b.hist : h < a.at) => a.at \in b.hist

=============================================================================
