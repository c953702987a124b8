---------------------------- MODULE ChartWindow ----------------------------
(***************************************************************************)
(* The traffic chart of a port: the range the page asks for, the samples    *)
(* port_traffic_history answers, and the time buckets fillTimelineGaps puts *)
(* them into when the answer arrives, while samples come in and old ones    *)
(* are pruned.                                                              *)
(*                                                                          *)
(* Samples are told by their times.  A bucket is the set of samples its     *)
(* average is taken over.                                                   *)
(***************************************************************************)
EXTENDS Integers, FiniteSets

CONSTANTS
  Ranges,    \* the ranges the page offers, in minutes; 0 stands for "today"
  Least,     \* 60: the minutes asked for early in the day
  Most,      \* 1440: the minutes the endpoint accepts
  Limit,     \* 500: the default of the endpoint, which the page does not change
  Minute,    \* the length of a minute
  Day,       \* the length of a day
  Buckets,   \* the number of buckets
  Keep,      \* metrics_retention_days
  MaxTime    \* bound: the clock

ASSUME ChartAssumption ==
  /\ Ranges \subseteq Nat /\ Ranges # {} /\ Least \in Nat \ {0} /\ Most \in Nat
  /\ Limit \in Nat \ {0} /\ Minute \in Nat \ {0} /\ Day \in Nat \ {0}
  /\ Buckets \in Nat \ {0} /\ Keep \in Nat /\ MaxTime \in Nat

VARIABLES
  now,     \* the clock
  table,   \* times of the port's samples
  page,    \* what is selected, and the request under way, if any
  chart    \* the buckets last drawn

vars == <<now, table, page, chart>>

\* No request is under way.  Of one: minutes and at are what it asks for and when,
\* took is how long it was on its way; there (the samples there were) and same (the
\* selection has not changed since) only observe.
Quiet(range) ==
  [pc |-> "quiet", range |-> range, minutes |-> 0, at |-> 0, took |-> 0, answer |-> {},
   there |-> {}, same |-> TRUE]

Init ==
  /\ now = 0
  /\ table = {}
  /\ page \in {Quiet(range) : range \in Ranges}
  /\ chart = [i \in 0 .. Buckets - 1 |-> {}]

Midnight == (now \div Day) * Day

\* getSelectedMinutes: the whole minutes since midnight, but Least at least.
Minutes ==
  LET today == (now - Midnight) \div Minute
  IN IF page.range # 0 THEN page.range ELSE IF today > Least THEN today ELSE Least

\* Mutant of Since: a sample just at the start is left out.
SinceAfter(minutes) == {t \in table : t > now - minutes * Minute}

Since(minutes) == {t \in table : t >= now - minutes * Minute}

\* ORDER BY recorded_at ASC LIMIT limit.
Oldest(S) == {t \in S : Cardinality({u \in S : u < t}) < Limit}

\* Mutant of Slot: no test of the upper end.
SlotAfter(t, start, end) == ((t - start) * Buckets) \div (end - start)

\* The bucket of a sample; the one at the very end goes to the last bucket.
Slot(t, start, end) ==
  LET i == ((t - start) * Buckets) \div (end - start)
  IN IF i >= Buckets THEN Buckets - 1 ELSE i

\* Where fillTimelineGaps begins: the range before now, or midnight if "today" is
\* selected by then.
Begin == IF page.range = 0 THEN Midnight ELSE now - page.minutes * Minute

\* fillTimelineGaps.  (At midnight itself the range of the day is empty.)
Filled ==
  [i \in 0 .. Buckets - 1 |->
     {t \in page.answer : Begin <= t /\ t <= now /\ Begin < now /\ Slot(t, Begin, now) = i}]

-----------------------------------------------------------------------------
Elapse ==
  /\ now < MaxTime
  /\ now' = now + 1
  /\ UNCHANGED <<table, page, chart>>

\* A poll commits a sample.
Sample ==
  /\ table' = table \cup {now}
  /\ UNCHANGED <<now, page, chart>>

\* prune_old_samples.
Prune ==
  /\ table' = {t \in table : t >= now - Keep}
  /\ UNCHANGED <<now, page, chart>>

\* Another range is selected, maybe while an answer is awaited.
Select ==
  /\ \E range \in Ranges \ {page.range} :
       page' = [page EXCEPT !.range = range, !.same = (page.pc = "quiet")]
  /\ UNCHANGED <<now, table, chart>>

\* loadPortTrafficChart asks ...
Ask ==
  /\ page.pc = "quiet"
  /\ page' = [page EXCEPT !.pc = "asked", !.minutes = Minutes, !.at = now]
  /\ UNCHANGED <<now, table, chart>>

\* ... port_traffic_history accepts no range longer than a day: the page is told so,
\* and leaves the chart as it was ...
Refused ==
  /\ page.pc = "asked"
  /\ page.minutes > Most
  /\ page' = Quiet(page.range)
  /\ UNCHANGED <<now, table, chart>>

\* ... otherwise it queries the samples ...
Answer ==
  /\ page.pc = "asked"
  /\ page.minutes <= Most
  /\ page' = [page EXCEPT !.pc = "answered", !.took = now - page.at, !.there = table,
                          !.answer = Oldest(Since(page.minutes))]
  /\ UNCHANGED <<now, table, chart>>

\* ... and the chart is drawn when the answer is there.
Draw ==
  /\ page.pc = "answered"
  /\ chart' = Filled
  /\ page' = Quiet(page.range)
  /\ UNCHANGED <<now, table>>

Next == Elapse \/ Sample \/ Prune \/ Select \/ Ask \/ Refused \/ Answer \/ Draw

Spec == Init /\ [][Next]_vars

-----------------------------------------------------------------------------
\* The samples of the chart that an answer would be drawn as at this moment.
Shown == UNION {Filled[i] : i \in DOMAIN Filled}

\* An answer for the range that is still selected, and a range that is not empty.
Drawable == page.pc = "answered" /\ page.same /\ Begin < now

\* Samples of the day that the question misses: its minutes are whole ones, counted
\* back from when the query is made and not from when they were counted.
Missed == IF page.range = 0 THEN Minute - 1 + page.took ELSE 0

\* README.md:53 promises a real-time traffic chart: whenever it is drawn it shows the
\* newest sample there was when the answer was made, if it lies in the range and was
\* asked for.
ShowsNewest ==
  Drawable =>
    \A t \in page.there :
      Begin + Missed <= t /\ (\A u \in page.there : u <= t) => t \in Shown

\* Unless the answer is full, or another range was selected meanwhile, the chart
\* shows every sample of its range, although that moved on between the question and
\* the drawing, except those that the question itself misses.
ShowsAll ==
  Drawable /\ Cardinality(page.answer) < Limit =>
    \A t \in page.there : Begin + Missed <= t => t \in Shown

=============================================================================
