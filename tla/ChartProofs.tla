---------------------------- MODULE ChartProofs ----------------------------
(***************************************************************************)
(* What the traffic chart shows, proved for any ranges, limits, lengths of  *)
(* a minute and a day, numbers of buckets and retention.                    *)
(***************************************************************************)
EXTENDS ChartWindow, FiniteSetTheorems, NaturalsInduction, WellFoundedInduction, TLAPS

\* The whole minutes from the midnight before a time to that time.
Today(at) == (at - (at \div Day) * Day) \div Minute

\* What the page asked for at that time.
Asked(range, at) ==
  IF range # 0 THEN range ELSE IF Today(at) > Least THEN Today(at) ELSE Least

\* The samples that a query at some time finds.
Found(S, minutes, time) == Oldest({t \in S : t >= time - minutes * Minute})

TypeInv ==
  /\ now \in Nat /\ table \in SUBSET (0 .. now)
  /\ page \in [pc : {"quiet", "asked", "answered"}, range : Ranges, minutes : Nat, at : Nat, took : Nat,
               answer : SUBSET Nat, there : SUBSET Nat, same : BOOLEAN]

\* A question is that of the range selected, unless that changed; an answer is that of
\* a query made later, of the samples there were then.
AnswerInv ==
  /\ page.pc # "quiet" => page.at <= now
  /\ page.pc # "quiet" /\ page.same => page.minutes = Asked(page.range, page.at)
  /\ page.pc = "answered" =>
       /\ page.took \in Nat /\ page.at + page.took <= now
       /\ page.there \in SUBSET (0 .. page.at + page.took)
       /\ page.answer = Found(page.there, page.minutes, page.at + page.took)

Inv == TypeInv /\ AnswerInv

-----------------------------------------------------------------------------
\* Numbers

\* A set of numbers that is not empty has a least one.
LEMMA LeastNumber ==
  ASSUME NEW S \in SUBSET Nat, S # {}
  PROVE  \E m \in S : \A n \in S : m <= n
<1> DEFINE R == {ss \in Nat \X Nat : ss[1] < ss[2]}
<1>1. IsWellFoundedOn(R, Nat)
  BY NatLessThanWellFounded DEF OpToRel
<1>2. \E x \in S : \A y \in S : ~(<<y, x>> \in R)
  <2> HIDE DEF R
  <2> QED BY <1>1, WFMin
<1>3. PICK x \in S : \A y \in S : ~(<<y, x>> \in R)
  BY <1>2
<1>4. \A y \in S : ~(y < x)
  BY <1>3
<1> QED BY <1>4

LEMMA Constants ==
  /\ Ranges \subseteq Nat /\ Least \in Nat /\ Least >= 1 /\ Most \in Nat
  /\ Limit \in Nat /\ Limit >= 1 /\ Minute \in Nat /\ Minute >= 1 /\ Day \in Nat /\ Day >= 1
  /\ Buckets \in Nat /\ Buckets >= 1 /\ Keep \in Nat /\ MaxTime \in Nat
BY ChartAssumption

LEMMA Division ==
  ASSUME NEW a \in Nat, NEW b \in Nat, b >= 1
  PROVE  /\ a \div b \in Nat
         /\ (a \div b) * b <= a /\ a < (a \div b) * b + b
         /\ (a \div b) * b \in Nat
OBVIOUS

LEMMA DivisionGrows ==
  ASSUME NEW a \in Nat, NEW c \in Nat, a <= c, NEW b \in Nat, b >= 1
  PROVE  (a \div b) * b <= (c \div b) * b
OBVIOUS

\* What a limited answer leaves out is newer than as many samples as the limit: so
\* an answer below it is complete.
LEMMA ShortAnswer ==
  ASSUME NEW S \in SUBSET Nat, IsFiniteSet(S), Cardinality(Oldest(S)) < Limit
  PROVE  Oldest(S) = S
<1> SUFFICES ASSUME Oldest(S) # S PROVE FALSE
  OBVIOUS
<1>1. Oldest(S) \subseteq S
  BY DEF Oldest
<1>2. S \ Oldest(S) # {} /\ S \ Oldest(S) \in SUBSET Nat
  BY <1>1
<1>3. PICK t \in S \ Oldest(S) : \A u \in S \ Oldest(S) : t <= u
  BY <1>2, LeastNumber
<1> DEFINE B == {u \in S : u < t}
<1>4. B \subseteq Oldest(S)
  <2> SUFFICES ASSUME NEW u \in S, u < t, u \notin Oldest(S) PROVE FALSE
    OBVIOUS
  <2>1. t <= u /\ t \in Nat /\ u \in Nat
    BY <1>3
  <2> QED BY <2>1
<1>5. IsFiniteSet(Oldest(S)) /\ IsFiniteSet(B)
  BY <1>1, FS_Subset
<1>6. Cardinality(B) <= Cardinality(Oldest(S))
  BY <1>4, <1>5, FS_Subset
<1>7. ~(Cardinality(B) < Limit)
  BY <1>3 DEF Oldest
<1> HIDE DEF B
<1>8. Cardinality(B) \in Nat /\ Cardinality(Oldest(S)) \in Nat
  BY <1>5, FS_CardinalityType
<1> QED BY <1>6, <1>7, <1>8, Constants

-----------------------------------------------------------------------------
\* The invariant

LEMMA MinutesAsked ==
  ASSUME TypeInv
  PROVE  Minutes = Asked(page.range, now) /\ Minutes \in Nat
<1>1. now \in Nat /\ page.range \in Nat
  BY Constants DEF TypeInv
<1>2. (now \div Day) * Day <= now /\ (now \div Day) * Day \in Nat
  BY <1>1, Division, Constants
<1>3. now - (now \div Day) * Day \in Nat
  BY <1>1, <1>2
<1>4. Today(now) \in Nat
  BY <1>3, Division, Constants DEF Today
<1>5. Minutes = Asked(page.range, now)
  BY DEF Minutes, Midnight, Asked, Today
<1> QED BY <1>1, <1>4, <1>5, Constants DEF Asked

LEMMA InitRight == Init => Inv
<1> SUFFICES ASSUME Init PROVE Inv
  OBVIOUS
<1>1. PICK range \in Ranges : page = Quiet(range)
  BY DEF Init
<1>2. page \in [pc : {"quiet", "asked", "answered"}, range : Ranges, minutes : Nat, at : Nat, took : Nat,
                answer : SUBSET Nat, there : SUBSET Nat, same : BOOLEAN]
  BY <1>1 DEF Quiet
<1>3. page.pc = "quiet"
  BY <1>1 DEF Quiet
<1> QED BY <1>2, <1>3 DEF Init, Inv, TypeInv, AnswerInv

LEMMA StepRight == Inv /\ [Next]_vars => Inv'
<1> SUFFICES ASSUME Inv, [Next]_vars PROVE Inv'
  OBVIOUS
<1> DEFINE Page == [pc : {"quiet", "asked", "answered"}, range : Ranges, minutes : Nat, at : Nat, took : Nat,
                    answer : SUBSET Nat, there : SUBSET Nat, same : BOOLEAN]
<1>t. now \in Nat /\ table \in SUBSET (0 .. now) /\ page \in Page
  BY DEF Inv, TypeInv
<1>a. AnswerInv
  BY DEF Inv
<1>1. CASE Elapse
  <2>1. now' \in Nat /\ now <= now' /\ table' = table /\ page' = page
    BY <1>1, <1>t DEF Elapse
  <2>2. table' \in SUBSET (0 .. now')
    BY <1>t, <2>1
  <2>3. TypeInv'
    BY <1>t, <2>1, <2>2 DEF TypeInv
  <2>4. page.at \in Nat /\ page.took \in Nat
    BY <1>t
  <2>5. AnswerInv'
    BY <1>t, <1>a, <2>1, <2>4 DEF AnswerInv
  <2> QED BY <2>3, <2>5 DEF Inv
<1>2. CASE Sample \/ Prune
  <2>1. now' = now /\ page' = page /\ table' \subseteq table \cup {now}
    BY <1>2 DEF Sample, Prune
  <2>2. table' \in SUBSET (0 .. now')
    BY <1>t, <2>1
  <2> QED BY <1>t, <1>a, <2>1, <2>2 DEF Inv, TypeInv, AnswerInv
<1>3. CASE Select
  <2>1. PICK range \in Ranges : page' = [page EXCEPT !.range = range, !.same = (page.pc = "quiet")]
    BY <1>3 DEF Select
  <2>2. now' = now /\ table' = table
    BY <1>3 DEF Select
  <2>3. page' \in Page
    BY <1>t, <2>1
  <2>4. /\ page'.pc = page.pc /\ page'.at = page.at /\ page'.minutes = page.minutes
        /\ page'.took = page.took /\ page'.there = page.there /\ page'.answer = page.answer
    BY <1>t, <2>1
  <2>5. page'.pc # "quiet" => ~page'.same
    BY <1>t, <2>1
  <2> QED BY <1>t, <1>a, <2>2, <2>3, <2>4, <2>5 DEF Inv, TypeInv, AnswerInv
<1>4. CASE Ask
  <2>1. /\ page' = [page EXCEPT !.pc = "asked", !.minutes = Minutes, !.at = now]
        /\ now' = now /\ table' = table
    BY <1>4 DEF Ask
  <2>2. Minutes = Asked(page.range, now) /\ Minutes \in Nat
    BY MinutesAsked DEF Inv
  <2>3. page' \in Page
    BY <1>t, <2>1, <2>2
  <2>4. page'.pc = "asked" /\ page'.minutes = Minutes /\ page'.at = now /\ page'.range = page.range
    BY <1>t, <2>1
  <2> QED BY <1>t, <2>1, <2>2, <2>3, <2>4 DEF Inv, TypeInv, AnswerInv
<1>5. CASE Refused \/ Draw
  <2>1. page' = Quiet(page.range) /\ now' = now /\ table' = table
    BY <1>5 DEF Refused, Draw
  <2>2. page.range \in Ranges
    BY <1>t
  <2>3. page' \in Page /\ page'.pc = "quiet"
    BY <2>1, <2>2 DEF Quiet
  <2> QED BY <1>t, <2>1, <2>3 DEF Inv, TypeInv, AnswerInv
<1>6. CASE Answer
  <2>1. /\ page' = [page EXCEPT !.pc = "answered", !.took = now - page.at, !.there = table,
                                !.answer = Oldest(Since(page.minutes))]
        /\ now' = now /\ table' = table /\ page.pc = "asked"
    BY <1>6 DEF Answer
  <2>2. page.at \in Nat /\ page.at <= now
    BY <1>t, <1>a, <2>1 DEF AnswerInv
  <2>3. now - page.at \in Nat /\ page.at + (now - page.at) = now
    BY <1>t, <2>2
  <2>4. Oldest(Since(page.minutes)) = Found(table, page.minutes, now)
    BY DEF Found, Since
  <2>5. Found(table, page.minutes, now) \in SUBSET Nat /\ table \in SUBSET Nat
    <3>1. Found(table, page.minutes, now) \subseteq table
      BY DEF Found, Oldest
    <3>2. table \subseteq Nat
      BY <1>t
    <3> QED BY <3>1, <3>2
  <2>6. page' \in Page
    BY <1>t, <2>1, <2>3, <2>4, <2>5
  <2>7. /\ page'.pc = "answered" /\ page'.took = now - page.at /\ page'.there = table
        /\ page'.answer = Found(table, page.minutes, now)
        /\ page'.minutes = page.minutes /\ page'.at = page.at /\ page'.range = page.range
        /\ page'.same = page.same
    BY <1>t, <2>1, <2>4
  <2>8. page.same => page.minutes = Asked(page.range, page.at)
    BY <1>a, <2>1 DEF AnswerInv
  <2>9. AnswerInv'
    BY <1>t, <2>1, <2>2, <2>3, <2>7, <2>8 DEF AnswerInv
  <2> QED BY <1>t, <2>1, <2>6, <2>9 DEF Inv, TypeInv
<1>7. CASE UNCHANGED vars
  BY <1>7, <1>t, <1>a DEF vars, Inv, TypeInv, AnswerInv
<1> QED BY <1>1, <1>2, <1>3, <1>4, <1>5, <1>6, <1>7 DEF Next

LEMMA Invariant == Spec => []Inv
BY InitRight, StepRight, PTL DEF Spec

-----------------------------------------------------------------------------
\* The chart

\* A sample of the answer that lies in the range drawn gets a bucket.
LEMMA HasBucket ==
  ASSUME now \in Nat, Begin \in Int, Begin < now, NEW t \in page.answer, t \in Nat, Begin <= t, t <= now
  PROVE  t \in Shown
<1> DEFINE a == (t - Begin) * Buckets  b == now - Begin  i == Slot(t, Begin, now)
<1>1. t - Begin \in Nat /\ b \in Nat /\ b >= 1
  OBVIOUS
<1>2. a \in Nat
  BY <1>1, Constants
<1>3. a \div b \in Nat
  <2> HIDE DEF a, b
  <2> QED BY <1>1, <1>2, Division
<1>4. i = IF a \div b >= Buckets THEN Buckets - 1 ELSE a \div b
  BY DEF Slot
<1>5. i \in 0 .. Buckets - 1
  <2> HIDE DEF a, b, i
  <2> QED BY <1>3, <1>4, Constants
<1>6. t \in Filled[i] /\ i \in DOMAIN Filled
  <2> HIDE DEF a, b
  <2> QED BY <1>5 DEF Filled
<1> QED BY <1>6 DEF Shown

\* A query made after the question misses no more of the range than Missed says.
LEMMA QueryReaches ==
  ASSUME TypeInv, AnswerInv, page.pc = "answered", page.same
  PROVE  page.at + page.took - page.minutes * Minute <= Begin + Missed
<1>1. /\ now \in Nat /\ page.at \in Nat /\ page.took \in Nat /\ page.minutes \in Nat
      /\ page.range \in Nat /\ page.at + page.took <= now
      /\ page.minutes = Asked(page.range, page.at)
  BY Constants DEF TypeInv, AnswerInv
<1>2. page.minutes * Minute \in Nat
  BY <1>1, Constants
<1>3. CASE page.range # 0
  BY <1>1, <1>2, <1>3 DEF Begin, Missed
<1>4. CASE page.range = 0
  <2> DEFINE m == (page.at \div Day) * Day
  <2>1. m \in Nat /\ m <= page.at /\ m <= Midnight /\ Midnight \in Nat
    <3>1. m \in Nat /\ m <= page.at
      BY <1>1, Division, Constants
    <3>2. page.at <= now
      BY <1>1
    <3>3. m <= Midnight
      BY <1>1, <3>2, DivisionGrows, Constants DEF Midnight
    <3>4. Midnight \in Nat
      BY <1>1, Division, Constants DEF Midnight
    <3> QED BY <3>1, <3>3, <3>4
  <2>2. Today(page.at) = (page.at - m) \div Minute
    BY DEF Today
  <2> HIDE DEF m
  <2>3. page.at - m \in Nat
    BY <1>1, <2>1
  <2>4. /\ Today(page.at) \in Nat /\ Today(page.at) * Minute \in Nat
        /\ page.at - m < Today(page.at) * Minute + Minute
    BY <2>2, <2>3, Division, Constants
  <2>5. Today(page.at) <= page.minutes
    BY <1>1, <1>4, <2>4, Constants DEF Asked
  <2>6. Today(page.at) * Minute <= page.minutes * Minute
    BY <1>1, <2>4, <2>5, Constants
  <2>7. Begin = Midnight /\ Missed = Minute - 1 + page.took
    BY <1>4 DEF Begin, Missed
  <2> QED BY <1>1, <1>2, <2>1, <2>3, <2>4, <2>6, <2>7, Constants
<1> QED BY <1>3, <1>4

\* An answer that is not full shows every sample of its range, but those that the
\* question misses: also when the range moved on, or midnight came, until it was drawn.
THEOREM ChartIsComplete == Spec => []ShowsAll
<1>1. Inv => ShowsAll
  <2> SUFFICES ASSUME Inv, Drawable, Cardinality(page.answer) < Limit,
                      NEW t \in page.there, Begin + Missed <= t
               PROVE  t \in Shown
    BY DEF ShowsAll
  <2>1. TypeInv /\ AnswerInv /\ page.pc = "answered" /\ page.same /\ Begin < now
    BY DEF Inv, Drawable
  <2>2. page.at + page.took - page.minutes * Minute <= Begin + Missed
    BY <2>1, QueryReaches
  <2>3. /\ now \in Nat /\ page.at \in Nat /\ page.took \in Nat /\ page.minutes \in Nat
        /\ page.range \in Nat
    BY <2>1, Constants DEF TypeInv
  <2>4. PICK time \in Nat : time = page.at + page.took
    BY <2>3
  <2>5. time <= now /\ page.there \in SUBSET (0 .. time) /\ page.answer = Found(page.there, page.minutes, time)
    BY <2>1, <2>4 DEF AnswerInv
  <2>6. PICK S : S = {u \in page.there : u >= time - page.minutes * Minute}
    OBVIOUS
  <2>7. IsFiniteSet(S) /\ S \in SUBSET Nat
    <3>1. IsFiniteSet(0 .. time)
      BY FS_Interval
    <3>2. S \subseteq 0 .. time /\ S \in SUBSET Nat
      BY <2>5, <2>6
    <3> QED BY <3>1, <3>2, FS_Subset
  <2>8. page.answer = S
    <3>1. page.answer = Oldest(S)
      BY <2>5, <2>6 DEF Found
    <3> QED BY <2>7, <3>1, ShortAnswer
  <2>9. Begin \in Int /\ Missed \in Nat
    <3>1. Midnight \in Nat
      BY <2>3, Division, Constants DEF Midnight
    <3>2. page.minutes * Minute \in Nat
      BY <2>3, Constants
    <3> QED BY <2>3, <3>1, <3>2, Constants DEF Begin, Missed
  <2>10. t \in Nat /\ t <= now
    BY <2>3, <2>5
  <2>11. time - page.minutes * Minute <= t
    <3>1. page.minutes * Minute \in Nat
      BY <2>3, Constants
    <3> QED BY <2>2, <2>3, <2>4, <2>9, <2>10, <3>1
  <2>12. t \in page.answer
    BY <2>6, <2>8, <2>11
  <2>13. Begin <= t
    BY <2>9, <2>10
  <2> QED BY <2>1, <2>3, <2>9, <2>10, <2>12, <2>13, HasBucket
<1> QED BY <1>1, Invariant, PTL

=============================================================================
