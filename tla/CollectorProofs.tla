--------------------------- MODULE CollectorProofs ---------------------------
(***************************************************************************)
(* What holds of the collector for any number of ticks, requests, devices   *)
(* and polls: its types, that only a change of its own devices cuts a tick  *)
(* short, that polling never undoes an edit, that with enforced foreign     *)
(* keys every row has its device, and that on both databases it implements  *)
(* the ledger of polls: every step of it is a step of PollLedger, or        *)
(* changes nothing the ledger speaks of.                                    *)
(***************************************************************************)
EXTENDS Collector, TLAPS

\* Inside a poll or a discovery, and as long as a sample waits to be written, the
\* session has a device; only requests test.
BusyHasDevice ==
  \A w \in Workers :
    /\ sess[w].pc \notin {"idle", "next"} \/ sess[w].pend => sess[w].cur \in Ids
    /\ w \in Ticks => ~sess[w].test

TypeInv == TypeOK /\ BusyHasDevice

USE BoundsAssumption, DatabaseAssumption

-----------------------------------------------------------------------------
\* Types of the operators on sessions and tables

\* The blank row, the idle session and the empty cache have their types.
LEMMA BlankTypes == Blank \in Row /\ NoRows \in [Ids -> Row] /\ NoPoll \in Poll /\ Idle \in Session
<1>1. Blank \in Row
  BY DEF Blank, Row, Gens
<1>2. NoRows \in [Ids -> Row]
  BY <1>1 DEF NoRows
<1>3. NoPoll \in Poll
  BY DEF NoPoll, Poll, Outcome, Gens
<1>4. Idle \in Session
  BY <1>2 DEF Idle, Session, Gens
<1> QED BY <1>1, <1>2, <1>3, <1>4

\* Reading a row again leaves a session.
LEMMA RefreshedType ==
  ASSUME TypeOK, NEW s \in Session, NEW d \in Ids
  PROVE  /\ Refreshed(s, d) \in Session
         /\ Refreshed(s, d).pc = s.pc
         /\ Refreshed(s, d).todo = s.todo
         /\ Refreshed(s, d).cur = s.cur
         /\ Refreshed(s, d).run = s.run
         /\ Refreshed(s, d).test = s.test
         /\ Refreshed(s, d).pend = s.pend
         /\ Refreshed(s, d).dirty = s.dirty
         /\ Refreshed(s, d).gen = s.gen
         /\ Refreshed(s, d).n = s.n
<1>1. CASE s.open \/ s.rows[d].gen # 0
  BY <1>1 DEF Refreshed
<1>2. CASE ~(s.open \/ s.rows[d].gen # 0) /\ IsMySQL
  BY <1>2 DEF Refreshed, Session, TypeOK
<1>3. CASE ~(s.open \/ s.rows[d].gen # 0) /\ ~IsMySQL
  <2>1. devices[d] \in Row /\ s.rows \in [Ids -> Row]
    BY DEF TypeOK, Session
  <2>2. [s.rows EXCEPT ![d] = devices[d]] \in [Ids -> Row]
    BY <2>1
  <2>3. Refreshed(s, d) = [s EXCEPT !.rows = [s.rows EXCEPT ![d] = devices[d]]]
    BY <1>3 DEF Refreshed, Session
  <2> QED BY <2>2, <2>3 DEF Session
<1> QED BY <1>1, <1>2, <1>3

\* Keys of a table of ports are interface indexes.
LEMMA KeysType ==
  ASSUME NEW table \in SUBSET PortRow, NEW d
  PROVE  Keys(table, d) \in SUBSET IfIndexes
BY DEF Keys, PortRow

\* A query of the ports returns interface indexes.
LEMMA SeenPortsType ==
  ASSUME TypeOK, NEW s \in Session
  PROVE  SeenPorts(s) \in SUBSET IfIndexes
BY KeysType DEF SeenPorts, TypeOK, Session

\* The session a worker is left with after the commit that ends a poll.
LEMMA FinishedType ==
  ASSUME TypeOK, NEW w \in Workers
  PROVE  /\ Finished(w) \in Session
         /\ Finished(w).pc \in {"idle", "next"}
         /\ Finished(w).pend = FALSE
         /\ Finished(w).test => sess[w].test
         /\ \A b \in BOOLEAN :
              /\ [Finished(w) EXCEPT !.n = b] \in Session
              /\ [Finished(w) EXCEPT !.n = b].pc = Finished(w).pc
              /\ [Finished(w) EXCEPT !.n = b].pend = FALSE
              /\ [Finished(w) EXCEPT !.n = b].test = Finished(w).test
<1>1. Finished(w) \in Session /\ Finished(w).pc \in {"idle", "next"}
  BY BlankTypes DEF Finished, TypeOK, Session, Idle
<1>2. Finished(w).pend = FALSE /\ (Finished(w).test => sess[w].test)
  BY DEF Finished, Idle
<1> QED BY <1>1, <1>2 DEF Session

\* What it holds when there are more devices to come.
LEMMA FinishedFields ==
  ASSUME TypeOK, NEW w \in Workers, w \in Ticks \/ (sess[w].test /\ sess[w].todo # {}),
         NEW b \in BOOLEAN
  PROVE  \A f \in {Finished(w), [Finished(w) EXCEPT !.n = b]} :
           /\ f.pc = "next" /\ f.run = sess[w].run /\ f.todo = sess[w].todo
           /\ f.cur = 0 /\ f.open = FALSE /\ f.pend = FALSE /\ f.dirty = FALSE
           /\ f.test = sess[w].test /\ f.rows = NoRows /\ f.gen = 0
<1> DEFINE n == [Idle EXCEPT !.pc = "next", !.run = sess[w].run, !.todo = sess[w].todo,
                             !.test = sess[w].test, !.n = sess[w].n]
<1>1. /\ Idle \in Session /\ Idle.cur = 0 /\ Idle.open = FALSE /\ Idle.pend = FALSE
      /\ Idle.dirty = FALSE /\ Idle.rows = NoRows /\ Idle.gen = 0
  BY BlankTypes DEF Idle
<1>2. /\ n.pc = "next" /\ n.run = sess[w].run /\ n.todo = sess[w].todo
      /\ n.cur = 0 /\ n.open = FALSE /\ n.pend = FALSE /\ n.dirty = FALSE /\ n.test = sess[w].test
      /\ n.rows = NoRows /\ n.gen = 0
  BY <1>1 DEF Session
<1>3. Finished(w) = n /\ n \in Session
  BY FinishedType DEF Finished
<1> HIDE DEF n
<1> QED BY <1>2, <1>3 DEF Session

\* The session a request is left with after a device it leaves without a commit.
LEMMA LeftType ==
  ASSUME NEW s \in Session
  PROVE  /\ Left(s) \in Session
         /\ Left(s).pc \in {"idle", "next"}
         /\ Left(s).pend => s.pend /\ Left(s).cur = s.cur
         /\ Left(s).test => s.test
         /\ s.todo = {} => Left(s) = Idle
         /\ s.todo # {} =>
              /\ Left(s).pc = "next" /\ Left(s).run = s.run /\ Left(s).todo = s.todo
              /\ Left(s).pend = s.pend /\ Left(s).test = s.test
              /\ s.pend => Left(s).cur = s.cur /\ Left(s).gen = s.gen
              /\ ~s.pend => Left(s).cur = 0 /\ Left(s).gen = 0
              /\ Left(s).rows = s.rows
<1>1. CASE s.todo = {}
  BY <1>1, BlankTypes DEF Left, Idle
<1>2. CASE s.todo # {}
  <2> DEFINE c == IF s.pend THEN s.cur ELSE 0
             g == IF s.pend THEN s.gen ELSE 0
  <2>1. c \in 0 .. MaxId /\ g \in Gens
    BY DEF Session, Gens
  <2>2. Left(s) = [s EXCEPT !.pc = "next", !.known = {}, !.found = {}, !.cur = c, !.gen = g]
    BY <1>2 DEF Left, Session
  <2>3. (s.pend => c = s.cur /\ g = s.gen) /\ (~s.pend => c = 0 /\ g = 0)
    OBVIOUS
  <2> HIDE DEF c, g
  <2>4. Left(s) \in Session /\ Left(s).pc = "next" /\ Left(s).cur = c /\ Left(s).gen = g
        /\ Left(s).pend = s.pend /\ Left(s).test = s.test /\ Left(s).run = s.run
        /\ Left(s).todo = s.todo /\ Left(s).rows = s.rows
    BY <2>1, <2>2 DEF Session
  <2> QED BY <1>2, <2>3, <2>4
<1> QED BY <1>1, <1>2

\* A flush of the status leaves a row.
LEMMA FlushedType ==
  ASSUME NEW row \in Row, NEW s \in Session, NEW status \in {"success", "failed"}
  PROVE  Flushed(row, s, status) \in Row
BY DEF Flushed, Row, Session

\* What the three updates of polls give.
LEMMA PollsType ==
  ASSUME TypeOK, NEW r, NEW d, NEW out \in Outcome, NEW status \in {"", "success", "failed"}
  PROVE  /\ Publish(r, d, out, status) \in [Runs -> [Ids -> Poll]]
         /\ Drop(r, out) \in [Runs -> [Ids -> Poll]]
<1>1. ASSUME NEW r1 \in Runs, NEW d1 \in Ids
      PROVE  /\ polls[r1][d1] \in Poll
             /\ [polls[r1][d1] EXCEPT !.out = out] \in Poll
             /\ [polls[r1][d1] EXCEPT !.out = out, !.told = status] \in Poll
             /\ [polls[r1][d1] EXCEPT !.raced = @ \/ polls[r1][d1].out \in Pending] \in Poll
  <2> DEFINE p == polls[r1][d1]
             b == p.raced \/ p.out \in Pending
  <2>1. p \in Poll
    BY <1>1 DEF TypeOK
  <2>2. b \in BOOLEAN
    OBVIOUS
  <2> HIDE DEF p, b
  <2>3. /\ [p EXCEPT !.out = out] \in Poll /\ [p EXCEPT !.raced = b] \in Poll
        /\ [p EXCEPT !.out = out, !.told = status] \in Poll
    BY <2>1, <2>2 DEF Poll
  <2> QED BY <2>1, <2>3 DEF p, b
<1>2. Publish(r, d, out, status) \in [Runs -> [Ids -> Poll]]
  BY <1>1 DEF Publish
<1>3. Drop(r, out) \in [Runs -> [Ids -> Poll]]
  BY <1>1 DEF Drop
<1> QED BY <1>2, <1>3

\* The changes made to the record of a poll keep its type.
LEMMA PollFields ==
  \A p \in Poll :
    /\ \A out \in Outcome : [p EXCEPT !.out = out] \in Poll
    /\ \A out \in Outcome, g \in Gens : [p EXCEPT !.out = out, !.gen = g] \in Poll
    /\ \A g \in Gens : [p EXCEPT !.gen = g] \in Poll
    /\ [p EXCEPT !.early = TRUE] \in Poll
BY DEF Poll

\* Replacing the record of one poll keeps the type of polls.
LEMMA PollUpdateType ==
  ASSUME TypeOK, NEW r, NEW d \in Ids, NEW p, r \in Runs => p \in Poll
  PROVE  [polls EXCEPT ![r][d] = p] \in [Runs -> [Ids -> Poll]]
<1>1. CASE r \in Runs
  <2>1. [polls[r] EXCEPT ![d] = p] \in [Ids -> Poll]
    BY <1>1 DEF TypeOK
  <2> QED BY <1>1, <2>1 DEF TypeOK
<1>2. CASE r \notin Runs
  BY <1>2 DEF TypeOK
<1> QED BY <1>1, <1>2

\* A published sample has the type of the sample tables.
LEMMA SampleType ==
  ASSUME NEW table \in SUBSET Sample, NEW s \in Session, s.cur \in Ids
  PROVE  WithSample(table, s) \in SUBSET Sample
BY DEF WithSample, Sample, Session

-----------------------------------------------------------------------------
\* Types are preserved

LastType == [Ticks -> [how : {"none", "done", "crashed"}, run : 0 .. MaxRuns]]
SessOK == sess \in [Workers -> Session] /\ BusyHasDevice

\* Ticks and requests are workers.
LEMMA WorkerTypes == Ticks \subseteq Workers /\ Requests \subseteq Workers
BY DEF Workers

\* A step that gives one worker a well-formed session keeps all of them so.
LEMMA SessStep ==
  ASSUME TypeInv, NEW w \in Workers, NEW s \in Session,
         s.pc \notin {"idle", "next"} \/ s.pend => s.cur \in Ids,
         s.test => sess[w].test,
         sess' = [sess EXCEPT ![w] = s]
  PROVE  SessOK'
BY WorkerTypes DEF TypeInv, TypeOK, BusyHasDevice, SessOK

\* The same for a request, that may begin a test.
LEMMA SessType ==
  ASSUME TypeInv, NEW w \in Workers, NEW s \in Session,
         s.pc \notin {"idle", "next"} \/ s.pend => s.cur \in Ids,
         w \notin Ticks,
         sess' = [sess EXCEPT ![w] = s]
  PROVE  SessOK'
BY WorkerTypes DEF TypeInv, TypeOK, BusyHasDevice, SessOK

\* An exception that leaves the loop of a tick or a handler keeps the types.
LEMMA AbortType ==
  ASSUME TypeInv, NEW w \in Workers, Abort(w)
  PROVE  SessOK' /\ polls' \in [Runs -> [Ids -> Poll]] /\ last' \in LastType
<1>1. SessOK'
  <2>1. Idle \in Session /\ Idle.pc = "idle" /\ ~Idle.pend /\ ~Idle.test
    BY BlankTypes DEF Idle
  <2> QED BY <2>1, SessStep DEF Abort
<1>2. polls' \in [Runs -> [Ids -> Poll]]
  BY PollsType DEF Abort, TypeInv, Outcome
<1>3. last' \in LastType
  BY DEF Abort, TypeInv, TypeOK, LastType
<1> QED BY <1>1, <1>2, <1>3

\* So does a commit that raises.
LEMMA FailedCommitType ==
  ASSUME TypeInv, NEW w \in Workers, NEW conflict \in BOOLEAN, FailedCommit(w, conflict)
  PROVE  TypeInv'
<1>1. disturbed' \in [Ticks -> BOOLEAN]
  BY Zenon DEF FailedCommit, TypeInv, TypeOK
<1>2. Abort(w)
  BY DEF FailedCommit
<1>3. UNCHANGED <<devices, created, edits, ports, metrics, traffic, runs, asked>>
  BY DEF FailedCommit, tables
<1> QED BY <1>1, <1>2, <1>3, AbortType DEF TypeInv, TypeOK, SessOK, LastType, BusyHasDevice

\* An abort that leaves everything else alone.
LEMMA AbortOnlyType ==
  ASSUME TypeInv, NEW w \in Workers, Abort(w), UNCHANGED <<tables, runs, disturbed, asked>>
  PROVE  TypeInv'
BY AbortType DEF TypeInv, TypeOK, SessOK, LastType, BusyHasDevice, tables

\* So does an exception in a poll, that a test swallows.
LEMMA RaiseType ==
  ASSUME TypeInv, NEW w \in Workers, sess[w].pc \notin {"idle", "next"}, Raise(w),
         UNCHANGED <<tables, runs, disturbed, asked>>
  PROVE  TypeInv'
<1>1. CASE ~sess[w].test
  BY <1>1, AbortOnlyType DEF Raise
<1>2. CASE sess[w].test
  <2> DEFINE s == sess[w]
  <2>1. s \in Session /\ s.cur \in Ids /\ (s.run \in Runs => polls[s.run][s.cur] \in Poll)
    BY DEF TypeInv, TypeOK, BusyHasDevice
  <2>2. /\ sess' = [sess EXCEPT ![w] = Left(s)]
        /\ polls' = [polls EXCEPT ![s.run][s.cur] = [@ EXCEPT !.out = "swallowed"]]
        /\ last' = last
    BY <1>2 DEF Raise
  <2> HIDE DEF s
  <2>3. SessOK'
    BY <2>1, <2>2, LeftType, SessStep, <1>2 DEF s
  <2>4. s.run \in Runs => [polls[s.run][s.cur] EXCEPT !.out = "swallowed"] \in Poll
    BY <2>1, PollFields DEF Outcome
  <2>5. polls' \in [Runs -> [Ids -> Poll]]
    BY <2>1, <2>2, <2>4, PollUpdateType DEF TypeInv
  <2> QED BY <2>2, <2>3, <2>5 DEF TypeInv, TypeOK, SessOK, BusyHasDevice, tables
<1> QED BY <1>1, <1>2

\* The ticks that a change of a device concerns.
LEMMA DisturbType ==
  ASSUME TypeOK, NEW others, NEW d, Disturb(others, d)
  PROVE  disturbed' \in [Ticks -> BOOLEAN]
BY Zenon DEF Disturb, TypeOK

\* The query at the start of a tick keeps the types.
LEMMA TickStartType ==
  ASSUME TypeInv, NEW t \in Ticks, TickStart(t)
  PROVE  TypeInv'
<1> DEFINE chosen == {d \in Live : devices[d].mon /\ devices[d].snmp}
           run == runs + 1
           rows == [d \in Ids |-> IF IsMySQL \/ d \in chosen THEN devices[d] ELSE Blank]
           snap == IF IsMySQL THEN ports ELSE {}
           s == [Idle EXCEPT !.pc = "next", !.run = run, !.todo = chosen, !.open = IsMySQL,
                             !.rows = rows, !.snap = snap]
           p == [d \in Ids |-> IF d \in chosen THEN [NoPoll EXCEPT !.out = "queued"] ELSE NoPoll]
<1>1. run \in 0 .. MaxRuns
  BY DEF TickStart, TypeInv, TypeOK
<1>2. chosen \subseteq Ids
  BY DEF Live
<1>3. rows \in [Ids -> Row] /\ snap \in SUBSET PortRow
  BY BlankTypes DEF TypeInv, TypeOK
<1>4. SessOK'
  <2> HIDE DEF chosen, run, rows, snap
  <2>1. s \in Session /\ s.pc = "next" /\ ~s.pend /\ ~s.test
    BY <1>1, <1>2, <1>3, BlankTypes DEF Idle, Session
  <2>2. sess' = [sess EXCEPT ![t] = s]
    BY DEF TickStart, chosen, run, rows, snap
  <2> HIDE DEF s
  <2> QED BY <2>1, <2>2, SessStep, WorkerTypes
<1>5. polls' \in [Runs -> [Ids -> Poll]]
  <2>1. [NoPoll EXCEPT !.out = "queued"] \in Poll
    BY BlankTypes DEF Poll, Outcome
  <2>2. p \in [Ids -> Poll]
    BY <2>1, BlankTypes
  <2>3. polls' = [polls EXCEPT ![run] = p]
    BY DEF TickStart
  <2> HIDE DEF p
  <2> QED BY <2>2, <2>3 DEF TypeInv, TypeOK
<1>6. last' \in LastType
  BY <1>1 DEF TickStart, TypeInv, TypeOK, LastType
<1>7. disturbed' \in [Ticks -> BOOLEAN]
  BY DEF TickStart, TypeInv, TypeOK
<1>8. runs' \in 0 .. MaxRuns /\ UNCHANGED <<devices, created, edits, ports, metrics, traffic, asked>>
  BY <1>1 DEF TickStart, tables
<1> HIDE DEF chosen, run, rows, snap, s, p
<1> QED BY <1>4, <1>5, <1>6, <1>7, <1>8 DEF TypeInv, TypeOK, SessOK, LastType, BusyHasDevice

\* The steps of the loop over the devices keep the types.
LEMMA TickStepType ==
  ASSUME TypeInv, NEW t \in Ticks, TickStep(t)
  PROVE  TypeInv'
<1> USE WorkerTypes
<1>1. ASSUME NEW d \in Ids, Begin(t, d) PROVE TypeInv'
  <2> DEFINE s == Refreshed(sess[t], d)
             next(dirty) == [s EXCEPT !.pc = "walk", !.cur = d, !.todo = @ \ {d},
                                      !.gen = s.rows[d].gen, !.pend = TRUE, !.dirty = dirty]
  <2>1. s \in Session /\ s.rows[d].gen \in Gens /\ s.test = sess[t].test
    <3>1. s \in Session /\ s.test = sess[t].test
      BY RefreshedType DEF TypeInv, TypeOK
    <3> HIDE DEF s
    <3> QED BY <3>1 DEF Session, Row
  <2>2. PICK dirty \in BOOLEAN : sess' = [sess EXCEPT ![t] = next(dirty)]
    BY <1>1 DEF Begin
  <2>3. next(dirty) \in Session /\ next(dirty).cur = d /\ next(dirty).test = sess[t].test
    <3> HIDE DEF s
    <3>1. s.todo \ {d} \in SUBSET Ids /\ d \in 0 .. MaxId
      BY <2>1 DEF Session, Ids
    <3>2. [s EXCEPT !.pc = "walk", !.cur = d, !.todo = @ \ {d}] \in Session
      BY <2>1, <3>1 DEF Session
    <3>3. \A x \in Session, g \in Gens : [x EXCEPT !.gen = g, !.pend = TRUE, !.dirty = dirty] \in Session
      BY DEF Session
    <3>4. next(dirty) = [[s EXCEPT !.pc = "walk", !.cur = d, !.todo = @ \ {d}]
                           EXCEPT !.gen = s.rows[d].gen, !.pend = TRUE, !.dirty = dirty]
      BY <2>1 DEF Session
    <3>5. next(dirty).cur = d /\ next(dirty).test = sess[t].test
      BY <2>1 DEF Session
    <3> QED BY <2>1, <3>2, <3>3, <3>4, <3>5
  <2>4. SessOK'
    <3> HIDE DEF next
    <3> QED BY <2>2, <2>3, SessStep
  <2>5. polls' \in [Runs -> [Ids -> Poll]]
    <3>1. polls' = [polls EXCEPT ![s.run][d] = [@ EXCEPT !.out = "open", !.gen = s.rows[d].gen]]
      BY <1>1 DEF Begin
    <3> HIDE DEF s
    <3>2. s.run \in Runs => [polls[s.run][d] EXCEPT !.out = "open", !.gen = s.rows[d].gen] \in Poll
      <4>1. s.run \in Runs => polls[s.run][d] \in Poll
        BY DEF TypeInv, TypeOK
      <4> QED BY <2>1, <4>1, PollFields DEF Outcome
    <3> QED BY <3>1, <3>2, PollUpdateType DEF TypeInv
  <2> QED BY <1>1, <2>4, <2>5 DEF Begin, tables, TypeInv, TypeOK, SessOK, BusyHasDevice
<1>2. ASSUME NEW d \in Ids, Skip(t, d) PROVE TypeInv'
  <2> DEFINE s == Refreshed(sess[t], d)
  <2> DEFINE n == [s EXCEPT !.todo = @ \ {d}, !.n = TRUE]
  <2>1. /\ s \in Session /\ s.pc = "next" /\ s.test = sess[t].test
        /\ s.pend => s.cur \in Ids
    <3>1. /\ sess[t] \in Session /\ sess[t].pc = "next"
          /\ sess[t].pend => sess[t].cur \in Ids
      BY <1>2 DEF TypeInv, TypeOK, Skip, BusyHasDevice
    <3> QED BY <3>1, RefreshedType DEF TypeInv
  <2>2. sess' = [sess EXCEPT ![t] = n]
    BY <1>2 DEF Skip
  <2>3. polls' = [polls EXCEPT ![s.run][d].out = "skipped"]
    BY <1>2 DEF Skip
  <2> HIDE DEF s
  <2>4. /\ n \in Session /\ n.pc = "next" /\ n.test = s.test
        /\ n.pend = s.pend /\ n.cur = s.cur
    BY <2>1 DEF Session
  <2> HIDE DEF n
  <2>5. SessOK'
    BY <2>1, <2>2, <2>4, SessStep
  <2>6. polls' \in [Runs -> [Ids -> Poll]]
    <3>1. s.run \in Runs => [polls[s.run][d] EXCEPT !.out = "skipped"] \in Poll
      <4>1. s.run \in Runs => polls[s.run][d] \in Poll
        BY DEF TypeInv, TypeOK
      <4> QED BY <4>1, PollFields DEF Outcome
    <3> QED BY <2>3, <3>1, PollUpdateType DEF TypeInv
  <2> QED BY <1>2, <2>5, <2>6 DEF Skip, tables, TypeInv, TypeOK, SessOK, BusyHasDevice
<1>3. ASSUME NEW d \in Ids, BeginGone(t, d) PROVE TypeInv'
  BY <1>3, AbortOnlyType DEF BeginGone
<1>4. CASE Except(t)
  <2> DEFINE s == sess[t]
  <2>1. s \in Session /\ s.cur \in Ids
    BY <1>4 DEF Except, TypeInv, TypeOK, BusyHasDevice
  <2>2. devices' \in [Ids -> Row]
    BY <1>4, <2>1, FlushedType DEF Except, TypeInv, TypeOK
  <2>3. metrics' \subseteq Sample
    BY <1>4, <2>1, SampleType DEF Except, TypeInv, TypeOK
  <2>4. SessOK'
    BY <1>4, SessStep, FinishedType DEF Except, TypeInv
  <2>5. polls' \in [Runs -> [Ids -> Poll]]
    BY <1>4, PollsType DEF Except, TypeInv, Outcome
  <2> QED BY <1>4, <2>2, <2>3, <2>4, <2>5 DEF Except, TypeInv, TypeOK, SessOK, BusyHasDevice
<1>5. CASE ExceptFails(t)
  BY <1>5, FailedCommitType DEF ExceptFails
<1>6. CASE TickEnd(t)
  <2>1. SessOK'
    BY <1>6, SessStep, BlankTypes DEF TickEnd, Idle
  <2>2. last' \in LastType
    BY <1>6 DEF TickEnd, TypeInv, TypeOK, LastType
  <2> QED BY <1>6, <2>1, <2>2 DEF TickEnd, tables, TypeInv, TypeOK, SessOK, LastType, BusyHasDevice
<1>7. CASE PruneFails(t)
  BY <1>7, FailedCommitType DEF PruneFails
<1> QED BY <1>1, <1>2, <1>3, <1>4, <1>5, <1>6, <1>7 DEF TickStep

\* The steps of collect_device_metrics and discover_ports keep the types.
LEMMA CollectStepType ==
  ASSUME TypeInv, NEW w \in Workers, CollectStep(w)
  PROVE  TypeInv'
<1> DEFINE s == sess[w]
<1>1. s \in Session /\ (s.pc \notin {"idle", "next"} \/ s.pend => s.cur \in Ids)
  BY DEF TypeInv, TypeOK, BusyHasDevice
<1>2. SeenPorts(s) \in SUBSET IfIndexes
  BY <1>1, SeenPortsType DEF TypeInv
<1>3. CASE Walk(w)
  <2> DEFINE n == [s EXCEPT !.known = SeenPorts(s),
                            !.pc = IF SeenPorts(s) = {} THEN "dwalk" ELSE "commit"]
  <2>1. sess' = [sess EXCEPT ![w] = n]
    BY <1>1, <1>3 DEF Walk, TypeInv, TypeOK
  <2>2. n \in Session /\ n.cur \in Ids /\ n.test = s.test
    BY <1>1, <1>2, <1>3 DEF Walk, Session
  <2> HIDE DEF n
  <2>3. SessOK'
    BY <2>1, <2>2, SessStep
  <2> QED BY <1>3, <2>3 DEF Walk, tables, observed, TypeInv, TypeOK, SessOK, BusyHasDevice
<1>4. CASE WalkFails(w)
  <2>1. CASE w \in Ticks
    <3> DEFINE n == [s EXCEPT !.pc = "except"]
    <3>1. sess' = [sess EXCEPT ![w] = n]
      BY <1>1, <1>4, <2>1 DEF WalkFails, TypeInv, TypeOK
    <3>2. n \in Session /\ n.cur \in Ids /\ n.test = s.test
      BY <1>1, <1>4 DEF WalkFails, Session
    <3> HIDE DEF n
    <3>3. SessOK'
      BY <3>1, <3>2, SessStep
    <3> QED BY <1>4, <2>1, <3>3 DEF WalkFails, tables, TypeInv, TypeOK, SessOK, BusyHasDevice
  <2>2. CASE w \notin Ticks
    BY <1>4, <2>2, RaiseType DEF WalkFails
  <2> QED BY <2>1, <2>2
<1>5. CASE DiscoverWalk(w)
  <2> DEFINE n(found) == [s EXCEPT !.pc = "dcommit", !.found = found, !.known = SeenPorts(s)]
  <2>1. PICK found \in SUBSET IfIndexes : sess' = [sess EXCEPT ![w] = n(found)]
    BY <1>1, <1>5 DEF DiscoverWalk, TypeInv, TypeOK
  <2>2. n(found) \in Session /\ n(found).cur \in Ids /\ n(found).test = s.test
    BY <1>1, <1>2, <1>5 DEF DiscoverWalk, Session
  <2> HIDE DEF n
  <2>3. SessOK'
    BY <2>1, <2>2, SessStep
  <2> QED BY <1>5, <2>3 DEF DiscoverWalk, tables, observed, TypeInv, TypeOK, SessOK, BusyHasDevice
<1>6. CASE DiscoverCommit(w)
  <2> DEFINE pc == IF s.pend THEN "reload" ELSE "collect"
             n == IF s.run = 0 THEN Idle ELSE [Expired(s) EXCEPT !.pc = pc]
             new == s.found \ s.known
  <2>1. s.cur \in Ids
    BY <1>1, <1>6 DEF DiscoverCommit
  <2>2. ports' \subseteq PortRow
    <3>1. \A i \in new : [dev |-> s.cur, ifx |-> i, gen |-> s.gen] \in PortRow
      BY <1>1, <2>1 DEF Session, PortRow
    <3>2. ports' = ports \cup {[dev |-> s.cur, ifx |-> i, gen |-> s.gen] : i \in new}
      BY <1>6 DEF DiscoverCommit
    <3> HIDE DEF new, s
    <3> QED BY <3>1, <3>2 DEF TypeInv, TypeOK
  <2>3. metrics' \subseteq Sample
    BY <1>1, <1>6, <2>1, SampleType DEF DiscoverCommit, TypeInv, TypeOK
  <2>4. SessOK'
    <3>1. Expired(s) \in Session /\ Expired(s).cur = s.cur /\ Expired(s).test = s.test
      BY <1>1, BlankTypes DEF Expired, Session
    <3>2. \A x \in {"reload", "collect"} :
            /\ [Expired(s) EXCEPT !.pc = x] \in Session
            /\ [Expired(s) EXCEPT !.pc = x].cur \in Ids
            /\ [Expired(s) EXCEPT !.pc = x].test = s.test
      BY <2>1, <3>1 DEF Session
    <3>3. /\ n \in Session
          /\ n.pc \notin {"idle", "next"} \/ n.pend => n.cur \in Ids
          /\ n.test => s.test
      BY <3>2, BlankTypes DEF Idle
    <3>4. sess' = [sess EXCEPT ![w] = n]
      BY <1>6 DEF DiscoverCommit
    <3> HIDE DEF n
    <3> QED BY <3>3, <3>4, SessStep
  <2>5. polls' \in [Runs -> [Ids -> Poll]]
    <3>1. CASE ~s.pend
      BY <1>6, <3>1 DEF DiscoverCommit, TypeInv, TypeOK
    <3>2. CASE s.pend
      <4>1. polls' = [polls EXCEPT ![s.run][s.cur] = [@ EXCEPT !.early = TRUE]]
        BY <1>6, <3>2 DEF DiscoverCommit
      <4>2. s.run \in Runs => [polls[s.run][s.cur] EXCEPT !.early = TRUE] \in Poll
        <5>1. s.run \in Runs => polls[s.run][s.cur] \in Poll
          BY <2>1 DEF TypeInv, TypeOK
        <5> QED BY <5>1, PollFields
      <4> HIDE DEF s
      <4> QED BY <2>1, <4>1, <4>2, PollUpdateType DEF TypeInv
    <3> QED BY <3>1, <3>2
  <2>6. disturbed' \in [Ticks -> BOOLEAN]
    BY <1>6, DisturbType DEF DiscoverCommit, TypeInv, TypeOK
  <2> QED BY <1>6, <2>2, <2>3, <2>4, <2>5, <2>6 DEF DiscoverCommit, TypeInv, TypeOK, SessOK, BusyHasDevice
<1>7. CASE DiscoverCommitFails(w)
  BY <1>7, FailedCommitType DEF DiscoverCommitFails, DiscoverConflict
<1>8. CASE Reload(w)
  <2> DEFINE r == Refreshed(s, s.cur)
             n == [r EXCEPT !.pc = "commit", !.known = SeenPorts(r)]
  <2>1. r \in Session /\ r.cur \in Ids /\ r.test = s.test
    BY <1>1, <1>8, RefreshedType DEF Reload, TypeInv
  <2>2. sess' = [sess EXCEPT ![w] = n]
    BY <1>8 DEF Reload
  <2> HIDE DEF r
  <2>3. n \in Session /\ n.cur \in Ids /\ n.test = s.test
    BY <2>1, SeenPortsType DEF Session, TypeInv
  <2> HIDE DEF n
  <2>4. SessOK'
    BY <2>2, <2>3, SessStep
  <2> QED BY <1>8, <2>4 DEF Reload, tables, observed, TypeInv, TypeOK, SessOK, BusyHasDevice
<1>9. CASE ReloadGone(w)
  BY <1>9, RaiseType DEF ReloadGone
<1>10. CASE Commit(w)
  <2>1. s.cur \in Ids
    BY <1>1, <1>10 DEF Commit
  <2>2. devices' \in [Ids -> Row]
    BY <1>1, <1>10, <2>1, FlushedType DEF Commit, TypeInv, TypeOK
  <2>3. metrics' \subseteq Sample /\ traffic' \subseteq Sample
    BY <1>1, <1>10, <2>1, SampleType DEF Commit, TypeInv, TypeOK
  <2>4. SessOK'
    <3>1. sess' = [sess EXCEPT ![w] = [Finished(w) EXCEPT !.n = w \in Ticks]] /\ (w \in Ticks) \in BOOLEAN
      BY <1>10 DEF Commit
    <3>2. /\ [Finished(w) EXCEPT !.n = w \in Ticks] \in Session
          /\ [Finished(w) EXCEPT !.n = w \in Ticks].pc \in {"idle", "next"}
          /\ ~[Finished(w) EXCEPT !.n = w \in Ticks].pend
          /\ [Finished(w) EXCEPT !.n = w \in Ticks].test => s.test
      BY <3>1, FinishedType DEF TypeInv
    <3> QED BY <3>1, <3>2, SessStep
  <2>5. polls' \in [Runs -> [Ids -> Poll]]
    BY <1>10, PollsType DEF Commit, TypeInv, Outcome
  <2> QED BY <1>10, <2>2, <2>3, <2>4, <2>5 DEF Commit, TypeInv, TypeOK, SessOK, BusyHasDevice
<1>11. CASE CommitFails(w)
  BY <1>11, FailedCommitType DEF CommitFails, CommitConflict
<1> QED BY <1>3, <1>4, <1>5, <1>6, <1>7, <1>8, <1>9, <1>10, <1>11 DEF CollectStep

\* The session of a request that has loaded its device.
LEMMA LoadedType ==
  ASSUME TypeInv, NEW d \in Ids
  PROVE  Loaded(d) \in Session /\ Loaded(d).cur = d /\ ~Loaded(d).test /\ ~Loaded(d).pend
<1> DEFINE rows == IF IsMySQL THEN devices ELSE [NoRows EXCEPT ![d] = devices[d]]
           snap == IF IsMySQL THEN ports ELSE {}
<1>1. rows \in [Ids -> Row] /\ snap \in SUBSET PortRow
  BY BlankTypes DEF TypeInv, TypeOK
<1>2. devices[d].gen \in Gens /\ d \in 0 .. MaxId
  <2>1. devices[d] \in Row
    BY DEF TypeInv, TypeOK
  <2>2. d \in 0 .. MaxId
    BY DEF Ids
  <2> QED BY <2>1, <2>2 DEF Row
<1>3. Loaded(d) = [Idle EXCEPT !.cur = d, !.gen = devices[d].gen, !.open = IsMySQL,
                               !.rows = rows, !.snap = snap]
  BY DEF Loaded
<1> HIDE DEF rows, snap
<1>4. Loaded(d) \in Session /\ Loaded(d).cur = d
  BY <1>1, <1>2, <1>3, BlankTypes DEF Session
<1>5. ~Loaded(d).test /\ ~Loaded(d).pend
  BY <1>3 DEF Idle
<1> QED BY <1>4, <1>5

\* The requests that poll or discover keep the types.
LEMMA RequestType ==
  ASSUME TypeInv, NEW q \in Requests, NEW d \in Ids,
         PollRequest(q, d) \/ DiscoverRequest(q, d) \/ SnmpRequest(q, d)
  PROVE  TypeInv'
<1> USE WorkerTypes
<1>1. Loaded(d) \in Session /\ Loaded(d).cur = d /\ ~Loaded(d).test /\ ~Loaded(d).pend
  BY LoadedType
<1>2. CASE PollRequest(q, d)
  <2> DEFINE n(dirty) == [Loaded(d) EXCEPT !.pc = "walk", !.run = runs + 1,
                                           !.pend = TRUE, !.dirty = dirty]
  <2>1. runs + 1 \in 0 .. MaxRuns
    <3>1. runs \in 0 .. MaxRuns
      BY DEF TypeInv, TypeOK
    <3>2. runs < MaxRuns
      BY <1>2 DEF PollRequest
    <3> QED BY <3>1, <3>2
  <2>2. PICK dirty \in BOOLEAN : sess' = [sess EXCEPT ![q] = n(dirty)]
    BY <1>2 DEF PollRequest
  <2>3. n(dirty) \in Session /\ n(dirty).cur \in Ids /\ ~n(dirty).test
    BY <1>1, <2>1 DEF Session
  <2>4. SessOK'
    <3> HIDE DEF n
    <3> QED BY <2>2, <2>3, SessStep
  <2>5. polls' \in [Runs -> [Ids -> Poll]]
    <3> DEFINE p == [NoPoll EXCEPT !.out = "open", !.gen = devices[d].gen]
    <3>1. polls' = [polls EXCEPT ![runs + 1][d] = p]
      BY <1>2 DEF PollRequest
    <3>2. devices[d].gen \in Gens
      <4>1. devices[d] \in Row
        BY DEF TypeInv, TypeOK
      <4> QED BY <4>1 DEF Row
    <3>3. p \in Poll
      BY <3>2, BlankTypes, PollFields DEF Outcome
    <3> HIDE DEF p
    <3> QED BY <3>1, <3>3, PollUpdateType DEF TypeInv
  <2> QED BY <1>2, <2>1, <2>4, <2>5 DEF PollRequest, tables, TypeInv, TypeOK, SessOK, BusyHasDevice
<1>3. CASE DiscoverRequest(q, d)
  <2> DEFINE n == [Loaded(d) EXCEPT !.pc = "dwalk"]
  <2>1. sess' = [sess EXCEPT ![q] = n]
    BY <1>3 DEF DiscoverRequest
  <2>2. n \in Session /\ n.cur \in Ids /\ ~n.test
    BY <1>1 DEF Session
  <2> HIDE DEF n
  <2>3. SessOK'
    BY <2>1, <2>2, SessStep
  <2> QED BY <1>3, <2>3 DEF DiscoverRequest, tables, observed, TypeInv, TypeOK, SessOK, BusyHasDevice
<1>4. CASE SnmpRequest(q, d)
  <2> DEFINE n == [Loaded(d) EXCEPT !.pc = "tell", !.run = runs + 1]
             p == [NoPoll EXCEPT !.out = "open", !.gen = devices[d].gen]
  <2>1. runs + 1 \in 0 .. MaxRuns
    BY <1>4 DEF SnmpRequest, TypeInv, TypeOK
  <2>2. sess' = [sess EXCEPT ![q] = n] /\ polls' = [polls EXCEPT ![runs + 1][d] = p]
    BY <1>4 DEF SnmpRequest
  <2>3. n \in Session /\ n.cur \in Ids /\ ~n.test
    BY <1>1, <2>1 DEF Session
  <2>4. p \in Poll
    <3>1. devices[d].gen \in Gens
      <4>1. devices[d] \in Row
        BY DEF TypeInv, TypeOK
      <4> QED BY <4>1 DEF Row
    <3> QED BY <3>1, BlankTypes, PollFields DEF Outcome
  <2> HIDE DEF n, p
  <2>5. SessOK'
    BY <2>2, <2>3, SessStep
  <2>6. polls' \in [Runs -> [Ids -> Poll]]
    BY <2>2, <2>4, PollUpdateType DEF TypeInv
  <2> QED BY <1>4, <2>1, <2>5, <2>6 DEF SnmpRequest, tables, TypeInv, TypeOK, SessOK, BusyHasDevice
<1> QED BY <1>2, <1>3, <1>4

\* The request of a connectivity test keeps the types.
LEMMA TestRequestType ==
  ASSUME TypeInv, NEW q \in Requests, NEW chosen \in SUBSET Ids, TestRequest(q, chosen)
  PROVE  TypeInv'
<1> DEFINE rows == [d \in Ids |-> IF IsMySQL \/ d \in chosen THEN devices[d] ELSE Blank]
           snap == IF IsMySQL THEN ports ELSE {}
           s == [Idle EXCEPT !.pc = "next", !.run = runs + 1, !.todo = chosen, !.test = TRUE,
                             !.open = IsMySQL, !.rows = rows, !.snap = snap]
           p == [d \in Ids |-> IF d \in chosen THEN [NoPoll EXCEPT !.out = "queued"] ELSE NoPoll]
<1>1. runs + 1 \in 0 .. MaxRuns
  BY DEF TestRequest, TypeInv, TypeOK
<1>2. rows \in [Ids -> Row] /\ snap \in SUBSET PortRow
  BY BlankTypes DEF TypeInv, TypeOK
<1>3. SessOK'
  <2>1. sess' = [sess EXCEPT ![q] = s]
    BY DEF TestRequest
  <2> HIDE DEF rows, snap
  <2>2. s \in Session /\ s.pc = "next" /\ ~s.pend
    BY <1>1, <1>2, BlankTypes DEF Idle, Session
  <2> HIDE DEF s
  <2> QED BY <2>1, <2>2, SessType, WorkerTypes, WorkersAssumption
<1>4. polls' \in [Runs -> [Ids -> Poll]]
  <2>1. [NoPoll EXCEPT !.out = "queued"] \in Poll
    BY BlankTypes DEF Poll, Outcome
  <2>2. p \in [Ids -> Poll]
    BY <2>1, BlankTypes
  <2>3. polls' = [polls EXCEPT ![runs + 1] = p]
    BY DEF TestRequest
  <2> HIDE DEF p
  <2> QED BY <2>2, <2>3 DEF TypeInv, TypeOK
<1>5. UNCHANGED <<devices, created, edits, ports, metrics, traffic, last, disturbed, asked>>
      /\ runs' = runs + 1
  BY DEF TestRequest, tables
<1> HIDE DEF rows, snap, s, p
<1> QED BY <1>1, <1>3, <1>4, <1>5 DEF TypeInv, TypeOK, SessOK, BusyHasDevice

\* The steps of a connectivity test, and of a poll it asks for, keep the types.
LEMMA TestStepType ==
  ASSUME TypeInv, NEW q \in Requests, TestStep(q)
  PROVE  TypeInv'
<1> USE WorkerTypes
<1> DEFINE s0 == sess[q]
           s == Refreshed(s0, s0.cur)
<1>1. s0 \in Session /\ (s0.pc \notin {"idle", "next"} \/ s0.pend => s0.cur \in Ids)
  BY DEF TypeInv, TypeOK, BusyHasDevice
<1>2. ASSUME s0.pc \notin {"idle", "next"}
      PROVE  /\ s \in Session /\ s.cur = s0.cur /\ s.cur \in Ids /\ s.rows[s.cur].gen \in Gens
             /\ s.pc = s0.pc /\ s.test = s0.test /\ s.pend = s0.pend /\ s.run = s0.run
             /\ s.run \in Runs => polls[s.run][s.cur] \in Poll
  <2>1. /\ s \in Session /\ s.cur = s0.cur /\ s.cur \in Ids
        /\ s.pc = s0.pc /\ s.test = s0.test /\ s.pend = s0.pend /\ s.run = s0.run
    BY <1>1, <1>2, RefreshedType DEF TypeInv
  <2> HIDE DEF s
  <2>2. s.rows[s.cur].gen \in Gens
    BY <2>1 DEF Session, Row
  <2> QED BY <2>1, <2>2 DEF TypeInv, TypeOK
<1>3. ASSUME NEW d \in Ids, StartTest(q, d) PROVE TypeInv'
  <2> DEFINE r == Refreshed(s0, d)
             n == [Expired(r) EXCEPT !.pc = "play", !.cur = d, !.todo = @ \ {d}, !.gen = r.rows[d].gen]
  <2>1. /\ r \in Session /\ r.test = s0.test /\ r.pend = s0.pend /\ r.cur = s0.cur
        /\ r.run = s0.run
    BY <1>1, RefreshedType DEF TypeInv
  <2>2. /\ metrics' = IF r.pend THEN WithSample(metrics, r) ELSE metrics
        /\ sess' = [sess EXCEPT ![q] = n]
        /\ polls' = [polls EXCEPT ![r.run][d] = [@ EXCEPT !.out = "open", !.gen = r.rows[d].gen]]
        /\ UNCHANGED <<devices, created, edits, ports, traffic, runs, last, disturbed, asked>>
    BY <1>3 DEF StartTest
  <2> HIDE DEF r
  <2>3. r.rows[d].gen \in Gens /\ r.todo \ {d} \in SUBSET Ids /\ d \in 0 .. MaxId
    <3>1. r.rows[d] \in Row /\ r.todo \in SUBSET Ids
      BY <2>1 DEF Session
    <3>2. d \in 0 .. MaxId
      BY DEF Ids
    <3>3. r.rows[d].gen \in Gens
      BY <3>1 DEF Row
    <3> QED BY <3>1, <3>2, <3>3
  <2>4. Expired(r) \in Session /\ Expired(r).test = r.test /\ Expired(r).todo = r.todo
    BY <2>1, BlankTypes DEF Expired, Session
  <2>5. n \in Session /\ n.cur = d /\ n.test = r.test
    BY <2>3, <2>4 DEF Session
  <2>6. SessOK'
    <3> HIDE DEF n
    <3> QED BY <2>1, <2>2, <2>5, SessStep
  <2>7. metrics' \subseteq Sample
    BY <1>1, <2>1, <2>2, SampleType DEF TypeInv, TypeOK
  <2>8. r.run \in Runs => [polls[r.run][d] EXCEPT !.out = "open", !.gen = r.rows[d].gen] \in Poll
    <3>1. r.run \in Runs => polls[r.run][d] \in Poll
      BY DEF TypeInv, TypeOK
    <3> QED BY <2>3, <3>1, PollFields DEF Outcome
  <2>9. polls' \in [Runs -> [Ids -> Poll]]
    BY <2>2, <2>8, PollUpdateType DEF TypeInv
  <2> QED BY <2>2, <2>6, <2>7, <2>9 DEF TypeInv, TypeOK, SessOK, BusyHasDevice
<1>4. ASSUME NEW out \in Outcome, s0.pc \notin {"idle", "next"},
             sess' = [sess EXCEPT ![q] = Left(s)],
             polls' = [polls EXCEPT ![s.run][s.cur].out = out],
             UNCHANGED <<tables, runs, last, disturbed, asked>>
      PROVE  TypeInv'
  <2> HIDE DEF s
  <2>1. SessOK'
    BY <1>1, <1>2, <1>4, LeftType, SessStep
  <2>2. s.run \in Runs => [polls[s.run][s.cur] EXCEPT !.out = out] \in Poll
    BY <1>2, <1>4, PollFields
  <2>3. polls' = [polls EXCEPT ![s.run][s.cur] = [@ EXCEPT !.out = out]]
    BY <1>4
  <2>4. polls' \in [Runs -> [Ids -> Poll]]
    BY <1>2, <1>4, <2>2, <2>3, PollUpdateType DEF TypeInv
  <2> QED BY <1>4, <2>1, <2>4 DEF TypeInv, TypeOK, SessOK, BusyHasDevice, tables
<1>5. CASE PlayedOut(q) \/ ToldOnly(q)
  BY <1>4, <1>5 DEF PlayedOut, ToldOnly, Outcome
<1>6. CASE Played(q) \/ Told(q)
  <2>1. PICK n \in Session : /\ sess' = [sess EXCEPT ![q] = n]
                             /\ n.cur = s0.cur /\ n.test = s0.test /\ n.pc \in {"tell", "dwalk"}
    <3>1. CASE Played(q)
      <4>1. s0.pc = "play" /\ sess' = [sess EXCEPT ![q] = [s EXCEPT !.pc = "tell"]]
        BY <3>1 DEF Played
      <4> HIDE DEF s
      <4>2. /\ [s EXCEPT !.pc = "tell"] \in Session /\ [s EXCEPT !.pc = "tell"].cur = s.cur
            /\ [s EXCEPT !.pc = "tell"].test = s.test /\ [s EXCEPT !.pc = "tell"].pc = "tell"
        BY <1>2, <4>1 DEF Session
      <4> QED BY <1>2, <4>1, <4>2
    <3>2. CASE Told(q)
      <4>1. /\ s0.pc = "told"
            /\ sess' = [sess EXCEPT ![q] = [s EXCEPT !.pc = "dwalk", !.gen = s.rows[s.cur].gen]]
        BY <3>2 DEF Told
      <4> DEFINE n == [s EXCEPT !.pc = "dwalk", !.gen = s.rows[s.cur].gen]
      <4> HIDE DEF s
      <4>2. n \in Session /\ n.cur = s.cur /\ n.test = s.test /\ n.pc = "dwalk"
        BY <1>2, <4>1 DEF Session
      <4> HIDE DEF n
      <4> QED BY <1>2, <4>1, <4>2 DEF n
    <3> QED BY <1>6, <3>1, <3>2
  <2>2. s0.cur \in Ids /\ UNCHANGED <<tables, runs, observed>>
    BY <1>1, <1>6 DEF Played, Told
  <2>3. SessOK'
    BY <2>1, <2>2, SessStep
  <2> QED BY <2>2, <2>3 DEF tables, observed, TypeInv, TypeOK, SessOK, BusyHasDevice
<1>7. CASE TestGone(q)
  BY <1>7, AbortOnlyType, RaiseType DEF TestGone
<1>8. CASE Tell(q)
  <2>1. PICK status \in {"success", "failed"} :
          /\ devices' = [devices EXCEPT ![s0.cur] = Flushed(@, s0, status)]
          /\ polls' = Publish(s0.run, s0.cur, "open", status)
    BY <1>8 DEF Tell
  <2>2. /\ s0.cur \in Ids
        /\ sess' = [sess EXCEPT ![q] = [Expired(s0) EXCEPT !.pc = "told"]]
        /\ UNCHANGED <<created, edits, ports, metrics, traffic, runs, last, disturbed, asked>>
    BY <1>1, <1>8 DEF Tell
  <2>3. devices' \in [Ids -> Row]
    BY <1>1, <2>1, <2>2, FlushedType DEF TypeInv, TypeOK
  <2>4. polls' \in [Runs -> [Ids -> Poll]]
    BY <2>1, PollsType DEF TypeInv, Outcome
  <2>5. /\ [Expired(s0) EXCEPT !.pc = "told"] \in Session
        /\ [Expired(s0) EXCEPT !.pc = "told"].cur = s0.cur
        /\ [Expired(s0) EXCEPT !.pc = "told"].test = s0.test
    BY <1>1, BlankTypes DEF Expired, Session
  <2>6. SessOK'
    BY <2>2, <2>5, SessStep
  <2> QED BY <2>2, <2>3, <2>4, <2>6 DEF TypeInv, TypeOK, SessOK, BusyHasDevice
<1>9. CASE TestFails(q)
  BY <1>9, FailedCommitType DEF TestFails, StartConflict
<1>10. CASE Collect(q)
  <2>1. PICK dirty \in BOOLEAN :
          sess' = [sess EXCEPT ![q] =
            [s EXCEPT !.pc = "walk", !.gen = s.rows[s.cur].gen, !.pend = TRUE, !.dirty = dirty]]
    BY <1>10 DEF Collect
  <2>2. /\ s0.pc = "collect" /\ UNCHANGED <<tables, runs, last, disturbed, asked>>
        /\ polls' = [polls EXCEPT ![s.run][s.cur] = [@ EXCEPT !.gen = s.rows[s.cur].gen]]
    BY <1>10 DEF Collect
  <2> DEFINE n == [s EXCEPT !.pc = "walk", !.gen = s.rows[s.cur].gen, !.pend = TRUE, !.dirty = dirty]
  <2> HIDE DEF s
  <2>3. n \in Session /\ n.cur = s.cur /\ n.test = s.test
    BY <1>2, <2>2 DEF Session
  <2> HIDE DEF n
  <2>4. SessOK'
    BY <1>2, <2>1, <2>2, <2>3, SessStep DEF n
  <2>5. s.run \in Runs => [polls[s.run][s.cur] EXCEPT !.gen = s.rows[s.cur].gen] \in Poll
    BY <1>2, <2>2, PollFields
  <2>6. polls' \in [Runs -> [Ids -> Poll]]
    BY <1>2, <2>2, <2>5, PollUpdateType DEF TypeInv
  <2> QED BY <2>2, <2>4, <2>6 DEF tables, TypeInv, TypeOK, SessOK, BusyHasDevice
<1> QED BY <1>3, <1>5, <1>6, <1>7, <1>8, <1>9, <1>10 DEF TestStep

\* The requests that create, edit and delete devices, and a restart, keep the types.
LEMMA AdminType ==
  ASSUME TypeInv, AdminStep \/ Restart
  PROVE  TypeInv'
<1>1. CASE Create
  <2>1. PICK mon \in BOOLEAN, snmp \in BOOLEAN :
          /\ devices' = [devices EXCEPT ![NextId] =
                           [Blank EXCEPT !.gen = created + 1, !.mon = mon, !.snmp = snmp]]
          /\ asked' = [asked EXCEPT ![NextId] = snmp]
    BY <1>1 DEF Create
  <2>2. created + 1 \in Gens
    BY <1>1 DEF Create, TypeInv, TypeOK, Gens
  <2>3. [Blank EXCEPT !.gen = created + 1, !.mon = mon, !.snmp = snmp] \in Row
    BY <2>2, BlankTypes DEF Row
  <2>4. devices' \in [Ids -> Row] /\ asked' \in [Ids -> BOOLEAN]
    BY <2>1, <2>3 DEF TypeInv, TypeOK
  <2> QED BY <1>1, <2>2, <2>4 DEF Create, TypeInv, TypeOK, BusyHasDevice
<1>2. ASSUME NEW d \in Ids, Patch(d) PROVE TypeInv'
  <2>1. PICK mon \in BOOLEAN, snmp \in BOOLEAN :
          /\ devices' = [devices EXCEPT ![d].mon = mon, ![d].snmp = snmp]
          /\ asked' = [asked EXCEPT ![d] = snmp]
    BY <1>2 DEF Patch
  <2>2. devices' \in [Ids -> Row] /\ asked' \in [Ids -> BOOLEAN]
    BY <2>1 DEF TypeInv, TypeOK, Row
  <2>3. edits' \in 0 .. MaxEdits
    BY <1>2 DEF Patch, TypeInv, TypeOK
  <2> QED BY <1>2, <2>2, <2>3 DEF Patch, TypeInv, TypeOK, BusyHasDevice
<1>3. ASSUME NEW d \in Ids, Delete(d) PROVE TypeInv'
  <2>1. devices' \in [Ids -> Row]
    BY <1>3, BlankTypes DEF Delete, TypeInv, TypeOK
  <2>2. ports' \subseteq PortRow /\ metrics' \subseteq Sample /\ traffic' \subseteq Sample
    BY <1>3 DEF Delete, TypeInv, TypeOK
  <2>3. polls' \in [Runs -> [Ids -> Poll]]
    BY <1>3, PollsType DEF Delete, TypeInv, Outcome
  <2>4. disturbed' \in [Ticks -> BOOLEAN]
    BY <1>3, DisturbType DEF Delete, TypeInv
  <2>5. edits' \in 0 .. MaxEdits
    <3>1. edits < MaxEdits /\ edits' = edits + 1 /\ edits \in 0 .. MaxEdits
      BY <1>3 DEF Delete, TypeInv, TypeOK
    <3> QED BY <3>1
  <2> QED BY <1>3, <2>1, <2>2, <2>3, <2>4, <2>5 DEF Delete, TypeInv, TypeOK, BusyHasDevice
<1>4. CASE Restart
  <2>1. SessOK'
    BY <1>4, BlankTypes, WorkerTypes DEF Restart, SessOK, BusyHasDevice, Idle
  <2>2. polls' \in [Runs -> [Ids -> Poll]]
    <3>1. ASSUME NEW r \in Runs, NEW d \in Ids
          PROVE  polls[r][d] \in Poll /\ [polls[r][d] EXCEPT !.out = "lost"] \in Poll
      <4>1. polls[r][d] \in Poll
        BY DEF TypeInv, TypeOK
      <4> QED BY <4>1, PollFields DEF Outcome
    <3> QED BY <1>4, <3>1 DEF Restart
  <2> QED BY <1>4, <2>1, <2>2 DEF Restart, tables, TypeInv, TypeOK, SessOK, BusyHasDevice
<1> QED BY <1>1, <1>2, <1>3, <1>4 DEF AdminStep

\* Every variable keeps its type: the tables hold rows, each session is one of the
\* states of the code, and a worker inside a poll has a device.
THEOREM TypeCorrect == Spec => []TypeInv
<1>1. Init => TypeInv
  BY BlankTypes, WorkerTypes DEF Init, TypeInv, TypeOK, BusyHasDevice, Idle, Gens, Runs
<1>2. TypeInv /\ [Next]_vars => TypeInv'
  <2> SUFFICES ASSUME TypeInv, [Next]_vars PROVE TypeInv'
    OBVIOUS
  <2>1. ASSUME NEW t \in Ticks, TickStart(t) \/ TickStep(t) PROVE TypeInv'
    BY <2>1, TickStartType, TickStepType
  <2>2. ASSUME NEW q \in Requests, NEW d \in Ids, PollRequest(q, d) \/ DiscoverRequest(q, d) \/ SnmpRequest(q, d)
        PROVE  TypeInv'
    BY <2>2, RequestType
  <2>3. ASSUME NEW w \in Workers, CollectStep(w) PROVE TypeInv'
    BY <2>3, CollectStepType
  <2>4. CASE AdminStep \/ Restart
    BY <2>4, AdminType
  <2>5. ASSUME NEW q \in Requests, TestStep(q) PROVE TypeInv'
    BY <2>5, TestStepType
  <2>6. ASSUME NEW q \in Requests, NEW chosen \in SUBSET Ids, TestRequest(q, chosen) PROVE TypeInv'
    BY <2>6, TestRequestType
  <2>7. CASE UNCHANGED vars
    BY <2>7 DEF vars, tables, observed, TypeInv, TypeOK, BusyHasDevice
  <2> QED BY <2>1, <2>2, <2>3, <2>4, <2>5, <2>6, <2>7 DEF Next
<1> QED BY <1>1, <1>2, PTL DEF Spec

\* Every variable has its type in every reachable state.
THEOREM Typed == Spec => []TypeOK
<1>1. TypeInv => TypeOK
  BY DEF TypeInv
<1> QED BY <1>1, TypeCorrect, PTL

-----------------------------------------------------------------------------
\* Only a change of its own devices cuts a tick short

\* What a tick can rely on while none of its devices was deleted or discovered by
\* others: they exist, a snapshot shows them and their ports as they are, and the
\* ports it is about to update or to complete are those in the table.
Reliable(t) ==
  LET s == sess[t]
  IN ~disturbed[t] /\ s.pc # "idle" =>
       /\ \A d \in Ids : Concerns(s, d) =>
            /\ devices[d].gen # 0
            /\ s.open => s.rows[d].gen # 0 /\ Keys(s.snap, d) = Keys(ports, d)
       /\ s.pc \in {"dcommit", "commit"} => s.known = Keys(ports, s.cur)

CrashInv == TypeInv /\ CrashOnlyIfDisturbed /\ \A t \in Ticks : Reliable(t)

\* A step that leaves a tick's session alone, and deletes or discovers one of its
\* devices only by disturbing it, keeps what it relies on.
LEMMA ReliableFrame ==
  ASSUME TypeInv, NEW t \in Ticks, Reliable(t),
         sess'[t] = sess[t],
         disturbed[t] => disturbed'[t],
         \A d \in Ids : Concerns(sess[t], d) /\ ~disturbed'[t] /\ devices[d].gen # 0 =>
                          devices'[d].gen # 0 /\ Keys(ports', d) = Keys(ports, d)
  PROVE  Reliable(t)'
<1> DEFINE s == sess[t]
<1> SUFFICES ASSUME ~disturbed'[t], s.pc # "idle"
             PROVE  /\ \A d \in Ids : Concerns(s, d) =>
                         /\ devices'[d].gen # 0
                         /\ s.open => s.rows[d].gen # 0 /\ Keys(s.snap, d) = Keys(ports', d)
                    /\ s.pc \in {"dcommit", "commit"} => s.known = Keys(ports', s.cur)
  BY DEF Reliable, Concerns, Keys
<1>1. /\ \A d \in Ids : Concerns(s, d) =>
           /\ devices[d].gen # 0
           /\ s.open => s.rows[d].gen # 0 /\ Keys(s.snap, d) = Keys(ports, d)
      /\ s.pc \in {"dcommit", "commit"} => s.known = Keys(ports, s.cur)
  BY DEF Reliable
<1>2. s.pc \in {"dcommit", "commit"} => s.cur \in Ids /\ Concerns(s, s.cur)
  BY WorkerTypes DEF TypeInv, BusyHasDevice, Concerns
<1> QED BY <1>1, <1>2

\* The same for a step that keeps the devices in place and the ports.
LEMMA ReliableKept ==
  ASSUME TypeInv, NEW t \in Ticks, Reliable(t),
         sess'[t] = sess[t],
         disturbed[t] => disturbed'[t],
         \A d \in Ids : devices[d].gen # 0 => devices'[d].gen # 0,
         ports' = ports
  PROVE  Reliable(t)'
BY ReliableFrame DEF Keys

\* An exception in a worker keeps the other sessions reliable.
LEMMA AbortReliable ==
  ASSUME TypeInv, \A t \in Ticks : Reliable(t), NEW w \in Workers, Abort(w),
         UNCHANGED <<devices, ports>>,
         \A t \in Ticks : disturbed[t] => disturbed'[t]
  PROVE  \A t \in Ticks : Reliable(t)'
<1> SUFFICES ASSUME NEW t \in Ticks PROVE Reliable(t)'
  OBVIOUS
<1>1. CASE t = w
  BY <1>1 DEF Abort, Reliable, Idle, TypeInv, TypeOK
<1>2. CASE t # w
  <2>1. sess'[t] = sess[t]
    BY <1>2, WorkerTypes DEF Abort, TypeInv, TypeOK
  <2> QED BY <2>1, ReliableKept
<1> QED BY <1>1, <1>2

\* Reading a row again: what the session then holds of a live device.
LEMMA RefreshedReliable ==
  ASSUME TypeInv, NEW s \in Session, NEW d \in Ids, devices[d].gen # 0,
         s.open => s.rows[d].gen # 0
  PROVE  /\ Refreshed(s, d).rows[d].gen # 0
         /\ \A e \in Ids : 
              /\ devices[e].gen # 0
              /\ s.open => s.rows[e].gen # 0 /\ Keys(s.snap, e) = Keys(ports, e)
              /\ Refreshed(s, d).open
              => /\ Refreshed(s, d).rows[e].gen # 0
                 /\ Keys(Refreshed(s, d).snap, e) = Keys(ports, e)
BY DEF Refreshed, Session, TypeInv, TypeOK

CrashParts == CrashOnlyIfDisturbed /\ \A t \in Ticks : Reliable(t)

\* An abort whose worker, if it is a tick, was disturbed.
LEMMA AbortCrash ==
  ASSUME CrashInv, NEW w \in Workers, Abort(w), UNCHANGED <<devices, ports>>,
         \A t \in Ticks : disturbed[t] => disturbed'[t],
         w \in Ticks => disturbed'[w]
  PROVE  CrashParts'
<1>1. \A t \in Ticks : Reliable(t)'
  BY AbortReliable DEF CrashInv
<1>2. CrashOnlyIfDisturbed'
  BY DEF CrashInv, CrashOnlyIfDisturbed, Abort
<1> QED BY <1>1, <1>2 DEF CrashParts

\* A failed commit: a conflict is the doing of somebody who disturbed the tick.
LEMMA FailedCommitCrash ==
  ASSUME CrashInv, NEW w \in Workers, NEW conflict \in BOOLEAN, FailedCommit(w, conflict),
         w \in Ticks /\ conflict => disturbed[w]
  PROVE  CrashParts'
<1>1. \A t \in Ticks : disturbed'[t] = (disturbed[t] \/ (t = w /\ ~conflict))
  BY Zenon DEF FailedCommit
<1>2. Abort(w) /\ UNCHANGED <<devices, ports>>
  BY DEF FailedCommit, tables
<1> QED BY <1>1, <1>2, AbortCrash

\* A tick starts with copies of live devices, none of them disturbed.
LEMMA TickStartCrash ==
  ASSUME CrashInv, NEW t \in Ticks, TickStart(t)
  PROVE  CrashParts'
<1> USE WorkerTypes
<1>1. CrashOnlyIfDisturbed'
  BY DEF CrashInv, CrashOnlyIfDisturbed, TickStart, TypeInv, TypeOK
<1>2. ASSUME NEW u \in Ticks PROVE Reliable(u)'
  <2>1. CASE u = t
    <3> DEFINE chosen == {d \in Live : devices[d].mon /\ devices[d].snmp}
               rows == [d \in Ids |-> IF IsMySQL \/ d \in chosen THEN devices[d] ELSE Blank]
               snap == IF IsMySQL THEN ports ELSE {}
               s == sess'[t]
    <3>1. s = [Idle EXCEPT !.pc = "next", !.run = runs + 1, !.todo = chosen,
                           !.open = IsMySQL, !.rows = rows, !.snap = snap]
      BY DEF TickStart, CrashInv, TypeInv, TypeOK
    <3>2. s.pc = "next" /\ s.cur = 0 /\ s.todo = chosen /\ s.open = IsMySQL
          /\ s.rows = rows /\ s.snap = snap
      <4> HIDE DEF chosen, rows, snap, s
      <4> QED BY <3>1 DEF Idle
    <3>3. UNCHANGED <<devices, ports>>
      BY DEF TickStart, tables
    <3>4. \A d \in Ids : Concerns(s, d) => d \in chosen
      BY <3>2 DEF Concerns, Ids
    <3>5. \A d \in chosen : devices[d].gen # 0
      BY DEF Live
    <3> QED BY <2>1, <3>2, <3>3, <3>4, <3>5 DEF Reliable, Concerns, Keys
  <2>2. CASE u # t
    <3>1. sess'[u] = sess[u] /\ disturbed'[u] = disturbed[u]
      BY <2>2 DEF TickStart, CrashInv, TypeInv, TypeOK
    <3> QED BY <3>1, ReliableKept DEF TickStart, tables, CrashInv
  <2> QED BY <2>1, <2>2
<1> QED BY <1>1, <1>2 DEF CrashParts

\* A step of one worker that keeps devices, ports and disturbances: only its own
\* session matters.
LEMMA OwnStepCrash ==
  ASSUME CrashInv, NEW w \in Workers, NEW s,
         sess' = [sess EXCEPT ![w] = s],
         \A d \in Ids : devices[d].gen # 0 => devices'[d].gen # 0,
         UNCHANGED <<ports, disturbed>>,
         \A t \in Ticks : last'[t].how = "crashed" => last[t].how = "crashed",
         w \in Ticks => Reliable(w)'
  PROVE  CrashParts'
<1>1. CrashOnlyIfDisturbed'
  BY DEF CrashInv, CrashOnlyIfDisturbed
<1>2. ASSUME NEW u \in Ticks, u # w PROVE Reliable(u)'
  <2>1. sess'[u] = sess[u]
    BY <1>2, WorkerTypes DEF CrashInv, TypeInv, TypeOK
  <2> QED BY <2>1, ReliableKept DEF CrashInv
<1> QED BY <1>1, <1>2 DEF CrashParts

\* A tick between two devices, or idle, relies on nothing but the devices ahead.
LEMMA NextReliable ==
  ASSUME CrashInv, NEW t \in Ticks, NEW n \in {Finished(t), [Finished(t) EXCEPT !.n = TRUE]},
         sess' = [sess EXCEPT ![t] = n],
         \A d \in Ids : devices[d].gen # 0 => devices'[d].gen # 0,
         UNCHANGED disturbed, sess[t].pc # "idle"
  PROVE  Reliable(t)'
<1>1. n.cur = 0 /\ n.todo = sess[t].todo /\ n.open = FALSE /\ n.pc = "next"
  BY FinishedFields, WorkerTypes DEF CrashInv, TypeInv
<1>2. sess'[t] = n
  BY WorkerTypes DEF CrashInv, TypeInv, TypeOK
<1>3. \A d \in Ids : Concerns(sess'[t], d) => Concerns(sess[t], d)
  BY <1>1, <1>2 DEF Concerns, Ids
<1> QED BY <1>1, <1>2, <1>3 DEF CrashInv, Reliable, Concerns

\* An exception in a poll: that of a tick is the doing of somebody who disturbed it.
LEMMA RaiseCrash ==
  ASSUME CrashInv, NEW w \in Workers, Raise(w), UNCHANGED <<devices, ports, disturbed>>,
         w \in Ticks => disturbed[w]
  PROVE  CrashParts'
<1>1. CASE sess[w].test
  <2>1. w \notin Ticks
    BY <1>1 DEF CrashInv, TypeInv, BusyHasDevice
  <2>2. sess' = [sess EXCEPT ![w] = Left(sess[w])] /\ UNCHANGED last
    BY <1>1 DEF Raise
  <2> QED BY <2>1, <2>2, OwnStepCrash
<1>2. CASE ~sess[w].test
  BY <1>2, AbortCrash DEF Raise
<1> QED BY <1>1, <1>2

\* A flush of the status never changes which device a row is.
LEMMA FlushedGen ==
  ASSUME TypeInv, NEW d \in Ids, NEW s, NEW status
  PROVE  Flushed(devices[d], s, status).gen = devices[d].gen
BY DEF Flushed, TypeInv, TypeOK, Row

\* The steps of the loop crash only when a device was disturbed.
LEMMA TickStepCrash ==
  ASSUME CrashInv, NEW t \in Ticks, TickStep(t)
  PROVE  CrashParts'
<1> USE WorkerTypes
<1>s. sess[t] \in Session /\ Reliable(t) /\ TypeInv
  BY DEF CrashInv, TypeInv, TypeOK
<1>1. ASSUME NEW d \in Ids, Begin(t, d) \/ Skip(t, d) PROVE CrashParts'
  <2> DEFINE s == Refreshed(sess[t], d)
  <2>1. /\ s \in Session /\ s.pc = sess[t].pc /\ s.todo = sess[t].todo
        /\ s.cur = sess[t].cur
    BY <1>s, RefreshedType DEF TypeInv
  <2>2. PICK n : /\ sess' = [sess EXCEPT ![t] = n]
                 /\ n.todo = s.todo \ {d} /\ n.open = s.open
                 /\ n.rows = s.rows /\ n.snap = s.snap
                 /\ n.cur \in {d, s.cur} /\ n.pc \in {"next", "walk"}
    <3>1. CASE Begin(t, d)
      <4>1. PICK dirty \in BOOLEAN :
              sess' = [sess EXCEPT ![t] =
                [s EXCEPT !.pc = "walk", !.cur = d, !.todo = @ \ {d}, !.gen = s.rows[d].gen,
                          !.pend = TRUE, !.dirty = dirty]]
        BY <3>1 DEF Begin
      <4> DEFINE n == [s EXCEPT !.pc = "walk", !.cur = d, !.todo = @ \ {d}, !.gen = s.rows[d].gen,
                                !.pend = TRUE, !.dirty = dirty]
      <4> HIDE DEF s
      <4>2. /\ n.todo = s.todo \ {d} /\ n.open = s.open
            /\ n.rows = s.rows /\ n.snap = s.snap
            /\ n.cur = d /\ n.pc = "walk"
        BY <2>1 DEF Session
      <4> HIDE DEF n
      <4>3. sess' = [sess EXCEPT ![t] = n]
        BY <4>1 DEF n
      <4> QED BY <4>2, <4>3
    <3>2. CASE Skip(t, d)
      <4>1. sess' = [sess EXCEPT ![t] = [s EXCEPT !.todo = @ \ {d}, !.n = TRUE]] /\ s.pc = "next"
        BY <2>1, <3>2 DEF Skip
      <4> DEFINE n == [s EXCEPT !.todo = @ \ {d}, !.n = TRUE]
      <4> HIDE DEF s
      <4>2. /\ n.todo = s.todo \ {d} /\ n.open = s.open
            /\ n.rows = s.rows /\ n.snap = s.snap
            /\ n.cur = s.cur /\ n.pc = "next"
        BY <2>1, <4>1 DEF Session
      <4> HIDE DEF n
      <4>3. sess' = [sess EXCEPT ![t] = n]
        BY <4>1 DEF n
      <4> QED BY <4>2, <4>3
    <3> QED BY <1>1, <3>1, <3>2
  <2>3. d \in sess[t].todo /\ sess[t].pc = "next"
    BY <1>1 DEF Begin, Skip
  <2>4. UNCHANGED <<devices, ports, disturbed, last>>
    BY <1>1 DEF Begin, Skip, tables
  <2>5. Reliable(t)'
    <3>1. sess'[t] = n
      BY <2>2 DEF TypeInv, TypeOK, CrashInv
    <3> SUFFICES ASSUME ~disturbed[t]
                 PROVE  \A e \in Ids : Concerns(n, e) =>
                          /\ devices[e].gen # 0
                          /\ n.open => n.rows[e].gen # 0 /\ Keys(n.snap, e) = Keys(ports, e)
      BY <2>2, <2>4, <3>1 DEF Reliable, Concerns, Keys
    <3>2. \A e \in Ids : Concerns(n, e) => Concerns(sess[t], e)
      BY <2>1, <2>2, <2>3 DEF Concerns
    <3>3. \A e \in Ids : Concerns(sess[t], e) =>
            /\ devices[e].gen # 0
            /\ sess[t].open => sess[t].rows[e].gen # 0 /\ Keys(sess[t].snap, e) = Keys(ports, e)
      BY <1>s, <2>3 DEF Reliable
    <3>4. Concerns(sess[t], d)
      BY <2>3 DEF Concerns
    <3>5. \A e \in Ids : Concerns(sess[t], e) /\ s.open =>
            s.rows[e].gen # 0 /\ Keys(s.snap, e) = Keys(ports, e)
      BY <1>s, <3>3, <3>4, RefreshedReliable
    <3> HIDE DEF s
    <3> QED BY <2>2, <3>2, <3>3, <3>5
  <2> QED BY <2>2, <2>4, <2>5, OwnStepCrash
<1>2. ASSUME NEW d \in Ids, BeginGone(t, d) PROVE CrashParts'
  <2>1. disturbed[t]
    <3> SUFFICES ASSUME ~disturbed[t] PROVE FALSE
      OBVIOUS
    <3>1. d \in sess[t].todo /\ sess[t].pc = "next" /\ Refreshed(sess[t], d).rows[d].gen = 0
      BY <1>2 DEF BeginGone
    <3>2. devices[d].gen # 0 /\ (sess[t].open => sess[t].rows[d].gen # 0)
      BY <1>s, <3>1 DEF Reliable, Concerns
    <3> QED BY <1>s, <3>1, <3>2, RefreshedReliable
  <2> QED BY <1>2, <2>1, AbortCrash DEF BeginGone, tables
<1>3. CASE Except(t)
  <2>1. \A d \in Ids : devices[d].gen # 0 => devices'[d].gen # 0
    BY <1>3, <1>s, FlushedGen DEF Except, TypeInv, TypeOK, Live
  <2>2. Reliable(t)'
    BY <1>3, <2>1, NextReliable DEF Except
  <2> QED BY <1>3, <2>1, <2>2, OwnStepCrash DEF Except
<1>4. CASE ExceptFails(t)
  <2>1. sess[t].cur \notin Live => disturbed[t]
    BY <1>4, <1>s DEF ExceptFails, Reliable, Concerns, Live, TypeInv, BusyHasDevice
  <2> QED BY <1>4, <2>1, FailedCommitCrash DEF ExceptFails
<1>5. CASE TickEnd(t)
  <2>1. sess'[t].pc = "idle"
    BY <1>5, <1>s DEF TickEnd, Idle, TypeInv, TypeOK
  <2>2. Reliable(t)'
    BY <2>1 DEF Reliable
  <2>3. \A u \in Ticks : last'[u].how = "crashed" => last[u].how = "crashed"
    BY <1>5, <1>s DEF TickEnd, TypeInv, TypeOK
  <2> QED BY <1>5, <2>2, <2>3, OwnStepCrash DEF TickEnd, tables
<1>6. CASE PruneFails(t)
  BY <1>6, FailedCommitCrash DEF PruneFails
<1> QED BY <1>1, <1>2, <1>3, <1>4, <1>5, <1>6 DEF TickStep

\* So do the steps of collect_device_metrics and discover_ports.
LEMMA CollectStepCrash ==
  ASSUME CrashInv, NEW w \in Workers, CollectStep(w)
  PROVE  CrashParts'
<1> USE WorkerTypes
<1> DEFINE s == sess[w]
<1>s. /\ s \in Session /\ TypeInv
      /\ s.pc \notin {"idle", "next"} => s.cur \in Ids
      /\ w \in Ticks => Reliable(w)
  BY DEF CrashInv, TypeInv, TypeOK, BusyHasDevice
\* What an undisturbed tick inside a poll knows.
<1>r. ASSUME w \in Ticks, ~disturbed[w], s.pc \notin {"idle", "next"}
      PROVE  /\ s.cur \in Live
             /\ s.open => s.rows[s.cur].gen # 0 /\ Keys(s.snap, s.cur) = Keys(ports, s.cur)
             /\ s.pc \in {"dcommit", "commit"} => s.known = Keys(ports, s.cur)
             /\ SeenPorts(s) = Keys(ports, s.cur)
  BY <1>s, <1>r DEF Reliable, Concerns, Live, SeenPorts
\* A step that only moves the session on and sets what it knows.
<1>m. ASSUME NEW n, sess' = [sess EXCEPT ![w] = n],
             n.cur = s.cur, n.todo = s.todo, n.open = s.open, n.rows = s.rows, n.snap = s.snap,
             s.pc \notin {"idle", "next"},
             n.pc \in {"dcommit", "commit"} => n.known = SeenPorts(s),
             UNCHANGED <<devices, ports, disturbed, last>>
      PROVE  CrashParts'
  <2>1. ASSUME w \in Ticks PROVE Reliable(w)'
    <3>1. sess'[w] = n
      BY <1>m DEF CrashInv, TypeInv, TypeOK
    <3> QED BY <1>s, <1>r, <1>m, <2>1, <3>1 DEF Reliable, Concerns, Keys
  <2> QED BY <1>m, <2>1, OwnStepCrash
<1>3. CASE Walk(w)
  <2> DEFINE n == [s EXCEPT !.known = SeenPorts(s),
                            !.pc = IF SeenPorts(s) = {} THEN "dwalk" ELSE "commit"]
  <2>1. sess' = [sess EXCEPT ![w] = n] /\ s.pc = "walk"
    BY <1>3, <1>s DEF Walk, TypeInv, TypeOK
  <2>2. /\ n.cur = s.cur /\ n.todo = s.todo /\ n.open = s.open /\ n.rows = s.rows /\ n.snap = s.snap
        /\ n.known = SeenPorts(s)
    BY <1>s DEF Session
  <2> HIDE DEF n, s
  <2> QED BY <1>3, <1>m, <2>1, <2>2 DEF Walk, tables, observed
<1>4. CASE WalkFails(w)
  <2>1. CASE w \in Ticks
    <3> DEFINE n == [s EXCEPT !.pc = "except"]
    <3>1. sess' = [sess EXCEPT ![w] = n] /\ s.pc \notin {"idle", "next"}
      BY <1>4, <1>s, <2>1 DEF WalkFails, TypeInv, TypeOK
    <3>2. /\ n.cur = s.cur /\ n.todo = s.todo /\ n.open = s.open /\ n.rows = s.rows /\ n.snap = s.snap
          /\ n.pc = "except"
      BY <1>s DEF Session
    <3> HIDE DEF n, s
    <3> QED BY <1>4, <1>m, <2>1, <3>1, <3>2 DEF WalkFails, tables
  <2>2. CASE w \notin Ticks
    BY <1>4, <2>2, RaiseCrash DEF WalkFails, tables
  <2> QED BY <2>1, <2>2
<1>5. CASE DiscoverWalk(w)
  <2> DEFINE n(found) == [s EXCEPT !.pc = "dcommit", !.found = found, !.known = SeenPorts(s)]
  <2>1. PICK found \in SUBSET IfIndexes : sess' = [sess EXCEPT ![w] = n(found)] /\ s.pc = "dwalk"
    BY <1>5, <1>s DEF DiscoverWalk, TypeInv, TypeOK
  <2> DEFINE m == n(found)
  <2>2. /\ m.cur = s.cur /\ m.todo = s.todo /\ m.open = s.open /\ m.rows = s.rows /\ m.snap = s.snap
        /\ m.known = SeenPorts(s) /\ sess' = [sess EXCEPT ![w] = m]
    BY <1>s, <2>1 DEF Session
  <2> HIDE DEF m, n, s
  <2> QED BY <1>5, <1>m, <2>1, <2>2 DEF DiscoverWalk, tables, observed
<1>6. CASE DiscoverCommit(w)
  <2> DEFINE pc == IF s.pend THEN "reload" ELSE "collect"
             n == IF s.run = 0 THEN Idle ELSE [Expired(s) EXCEPT !.pc = pc]
             new == s.found \ s.known
  <2>1. sess' = [sess EXCEPT ![w] = n] /\ s.pc = "dcommit" /\ s.cur \in Ids
    BY <1>6, <1>s DEF DiscoverCommit
  <2>2. UNCHANGED <<devices, last>>
    BY <1>6 DEF DiscoverCommit
  <2>3. n.pc \in {"idle", "reload", "collect"} /\ (n.pc # "idle" => n.cur = s.cur /\ n.todo = s.todo /\ ~n.open)
    <3>1. \A x \in Session, y \in {"reload", "collect"} :
             /\ [Expired(x) EXCEPT !.pc = y].cur = x.cur
             /\ [Expired(x) EXCEPT !.pc = y].todo = x.todo
             /\ ~[Expired(x) EXCEPT !.pc = y].open
             /\ [Expired(x) EXCEPT !.pc = y].pc = y
      BY DEF Expired, Session
    <3>2. Idle.pc = "idle"
      BY DEF Idle
    <3> QED BY <1>s, <3>1, <3>2
  <2>4. \A d \in Ids : d # s.cur \/ new = {} => Keys(ports', d) = Keys(ports, d)
    <3>1. ports' = ports \cup {[dev |-> s.cur, ifx |-> i, gen |-> s.gen] : i \in new}
      BY <1>6 DEF DiscoverCommit
    <3> HIDE DEF new, s
    <3> QED BY <3>1 DEF Keys
  <2>5. \A t \in Ticks : disturbed'[t] <=> (disturbed[t] \/ (new # {} /\ t # w /\ Concerns(sess[t], s.cur)))
    <3>1. CASE new = {}
      BY <1>6, <3>1 DEF DiscoverCommit
    <3>2. CASE new # {}
      <4>1. disturbed' = [t \in Ticks |-> disturbed[t] \/ (t \in Ticks \ {w} /\ Concerns(sess[t], s.cur))]
        BY <1>6, <3>2 DEF DiscoverCommit, Disturb
      <4> HIDE DEF new, s
      <4> QED BY <3>2, <4>1, Zenon
    <3> QED BY <3>1, <3>2
  <2>6. CrashOnlyIfDisturbed'
    BY <2>2, <2>5 DEF CrashInv, CrashOnlyIfDisturbed
  <2>7. ASSUME NEW t \in Ticks, t # w PROVE Reliable(t)'
    <3>1. sess'[t] = sess[t]
      BY <2>1, <2>7 DEF CrashInv, TypeInv, TypeOK
    <3> HIDE DEF new, s, n
    <3> QED BY <2>2, <2>4, <2>5, <2>7, <3>1, ReliableFrame DEF CrashInv
  <2>8. ASSUME w \in Ticks PROVE Reliable(w)'
    <3>1. sess'[w] = n
      BY <2>1 DEF CrashInv, TypeInv, TypeOK
    <3>2. disturbed'[w] <=> disturbed[w]
      BY <2>5, <2>8
    <3>3. n.pc # "idle" => \A d \in Ids : Concerns(n, d) = Concerns(s, d)
      BY <2>3 DEF Concerns
    <3> HIDE DEF n
    <3> QED BY <1>s, <2>1, <2>2, <2>3, <2>8, <3>1, <3>2, <3>3 DEF Reliable, Concerns
  <2> QED BY <2>6, <2>7, <2>8 DEF CrashParts
<1>7. CASE DiscoverCommitFails(w)
  <2>1. w \in Ticks /\ DiscoverConflict(s) => disturbed[w]
    BY <1>7, <1>r DEF DiscoverCommitFails, DiscoverConflict
  <2> QED BY <1>7, <2>1, FailedCommitCrash DEF DiscoverCommitFails, DiscoverConflict
<1>8. CASE Reload(w)
  <2> DEFINE r == Refreshed(s, s.cur)
             n == [r EXCEPT !.pc = "commit", !.known = SeenPorts(r)]
  <2>1. sess' = [sess EXCEPT ![w] = n] /\ s.pc = "reload" /\ s.cur \in Ids
    BY <1>8, <1>s DEF Reload
  <2>2. /\ r \in Session /\ r.cur = s.cur /\ r.todo = s.todo
    BY <1>s, <2>1, RefreshedType DEF TypeInv
  <2>3. /\ n.cur = s.cur /\ n.todo = s.todo /\ n.open = r.open /\ n.rows = r.rows
        /\ n.snap = r.snap /\ n.known = SeenPorts(r) /\ n.pc = "commit"
    <3> HIDE DEF r
    <3> QED BY <2>2 DEF Session
  <2>4. ASSUME w \in Ticks PROVE Reliable(w)'
    <3>1. sess'[w] = n
      BY <2>1 DEF CrashInv, TypeInv, TypeOK
    <3>2. UNCHANGED <<devices, ports, disturbed>>
      BY <1>8 DEF Reload, tables, observed
    <3> SUFFICES ASSUME ~disturbed[w]
                 PROVE  /\ \A e \in Ids : Concerns(n, e) =>
                             /\ devices[e].gen # 0
                             /\ n.open => n.rows[e].gen # 0 /\ Keys(n.snap, e) = Keys(ports, e)
                        /\ n.known = Keys(ports, n.cur)
      BY <3>1, <3>2 DEF Reliable, Concerns, Keys
    <3>3. \A e \in Ids : Concerns(n, e) => Concerns(s, e)
      BY <2>3 DEF Concerns
    <3>4. \A e \in Ids : Concerns(s, e) =>
            /\ devices[e].gen # 0
            /\ s.open => s.rows[e].gen # 0 /\ Keys(s.snap, e) = Keys(ports, e)
      BY <1>s, <2>1, <2>4 DEF Reliable
    <3>5. Concerns(s, s.cur)
      BY DEF Concerns
    <3>6. \A e \in Ids : Concerns(s, e) /\ r.open =>
            r.rows[e].gen # 0 /\ Keys(r.snap, e) = Keys(ports, e)
      BY <1>s, <2>1, <3>4, <3>5, RefreshedReliable
    <3>7. SeenPorts(r) = Keys(ports, s.cur)
      <4> HIDE DEF r
      <4> QED BY <2>1, <2>2, <3>5, <3>6 DEF SeenPorts
    <3> HIDE DEF n, r, s
    <3> QED BY <2>3, <3>3, <3>4, <3>6, <3>7
  <2> QED BY <1>8, <2>1, <2>4, OwnStepCrash DEF Reload, tables, observed
<1>9. CASE ReloadGone(w)
  <2>1. w \in Ticks => disturbed[w]
    BY <1>9, <1>r DEF ReloadGone
  <2> QED BY <1>9, <2>1, RaiseCrash DEF ReloadGone, tables
<1>10. CASE Commit(w)
  <2>1. \A d \in Ids : devices[d].gen # 0 => devices'[d].gen # 0
    BY <1>10, <1>s, FlushedGen DEF Commit, TypeInv, TypeOK
  <2>2. ASSUME w \in Ticks PROVE Reliable(w)'
    BY <1>10, <2>1, <2>2, NextReliable DEF Commit
  <2> QED BY <1>10, <2>1, <2>2, OwnStepCrash DEF Commit
<1>11. CASE CommitFails(w)
  <2>1. w \in Ticks /\ CommitConflict(s) => disturbed[w]
    BY <1>11, <1>r DEF CommitFails, CommitConflict
  <2> QED BY <1>11, <2>1, FailedCommitCrash DEF CommitFails, CommitConflict
<1> QED BY <1>3, <1>4, <1>5, <1>6, <1>7, <1>8, <1>9, <1>10, <1>11 DEF CollectStep

\* A request reads the tables and starts a session that is no tick's.
LEMMA RequestCrash ==
  ASSUME CrashInv, NEW q \in Requests,
         \/ \E d \in Ids : PollRequest(q, d) \/ DiscoverRequest(q, d) \/ SnmpRequest(q, d)
         \/ \E chosen \in SUBSET Ids : TestRequest(q, chosen)
  PROVE  CrashParts'
<1>1. q \in Workers /\ q \notin Ticks
  BY WorkersAssumption, WorkerTypes
<1>2. PICK n : sess' = [sess EXCEPT ![q] = n]
  BY DEF PollRequest, DiscoverRequest, SnmpRequest, TestRequest
<1>3. UNCHANGED <<devices, ports, disturbed, last>>
  BY DEF PollRequest, DiscoverRequest, SnmpRequest, TestRequest, tables, observed
<1> QED BY <1>1, <1>2, <1>3, OwnStepCrash

\* Nor does a connectivity test disturb a tick.
LEMMA TestStepCrash ==
  ASSUME CrashInv, NEW q \in Requests, TestStep(q)
  PROVE  CrashParts'
<1>1. q \in Workers /\ q \notin Ticks
  BY WorkersAssumption, WorkerTypes
<1>2. CASE TestGone(q)
  BY <1>1, <1>2, AbortCrash, RaiseCrash DEF TestGone, tables
<1>3. CASE TestFails(q)
  BY <1>1, <1>3, FailedCommitCrash DEF TestFails, StartConflict
<1>4. CASE Tell(q)
  <2>1. \A d \in Ids : devices[d].gen # 0 => devices'[d].gen # 0
    BY <1>4, FlushedGen DEF Tell, CrashInv, TypeInv, TypeOK, Live
  <2> QED BY <1>1, <1>4, <2>1, OwnStepCrash DEF Tell
<1>5. CASE ~(TestGone(q) \/ TestFails(q) \/ Tell(q))
  <2>1. PICK n : sess' = [sess EXCEPT ![q] = n]
    BY <1>5 DEF TestStep, StartTest, PlayedOut, Played, Told, ToldOnly, Collect
  <2>2. UNCHANGED <<devices, ports, disturbed, last>>
    BY <1>5 DEF TestStep, StartTest, PlayedOut, Played, Told, ToldOnly, Collect, tables, observed
  <2> QED BY <1>1, <2>1, <2>2, OwnStepCrash
<1> QED BY <1>2, <1>3, <1>4, <1>5

\* The administrator disturbs the ticks whose devices are deleted.
LEMMA AdminCrash ==
  ASSUME CrashInv, AdminStep \/ Restart
  PROVE  CrashParts'
<1>t. TypeInv
  BY DEF CrashInv
<1>1. CASE Create \/ \E d \in Ids : Patch(d)
  <2>1. UNCHANGED <<sess, ports, disturbed, last>>
    BY <1>1 DEF Create, Patch
  <2>2. \A e \in Ids : devices[e].gen # 0 => devices'[e].gen # 0
    <3>1. CASE Create
      <4>1. PICK mon \in BOOLEAN, snmp \in BOOLEAN :
              devices' = [devices EXCEPT ![NextId] =
                            [Blank EXCEPT !.gen = created + 1, !.mon = mon, !.snmp = snmp]]
        BY <3>1 DEF Create
      <4>2. [Blank EXCEPT !.gen = created + 1, !.mon = mon, !.snmp = snmp].gen = created + 1
        BY BlankTypes DEF Row
      <4>3. created + 1 # 0
        BY <1>t DEF TypeInv, TypeOK, Gens
      <4> DEFINE row == [Blank EXCEPT !.gen = created + 1, !.mon = mon, !.snmp = snmp]
      <4>4. row.gen # 0 /\ devices' = [devices EXCEPT ![NextId] = row]
        BY <4>1, <4>2, <4>3
      <4> HIDE DEF row
      <4> QED BY <1>t, <4>4 DEF TypeInv, TypeOK
    <3>2. ASSUME NEW d \in Ids, Patch(d) PROVE \A e \in Ids : devices'[e].gen = devices[e].gen
      <4>1. PICK mon \in BOOLEAN, snmp \in BOOLEAN :
              devices' = [devices EXCEPT ![d].mon = mon, ![d].snmp = snmp]
        BY <3>2 DEF Patch
      <4>2. devices \in [Ids -> Row]
        BY <1>t DEF TypeInv, TypeOK
      <4>3. \A e \in Ids : devices[e] \in Row
        BY <4>2
      <4> QED BY <4>1, <4>2, <4>3 DEF Row
    <3> QED BY <1>1, <3>1, <3>2
  <2>3. \A t \in Ticks : Reliable(t)'
    BY <1>t, <2>1, <2>2, ReliableKept DEF CrashInv
  <2>4. CrashOnlyIfDisturbed'
    BY <2>1 DEF CrashInv, CrashOnlyIfDisturbed
  <2> QED BY <2>3, <2>4 DEF CrashParts
<1>2. ASSUME NEW d \in Ids, Delete(d) PROVE CrashParts'
  <2>1. UNCHANGED <<sess, last>>
    BY <1>2 DEF Delete
  <2>2. \A t \in Ticks : disturbed'[t] <=> (disturbed[t] \/ Concerns(sess[t], d))
    BY <1>2, Zenon DEF Delete, Disturb
  <2>3. \A e \in Ids : e # d => devices'[e] = devices[e] /\ Keys(ports', e) = Keys(ports, e)
    BY <1>2, <1>t DEF Delete, Keys, TypeInv, TypeOK
  <2>4. \A t \in Ticks : Reliable(t)'
    BY <1>t, <2>1, <2>2, <2>3, ReliableFrame DEF CrashInv
  <2>5. CrashOnlyIfDisturbed'
    BY <2>1, <2>2 DEF CrashInv, CrashOnlyIfDisturbed
  <2> QED BY <2>4, <2>5 DEF CrashParts
<1>3. CASE Restart
  BY <1>3, WorkerTypes DEF Restart, CrashParts, CrashInv, Reliable, CrashOnlyIfDisturbed, Idle
<1> QED BY <1>1, <1>2, <1>3 DEF AdminStep

\* A tick is cut short only when one of its devices was deleted or discovered by
\* others, or the database failed by itself: no device that fails to answer, and
\* no edit, keeps the others from being polled.
THEOREM TicksAreNotCutShort == Spec => []CrashOnlyIfDisturbed
<1>1. Init /\ TypeInv => CrashInv
  BY WorkerTypes DEF Init, CrashInv, CrashOnlyIfDisturbed, Reliable, Idle
<1>2. CrashInv /\ TypeInv' /\ [Next]_vars => CrashInv'
  <2> SUFFICES ASSUME CrashInv, TypeInv', [Next]_vars PROVE CrashParts'
    BY DEF CrashInv, CrashParts
  <2>1. ASSUME NEW t \in Ticks, TickStart(t) \/ TickStep(t) PROVE CrashParts'
    BY <2>1, TickStartCrash, TickStepCrash
  <2>2. ASSUME NEW q \in Requests,
               \/ \E d \in Ids : PollRequest(q, d) \/ DiscoverRequest(q, d) \/ SnmpRequest(q, d)
               \/ TestStep(q) \/ \E chosen \in SUBSET Ids : TestRequest(q, chosen)
        PROVE  CrashParts'
    BY <2>2, RequestCrash, TestStepCrash
  <2>3. ASSUME NEW w \in Workers, CollectStep(w) PROVE CrashParts'
    BY <2>3, CollectStepCrash
  <2>4. CASE AdminStep \/ Restart
    BY <2>4, AdminCrash
  <2>5. CASE UNCHANGED vars
    BY <2>5 DEF vars, tables, observed, CrashInv, CrashParts, CrashOnlyIfDisturbed, Reliable,
                Concerns, Keys
  <2> QED BY <2>1, <2>2, <2>3, <2>4, <2>5 DEF Next
<1>3. CrashInv => CrashOnlyIfDisturbed
  BY DEF CrashInv
<1> QED BY <1>1, <1>2, <1>3, TypeCorrect, PTL DEF Spec

-----------------------------------------------------------------------------
\* Polling never undoes an edit

\* A flush of a poll's status leaves the other columns of the row.
LEMMA FlushedKeeps ==
  ASSUME NEW row \in Row, NEW s, NEW status
  PROVE  Flushed(row, s, status).gen = row.gen /\ Flushed(row, s, status).snmp = row.snmp
BY DEF Flushed, Row

\* No step of a poll changes snmp_enabled.
LEMMA PollKeepsEdits ==
  ASSUME TypeInv, AdminEditsSurvive, UNCHANGED asked, NEW s, NEW status,
         s.cur \in Live, devices' = [devices EXCEPT ![s.cur] = Flushed(@, s, status)]
  PROVE  AdminEditsSurvive'
<1>1. devices \in [Ids -> Row] /\ \A d \in Ids : devices[d] \in Row
  BY DEF TypeInv, TypeOK
<1>2. s.cur \in Ids
  BY DEF Live
<1>3. devices'[s.cur] = Flushed(devices[s.cur], s, status)
      /\ \A d \in Ids \ {s.cur} : devices'[d] = devices[d]
  BY <1>1, <1>2
<1>4. \A d \in Ids : devices'[d].gen = devices[d].gen /\ devices'[d].snmp = devices[d].snmp
  BY <1>1, <1>2, <1>3, FlushedKeeps
<1> QED BY <1>4 DEF AdminEditsSurvive, Live

\* The administrator's last word on snmp_enabled stands, whatever the polls that
\* loaded the device before are still to write.
THEOREM EditsAreKept == Spec => []AdminEditsSurvive
<1>1. Init => AdminEditsSurvive
  <2>1. Blank.gen = 0
    BY DEF Blank
  <2> QED BY <2>1 DEF Init, AdminEditsSurvive, Live, NoRows
<1>2. TypeInv /\ AdminEditsSurvive /\ [Next]_vars => AdminEditsSurvive'
  <2> SUFFICES ASSUME TypeInv, AdminEditsSurvive, [Next]_vars PROVE AdminEditsSurvive'
    OBVIOUS
  <2>k. ASSUME UNCHANGED <<devices, asked>> PROVE AdminEditsSurvive'
    BY <2>k DEF AdminEditsSurvive, Live
  <2>t. devices \in [Ids -> Row] /\ \A d \in Ids : devices[d] \in Row
    BY DEF TypeInv, TypeOK
  <2>1. ASSUME NEW t \in Ticks, TickStart(t) PROVE AdminEditsSurvive'
    BY <2>1, <2>k DEF TickStart, tables
  <2>2. ASSUME NEW t \in Ticks, TickStep(t) PROVE AdminEditsSurvive'
    <3>1. CASE Except(t)
      BY <3>1, PollKeepsEdits DEF Except
    <3>2. CASE ~Except(t)
      BY <2>2, <2>k, <3>2 DEF TickStep, Begin, Skip, BeginGone, ExceptFails, FailedCommit, TickEnd,
                                  PruneFails, tables
    <3> QED BY <3>1, <3>2
  <2>3. ASSUME NEW q \in Requests,
               \/ \E d \in Ids : PollRequest(q, d) \/ DiscoverRequest(q, d) \/ SnmpRequest(q, d)
               \/ \E chosen \in SUBSET Ids : TestRequest(q, chosen)
        PROVE  AdminEditsSurvive'
    BY <2>3, <2>k DEF PollRequest, DiscoverRequest, SnmpRequest, TestRequest, tables, observed
  <2>9. ASSUME NEW q \in Requests, TestStep(q) PROVE AdminEditsSurvive'
    <3>1. CASE Tell(q)
      <4>1. PICK status \in {"success", "failed"} :
              devices' = [devices EXCEPT ![sess[q].cur] = Flushed(@, sess[q], status)]
        BY <3>1 DEF Tell
      <4>2. sess[q].cur \in Live /\ UNCHANGED asked
        BY <3>1 DEF Tell
      <4> QED BY <4>1, <4>2, PollKeepsEdits
    <3>2. CASE ~Tell(q)
      BY <2>9, <2>k, <3>2 DEF TestStep, StartTest, PlayedOut, Played, Told, ToldOnly, Collect, TestGone,
           TestFails, FailedCommit, tables, observed
    <3> QED BY <3>1, <3>2
  <2>4. ASSUME NEW w \in Workers, CollectStep(w) PROVE AdminEditsSurvive'
    <3>1. CASE Commit(w)
      BY <3>1, PollKeepsEdits DEF Commit, CommitConflict
    <3>2. CASE ~Commit(w)
      BY <2>4, <2>k, <3>2 DEF CollectStep, Walk, WalkFails, DiscoverWalk, DiscoverCommit,
           DiscoverCommitFails, Reload, ReloadGone, CommitFails, FailedCommit, tables, observed
    <3> QED BY <3>1, <3>2
  <2>5. CASE Create
    <3>1. PICK mon \in BOOLEAN, snmp \in BOOLEAN :
            /\ devices' = [devices EXCEPT ![NextId] =
                             [Blank EXCEPT !.gen = created + 1, !.mon = mon, !.snmp = snmp]]
            /\ asked' = [asked EXCEPT ![NextId] = snmp]
      BY <2>5 DEF Create
    <3> DEFINE row == [Blank EXCEPT !.gen = created + 1, !.mon = mon, !.snmp = snmp]
    <3>2. row.snmp = snmp
      BY BlankTypes DEF Row
    <3>3. devices' = [devices EXCEPT ![NextId] = row]
      BY <3>1
    <3>4. asked \in [Ids -> BOOLEAN]
      BY DEF TypeInv, TypeOK
    <3> HIDE DEF row
    <3> QED BY <2>t, <3>1, <3>2, <3>3, <3>4 DEF AdminEditsSurvive, Live
  <2>6. ASSUME NEW d \in Ids, Patch(d) PROVE AdminEditsSurvive'
    <3>1. PICK mon \in BOOLEAN, snmp \in BOOLEAN :
            /\ devices' = [devices EXCEPT ![d].mon = mon, ![d].snmp = snmp]
            /\ asked' = [asked EXCEPT ![d] = snmp]
      BY <2>6 DEF Patch
    <3>2. asked \in [Ids -> BOOLEAN]
      BY DEF TypeInv, TypeOK
    <3>3. devices'[d].snmp = snmp /\ \A e \in Ids \ {d} : devices'[e] = devices[e]
      BY <2>t, <3>1 DEF Row
    <3> QED BY <3>1, <3>2, <3>3 DEF AdminEditsSurvive, Live
  <2>7. ASSUME NEW d \in Ids, Delete(d) PROVE AdminEditsSurvive'
    <3>1. devices' = [devices EXCEPT ![d] = Blank] /\ UNCHANGED asked
      BY <2>7 DEF Delete
    <3>2. Blank.gen = 0
      BY DEF Blank
    <3> QED BY <2>t, <3>1, <3>2 DEF AdminEditsSurvive, Live
  <2>8. CASE Restart \/ UNCHANGED vars
    BY <2>8, <2>k DEF Restart, vars, tables, observed
  <2> QED BY <2>1, <2>2, <2>3, <2>4, <2>5, <2>6, <2>7, <2>8, <2>9 DEF Next, AdminStep
<1> QED BY <1>1, <1>2, TypeCorrect, PTL DEF Spec

-----------------------------------------------------------------------------
\* With enforced foreign keys every row has its device

\* On MySQL an id is given once, so the devices that had an id, and the device an
\* SnmpClient addresses, can be told by the id.
GivenOnce ==
  /\ \A d \in Ids : devices[d].gen \in {0, d} /\ (d > created => devices[d].gen = 0)
  /\ \A w \in Workers, d \in Ids : sess[w].rows[d].gen \in {0, d}
  /\ \A w \in Workers :
       sess[w].pc \notin {"idle", "next"} \/ sess[w].pend => sess[w].gen = sess[w].cur

CascadeInv == GivenOnce /\ RowsHaveTheirDevice

SessionGiven(s) ==
  /\ \A d \in Ids : s.rows[d].gen \in {0, d}
  /\ s.pc \notin {"idle", "next"} \/ s.pend => s.gen = s.cur

\* The blank row and the idle session carry the number of no device.
LEMMA BlankGens == Blank.gen = 0 /\ (\A d \in Ids : NoRows[d].gen = 0) /\ SessionGiven(Idle)
<1>1. Blank.gen = 0
  BY DEF Blank
<1>2. \A d \in Ids : NoRows[d].gen = 0
  BY <1>1 DEF NoRows
<1>3. Idle.rows = NoRows /\ Idle.pc = "idle" /\ ~Idle.pend
  BY DEF Idle
<1> QED BY <1>1, <1>2, <1>3 DEF SessionGiven

\* A step that changes one session and no table.
LEMMA SessionCascade ==
  ASSUME TypeInv, CascadeInv, NEW w \in Workers, NEW s, SessionGiven(s),
         sess' = [sess EXCEPT ![w] = s], UNCHANGED tables
  PROVE  CascadeInv'
BY DEF TypeInv, TypeOK, CascadeInv, GivenOnce, SessionGiven, RowsHaveTheirDevice, Live, tables

\* An exception in a worker writes no row.
LEMMA AbortCascade ==
  ASSUME TypeInv, CascadeInv, NEW w \in Workers, Abort(w), UNCHANGED tables
  PROVE  CascadeInv'
BY BlankGens, SessionCascade DEF Abort

\* The session after a device carries no device number beyond those given.
LEMMA FinishedGiven ==
  ASSUME NEW w \in Workers, NEW b
  PROVE  SessionGiven(Finished(w)) /\ SessionGiven([Finished(w) EXCEPT !.n = b])
<1>1. \A r, todo, test, n :
        LET f == [Idle EXCEPT !.pc = "next", !.run = r, !.todo = todo, !.test = test, !.n = n]
        IN f.rows = Idle.rows /\ f.pc = "next" /\ ~f.pend
  BY DEF Idle
<1>2. Finished(w).rows = Idle.rows /\ Finished(w).pc \in {"idle", "next"} /\ ~Finished(w).pend
  <2>1. Idle.pc = "idle" /\ ~Idle.pend
    BY DEF Idle
  <2> QED BY <1>1, <2>1 DEF Finished
<1>3. LET f == [Finished(w) EXCEPT !.n = b]
      IN f.rows = Finished(w).rows /\ f.pc = Finished(w).pc /\ f.pend = Finished(w).pend
  BY DEF Finished, Idle
<1> QED BY <1>2, <1>3, BlankGens DEF SessionGiven

\* Nor does the session a request goes on with.
LEMMA LeftGiven ==
  ASSUME NEW s \in Session, SessionGiven(s)
  PROVE  SessionGiven(Left(s))
<1>1. CASE s.todo = {}
  BY <1>1, BlankGens, LeftType
<1>2. CASE s.todo # {}
  <2>1. Left(s).rows = s.rows
    BY <1>2 DEF Left, Session
  <2> QED BY <1>2, <2>1, LeftType DEF SessionGiven
<1> QED BY <1>1, <1>2

\* A poll that raises writes no row.
LEMMA RaiseCascade ==
  ASSUME TypeInv, CascadeInv, NEW w \in Workers, Raise(w), UNCHANGED tables
  PROVE  CascadeInv'
<1>1. CASE sess[w].test
  <2>1. SessionGiven(sess[w]) /\ sess[w] \in Session
    BY DEF CascadeInv, GivenOnce, SessionGiven, TypeInv, TypeOK
  <2> QED BY <1>1, <2>1, LeftGiven, SessionCascade DEF Raise
<1>2. CASE ~sess[w].test
  BY <1>2, AbortCascade DEF Raise
<1> QED BY <1>1, <1>2

\* Reading a row again brings in only device numbers that were given.
LEMMA RefreshedGiven ==
  ASSUME IsMySQL, TypeInv, CascadeInv, NEW s \in Session, SessionGiven(s), NEW d \in Ids
  PROVE  /\ \A e \in Ids : Refreshed(s, d).rows[e].gen \in {0, e}
         /\ Refreshed(s, d).gen = s.gen
BY DEF Refreshed, SessionGiven, CascadeInv, GivenOnce, Session

\* A commit of samples for a live device, which is the one the session addressed.
LEMMA SampleCascade ==
  ASSUME TypeInv, CascadeInv, NEW w \in Workers, NEW s, NEW n, SessionGiven(n),
         s.cur \in Live, s.gen = s.cur,
         \A d \in Ids : devices'[d].gen = devices[d].gen,
         metrics' \in {metrics, WithSample(metrics, s)},
         traffic' \in {traffic, WithSample(traffic, s)},
         sess' = [sess EXCEPT ![w] = n],
         UNCHANGED <<created, ports>>
  PROVE  CascadeInv'
<1>1. s.cur \in Ids /\ devices[s.cur].gen = s.cur
  BY DEF Live, CascadeInv, GivenOnce
<1>2. GivenOnce'
  BY DEF CascadeInv, GivenOnce, SessionGiven, TypeInv, TypeOK
<1>3. RowsHaveTheirDevice'
  <2>1. \A x \in (ports \cup metrics \cup traffic)' :
          x \in ports \cup metrics \cup traffic \/ (x.dev = s.cur /\ x.gen = s.gen)
    BY DEF WithSample
  <2>2. \A x \in ports \cup metrics \cup traffic : x.dev \in Live /\ devices[x.dev].gen = x.gen
    BY DEF CascadeInv, RowsHaveTheirDevice
  <2> QED BY <1>1, <2>1, <2>2 DEF RowsHaveTheirDevice, Live
<1> QED BY <1>2, <1>3 DEF CascadeInv

\* The commit of a poll that writes the device's status.
LEMMA StatusCascade ==
  ASSUME TypeInv, CascadeInv, NEW w \in Workers, NEW status, NEW n, SessionGiven(n),
         sess[w].pc \notin {"idle", "next"}, sess[w].cur \in Live,
         devices' = [devices EXCEPT ![sess[w].cur] = Flushed(@, sess[w], status)],
         metrics' \in {metrics, WithSample(metrics, sess[w])},
         traffic' \in {traffic, WithSample(traffic, sess[w])},
         sess' = [sess EXCEPT ![w] = n],
         UNCHANGED <<created, ports>>
  PROVE  CascadeInv'
<1> DEFINE s == sess[w]
<1>1. devices \in [Ids -> Row] /\ \A d \in Ids : devices[d] \in Row
  BY DEF TypeInv, TypeOK
<1>2. s.cur \in Ids /\ s.gen = s.cur
  BY DEF Live, CascadeInv, GivenOnce
<1>3. devices'[s.cur] = Flushed(devices[s.cur], s, status)
      /\ \A d \in Ids \ {s.cur} : devices'[d] = devices[d]
  BY <1>1, <1>2
<1>4. \A d \in Ids : devices'[d].gen = devices[d].gen
  BY <1>1, <1>2, <1>3, FlushedKeeps
<1> QED BY <1>2, <1>4, SampleCascade

\* The steps of the loop keep every row with its device.
LEMMA TickCascade ==
  ASSUME IsMySQL, TypeInv, CascadeInv, NEW t \in Ticks, TickStart(t) \/ TickStep(t)
  PROVE  CascadeInv'
<1> USE WorkerTypes
<1>s. sess[t] \in Session /\ SessionGiven(sess[t])
  BY DEF TypeInv, TypeOK, CascadeInv, GivenOnce, SessionGiven
<1>1. CASE TickStart(t)
  <2> DEFINE chosen == {d \in Live : devices[d].mon /\ devices[d].snmp}
             rows == [d \in Ids |-> IF IsMySQL \/ d \in chosen THEN devices[d] ELSE Blank]
             snap == IF IsMySQL THEN ports ELSE {}
             n == [Idle EXCEPT !.pc = "next", !.run = runs + 1, !.todo = chosen, !.open = IsMySQL,
                               !.rows = rows, !.snap = snap]
  <2>1. sess' = [sess EXCEPT ![t] = n] /\ UNCHANGED tables
    BY <1>1 DEF TickStart
  <2>2. \A d \in Ids : rows[d].gen \in {0, d}
    BY DEF CascadeInv, GivenOnce
  <2> HIDE DEF rows, chosen, snap
  <2>3. n.rows = rows /\ n.pc = "next" /\ ~n.pend
    BY DEF Idle
  <2> HIDE DEF n
  <2> QED BY <2>1, <2>2, <2>3, SessionCascade DEF SessionGiven
<1>2. ASSUME NEW d \in Ids, Begin(t, d) PROVE CascadeInv'
  <2> DEFINE s == Refreshed(sess[t], d)
             n(dirty) == [s EXCEPT !.pc = "walk", !.cur = d, !.todo = @ \ {d},
                                   !.gen = s.rows[d].gen, !.pend = TRUE, !.dirty = dirty]
  <2>1. s \in Session /\ (\A e \in Ids : s.rows[e].gen \in {0, e})
    BY <1>s, RefreshedType, RefreshedGiven DEF TypeInv
  <2>2. PICK dirty \in BOOLEAN : sess' = [sess EXCEPT ![t] = n(dirty)]
    BY <1>2 DEF Begin
  <2>3. s.rows[d].gen = d
    BY <1>2, <2>1 DEF Begin
  <2> HIDE DEF s
  <2> DEFINE m == n(dirty)
  <2>4. m.rows = s.rows /\ m.gen = s.rows[d].gen /\ m.cur = d
    BY <2>1 DEF Session
  <2>5. sess' = [sess EXCEPT ![t] = m] /\ UNCHANGED tables
    BY <1>2, <2>2 DEF Begin
  <2> HIDE DEF m, n
  <2> QED BY <2>1, <2>3, <2>4, <2>5, SessionCascade DEF SessionGiven
<1>3. ASSUME NEW d \in Ids, Skip(t, d) PROVE CascadeInv'
  <2> DEFINE s == Refreshed(sess[t], d)
             n == [s EXCEPT !.todo = @ \ {d}, !.n = TRUE]
  <2>1. /\ s \in Session /\ s.pc = "next" /\ (\A e \in Ids : s.rows[e].gen \in {0, e})
        /\ s.pend => s.gen = s.cur
    <3>1. /\ s \in Session /\ s.pc = sess[t].pc /\ s.pend = sess[t].pend /\ s.cur = sess[t].cur
          /\ s.gen = sess[t].gen /\ (\A e \in Ids : s.rows[e].gen \in {0, e})
      BY <1>s, RefreshedType, RefreshedGiven DEF TypeInv
    <3>2. sess[t].pc = "next" /\ (sess[t].pend => sess[t].gen = sess[t].cur)
      BY <1>3, <1>s DEF Skip, SessionGiven
    <3> HIDE DEF s
    <3> QED BY <3>1, <3>2
  <2>2. sess' = [sess EXCEPT ![t] = n] /\ UNCHANGED tables
    BY <1>3 DEF Skip
  <2> HIDE DEF s
  <2>3. n.rows = s.rows /\ n.pc = "next" /\ n.pend = s.pend /\ n.gen = s.gen /\ n.cur = s.cur
    BY <2>1 DEF Session
  <2> HIDE DEF n
  <2> QED BY <2>1, <2>2, <2>3, SessionCascade DEF SessionGiven
<1>4. ASSUME NEW d \in Ids, BeginGone(t, d) PROVE CascadeInv'
  BY <1>4, AbortCascade DEF BeginGone
<1>5. CASE Except(t)
  BY <1>5, FinishedGiven, StatusCascade DEF Except
<1>6. CASE ExceptFails(t)
  BY <1>6, AbortCascade DEF ExceptFails, FailedCommit
<1>7. CASE TickEnd(t)
  BY <1>7, BlankGens, SessionCascade DEF TickEnd
<1>8. CASE PruneFails(t)
  BY <1>8, AbortCascade DEF PruneFails, FailedCommit
<1> QED BY <1>1, <1>2, <1>3, <1>4, <1>5, <1>6, <1>7, <1>8 DEF TickStep

\* So do the steps of collect_device_metrics and discover_ports.
LEMMA CollectCascade ==
  ASSUME IsMySQL, TypeInv, CascadeInv, NEW w \in Workers, CollectStep(w)
  PROVE  CascadeInv'
<1> DEFINE s == sess[w]
<1>s. s \in Session /\ SessionGiven(s) /\ (s.pc \notin {"idle", "next"} => s.cur \in Ids)
  BY DEF TypeInv, TypeOK, BusyHasDevice, CascadeInv, GivenOnce, SessionGiven
<1>t. sess \in [Workers -> Session]
  BY DEF TypeInv, TypeOK
\* A step that only moves the session on.
<1>m. ASSUME NEW n, sess' = [sess EXCEPT ![w] = n], n.rows = s.rows, n.gen = s.gen, n.cur = s.cur,
             s.pc \notin {"idle", "next"}, UNCHANGED tables
      PROVE  CascadeInv'
  BY <1>s, <1>m, SessionCascade DEF SessionGiven
<1>1. CASE Walk(w)
  <2> DEFINE n == [s EXCEPT !.known = SeenPorts(s),
                            !.pc = IF SeenPorts(s) = {} THEN "dwalk" ELSE "commit"]
  <2>1. sess' = [sess EXCEPT ![w] = n] /\ s.pc = "walk" /\ UNCHANGED tables
    BY <1>1, <1>s, <1>t DEF Walk
  <2>2. n.rows = s.rows /\ n.gen = s.gen /\ n.cur = s.cur
    BY <1>s DEF Session
  <2> HIDE DEF n, s
  <2> QED BY <1>m, <2>1, <2>2
<1>2. CASE WalkFails(w)
  <2>1. CASE w \in Ticks
    <3> DEFINE n == [s EXCEPT !.pc = "except"]
    <3>1. sess' = [sess EXCEPT ![w] = n] /\ s.pc \notin {"idle", "next"} /\ UNCHANGED tables
      BY <1>2, <1>s, <1>t, <2>1 DEF WalkFails
    <3>2. n.rows = s.rows /\ n.gen = s.gen /\ n.cur = s.cur
      BY <1>s DEF Session
    <3> HIDE DEF n, s
    <3> QED BY <1>m, <3>1, <3>2
  <2>2. CASE w \notin Ticks
    BY <1>2, <2>2, RaiseCascade DEF WalkFails
  <2> QED BY <2>1, <2>2
<1>3. CASE DiscoverWalk(w)
  <2> DEFINE n(found) == [s EXCEPT !.pc = "dcommit", !.found = found, !.known = SeenPorts(s)]
  <2>1. PICK found \in SUBSET IfIndexes : sess' = [sess EXCEPT ![w] = n(found)]
    BY <1>3, <1>s, <1>t DEF DiscoverWalk
  <2>2. s.pc = "dwalk" /\ UNCHANGED tables
    BY <1>3 DEF DiscoverWalk
  <2> DEFINE m == n(found)
  <2>3. m.rows = s.rows /\ m.gen = s.gen /\ m.cur = s.cur /\ sess' = [sess EXCEPT ![w] = m]
    BY <1>s, <2>1 DEF Session
  <2> HIDE DEF m, n, s
  <2> QED BY <1>m, <2>2, <2>3
<1>4. CASE DiscoverCommit(w)
  <2> DEFINE pc == IF s.pend THEN "reload" ELSE "collect"
             n == IF s.run = 0 THEN Idle ELSE [Expired(s) EXCEPT !.pc = pc]
             new == s.found \ s.known
  <2>1. s.cur \in Ids /\ s.gen = s.cur
    BY <1>4, <1>s DEF DiscoverCommit, SessionGiven
  <2>2. SessionGiven(n)
    <3>1. \A x \in {"reload", "collect"} :
            /\ [Expired(s) EXCEPT !.pc = x].rows = NoRows
            /\ [Expired(s) EXCEPT !.pc = x].gen = s.gen
            /\ [Expired(s) EXCEPT !.pc = x].cur = s.cur
      BY <1>s DEF Expired, Session
    <3> QED BY <2>1, <3>1, BlankGens DEF SessionGiven
  <2>3. sess' = [sess EXCEPT ![w] = n] /\ UNCHANGED <<devices, created, traffic>>
    BY <1>4 DEF DiscoverCommit
  <2> HIDE DEF n
  <2>4. GivenOnce'
    BY <1>t, <2>2, <2>3 DEF CascadeInv, GivenOnce, SessionGiven
  <2>5. \A x \in (ports \cup metrics \cup traffic)' :
          x \in ports \cup metrics \cup traffic
          \/ (x.dev = s.cur /\ x.gen = s.gen /\ (s.pend \/ new # {}))
    BY <1>4 DEF DiscoverCommit, WithSample
  <2>6. s.pend \/ new # {} => s.cur \in Live
    BY <1>4 DEF DiscoverCommit, DiscoverConflict
  <2>7. s.cur \in Live => devices[s.cur].gen = s.cur
    BY <2>1 DEF Live, CascadeInv, GivenOnce
  <2> HIDE DEF new, s
  <2>8. RowsHaveTheirDevice'
    BY <2>1, <2>3, <2>5, <2>6, <2>7 DEF CascadeInv, RowsHaveTheirDevice, Live
  <2> QED BY <2>4, <2>8 DEF CascadeInv
<1>5. CASE DiscoverCommitFails(w)
  BY <1>5, AbortCascade DEF DiscoverCommitFails, FailedCommit
<1>6. CASE Reload(w)
  <2> DEFINE r == Refreshed(s, s.cur)
             n == [r EXCEPT !.pc = "commit", !.known = SeenPorts(r)]
  <2>1. sess' = [sess EXCEPT ![w] = n] /\ s.pc = "reload" /\ s.cur \in Ids /\ UNCHANGED tables
    BY <1>6, <1>s DEF Reload
  <2>2. r \in Session /\ r.cur = s.cur /\ r.gen = s.gen /\ (\A e \in Ids : r.rows[e].gen \in {0, e})
    BY <1>s, <2>1, RefreshedType, RefreshedGiven DEF TypeInv
  <2> HIDE DEF r
  <2>3. n.rows = r.rows /\ n.gen = r.gen /\ n.cur = r.cur
    BY <2>2 DEF Session
  <2>4. s.gen = s.cur
    BY <1>s, <2>1 DEF SessionGiven
  <2> HIDE DEF n, s
  <2>5. SessionGiven(n)
    BY <2>2, <2>3, <2>4 DEF SessionGiven
  <2> QED BY <2>1, <2>5, SessionCascade
<1>7. CASE ReloadGone(w)
  BY <1>7, RaiseCascade DEF ReloadGone
<1>8. CASE Commit(w)
  <2>1. SessionGiven([Finished(w) EXCEPT !.n = w \in Ticks])
    BY FinishedGiven
  <2> QED BY <1>8, <2>1, StatusCascade DEF Commit, CommitConflict
<1>9. CASE CommitFails(w)
  BY <1>9, AbortCascade DEF CommitFails, FailedCommit
<1> QED BY <1>1, <1>2, <1>3, <1>4, <1>5, <1>6, <1>7, <1>8, <1>9 DEF CollectStep

\* So do the requests, the edits and a restart.
LEMMA RequestCascade ==
  ASSUME IsMySQL, TypeInv, CascadeInv, NEW q \in Requests, NEW d \in Ids,
         PollRequest(q, d) \/ DiscoverRequest(q, d) \/ SnmpRequest(q, d)
  PROVE  CascadeInv'
<1>1. Loaded(d).rows = devices /\ Loaded(d).gen = devices[d].gen /\ Loaded(d).cur = d
      /\ devices[d].gen = d
  <2>1. devices[d].gen = d
    BY DEF PollRequest, DiscoverRequest, SnmpRequest, Live, CascadeInv, GivenOnce
  <2>2. [Idle EXCEPT !.cur = d, !.gen = devices[d].gen, !.open = IsMySQL, !.rows = devices,
                     !.snap = ports].rows = devices
    BY BlankTypes DEF Session
  <2>3. Loaded(d) = [Idle EXCEPT !.cur = d, !.gen = devices[d].gen, !.open = IsMySQL, !.rows = devices,
                                 !.snap = ports]
    BY DEF Loaded
  <2> QED BY <2>1, <2>2, <2>3, BlankTypes DEF Session
<1>2. Loaded(d) \in Session
  <2>1. devices \in [Ids -> Row] /\ ports \subseteq PortRow /\ devices[d].gen \in Gens
    BY DEF TypeInv, TypeOK, Row
  <2>2. d \in 0 .. MaxId
    BY DEF Ids
  <2> QED BY <2>1, <2>2, BlankTypes DEF Loaded, Session
<1>3. PICK n : sess' = [sess EXCEPT ![q] = n] /\ n.rows = devices /\ n.gen = d /\ n.cur = d
  <2>1. CASE PollRequest(q, d)
    <3>1. PICK dirty \in BOOLEAN :
            sess' = [sess EXCEPT ![q] = [Loaded(d) EXCEPT !.pc = "walk", !.run = runs + 1,
                                                          !.pend = TRUE, !.dirty = dirty]]
      BY <2>1 DEF PollRequest
    <3> DEFINE m == [Loaded(d) EXCEPT !.pc = "walk", !.run = runs + 1, !.pend = TRUE, !.dirty = dirty]
    <3>2. m.rows = devices /\ m.gen = d /\ m.cur = d
      BY <1>1, <1>2 DEF Session
    <3> HIDE DEF m
    <3>3. sess' = [sess EXCEPT ![q] = m]
      BY <3>1 DEF m
    <3> QED BY <3>2, <3>3
  <2>2. CASE DiscoverRequest(q, d)
    <3> DEFINE m == [Loaded(d) EXCEPT !.pc = "dwalk"]
    <3>1. m.rows = devices /\ m.gen = d /\ m.cur = d
      BY <1>1, <1>2 DEF Session
    <3> HIDE DEF m
    <3>2. sess' = [sess EXCEPT ![q] = m]
      BY <2>2 DEF DiscoverRequest, m
    <3> QED BY <3>1, <3>2
  <2>3. CASE SnmpRequest(q, d)
    <3> DEFINE m == [Loaded(d) EXCEPT !.pc = "tell", !.run = runs + 1]
    <3>1. m.rows = devices /\ m.gen = d /\ m.cur = d
      BY <1>1, <1>2 DEF Session
    <3> HIDE DEF m
    <3>2. sess' = [sess EXCEPT ![q] = m]
      BY <2>3 DEF SnmpRequest, m
    <3> QED BY <3>1, <3>2
  <2> QED BY <2>1, <2>2, <2>3
<1>4. SessionGiven(n)
  BY <1>3 DEF SessionGiven, CascadeInv, GivenOnce
<1>5. UNCHANGED tables
  BY DEF PollRequest, DiscoverRequest, SnmpRequest
<1> QED BY <1>3, <1>4, <1>5, SessionCascade, WorkerTypes

\* So do connectivity tests.
LEMMA TestCascade ==
  ASSUME IsMySQL, TypeInv, CascadeInv, NEW q \in Requests,
         TestStep(q) \/ \E chosen \in SUBSET Ids : TestRequest(q, chosen)
  PROVE  CascadeInv'
<1> USE WorkerTypes
<1> DEFINE s0 == sess[q]
           s == Refreshed(s0, s0.cur)
<1>s. /\ s0 \in Session /\ SessionGiven(s0)
      /\ s0.pc \notin {"idle", "next"} \/ s0.pend => s0.cur \in Ids
  BY DEF TypeInv, TypeOK, BusyHasDevice, CascadeInv, GivenOnce, SessionGiven
<1>r. ASSUME s0.pc \notin {"idle", "next"}
      PROVE  /\ s \in Session /\ s.pc = s0.pc /\ s.cur = s0.cur /\ s.cur \in Ids /\ SessionGiven(s)
             /\ s.rows[s.cur].gen # 0 => s.rows[s.cur].gen = s.cur
  <2>1. s0.cur \in Ids /\ s0.gen = s0.cur
    BY <1>s, <1>r DEF SessionGiven
  <2>2. /\ s \in Session /\ s.pc = s0.pc /\ s.cur = s0.cur /\ s.gen = s0.gen
        /\ \A e \in Ids : s.rows[e].gen \in {0, e}
    BY <1>s, <2>1, RefreshedType, RefreshedGiven DEF TypeInv
  <2> HIDE DEF s, s0
  <2>3. s.rows[s.cur].gen # 0 => s.rows[s.cur].gen = s.cur
    BY <2>1, <2>2
  <2> QED BY <2>1, <2>2, <2>3 DEF SessionGiven
<1>1. ASSUME NEW chosen \in SUBSET Ids, TestRequest(q, chosen) PROVE CascadeInv'
  <2> DEFINE rows == [d \in Ids |-> IF IsMySQL \/ d \in chosen THEN devices[d] ELSE Blank]
             n == [Idle EXCEPT !.pc = "next", !.run = runs + 1, !.todo = chosen, !.test = TRUE,
                               !.open = IsMySQL, !.rows = rows, !.snap = IF IsMySQL THEN ports ELSE {}]
  <2>1. sess' = [sess EXCEPT ![q] = n] /\ UNCHANGED tables
    BY <1>1 DEF TestRequest
  <2>2. \A d \in Ids : rows[d].gen \in {0, d}
    BY DEF CascadeInv, GivenOnce
  <2> HIDE DEF rows
  <2>3. n.rows = rows /\ n.pc = "next" /\ ~n.pend
    BY DEF Idle
  <2> HIDE DEF n
  <2> QED BY <2>1, <2>2, <2>3, SessionCascade DEF SessionGiven
<1>2. ASSUME NEW d \in Ids, StartTest(q, d) PROVE CascadeInv'
  <2> DEFINE r == Refreshed(s0, d)
             n == [Expired(r) EXCEPT !.pc = "play", !.cur = d, !.todo = @ \ {d}, !.gen = r.rows[d].gen]
  <2>1. /\ r \in Session /\ r.cur = s0.cur /\ r.gen = s0.gen /\ r.pend = s0.pend
        /\ \A e \in Ids : r.rows[e].gen \in {0, e}
    BY <1>s, RefreshedType, RefreshedGiven DEF TypeInv
  <2>2. /\ r.rows[d].gen # 0 /\ ~StartConflict(r, d) /\ sess' = [sess EXCEPT ![q] = n]
        /\ metrics' = IF r.pend THEN WithSample(metrics, r) ELSE metrics
        /\ UNCHANGED <<devices, created, edits, ports, traffic>>
    BY <1>2 DEF StartTest
  <2> HIDE DEF r
  <2>3. n.rows = NoRows /\ n.gen = r.rows[d].gen /\ n.cur = d
    <3>1. Expired(r).rows = NoRows /\ Expired(r) \in Session
      BY <2>1, BlankTypes DEF Expired, Session
    <3> QED BY <3>1 DEF Session
  <2> HIDE DEF n
  <2>4. SessionGiven(n)
    BY <2>1, <2>2, <2>3, BlankGens DEF SessionGiven
  <2>5. CASE r.pend
    <3>1. r.cur \in Live /\ r.gen = r.cur
      BY <1>s, <2>1, <2>2, <2>5 DEF StartConflict, SessionGiven
    <3> QED BY <2>2, <2>4, <2>5, <3>1, SampleCascade
  <2>6. CASE ~r.pend
    BY <2>2, <2>4, <2>6, SessionCascade DEF tables
  <2> QED BY <2>5, <2>6
<1>3. CASE PlayedOut(q) \/ ToldOnly(q)
  <2>1. s0.pc \notin {"idle", "next"} /\ sess' = [sess EXCEPT ![q] = Left(s)] /\ UNCHANGED tables
    BY <1>3 DEF PlayedOut, ToldOnly
  <2> HIDE DEF s
  <2> QED BY <1>r, <2>1, LeftGiven, SessionCascade
<1>4. CASE Played(q)
  <2>1. /\ s0.pc \notin {"idle", "next"} /\ UNCHANGED tables
        /\ sess' = [sess EXCEPT ![q] = [s EXCEPT !.pc = "tell"]]
    BY <1>4 DEF Played
  <2> HIDE DEF s
  <2>2. SessionGiven([s EXCEPT !.pc = "tell"])
    BY <1>r, <2>1 DEF SessionGiven, Session
  <2> QED BY <2>1, <2>2, SessionCascade
<1>5. CASE Told(q)
  <2> DEFINE n == [s EXCEPT !.pc = "dwalk", !.gen = s.rows[s.cur].gen]
  <2>1. s0.pc \notin {"idle", "next"} /\ s.rows[s.cur].gen # 0 /\ UNCHANGED tables
        /\ sess' = [sess EXCEPT ![q] = n]
    BY <1>5 DEF Told
  <2> HIDE DEF s
  <2>2. n.rows = s.rows /\ n.gen = s.rows[s.cur].gen /\ n.cur = s.cur
    BY <1>r, <2>1 DEF Session
  <2> HIDE DEF n
  <2>3. SessionGiven(n)
    BY <1>r, <2>1, <2>2 DEF SessionGiven
  <2> QED BY <2>1, <2>3, SessionCascade
<1>6. CASE Collect(q)
  <2> DEFINE n(dirty) == [s EXCEPT !.pc = "walk", !.gen = s.rows[s.cur].gen, !.pend = TRUE, !.dirty = dirty]
  <2>1. s0.pc \notin {"idle", "next"} /\ s.rows[s.cur].gen # 0 /\ UNCHANGED tables
    BY <1>6 DEF Collect
  <2>2. PICK dirty \in BOOLEAN : sess' = [sess EXCEPT ![q] = n(dirty)]
    BY <1>6 DEF Collect
  <2> DEFINE m == n(dirty)
  <2> HIDE DEF s
  <2>3. m.rows = s.rows /\ m.gen = s.rows[s.cur].gen /\ m.cur = s.cur /\ sess' = [sess EXCEPT ![q] = m]
    BY <1>r, <2>1, <2>2 DEF Session
  <2> HIDE DEF m, n
  <2>4. SessionGiven(m)
    BY <1>r, <2>1, <2>3 DEF SessionGiven
  <2> QED BY <2>1, <2>3, <2>4, SessionCascade
<1>7. CASE TestGone(q)
  BY <1>7, AbortCascade, RaiseCascade DEF TestGone
<1>8. CASE TestFails(q)
  BY <1>8, AbortCascade DEF TestFails, FailedCommit
<1>9. CASE Tell(q)
  <2> DEFINE n == [Expired(s0) EXCEPT !.pc = "told"]
  <2>1. PICK status : devices' = [devices EXCEPT ![s0.cur] = Flushed(@, s0, status)]
    BY <1>9 DEF Tell
  <2>2. /\ s0.pc = "tell" /\ s0.cur \in Live /\ sess' = [sess EXCEPT ![q] = n]
        /\ UNCHANGED <<created, ports, metrics, traffic>>
    BY <1>9 DEF Tell
  <2>3. n.rows = NoRows /\ n.gen = s0.gen /\ n.cur = s0.cur
    BY <1>s DEF Expired, Session
  <2> HIDE DEF n
  <2>4. SessionGiven(n)
    BY <1>s, <2>2, <2>3, BlankGens DEF SessionGiven
  <2> QED BY <2>1, <2>2, <2>4, StatusCascade
<1> QED BY <1>1, <1>2, <1>3, <1>4, <1>5, <1>6, <1>7, <1>8, <1>9 DEF TestStep

\* A new id is larger than any given before: nothing carries it yet.
LEMMA AdminCascade ==
  ASSUME IsMySQL, TypeInv, CascadeInv, AdminStep \/ Restart
  PROVE  CascadeInv'
<1>t. devices \in [Ids -> Row] /\ \A d \in Ids : devices[d] \in Row
  BY DEF TypeInv, TypeOK
<1>1. CASE Create
  <2>1. PICK mon \in BOOLEAN, snmp \in BOOLEAN :
          devices' = [devices EXCEPT ![NextId] =
                        [Blank EXCEPT !.gen = created + 1, !.mon = mon, !.snmp = snmp]]
    BY <1>1 DEF Create
  <2> DEFINE row == [Blank EXCEPT !.gen = created + 1, !.mon = mon, !.snmp = snmp]
             id == created + 1
  <2>2. NextId = id /\ id \in Ids /\ created' = id
    BY <1>1 DEF Create, NextId
  <2>3. row.gen = id
    BY BlankTypes DEF Row
  <2>4. created \in Nat
    BY DEF TypeInv, TypeOK, Gens
  <2>5. devices' = [devices EXCEPT ![id] = row]
    BY <2>1, <2>2
  <2>6. devices[id].gen = 0
    BY <2>2, <2>4 DEF CascadeInv, GivenOnce
  <2> HIDE DEF row
  <2>7. devices'[id].gen = id /\ \A d \in Ids : d # id => devices'[d] = devices[d]
    BY <1>t, <2>2, <2>3, <2>5
  <2>8. \A d \in Ids : d > id => d > created
    BY <2>4 DEF Ids
  <2> HIDE DEF id
  <2>9. UNCHANGED <<sess, ports, metrics, traffic>>
    BY <1>1 DEF Create
  <2>10. GivenOnce'
    <3>1. \A d \in Ids : devices'[d].gen \in {0, d}
      BY <2>7 DEF CascadeInv, GivenOnce
    <3>2. \A d \in Ids : d > created' => devices'[d].gen = 0
      <4>1. ~(id > id)
        BY <2>2 DEF Ids
      <4> QED BY <2>2, <2>7, <2>8, <4>1 DEF CascadeInv, GivenOnce
    <3> QED BY <2>9, <3>1, <3>2 DEF CascadeInv, GivenOnce
  <2>11. RowsHaveTheirDevice'
    BY <2>6, <2>7, <2>9 DEF CascadeInv, RowsHaveTheirDevice, Live
  <2> QED BY <2>10, <2>11 DEF CascadeInv
<1>2. ASSUME NEW d \in Ids, Patch(d) PROVE CascadeInv'
  <2>1. PICK mon \in BOOLEAN, snmp \in BOOLEAN :
          devices' = [devices EXCEPT ![d].mon = mon, ![d].snmp = snmp]
    BY <1>2 DEF Patch
  <2>2. \A e \in Ids : devices'[e].gen = devices[e].gen
    BY <1>t, <2>1 DEF Row
  <2>3. UNCHANGED <<created, sess, ports, metrics, traffic>>
    BY <1>2 DEF Patch
  <2> QED BY <2>2, <2>3 DEF CascadeInv, GivenOnce, RowsHaveTheirDevice, Live
<1>3. ASSUME NEW d \in Ids, Delete(d) PROVE CascadeInv'
  <2>1. devices' = [devices EXCEPT ![d] = Blank] /\ UNCHANGED <<created, sess>>
    BY <1>3 DEF Delete
  <2>2. devices'[d].gen = 0 /\ \A e \in Ids : e # d => devices'[e] = devices[e]
    BY <1>t, <2>1, BlankGens
  <2>3. \A x \in (ports \cup metrics \cup traffic)' : x \in ports \cup metrics \cup traffic /\ x.dev # d
    BY <1>3 DEF Delete
  <2>4. GivenOnce'
    BY <2>1, <2>2 DEF CascadeInv, GivenOnce
  <2>5. RowsHaveTheirDevice'
    BY <2>2, <2>3 DEF CascadeInv, RowsHaveTheirDevice, Live
  <2> QED BY <2>4, <2>5 DEF CascadeInv
<1>4. CASE Restart
  <2>1. UNCHANGED tables /\ \A w \in Workers : sess'[w] = Idle
    BY <1>4 DEF Restart
  <2> QED BY <2>1, BlankGens DEF CascadeInv, GivenOnce, RowsHaveTheirDevice, SessionGiven, Live, tables
<1> QED BY <1>1, <1>2, <1>3, <1>4 DEF AdminStep

\* With foreign keys enforced, ids are given once and every row has its device.
LEMMA CascadeInvariant == Spec => [](IsMySQL => CascadeInv)
<1>1. Init => (IsMySQL => CascadeInv)
  BY BlankGens DEF Init, CascadeInv, GivenOnce, RowsHaveTheirDevice, SessionGiven
<1>2. TypeInv /\ (IsMySQL => CascadeInv) /\ [Next]_vars => (IsMySQL => CascadeInv)'
  <2> SUFFICES ASSUME IsMySQL, TypeInv, CascadeInv, [Next]_vars PROVE CascadeInv'
    OBVIOUS
  <2>1. ASSUME NEW t \in Ticks, TickStart(t) \/ TickStep(t) PROVE CascadeInv'
    BY <2>1, TickCascade
  <2>2. ASSUME NEW q \in Requests, NEW d \in Ids,
               PollRequest(q, d) \/ DiscoverRequest(q, d) \/ SnmpRequest(q, d)
        PROVE  CascadeInv'
    BY <2>2, RequestCascade
  <2>6. ASSUME NEW q \in Requests, TestStep(q) \/ \E chosen \in SUBSET Ids : TestRequest(q, chosen)
        PROVE  CascadeInv'
    BY <2>6, TestCascade
  <2>3. ASSUME NEW w \in Workers, CollectStep(w) PROVE CascadeInv'
    BY <2>3, CollectCascade
  <2>4. CASE AdminStep \/ Restart
    BY <2>4, AdminCascade
  <2>5. CASE UNCHANGED vars
    BY <2>5 DEF vars, tables, observed, CascadeInv, GivenOnce, RowsHaveTheirDevice, Live
  <2> QED BY <2>1, <2>2, <2>3, <2>4, <2>5, <2>6 DEF Next
<1> QED BY <1>1, <1>2, TypeCorrect, PTL DEF Spec

\* Where foreign keys are enforced and ids are given once, no port and no sample
\* is ever without its device or attributed to another one, whatever polls and
\* discoveries are under way when a device is deleted.
THEOREM CascadeWhereEnforced == Spec => [](IsMySQL => RowsHaveTheirDevice)
<1>1. (IsMySQL => CascadeInv) => (IsMySQL => RowsHaveTheirDevice)
  BY DEF CascadeInv
<1> QED BY <1>1, CascadeInvariant, PTL

-----------------------------------------------------------------------------
\* The ledger of polls

\* What ties a session to the polls that are not over, when r runs were started
\* and c devices created: it is idle without a poll, its device is not ahead of it
\* too, a sample of a poll is pending until its first commit, and a test that goes on
\* with the next device keeps in hand the one whose sample is pending.
SessionFits(w, s, r, c) ==
  /\ s.run <= r
  /\ s.gen <= c /\ \A d \in Ids : s.rows[d].gen <= c
  /\ s.cur \notin s.todo
  /\ s.pc = "idle" => s.run = 0 /\ s.todo = {}
  /\ s.pc = "idle" \/ (s.pc = "next" /\ ~s.pend) => s.cur = 0
  /\ s.pc \notin {"idle", "dwalk", "dcommit"} \/ s.pend \/ s.test => s.run # 0
  /\ w \in Ticks /\ s.pc # "idle" => s.run # 0
  /\ w \in Ticks /\ s.pc = "next" => ~s.pend
  /\ w \notin Ticks /\ ~s.test => s.todo = {} /\ s.pc # "next"
  /\ s.pc \in {"walk", "except"} \/ (w \in Ticks /\ s.pc \in {"dwalk", "dcommit"}) => s.pend
  /\ s.pc \notin {"idle", "next"} \/ s.pend => s.gen # 0

\* Past that commit the sample is on record, unless it went with its device.
NotedEarly(s, records, devs) ==
  s.pc \in {"reload", "commit"} /\ ~s.pend =>
    \/ <<s.run, s.cur>> \in records
    \/ IsMySQL /\ devs[s.cur].gen # s.gen

\* No two workers are busy with the same run.
OneOwner ==
  \A v, w \in Workers : sess[v].run = sess[w].run /\ sess[v].run # 0 => v = w

LedgerInv ==
  /\ \A w \in Workers : SessionFits(w, sess[w], runs, created)
  /\ \A w \in Workers : NotedEarly(sess[w], Recorded(metrics), devices)
  /\ OneOwner
  /\ \A d \in Ids : devices[d].gen <= created

-----------------------------------------------------------------------------
\* The polls that are not over

\* A step after which a worker has the same devices in hand and ahead of it.
LEMMA DueKept ==
  ASSUME TypeInv, NEW w \in Workers, NEW n, sess' = [sess EXCEPT ![w] = n],
         \/ n.run = sess[w].run /\ \A d \in Ids : Concerns(n, d) <=> Concerns(sess[w], d)
         \/ n.run = 0 /\ sess[w].run = 0
  PROVE  DuePolls' = DuePolls
<1>1. sess'[w] = n /\ \A v \in Workers : v # w => sess'[v] = sess[v]
  BY DEF TypeInv, TypeOK
<1>2. \A x \in Runs \X Ids : x[1] # 0 /\ x[2] \in Ids
  BY DEF Runs
<1>3. \A x \in Runs \X Ids, v \in Workers :
        (sess'[v].run = x[1] /\ Concerns(sess'[v], x[2])) <=> (sess[v].run = x[1] /\ Concerns(sess[v], x[2]))
  BY <1>1, <1>2
<1> QED BY <1>3 DEF DuePolls, Concerns

\* A step after which a worker is done with a device and goes on with the others.
LEMMA DueSettled ==
  ASSUME TypeInv, OneOwner, NEW w \in Workers, NEW n, NEW e \in Ids,
         sess' = [sess EXCEPT ![w] = n], sess[w].run # 0,
         \A d \in Ids : (n.run = sess[w].run /\ Concerns(n, d)) <=> (Concerns(sess[w], d) /\ d # e),
         n.run \in {0, sess[w].run}
  PROVE  DuePolls' = DuePolls \ {<<sess[w].run, e>>}
<1> DEFINE r == sess[w].run
<1>1. sess'[w] = n /\ \A v \in Workers : v # w => sess'[v] = sess[v]
  BY DEF TypeInv, TypeOK
<1>2. \A x \in Runs \X Ids : x[1] # 0 /\ x[2] \in Ids /\ (x = <<r, e>> <=> x[1] = r /\ x[2] = e)
  BY DEF Runs
<1>3. \A x \in Runs \X Ids, v \in Workers :
        (sess'[v].run = x[1] /\ Concerns(sess'[v], x[2]))
          <=> (sess[v].run = x[1] /\ Concerns(sess[v], x[2]) /\ ~(x[1] = r /\ x[2] = e))
  <2> SUFFICES ASSUME NEW x \in Runs \X Ids, NEW v \in Workers
               PROVE  (sess'[v].run = x[1] /\ Concerns(sess'[v], x[2]))
                        <=> (sess[v].run = x[1] /\ Concerns(sess[v], x[2]) /\ ~(x[1] = r /\ x[2] = e))
    OBVIOUS
  <2>1. CASE v = w
    BY <1>1, <1>2, <2>1
  <2>2. CASE v # w
    <3>1. sess[v].run = x[1] => x[1] # r
      BY <1>2, <2>2 DEF OneOwner
    <3> QED BY <1>1, <2>2, <3>1
  <2> QED BY <2>1, <2>2
<1> QED BY <1>2, <1>3 DEF DuePolls, Concerns

\* A step after which a worker has given up its run.
LEMMA DueGivenUp ==
  ASSUME TypeInv, OneOwner, NEW w \in Workers, NEW n,
         sess' = [sess EXCEPT ![w] = n], sess[w].run # 0, n.run = 0
  PROVE  DuePolls' = {p \in DuePolls : p[1] # sess[w].run}
<1> DEFINE r == sess[w].run
<1>1. sess'[w] = n /\ \A v \in Workers : v # w => sess'[v] = sess[v]
  BY DEF TypeInv, TypeOK
<1>2. \A x \in Runs \X Ids : x[1] # 0
  BY DEF Runs
<1>3. \A x \in Runs \X Ids, v \in Workers :
        (sess'[v].run = x[1] /\ Concerns(sess'[v], x[2]))
          <=> (sess[v].run = x[1] /\ Concerns(sess[v], x[2]) /\ x[1] # r)
  BY <1>1, <1>2 DEF OneOwner
<1> QED BY <1>3 DEF DuePolls, Concerns

\* A step after which an idle worker has a new run.
LEMMA DueAnnounced ==
  ASSUME TypeInv, NEW w \in Workers, NEW n, NEW chosen \in SUBSET Ids,
         sess' = [sess EXCEPT ![w] = n], sess[w].run = 0, n.run \in Runs,
         \A d \in Ids : Concerns(n, d) <=> d \in chosen
  PROVE  DuePolls' = DuePolls \cup ({n.run} \X chosen)
<1>1. sess'[w] = n /\ \A v \in Workers : v # w => sess'[v] = sess[v]
  BY DEF TypeInv, TypeOK
<1>2. \A x \in Runs \X Ids : x[1] # 0 /\ x[2] \in Ids /\ (x \in {n.run} \X chosen <=> x[1] = n.run /\ x[2] \in chosen)
  BY DEF Runs
<1>3. \A x \in Runs \X Ids :
        (\E v \in Workers : sess'[v].run = x[1] /\ Concerns(sess'[v], x[2]))
          <=> \/ \E v \in Workers : sess[v].run = x[1] /\ Concerns(sess[v], x[2])
              \/ x[1] = n.run /\ x[2] \in chosen
  <2> SUFFICES ASSUME NEW x \in Runs \X Ids
               PROVE  (\E v \in Workers : sess'[v].run = x[1] /\ Concerns(sess'[v], x[2]))
                        <=> \/ \E v \in Workers : sess[v].run = x[1] /\ Concerns(sess[v], x[2])
                            \/ x[1] = n.run /\ x[2] \in chosen
    OBVIOUS
  <2>1. \A v \in Workers : v # w =>
          ((sess'[v].run = x[1] /\ Concerns(sess'[v], x[2]))
             <=> (sess[v].run = x[1] /\ Concerns(sess[v], x[2])))
    BY <1>1
  <2>2. (sess'[w].run = x[1] /\ Concerns(sess'[w], x[2])) <=> (x[1] = n.run /\ x[2] \in chosen)
    BY <1>1, <1>2
  <2>3. ~(sess[w].run = x[1] /\ Concerns(sess[w], x[2]))
    BY <1>2
  <2> QED BY <2>1, <2>2, <2>3
<1>4. {n.run} \X chosen \subseteq Runs \X Ids
  OBVIOUS
<1>5. \A x : x \in DuePolls' <=> x \in DuePolls \cup ({n.run} \X chosen)
  BY <1>2, <1>3, <1>4 DEF DuePolls, Concerns
<1> QED BY <1>5

\* What a commit of a session's sample adds to the record.
LEMMA RecordedSample ==
  ASSUME NEW table, NEW s
  PROVE  Recorded(WithSample(table, s)) = Recorded(table) \cup {<<s.run, s.cur>>}
<1>1. \A m : m \in WithSample(table, s) <=> m \in table \/ m = [dev |-> s.cur, gen |-> s.gen, run |-> s.run]
  BY DEF WithSample
<1> DEFINE new == [dev |-> s.cur, gen |-> s.gen, run |-> s.run]
<1>2. new.run = s.run /\ new.dev = s.cur
  OBVIOUS
<1> HIDE DEF new
<1>3. \A m : m \in WithSample(table, s) <=> m \in table \/ m = new
  BY <1>1 DEF new
<1>4. \A x : x \in Recorded(WithSample(table, s)) <=> x \in Recorded(table) \/ x = <<s.run, s.cur>>
  BY <1>2, <1>3 DEF Recorded
<1> QED BY <1>4

-----------------------------------------------------------------------------
\* Steps of one worker

LedgerStep == LedgerInv' /\ [Ledger!Next]_(Ledger!vars)

\* The ledger reads only these of the tables.
LEMMA LedgerSame ==
  ASSUME DuePolls' = DuePolls, UNCHANGED <<runs, metrics, traffic>>,
         \A d \in Ids : devices'[d].polled = devices[d].polled
  PROVE  UNCHANGED Ledger!vars
BY DEF Ledger!vars, Recorded

\* A step of one worker keeps the invariant, when it keeps which device each row
\* is and takes no sample off the record.
LEMMA OwnStepLedger ==
  ASSUME TypeInv, LedgerInv, NEW w \in Workers, NEW n, sess' = [sess EXCEPT ![w] = n],
         runs' \in Nat, runs <= runs', created' = created,
         n.run = 0 \/ n.run = sess[w].run \/ n.run = runs + 1,
         SessionFits(w, n, runs', created), NotedEarly(n, Recorded(metrics'), devices'),
         Recorded(metrics) \subseteq Recorded(metrics'),
         \A d \in Ids : devices'[d].gen = devices[d].gen
  PROVE  LedgerInv'
<1>1. sess'[w] = n /\ \A v \in Workers : v # w => sess'[v] = sess[v]
  BY DEF TypeInv, TypeOK
<1>2. runs \in Nat /\ \A v \in Workers : sess[v].run \in Nat /\ sess[v].run <= runs
  BY DEF TypeInv, TypeOK, Session, LedgerInv, SessionFits
<1>3. \A v \in Workers : SessionFits(v, sess'[v], runs', created')
  BY <1>1, <1>2 DEF LedgerInv, SessionFits
<1>4. \A v \in Workers : NotedEarly(sess'[v], Recorded(metrics'), devices')
  <2> SUFFICES ASSUME NEW v \in Workers, v # w PROVE NotedEarly(sess[v], Recorded(metrics'), devices')
    BY <1>1
  <2>1. sess[v].pc \in {"reload", "commit"} => sess[v].cur \in Ids
    BY DEF TypeInv, BusyHasDevice
  <2> QED BY <2>1 DEF LedgerInv, NotedEarly
<1>5. OneOwner'
  BY <1>1, <1>2 DEF LedgerInv, OneOwner
<1>6. \A d \in Ids : devices'[d].gen <= created'
  BY DEF LedgerInv
<1>7. Recorded(metrics)' = Recorded(metrics')
  BY DEF Recorded
<1> QED BY <1>3, <1>4, <1>5, <1>6, <1>7 DEF LedgerInv

\* A step of one worker that writes nothing and keeps its polls.
LEMMA OwnMove ==
  ASSUME TypeInv, LedgerInv, NEW w \in Workers, NEW n, sess' = [sess EXCEPT ![w] = n],
         UNCHANGED <<devices, created, metrics, traffic, runs>>,
         SessionFits(w, n, runs, created), NotedEarly(n, Recorded(metrics), devices),
         \/ n.run = sess[w].run /\ \A d \in Ids : Concerns(n, d) <=> Concerns(sess[w], d)
         \/ n.run = 0 /\ sess[w].run = 0
  PROVE  LedgerStep
<1>1. runs \in Nat
  BY DEF TypeInv, TypeOK
<1>2. /\ runs' \in Nat /\ runs <= runs' /\ created' = created
      /\ SessionFits(w, n, runs', created) /\ NotedEarly(n, Recorded(metrics'), devices')
      /\ Recorded(metrics) \subseteq Recorded(metrics')
      /\ \A d \in Ids : devices'[d].gen = devices[d].gen
  BY <1>1
<1>3. LedgerInv'
  BY <1>2, OwnStepLedger
<1>4. UNCHANGED Ledger!vars
  BY DueKept, LedgerSame
<1> QED BY <1>3, <1>4 DEF LedgerStep

\* The idle session and a session without a device.
LEMMA IdleFits ==
  ASSUME NEW w, NEW r \in Nat, NEW c \in Nat
  PROVE  /\ SessionFits(w, Idle, r, c)
         /\ \A records, devs : NotedEarly(Idle, records, devs)
         /\ Idle.run = 0 /\ Idle.pc = "idle" /\ Idle.cur = 0 /\ Idle.todo = {}
<1>1. /\ Idle.run = 0 /\ Idle.pc = "idle" /\ Idle.cur = 0 /\ Idle.todo = {} /\ Idle.gen = 0
      /\ Idle.rows = NoRows /\ ~Idle.pend /\ ~Idle.test
  BY DEF Idle
<1>2. \A d \in Ids : NoRows[d].gen = 0
  BY BlankGens
<1> QED BY <1>1, <1>2 DEF SessionFits, NotedEarly

\* A worker that becomes idle gives up its run, if it had one.
LEMMA IdleLedger ==
  ASSUME TypeInv, LedgerInv, NEW w \in Workers, sess' = [sess EXCEPT ![w] = Idle],
         UNCHANGED <<devices, created, metrics, traffic, runs>>
  PROVE  LedgerStep
<1>1. runs \in Nat /\ created \in Nat
  BY DEF TypeInv, TypeOK, Gens
<1>2. sess' = [sess EXCEPT ![w] = Idle]
  OBVIOUS
<1>3. SessionFits(w, Idle, runs, created) /\ NotedEarly(Idle, Recorded(metrics), devices) /\ Idle.run = 0
  BY <1>1, IdleFits
<1>4. CASE sess[w].run = 0
  BY <1>2, <1>3, <1>4, OwnMove
<1>5. CASE sess[w].run # 0
  <2> DEFINE r == sess[w].run
  <2>1. LedgerInv'
    <3>1. /\ runs' \in Nat /\ runs <= runs' /\ created' = created
          /\ SessionFits(w, Idle, runs', created) /\ NotedEarly(Idle, Recorded(metrics'), devices')
          /\ Recorded(metrics) \subseteq Recorded(metrics')
          /\ \A d \in Ids : devices'[d].gen = devices[d].gen
      BY <1>1, <1>3
    <3> QED BY <1>2, <1>3, <3>1, OwnStepLedger
  <2>2. r \in 1 .. MaxRuns
    BY <1>5 DEF TypeInv, TypeOK, Session
  <2>3. DuePolls' = {p \in DuePolls : p[1] # r}
    BY <1>2, <1>3, <1>5, DueGivenUp DEF LedgerInv
  <2>4. Ledger!GiveUp(r)
    BY <1>1, <2>3 DEF Ledger!GiveUp, Recorded
  <2> QED BY <2>1, <2>2, <2>4 DEF LedgerStep, Ledger!Next
<1> QED BY <1>4, <1>5

\* What the session knows after reading a row again.
LEMMA RefreshedFits ==
  ASSUME TypeInv, LedgerInv, NEW w \in Workers, NEW d \in Ids
  PROVE  /\ Refreshed(sess[w], d).pend = sess[w].pend
         /\ Refreshed(sess[w], d).gen = sess[w].gen
         /\ \A e \in Ids : Refreshed(sess[w], d).rows[e].gen <= created
<1>1. sess[w] \in Session
  BY DEF TypeInv, TypeOK
<1>2. /\ \A e \in Ids : sess[w].rows[e].gen <= created
      /\ \A e \in Ids : devices[e].gen <= created
  BY DEF LedgerInv, SessionFits
<1> QED BY <1>1, <1>2 DEF Refreshed, Session

-----------------------------------------------------------------------------
\* The loop over the devices

\* A tick announces the polls it selected.
LEMMA TickStartLedger ==
  ASSUME TypeInv, LedgerInv, NEW t \in Ticks, TickStart(t)
  PROVE  LedgerStep
<1> USE WorkerTypes
<1> DEFINE chosen == {d \in Live : devices[d].mon /\ devices[d].snmp}
           rows == [d \in Ids |-> IF IsMySQL \/ d \in chosen THEN devices[d] ELSE Blank]
           snap == IF IsMySQL THEN ports ELSE {}
           n == [Idle EXCEPT !.pc = "next", !.run = runs + 1, !.todo = chosen, !.open = IsMySQL,
                             !.rows = rows, !.snap = snap]
<1>1. /\ sess' = [sess EXCEPT ![t] = n] /\ sess[t].pc = "idle" /\ runs' = runs + 1 /\ runs < MaxRuns
      /\ UNCHANGED <<created, devices, metrics, traffic>>
  BY DEF TickStart, tables
<1>2. runs \in Nat /\ created \in Nat /\ runs + 1 \in Runs
  <2>1. runs \in 0 .. MaxRuns /\ created \in Nat
    BY DEF TypeInv, TypeOK, Gens
  <2>2. runs < MaxRuns
    BY <1>1
  <2>3. runs \in Nat /\ runs + 1 \in 1 .. MaxRuns
    BY <2>1, <2>2, BoundsAssumption
  <2> QED BY <2>1, <2>3 DEF Runs
<1>3. chosen \in SUBSET Ids
  BY DEF Live
<1>4. \A d \in Ids : rows[d].gen <= created
  <2>1. \A d \in Ids : devices[d].gen <= created
    BY DEF LedgerInv
  <2> HIDE DEF chosen
  <2> QED BY <1>2, <2>1, BlankGens
<1>5. /\ n.pc = "next" /\ n.run = runs + 1 /\ n.todo = chosen /\ n.cur = 0 /\ n.rows = rows /\ n.gen = 0
      /\ ~n.pend
  <2> HIDE DEF chosen, rows, snap
  <2> QED BY DEF Idle
<1> HIDE DEF chosen, rows, snap, n
<1>6. sess[t].run = 0
  BY <1>1 DEF LedgerInv, SessionFits
<1>7. 0 \notin chosen /\ \A d \in Ids : Concerns(n, d) <=> d \in chosen
  BY <1>3, <1>5 DEF Ids, Concerns
<1>8. SessionFits(t, n, runs', created) /\ NotedEarly(n, Recorded(metrics'), devices')
  BY <1>1, <1>2, <1>4, <1>5, <1>7 DEF SessionFits, NotedEarly
<1>9. LedgerInv'
  <2>1. runs' \in Nat /\ runs <= runs' /\ Recorded(metrics) \subseteq Recorded(metrics')
        /\ n.run = runs + 1 /\ \A d \in Ids : devices'[d].gen = devices[d].gen
    BY <1>1, <1>2, <1>5
  <2> QED BY <1>1, <1>8, <2>1, OwnStepLedger
<1>10. DuePolls' = DuePolls \cup ({n.run} \X chosen)
  <2>1. sess' = [sess EXCEPT ![t] = n] /\ n.run \in Runs
    BY <1>1, <1>2, <1>5
  <2>2. \A d \in Ids : Concerns(n, d) <=> d \in chosen
    BY <1>7
  <2>3. t \in Workers
    BY DEF Workers
  <2> QED BY <1>3, <1>6, <2>1, <2>2, <2>3, DueAnnounced
<1>11. Ledger!Announce(chosen)
  BY <1>1, <1>5, <1>10 DEF Ledger!Announce, Recorded
<1> QED BY <1>3, <1>9, <1>11 DEF LedgerStep, Ledger!Next

\* The commit that ends a poll, well or not, of a session whose sample is pending
\* or on record.
Settles(w, n, status) ==
  /\ sess[w].pc \in {"commit", "except"} /\ sess[w].cur \in Live
  /\ devices' = [devices EXCEPT ![sess[w].cur] = Flushed(@, sess[w], status)]
  /\ metrics' = IF sess[w].pend THEN WithSample(metrics, sess[w]) ELSE metrics
  /\ traffic' \in {traffic, WithSample(traffic, sess[w])}
  /\ \E b \in BOOLEAN : n \in {Finished(w), [Finished(w) EXCEPT !.n = b]}
  /\ sess' = [sess EXCEPT ![w] = n]
  /\ UNCHANGED <<created, runs>>
  /\ ~sess[w].pend => <<sess[w].run, sess[w].cur>> \in Recorded(metrics)

\* It puts the sample on record and the poll's number on the page.
LEMMA SettleLedger ==
  ASSUME TypeInv, LedgerInv, NEW w \in Workers, NEW n, NEW status, Settles(w, n, status)
  PROVE  LedgerStep
<1> USE DEF Settles
<1> DEFINE s == sess[w]
           more == w \in Ticks \/ (s.test /\ s.todo # {})
<1>1. s \in Session /\ s.cur \in Ids /\ s.run \in 1 .. MaxRuns /\ s.run # 0 /\ SessionFits(w, s, runs, created)
  BY DEF TypeInv, TypeOK, LedgerInv, SessionFits, Live, Session
<1>2. runs \in Nat /\ created \in Nat
  BY DEF TypeInv, TypeOK, Gens
<1>3. devices \in [Ids -> Row] /\ \A d \in Ids : devices[d] \in Row
  BY DEF TypeInv, TypeOK
<1>4. /\ devices'[s.cur] = Flushed(devices[s.cur], s, status)
      /\ \A d \in Ids : d # s.cur => devices'[d] = devices[d]
  BY <1>1, <1>3
<1>5. \A d \in Ids : /\ devices'[d].gen = devices[d].gen
                     /\ devices'[d].polled = IF d = s.cur THEN s.run ELSE devices[d].polled
  <2>1. Flushed(devices[s.cur], s, status).polled = s.run
    BY <1>1, <1>3 DEF Flushed, Row
  <2> QED BY <1>1, <1>3, <1>4, <2>1, FlushedKeeps
<1>7. /\ more => n.pc = "next" /\ n.run = s.run /\ n.todo = s.todo /\ n.cur = 0
                 /\ n.rows = NoRows /\ n.gen = 0 /\ ~n.pend /\ n.test = s.test
      /\ ~more => n.pc = "idle" /\ n.run = 0 /\ n.todo = {} /\ n.cur = 0
                  /\ n.rows = NoRows /\ n.gen = 0 /\ ~n.pend /\ ~n.test /\ s.todo = {}
  <2>0. PICK b \in BOOLEAN : n \in {Finished(w), [Finished(w) EXCEPT !.n = b]}
    OBVIOUS
  <2>1. CASE more
    <3>1. w \in Ticks \/ (sess[w].test /\ sess[w].todo # {})
      BY <2>1
    <3> HIDE DEF Settles, more, s
    <3>0. TypeOK
      BY DEF TypeInv
    <3>3. \A f \in {Finished(w), [Finished(w) EXCEPT !.n = b]} :
            /\ f.pc = "next" /\ f.run = sess[w].run /\ f.todo = sess[w].todo
            /\ f.cur = 0 /\ f.open = FALSE /\ f.pend = FALSE /\ f.dirty = FALSE
            /\ f.test = sess[w].test /\ f.rows = NoRows /\ f.gen = 0
      BY <3>0, <3>1, FinishedFields
    <3>2. /\ n.pc = "next" /\ n.run = sess[w].run /\ n.todo = sess[w].todo /\ n.cur = 0
          /\ n.rows = NoRows /\ n.gen = 0 /\ ~n.pend /\ n.test = sess[w].test
      BY <2>0, <3>3
    <3> QED BY <2>1, <3>2 DEF s
  <2>2. CASE ~more
    <3>1. w \notin Ticks /\ ~(sess[w].test /\ sess[w].todo # {})
      BY <2>2
    <3>2. SessionFits(w, sess[w], runs, created)
      BY <1>1
    <3>3. sess[w].todo = {}
      BY <3>1, <3>2 DEF SessionFits
    <3> HIDE DEF Settles, more
    <3>4. Finished(w) = Idle
      BY <3>1 DEF Finished
    <3>5. /\ n.pc = "idle" /\ n.run = 0 /\ n.todo = {} /\ n.cur = 0
          /\ n.rows = NoRows /\ n.gen = 0 /\ ~n.pend /\ ~n.test
      BY <2>0, <3>4 DEF Idle
    <3> QED BY <2>2, <3>3, <3>5
  <2> QED BY <2>1, <2>2
<1> HIDE DEF more
<1>8. SessionFits(w, n, runs', created) /\ NotedEarly(n, Recorded(metrics'), devices') /\ n.run \in {0, s.run}
  <2>1. CASE more
    <3>1. 0 \notin s.todo
      BY <1>1 DEF Session, Ids
    <3>2. w \notin Ticks => s.test
      BY <2>1 DEF more
    <3> HIDE DEF s
    <3> QED BY <1>1, <1>2, <1>7, <2>1, <3>1, <3>2, BlankGens DEF SessionFits, NotedEarly
  <2>2. CASE ~more
    BY <1>1, <1>2, <1>7, <2>2, BlankGens DEF SessionFits, NotedEarly
  <2> QED BY <2>1, <2>2
<1>9. Recorded(metrics') = Recorded(metrics) \cup {<<s.run, s.cur>>}
  BY RecordedSample
<1>10. LedgerInv'
  <2> HIDE DEF s
  <2>1. sess' = [sess EXCEPT ![w] = n] /\ runs' \in Nat /\ runs <= runs' /\ created' = created
        /\ (n.run = 0 \/ n.run = sess[w].run) /\ Recorded(metrics) \subseteq Recorded(metrics')
    BY <1>2, <1>8, <1>9 DEF s
  <2> QED BY <1>5, <1>8, <2>1, OwnStepLedger
<1>11. DuePolls' = DuePolls \ {<<s.run, s.cur>>}
  <2>1. \A d \in Ids : (n.run = s.run /\ Concerns(n, d)) <=> (Concerns(s, d) /\ d # s.cur)
    <3>1. CASE more
      BY <1>1, <1>7, <3>1 DEF Concerns, SessionFits, Ids
    <3>2. CASE ~more
      BY <1>1, <1>7, <3>2 DEF Concerns, SessionFits, Ids
    <3> QED BY <3>1, <3>2
  <2>2. sess' = [sess EXCEPT ![w] = n]
    OBVIOUS
  <2>3. s.run # 0 /\ s.cur \in Ids /\ OneOwner /\ n.run \in {0, s.run}
    BY <1>1, <1>8 DEF LedgerInv
  <2>4. sess[w].run # 0 /\ n.run \in {0, sess[w].run} /\ sess[w].cur \in Ids
    BY <2>3
  <2>5. \A d \in Ids : (n.run = sess[w].run /\ Concerns(n, d)) <=> (Concerns(sess[w], d) /\ d # sess[w].cur)
    BY <2>1
  <2>6. DuePolls' = DuePolls \ {<<sess[w].run, sess[w].cur>>}
    <3>1. PICK m : m = n
      OBVIOUS
    <3>4. PICK e \in Ids : e = sess[w].cur
      BY <2>4
    <3>2. /\ sess' = [sess EXCEPT ![w] = m] /\ m.run \in {0, sess[w].run}
          /\ \A d \in Ids : (m.run = sess[w].run /\ Concerns(m, d)) <=> (Concerns(sess[w], d) /\ d # e)
      BY <2>2, <2>4, <2>5, <3>1, <3>4
    <3>3. DuePolls' = DuePolls \ {<<sess[w].run, e>>}
      BY <2>3, <2>4, <3>2, DueSettled
    <3> QED BY <3>3, <3>4
  <2> QED BY <2>6
<1>12. <<s.run, s.cur>> \in DuePolls
  BY <1>1 DEF DuePolls, Concerns, Runs
<1>13. PICK r \in 1 .. MaxRuns, e \in Ids : r = s.run /\ e = s.cur
  BY <1>1
<1>14. Ledger!Settle(r, e)
  <2>1. Recorded(traffic') \in {Recorded(traffic), Recorded(traffic) \cup {<<r, e>>}}
    BY <1>13, RecordedSample
  <2>2. [d \in Ids |-> devices'[d].polled]
          = [[d \in Ids |-> devices[d].polled] EXCEPT ![e] = r]
    BY <1>5, <1>13
  <2>3. Recorded(metrics)' = Recorded(metrics') /\ Recorded(traffic)' = Recorded(traffic')
    BY DEF Recorded
  <2> HIDE DEF s
  <2> QED BY <1>9, <1>11, <1>12, <1>13, <2>1, <2>2, <2>3 DEF Ledger!Settle
<1> QED BY <1>10, <1>14 DEF LedgerStep, Ledger!Next

\* An exception gives up the run.
LEMMA AbortLedger ==
  ASSUME TypeInv, LedgerInv, NEW w \in Workers, Abort(w), UNCHANGED <<tables, runs>>
  PROVE  LedgerStep
BY IdleLedger DEF Abort, tables

\* So does a commit that raises.
LEMMA FailedCommitLedger ==
  ASSUME TypeInv, LedgerInv, NEW w \in Workers, NEW conflict, FailedCommit(w, conflict)
  PROVE  LedgerStep
BY AbortLedger DEF FailedCommit

\* A request leaves a device without a commit: what is pending of its poll stays due.
LEMMA LeaveLedger ==
  ASSUME TypeInv, LedgerInv, NEW w \in Workers, NEW s \in Session, NEW n,
         n = Left(s), sess' = [sess EXCEPT ![w] = n],
         sess[w].pc \notin {"idle", "next"}, sess[w].run # 0, w \notin Ticks,
         s.run = sess[w].run, s.cur = sess[w].cur, s.todo = sess[w].todo, s.gen = sess[w].gen,
         s.pend = sess[w].pend, s.test = sess[w].test, \A d \in Ids : s.rows[d].gen <= created,
         UNCHANGED <<devices, created, metrics, traffic, runs>>
  PROVE  LedgerStep
<1>1. /\ SessionFits(w, sess[w], runs, created) /\ runs \in Nat /\ created \in Nat /\ s.cur \in Ids
      /\ s.run \in 1 .. MaxRuns
  BY DEF LedgerInv, TypeInv, TypeOK, BusyHasDevice, Gens, Session
<1>2. CASE s.todo = {}
  BY <1>2, IdleLedger, LeftType
<1>3. CASE s.todo # {}
  <2>1. /\ n.pc = "next" /\ n.run = s.run /\ n.todo = s.todo /\ n.pend = s.pend /\ n.test = s.test
        /\ n.rows = s.rows
        /\ s.pend => n.cur = s.cur /\ n.gen = s.gen
        /\ ~s.pend => n.cur = 0 /\ n.gen = 0
    BY <1>3, LeftType
  <2>2. SessionFits(w, n, runs, created) /\ NotedEarly(n, Recorded(metrics), devices)
    <3>1. 0 \notin s.todo
      BY DEF Session, Ids
    <3>2. s.test
      BY <1>1, <1>3 DEF SessionFits
    <3>3. s.run <= runs /\ s.gen <= created /\ s.cur \notin s.todo /\ s.run # 0 /\ (s.pend => s.gen # 0)
      BY <1>1 DEF SessionFits
    <3>4. n.gen <= created /\ n.cur \notin n.todo
      BY <1>1, <2>1, <3>1, <3>3
    <3> QED BY <1>1, <2>1, <3>1, <3>2, <3>3, <3>4 DEF SessionFits, NotedEarly
  <2>3. CASE s.pend
    BY <2>1, <2>2, <2>3, OwnMove DEF Concerns
  <2>4. CASE ~s.pend
    <3>1. LedgerInv'
      <4>1. /\ runs' \in Nat /\ runs <= runs' /\ created' = created /\ n.run = sess[w].run
            /\ SessionFits(w, n, runs', created) /\ NotedEarly(n, Recorded(metrics'), devices')
            /\ Recorded(metrics) \subseteq Recorded(metrics')
            /\ \A e \in Ids : devices'[e].gen = devices[e].gen
        BY <1>1, <2>1, <2>2
      <4> QED BY <4>1, OwnStepLedger
    <3>2. PICK r \in 1 .. MaxRuns, e \in Ids : r = s.run /\ e = s.cur
      BY <1>1
    <3>3. DuePolls' = DuePolls \ {<<r, e>>}
      <4>1. \A d \in Ids : (n.run = sess[w].run /\ Concerns(n, d)) <=> (Concerns(sess[w], d) /\ d # e)
        BY <1>1, <2>1, <2>4, <3>2 DEF Concerns, Ids, SessionFits
      <4>2. n.run \in {0, sess[w].run} /\ sess[w].run # 0 /\ OneOwner /\ r = sess[w].run
        BY <2>1, <3>2 DEF LedgerInv
      <4>3. PICK m : m = n
        OBVIOUS
      <4>4. /\ sess' = [sess EXCEPT ![w] = m] /\ m.run \in {0, sess[w].run} /\ sess[w].run # 0
            /\ \A d \in Ids : (m.run = sess[w].run /\ Concerns(m, d)) <=> (Concerns(sess[w], d) /\ d # e)
        BY <4>1, <4>2, <4>3
      <4>5. DuePolls' = DuePolls \ {<<sess[w].run, e>>}
        BY <4>2, <4>4, DueSettled
      <4> QED BY <4>2, <4>5
    <3>4. <<r, e>> \in DuePolls
      BY <3>2 DEF DuePolls, Concerns, Runs
    <3>5. Ledger!Leave(r, e)
      <4>1. Recorded(metrics)' = Recorded(metrics) /\ Recorded(traffic)' = Recorded(traffic)
        BY DEF Recorded
      <4> QED BY <3>3, <3>4, <4>1 DEF Ledger!Leave
    <3> QED BY <3>1, <3>5 DEF LedgerStep, Ledger!Next
  <2> QED BY <2>3, <2>4
<1> QED BY <1>2, <1>3

\* An exception in a poll gives up its run, or is swallowed by a test.
LEMMA RaiseLedger ==
  ASSUME TypeInv, LedgerInv, NEW w \in Workers, Raise(w), sess[w].pc \notin {"idle", "next"},
         sess[w].test => sess[w].run # 0, UNCHANGED <<tables, runs>>
  PROVE  LedgerStep
<1>1. CASE ~sess[w].test
  BY <1>1, AbortLedger DEF Raise
<1>2. CASE sess[w].test
  <2>1. PICK n : n = Left(sess[w])
    OBVIOUS
  <2>2. sess' = [sess EXCEPT ![w] = n] /\ w \notin Ticks
    BY <1>2, <2>1 DEF Raise, TypeInv, BusyHasDevice
  <2>3. PICK s \in Session : s = sess[w]
    BY DEF TypeInv, TypeOK
  <2>4. /\ n = Left(s) /\ s.run = sess[w].run /\ s.cur = sess[w].cur /\ s.todo = sess[w].todo
        /\ s.gen = sess[w].gen /\ s.pend = sess[w].pend /\ s.test = sess[w].test
        /\ \A d \in Ids : s.rows[d].gen <= created
    BY <2>1, <2>3 DEF LedgerInv, SessionFits
  <2>5. UNCHANGED <<devices, created, metrics, traffic, runs>>
    BY DEF tables
  <2> QED BY <1>2, <2>2, <2>4, <2>5, LeaveLedger
<1> QED BY <1>1, <1>2

\* The steps of the loop over the devices.
LEMMA TickStepLedger ==
  ASSUME TypeInv, LedgerInv, NEW t \in Ticks, TickStep(t)
  PROVE  LedgerStep
<1> USE WorkerTypes
<1>0. /\ SessionFits(t, sess[t], runs, created) /\ sess[t] \in Session
      /\ runs \in Nat /\ created \in Nat
  BY DEF LedgerInv, TypeInv, TypeOK, Gens
<1>1. ASSUME NEW d \in Ids, Begin(t, d) PROVE LedgerStep
  <2> DEFINE s == Refreshed(sess[t], d)
  <2>1. /\ s \in Session /\ s.todo = sess[t].todo /\ s.run = sess[t].run /\ s.run # 0
        /\ sess[t].pc = "next" /\ d \in s.todo /\ s.rows[d].gen # 0 /\ sess[t].cur = 0
        /\ \A e \in Ids : s.rows[e].gen <= created
    BY <1>0, <1>1, RefreshedType, RefreshedFits DEF Begin, SessionFits, TypeInv
  <2>2. PICK dirty \in BOOLEAN : sess' = [sess EXCEPT ![t] =
            [s EXCEPT !.pc = "walk", !.cur = d, !.todo = @ \ {d}, !.gen = s.rows[d].gen,
                      !.pend = TRUE, !.dirty = dirty]]
    BY <1>1 DEF Begin
  <2> HIDE DEF s
  <2>3. PICK n : n = [s EXCEPT !.pc = "walk", !.cur = d, !.todo = @ \ {d}, !.gen = s.rows[d].gen,
                              !.pend = TRUE, !.dirty = dirty]
    OBVIOUS
  <2>4. /\ n.pc = "walk" /\ n.cur = d /\ n.todo = s.todo \ {d} /\ n.gen = s.rows[d].gen
        /\ n.pend = TRUE /\ n.run = s.run /\ n.rows = s.rows
    BY <2>1, <2>3 DEF Session
  <2>5. SessionFits(t, n, runs, created) /\ NotedEarly(n, Recorded(metrics), devices)
    BY <1>0, <2>1, <2>4 DEF SessionFits, NotedEarly
  <2>6. \A e \in Ids : Concerns(n, e) <=> Concerns(sess[t], e)
    BY <2>1, <2>4 DEF Concerns, Ids
  <2>7. sess' = [sess EXCEPT ![t] = n] /\ UNCHANGED <<devices, created, metrics, traffic, runs>>
    BY <1>1, <2>2, <2>3 DEF Begin, tables
  <2> QED BY <2>1, <2>4, <2>5, <2>6, <2>7, OwnMove
<1>2. ASSUME NEW d \in Ids, Skip(t, d) PROVE LedgerStep
  <2> DEFINE s == Refreshed(sess[t], d)
  <2>1. /\ s \in Session /\ s.todo = sess[t].todo /\ s.run = sess[t].run /\ s.run # 0
        /\ s.pc = "next" /\ d \in s.todo /\ s.gen <= created /\ sess[t].cur = 0 /\ s.cur = 0
        /\ ~s.pend
        /\ \A e \in Ids : s.rows[e].gen <= created
    BY <1>0, <1>2, RefreshedType, RefreshedFits DEF Skip, SessionFits, TypeInv
  <2>2. sess' = [sess EXCEPT ![t] = [s EXCEPT !.todo = @ \ {d}, !.n = TRUE]]
        /\ UNCHANGED <<devices, created, metrics, traffic, runs>>
    BY <1>2 DEF Skip, tables
  <2> HIDE DEF s
  <2>3. PICK n : n = [s EXCEPT !.todo = @ \ {d}, !.n = TRUE]
    OBVIOUS
  <2>4. /\ n.pc = "next" /\ n.cur = 0 /\ n.todo = s.todo \ {d} /\ n.gen = s.gen
        /\ n.run = s.run /\ n.rows = s.rows /\ ~n.pend
    BY <2>1, <2>3 DEF Session
  <2>5. SessionFits(t, n, runs, created) /\ NotedEarly(n, Recorded(metrics), devices)
    BY <1>0, <2>1, <2>4 DEF SessionFits, NotedEarly
  <2>6. sess' = [sess EXCEPT ![t] = n]
    BY <2>2, <2>3
  <2>7. LedgerInv'
    <3>1. /\ runs' \in Nat /\ runs <= runs' /\ created' = created /\ n.run = sess[t].run
          /\ SessionFits(t, n, runs', created) /\ NotedEarly(n, Recorded(metrics'), devices')
          /\ Recorded(metrics) \subseteq Recorded(metrics')
          /\ \A e \in Ids : devices'[e].gen = devices[e].gen
      BY <1>0, <2>1, <2>2, <2>4, <2>5
    <3> QED BY <2>6, <3>1, OwnStepLedger
  <2>8. PICK r \in 1 .. MaxRuns : r = sess[t].run
    BY <1>0, <2>1 DEF Session
  <2>9. DuePolls' = DuePolls \ {<<r, d>>}
    <3>1. \A e \in Ids : (n.run = sess[t].run /\ Concerns(n, e)) <=> (Concerns(sess[t], e) /\ e # d)
      BY <2>1, <2>4 DEF Concerns, Ids
    <3>2. n.run \in {0, sess[t].run} /\ sess[t].run # 0 /\ OneOwner
      BY <2>1, <2>4 DEF LedgerInv
    <3> QED BY <2>6, <2>8, <3>1, <3>2, DueSettled
  <2>10. <<r, d>> \in DuePolls
    BY <2>1, <2>8 DEF DuePolls, Concerns, Runs
  <2>11. Ledger!Leave(r, d)
    BY <2>2, <2>9, <2>10 DEF Ledger!Leave, Recorded
  <2> QED BY <2>7, <2>11 DEF LedgerStep, Ledger!Next
<1>3. ASSUME NEW d \in Ids, BeginGone(t, d) PROVE LedgerStep
  BY <1>3, AbortLedger DEF BeginGone
<1>4. CASE Except(t)
  <2>1. sess[t].pend
    BY <1>0, <1>4 DEF Except, SessionFits
  <2>2. PICK n : n = Finished(t)
    OBVIOUS
  <2>3. Settles(t, n, "failed")
    BY <1>4, <2>1, <2>2 DEF Except, Settles
  <2> QED BY <2>3, SettleLedger
<1>5. CASE ExceptFails(t)
  BY <1>5, FailedCommitLedger DEF ExceptFails
<1>6. CASE TickEnd(t)
  BY <1>6, IdleLedger DEF TickEnd, tables
<1>7. CASE PruneFails(t)
  BY <1>7, FailedCommitLedger DEF PruneFails
<1> QED BY <1>1, <1>2, <1>3, <1>4, <1>5, <1>6, <1>7 DEF TickStep

\* The steps of collect_device_metrics and discover_ports.
LEMMA CollectStepLedger ==
  ASSUME TypeInv, LedgerInv, IsMySQL => CascadeInv, NEW w \in Workers, CollectStep(w)
  PROVE  LedgerStep
<1> DEFINE s == sess[w]
<1>1. /\ s \in Session /\ SessionFits(w, s, runs, created) /\ runs \in Nat /\ created \in Nat
      /\ NotedEarly(s, Recorded(metrics), devices)
      /\ s.pc \notin {"idle", "next"} => s.cur \in Ids
  BY DEF LedgerInv, TypeInv, TypeOK, Gens, BusyHasDevice
<1>2. CASE Walk(w)
  <2>1. PICK known, pc : sess' = [sess EXCEPT ![w].known = known, ![w].pc = pc] /\ pc \in {"dwalk", "commit"}
    BY <1>2 DEF Walk
  <2>2. PICK n : n = [s EXCEPT !.known = known, !.pc = pc]
    OBVIOUS
  <2>3. sess' = [sess EXCEPT ![w] = n]
    BY <2>1, <2>2 DEF TypeInv, TypeOK
  <2>4. /\ n.pc = pc /\ n.run = s.run /\ n.cur = s.cur /\ n.todo = s.todo /\ n.gen = s.gen
        /\ n.rows = s.rows /\ n.pend = s.pend /\ n.test = s.test
    BY <1>1, <2>2 DEF Session
  <2>5. s.pc = "walk" /\ UNCHANGED <<devices, created, metrics, traffic, runs>>
    BY <1>2 DEF Walk, tables
  <2>6. SessionFits(w, n, runs, created) /\ NotedEarly(n, Recorded(metrics), devices)
    BY <1>1, <2>1, <2>4, <2>5 DEF SessionFits, NotedEarly
  <2> QED BY <2>3, <2>4, <2>5, <2>6, OwnMove DEF Concerns
<1>3. CASE WalkFails(w)
  <2>1. CASE w \in Ticks
    <3>1. PICK n : n = [s EXCEPT !.pc = "except"]
      OBVIOUS
    <3>2. sess' = [sess EXCEPT ![w] = n]
      BY <1>3, <2>1, <3>1 DEF WalkFails, TypeInv, TypeOK
    <3>3. /\ n.pc = "except" /\ n.run = s.run /\ n.cur = s.cur /\ n.todo = s.todo /\ n.gen = s.gen
          /\ n.rows = s.rows /\ n.pend = s.pend /\ n.test = s.test
      BY <1>1, <3>1 DEF Session
    <3>4. s.pc \in {"walk", "dwalk"} /\ UNCHANGED <<devices, created, metrics, traffic, runs>>
      BY <1>3 DEF WalkFails, tables
    <3>5. SessionFits(w, n, runs, created) /\ NotedEarly(n, Recorded(metrics), devices)
      BY <1>1, <2>1, <3>3, <3>4 DEF SessionFits, NotedEarly
    <3> QED BY <3>2, <3>3, <3>4, <3>5, OwnMove DEF Concerns
  <2>2. CASE w \notin Ticks
    <3>1. s.pc \notin {"idle", "next"} /\ Raise(w) /\ UNCHANGED <<tables, runs>>
      BY <1>3, <2>2 DEF WalkFails
    <3>2. CASE s.run # 0
      BY <3>1, <3>2, RaiseLedger
    <3>3. CASE s.run = 0
      <4>1. ~s.test
        BY <1>1, <3>3 DEF SessionFits
      <4> QED BY <3>1, <4>1, RaiseLedger
    <3> QED BY <3>2, <3>3
  <2> QED BY <2>1, <2>2
<1>4. CASE DiscoverWalk(w)
  <2>1. PICK found, known : sess' = [sess EXCEPT ![w].pc = "dcommit", ![w].found = found, ![w].known = known]
    BY <1>4 DEF DiscoverWalk
  <2>2. PICK n : n = [s EXCEPT !.pc = "dcommit", !.found = found, !.known = known]
    OBVIOUS
  <2>3. sess' = [sess EXCEPT ![w] = n]
    BY <2>1, <2>2 DEF TypeInv, TypeOK
  <2>4. /\ n.pc = "dcommit" /\ n.run = s.run /\ n.cur = s.cur /\ n.todo = s.todo /\ n.gen = s.gen
        /\ n.rows = s.rows /\ n.pend = s.pend /\ n.test = s.test
    BY <1>1, <2>2 DEF Session
  <2>5. s.pc = "dwalk" /\ UNCHANGED <<devices, created, metrics, traffic, runs>>
    BY <1>4 DEF DiscoverWalk, tables
  <2>6. SessionFits(w, n, runs, created) /\ NotedEarly(n, Recorded(metrics), devices)
    BY <1>1, <2>4, <2>5 DEF SessionFits, NotedEarly
  <2> QED BY <2>3, <2>4, <2>5, <2>6, OwnMove DEF Concerns
<1>5. CASE DiscoverCommit(w)
  <2>1. s.pc = "dcommit" /\ s.cur \in Ids /\ UNCHANGED <<devices, created, traffic, runs>>
    BY <1>1, <1>5 DEF DiscoverCommit
  <2>2. CASE s.run = 0
    <3>1. sess' = [sess EXCEPT ![w] = Idle] /\ UNCHANGED metrics
      BY <1>1, <1>5, <2>1, <2>2 DEF DiscoverCommit, SessionFits
    <3> QED BY <2>1, <3>1, IdleLedger
  <2>3. CASE s.run # 0 /\ s.pend
    <3>1. PICK n : n = [Expired(s) EXCEPT !.pc = "reload"]
      OBVIOUS
    <3>2. sess' = [sess EXCEPT ![w] = n] /\ metrics' = WithSample(metrics, s)
      BY <1>1, <1>5, <2>1, <2>3, <3>1 DEF DiscoverCommit, SessionFits
    <3>3. /\ n.pc = "reload" /\ n.run = s.run /\ n.cur = s.cur /\ n.todo = s.todo /\ n.gen = s.gen
          /\ n.rows = NoRows /\ ~n.pend /\ n.test = s.test
      BY <1>1, <3>1 DEF Session, Expired
    <3>4. PICK r \in 1 .. MaxRuns, e \in Ids : r = s.run /\ e = s.cur
      BY <1>1, <2>1, <2>3 DEF Session
    <3>5. Recorded(metrics') = Recorded(metrics) \cup {<<r, e>>}
      BY <3>2, <3>4, RecordedSample
    <3>6. SessionFits(w, n, runs, created) /\ NotedEarly(n, Recorded(metrics'), devices')
      BY <1>1, <2>1, <2>3, <3>3, <3>4, <3>5, BlankGens DEF SessionFits, NotedEarly
    <3>7. LedgerInv'
      <4>1. /\ runs' \in Nat /\ runs <= runs' /\ created' = created /\ n.run = sess[w].run
            /\ SessionFits(w, n, runs', created) /\ Recorded(metrics) \subseteq Recorded(metrics')
            /\ \A d \in Ids : devices'[d].gen = devices[d].gen
        BY <1>1, <2>1, <3>3, <3>5, <3>6
      <4> QED BY <3>2, <3>6, <4>1, OwnStepLedger
    <3>8. DuePolls' = DuePolls
      BY <3>2, <3>3, DueKept DEF Concerns
    <3>9. <<r, e>> \in DuePolls
      BY <3>4 DEF DuePolls, Concerns, Runs
    <3>10. Ledger!Note(r, e)
      <4>1. Recorded(metrics)' = Recorded(metrics') /\ Recorded(traffic)' = Recorded(traffic)
        BY <2>1 DEF Recorded
      <4> QED BY <2>1, <3>5, <3>8, <3>9, <4>1 DEF Ledger!Note
    <3> QED BY <3>7, <3>10 DEF LedgerStep, Ledger!Next
  <2>4. CASE s.run # 0 /\ ~s.pend
    <3>1. PICK n : n = [Expired(s) EXCEPT !.pc = "collect"]
      OBVIOUS
    <3>2. sess' = [sess EXCEPT ![w] = n] /\ UNCHANGED metrics
      BY <1>1, <1>5, <2>4, <3>1 DEF DiscoverCommit
    <3>3. /\ n.pc = "collect" /\ n.run = s.run /\ n.cur = s.cur /\ n.todo = s.todo /\ n.gen = s.gen
          /\ n.rows = NoRows /\ ~n.pend /\ n.test = s.test
      BY <1>1, <3>1 DEF Session, Expired
    <3>4. SessionFits(w, n, runs, created) /\ NotedEarly(n, Recorded(metrics), devices)
      BY <1>1, <2>1, <2>4, <3>3, BlankGens DEF SessionFits, NotedEarly
    <3> QED BY <2>1, <3>2, <3>3, <3>4, OwnMove DEF Concerns
  <2> QED BY <2>2, <2>3, <2>4
<1>6. CASE DiscoverCommitFails(w)
  BY <1>6, FailedCommitLedger DEF DiscoverCommitFails
<1>7. CASE Reload(w)
  <2> DEFINE x == Refreshed(s, s.cur)
  <2>1. s.pc = "reload" /\ s.cur \in Ids /\ UNCHANGED <<devices, created, metrics, traffic, runs>>
    BY <1>1, <1>7 DEF Reload, tables
  <2>2. PICK known : sess' = [sess EXCEPT ![w] = [x EXCEPT !.pc = "commit", !.known = known]]
    BY <1>7 DEF Reload
  <2>3. /\ x \in Session /\ x.run = s.run /\ x.cur = s.cur /\ x.todo = s.todo /\ x.gen = s.gen
        /\ x.pend = s.pend /\ x.test = s.test /\ \A d \in Ids : x.rows[d].gen <= created
    BY <1>1, <2>1, RefreshedType, RefreshedFits DEF TypeInv
  <2> HIDE DEF x
  <2>4. PICK n : n = [x EXCEPT !.pc = "commit", !.known = known]
    OBVIOUS
  <2>5. /\ n.pc = "commit" /\ n.run = s.run /\ n.cur = s.cur /\ n.todo = s.todo /\ n.gen = s.gen
        /\ n.rows = x.rows /\ n.pend = s.pend /\ n.test = s.test
    BY <2>3, <2>4 DEF Session
  <2>6. SessionFits(w, n, runs, created) /\ NotedEarly(n, Recorded(metrics), devices)
    BY <1>1, <2>1, <2>3, <2>5 DEF SessionFits, NotedEarly
  <2> QED BY <2>1, <2>2, <2>4, <2>5, <2>6, OwnMove DEF Concerns
<1>8. CASE ReloadGone(w)
  BY <1>1, <1>8, RaiseLedger DEF ReloadGone, SessionFits
<1>9. CASE Commit(w)
  <2>1. s.pc = "commit" /\ s.cur \in Live /\ s.cur \in Ids
    BY <1>1, <1>9 DEF Commit, CommitConflict
  <2>2. ~s.pend => <<s.run, s.cur>> \in Recorded(metrics)
    <3>1. IsMySQL => devices[s.cur].gen = s.gen
      BY <2>1 DEF CascadeInv, GivenOnce, Live
    <3> QED BY <1>1, <2>1, <3>1 DEF NotedEarly
  <2>3. traffic' \in {traffic, WithSample(traffic, s)}
    BY <1>9 DEF Commit
  <2>4. PICK n : n = [Finished(w) EXCEPT !.n = w \in Ticks]
    OBVIOUS
  <2>5. \E b \in BOOLEAN : n \in {Finished(w), [Finished(w) EXCEPT !.n = b]}
    <3>1. CASE w \in Ticks
      <4>1. (w \in Ticks) = TRUE
        BY <3>1
      <4> QED BY <2>4, <4>1
    <3>2. CASE w \notin Ticks
      <4>1. (w \in Ticks) = FALSE
        BY <3>2
      <4> QED BY <2>4, <4>1
    <3> QED BY <3>1, <3>2
  <2>6. sess' = [sess EXCEPT ![w] = n]
    BY <1>9, <2>4 DEF Commit
  <2>7. Settles(w, n, "success")
    BY <1>9, <2>1, <2>2, <2>3, <2>5, <2>6 DEF Commit, Settles
  <2> QED BY <2>7, SettleLedger
<1>10. CASE CommitFails(w)
  BY <1>10, FailedCommitLedger DEF CommitFails
<1> QED BY <1>2, <1>3, <1>4, <1>5, <1>6, <1>7, <1>8, <1>9, <1>10 DEF CollectStep

-----------------------------------------------------------------------------
\* Requests, the administrator, restarts

\* What the session of a request knows when it has loaded its device.
LEMMA LoadedFits ==
  ASSUME TypeInv, LedgerInv, NEW d \in Ids
  PROVE  /\ Loaded(d) \in Session /\ Loaded(d).cur = d /\ Loaded(d).gen = devices[d].gen
         /\ Loaded(d).run = 0 /\ Loaded(d).todo = {} /\ Loaded(d).pend = FALSE
         /\ Loaded(d).test = FALSE
         /\ \A e \in Ids : Loaded(d).rows[e].gen <= created
<1> DEFINE rows == IF IsMySQL THEN devices ELSE [NoRows EXCEPT ![d] = devices[d]]
           snap == IF IsMySQL THEN ports ELSE {}
<1>1. Loaded(d) = [Idle EXCEPT !.cur = d, !.gen = devices[d].gen, !.open = IsMySQL,
                               !.rows = rows, !.snap = snap]
  BY DEF Loaded
<1>2. \A e \in Ids : rows[e].gen <= created
  BY BlankTypes, BlankGens DEF LedgerInv, TypeInv, TypeOK, Gens
<1> HIDE DEF rows, snap
<1>3. /\ Loaded(d).gen = devices[d].gen /\ Loaded(d).run = 0 /\ Loaded(d).todo = {}
      /\ Loaded(d).pend = FALSE /\ Loaded(d).test = FALSE /\ Loaded(d).rows = rows
  BY <1>1 DEF Idle
<1> QED BY <1>2, <1>3, LoadedType

\* A request that announces polls.
LEMMA AnnounceLedger ==
  ASSUME TypeInv, LedgerInv, NEW q \in Requests, NEW n, NEW chosen \in SUBSET Ids,
         sess[q].run = 0, sess' = [sess EXCEPT ![q] = n], n.run = runs + 1,
         runs < MaxRuns, runs' = runs + 1, UNCHANGED <<devices, created, metrics, traffic>>,
         SessionFits(q, n, runs + 1, created), NotedEarly(n, Recorded(metrics), devices),
         \A e \in Ids : Concerns(n, e) <=> e \in chosen
  PROVE  LedgerStep
<1>1. q \in Workers /\ runs \in Nat /\ runs + 1 \in Runs
  <2>1. q \in Workers
    BY WorkerTypes
  <2>2. runs \in 0 .. MaxRuns
    BY DEF TypeInv, TypeOK
  <2>3. runs \in Nat /\ runs + 1 \in 1 .. MaxRuns
    BY <2>2
  <2> QED BY <2>1, <2>3 DEF Runs
<1>2. LedgerInv'
  <2>1. /\ runs' \in Nat /\ runs <= runs' /\ created' = created /\ n.run = runs + 1
        /\ SessionFits(q, n, runs', created) /\ NotedEarly(n, Recorded(metrics'), devices')
        /\ Recorded(metrics) \subseteq Recorded(metrics')
        /\ \A e \in Ids : devices'[e].gen = devices[e].gen
    BY <1>1
  <2> QED BY <1>1, <2>1, OwnStepLedger
<1>3. DuePolls' = DuePolls \cup ({n.run} \X chosen)
  <2>1. n.run \in Runs
    BY <1>1
  <2> QED BY <1>1, <2>1, DueAnnounced
<1>4. Ledger!Announce(chosen)
  <2>1. {n.run} = {runs'}
    OBVIOUS
  <2>2. Recorded(metrics)' = Recorded(metrics) /\ Recorded(traffic)' = Recorded(traffic)
    BY DEF Recorded
  <2> QED BY <1>3, <2>1, <2>2 DEF Ledger!Announce
<1> QED BY <1>2, <1>4 DEF LedgerStep, Ledger!Next

\* The requests for one device.
LEMMA RequestLedger ==
  ASSUME TypeInv, LedgerInv, NEW q \in Requests, NEW d \in Ids,
         PollRequest(q, d) \/ DiscoverRequest(q, d) \/ SnmpRequest(q, d)
  PROVE  LedgerStep
<1>1. /\ q \in Workers /\ q \notin Ticks /\ runs \in Nat /\ created \in Nat
      /\ devices[d].gen # 0 /\ devices[d].gen <= created /\ sess[q].run = 0
  <2>1. q \in Workers /\ q \notin Ticks
    BY WorkerTypes, WorkersAssumption
  <2>2. runs \in Nat /\ created \in Nat /\ devices[d].gen <= created
    BY DEF LedgerInv, TypeInv, TypeOK, Gens
  <2>3. devices[d].gen # 0 /\ sess[q].pc = "idle"
    BY DEF PollRequest, DiscoverRequest, SnmpRequest, Live
  <2>4. sess[q].run = 0
    BY <2>1, <2>3 DEF LedgerInv, SessionFits
  <2> QED BY <2>1, <2>2, <2>3, <2>4
<1> DEFINE s == Loaded(d)
<1>2. /\ s \in Session /\ s.cur = d /\ s.gen = devices[d].gen /\ s.run = 0 /\ s.todo = {}
      /\ s.pend = FALSE /\ s.test = FALSE /\ \A e \in Ids : s.rows[e].gen <= created
  BY LoadedFits
<1> HIDE DEF s
<1>3. PICK one \in SUBSET Ids : one = {d}
  OBVIOUS
<1>4. CASE PollRequest(q, d)
  <2>1. PICK dirty \in BOOLEAN : sess' = [sess EXCEPT ![q] =
          [s EXCEPT !.pc = "walk", !.run = runs + 1, !.pend = TRUE, !.dirty = dirty]]
    BY <1>4 DEF PollRequest, s
  <2>2. PICK n : n = [s EXCEPT !.pc = "walk", !.run = runs + 1, !.pend = TRUE, !.dirty = dirty]
    OBVIOUS
  <2>3. sess' = [sess EXCEPT ![q] = n] /\ runs' = runs + 1 /\ runs < MaxRuns
        /\ UNCHANGED <<devices, created, metrics, traffic>>
    BY <1>4, <2>1, <2>2 DEF PollRequest, tables
  <2>4. /\ n.pc = "walk" /\ n.run = runs + 1 /\ n.cur = d /\ n.todo = {} /\ n.pend = TRUE
        /\ n.gen = devices[d].gen /\ n.rows = s.rows /\ n.test = FALSE
    BY <1>2, <2>2 DEF Session
  <2>5. SessionFits(q, n, runs + 1, created) /\ NotedEarly(n, Recorded(metrics), devices)
    BY <1>1, <1>2, <2>3, <2>4 DEF SessionFits, NotedEarly, Ids
  <2>6. \A e \in Ids : Concerns(n, e) <=> e \in one
    BY <1>3, <2>4 DEF Concerns
  <2> QED BY <1>1, <2>3, <2>4, <2>5, <2>6, AnnounceLedger
<1>5. CASE SnmpRequest(q, d)
  <2>1. sess' = [sess EXCEPT ![q] = [s EXCEPT !.pc = "tell", !.run = runs + 1]]
    BY <1>5 DEF SnmpRequest, s
  <2>2. PICK n : n = [s EXCEPT !.pc = "tell", !.run = runs + 1]
    OBVIOUS
  <2>3. sess' = [sess EXCEPT ![q] = n] /\ runs' = runs + 1 /\ runs < MaxRuns
        /\ UNCHANGED <<devices, created, metrics, traffic>>
    BY <1>5, <2>1, <2>2 DEF SnmpRequest, tables
  <2>4. /\ n.pc = "tell" /\ n.run = runs + 1 /\ n.cur = d /\ n.todo = {} /\ n.pend = FALSE
        /\ n.gen = devices[d].gen /\ n.rows = s.rows /\ n.test = FALSE
    BY <1>2, <2>2 DEF Session
  <2>5. SessionFits(q, n, runs + 1, created) /\ NotedEarly(n, Recorded(metrics), devices)
    BY <1>1, <1>2, <2>3, <2>4 DEF SessionFits, NotedEarly, Ids
  <2>6. \A e \in Ids : Concerns(n, e) <=> e \in one
    BY <1>3, <2>4 DEF Concerns
  <2> QED BY <1>1, <2>3, <2>4, <2>5, <2>6, AnnounceLedger
<1>6. CASE DiscoverRequest(q, d)
  <2>1. PICK n : n = [s EXCEPT !.pc = "dwalk"]
    OBVIOUS
  <2>2. sess' = [sess EXCEPT ![q] = n] /\ UNCHANGED <<devices, created, metrics, traffic, runs>>
    BY <1>6, <2>1 DEF DiscoverRequest, tables, s
  <2>3. /\ n.pc = "dwalk" /\ n.run = 0 /\ n.cur = d /\ n.todo = {} /\ n.pend = FALSE
        /\ n.gen = devices[d].gen /\ n.rows = s.rows /\ n.test = FALSE
    BY <1>2, <2>1 DEF Session
  <2>4. SessionFits(q, n, runs, created) /\ NotedEarly(n, Recorded(metrics), devices)
    BY <1>1, <1>2, <2>3 DEF SessionFits, NotedEarly, Ids
  <2> QED BY <1>1, <2>2, <2>3, <2>4, OwnMove
<1> QED BY <1>4, <1>5, <1>6

\* The request of a connectivity test.
LEMMA TestRequestLedger ==
  ASSUME TypeInv, LedgerInv, NEW q \in Requests, NEW chosen \in SUBSET Ids, TestRequest(q, chosen)
  PROVE  LedgerStep
<1> DEFINE rows == [d \in Ids |-> IF IsMySQL \/ d \in chosen THEN devices[d] ELSE Blank]
           snap == IF IsMySQL THEN ports ELSE {}
<1>1. /\ q \in Workers /\ q \notin Ticks /\ runs \in Nat /\ created \in Nat
      /\ sess[q].run = 0 /\ runs' = runs + 1 /\ runs < MaxRuns
      /\ UNCHANGED <<devices, created, metrics, traffic>>
  <2>1. q \in Workers /\ q \notin Ticks
    BY WorkerTypes, WorkersAssumption
  <2>2. runs \in Nat /\ created \in Nat
    BY DEF TypeInv, TypeOK, Gens
  <2>3. sess[q].run = 0
    BY <2>1 DEF LedgerInv, SessionFits, TestRequest
  <2> QED BY <2>1, <2>2, <2>3 DEF TestRequest, tables
<1>2. PICK n : n = [Idle EXCEPT !.pc = "next", !.run = runs + 1, !.todo = chosen, !.test = TRUE,
                      !.open = IsMySQL, !.rows = rows, !.snap = snap]
  OBVIOUS
<1>3. sess' = [sess EXCEPT ![q] = n]
  BY <1>2 DEF TestRequest
<1>4. \A d \in Ids : rows[d].gen <= created
  <2>1. \A d \in Ids : devices[d].gen <= created
    BY DEF LedgerInv
  <2> QED BY <1>1, <2>1, BlankGens
<1> HIDE DEF rows, snap
<1>5. /\ n.pc = "next" /\ n.run = runs + 1 /\ n.todo = chosen /\ n.cur = 0 /\ n.rows = rows
      /\ n.gen = 0 /\ n.pend = FALSE /\ n.test = TRUE
  BY <1>2 DEF Idle
<1>6. 0 \notin chosen /\ \A d \in Ids : Concerns(n, d) <=> d \in chosen
  BY <1>5 DEF Ids, Concerns
<1>7. SessionFits(q, n, runs + 1, created) /\ NotedEarly(n, Recorded(metrics), devices)
  BY <1>1, <1>4, <1>5, <1>6 DEF SessionFits, NotedEarly
<1> QED BY <1>1, <1>3, <1>5, <1>6, <1>7, AnnounceLedger

\* The steps of a connectivity test, and of a poll it asks for.
LEMMA TestStepLedger ==
  ASSUME TypeInv, LedgerInv, NEW q \in Requests, TestStep(q)
  PROVE  LedgerStep
<1>0. /\ SessionFits(q, sess[q], runs, created) /\ sess[q] \in Session
      /\ runs \in Nat /\ created \in Nat /\ q \in Workers /\ q \notin Ticks
      /\ sess[q].pc \notin {"idle", "next"} \/ sess[q].pend => sess[q].cur \in Ids
  BY WorkerTypes, WorkersAssumption DEF LedgerInv, TypeInv, TypeOK, Gens, BusyHasDevice
\* The session after reading the device in hand again.
<1>r. ASSUME sess[q].pc \notin {"idle", "next", "dwalk", "dcommit"}
      PROVE  \E s \in Session :
               /\ s = Refreshed(sess[q], sess[q].cur)
               /\ s.pc = sess[q].pc /\ s.run = sess[q].run /\ s.cur = sess[q].cur
               /\ s.todo = sess[q].todo /\ s.gen = sess[q].gen /\ s.pend = sess[q].pend
               /\ s.test = sess[q].test /\ s.cur \in Ids /\ s.run # 0
               /\ \A e \in Ids : s.rows[e].gen <= created
  <2>1. sess[q].cur \in Ids /\ sess[q].run # 0
    BY <1>0, <1>r DEF SessionFits
  <2>2. PICK e \in Ids : e = sess[q].cur
    BY <2>1
  <2>3. PICK s \in Session : s = Refreshed(sess[q], e)
    BY <1>0, RefreshedType DEF TypeInv
  <2>4. /\ s.pc = sess[q].pc /\ s.run = sess[q].run /\ s.cur = sess[q].cur
        /\ s.todo = sess[q].todo /\ s.gen = sess[q].gen /\ s.pend = sess[q].pend
        /\ s.test = sess[q].test /\ \A x \in Ids : s.rows[x].gen <= created
    BY <1>0, <2>3, RefreshedType, RefreshedFits DEF TypeInv
  <2> QED BY <2>1, <2>2, <2>3, <2>4
<1>1. ASSUME NEW d \in Ids, StartTest(q, d) PROVE LedgerStep
  <2>1. PICK s \in Session : s = Refreshed(sess[q], d)
    BY <1>0, RefreshedType DEF TypeInv
  <2>2. /\ s.pc = "next" /\ s.run = sess[q].run /\ s.cur = sess[q].cur /\ s.todo = sess[q].todo
        /\ s.pend = sess[q].pend /\ s.test = sess[q].test /\ s.run # 0 /\ s.test /\ d \in s.todo
        /\ s.rows[d].gen # 0 /\ s.rows[d].gen <= created /\ s.cur \notin s.todo
    BY <1>0, <1>1, <2>1, RefreshedType, RefreshedFits DEF TypeInv, StartTest, SessionFits
  <2>3. PICK n : n = [Expired(s) EXCEPT !.pc = "play", !.cur = d, !.todo = @ \ {d}, !.gen = s.rows[d].gen]
    OBVIOUS
  <2>4. /\ sess' = [sess EXCEPT ![q] = n] /\ UNCHANGED <<devices, created, traffic, runs>>
        /\ metrics' = IF s.pend THEN WithSample(metrics, s) ELSE metrics
    BY <1>1, <2>1, <2>3 DEF StartTest
  <2>5. /\ n.pc = "play" /\ n.run = s.run /\ n.cur = d /\ n.todo = s.todo \ {d}
        /\ n.gen = s.rows[d].gen /\ n.rows = NoRows /\ n.pend = FALSE /\ n.test = s.test
    BY <2>3 DEF Session, Expired
  <2>6. SessionFits(q, n, runs, created) /\ \A records, devs : NotedEarly(n, records, devs)
    BY <1>0, <2>2, <2>5, BlankGens DEF SessionFits, NotedEarly
  <2>7. CASE s.pend
    <3>1. PICK r \in 1 .. MaxRuns, e \in Ids : r = s.run /\ e = s.cur
      BY <1>0, <2>2, <2>7 DEF Session
    <3>2. Recorded(metrics') = Recorded(metrics) \cup {<<r, e>>}
      BY <2>4, <2>7, <3>1, RecordedSample
    <3>3. LedgerInv'
      <4>1. /\ runs' \in Nat /\ runs <= runs' /\ created' = created /\ n.run = sess[q].run
            /\ SessionFits(q, n, runs', created) /\ NotedEarly(n, Recorded(metrics'), devices')
            /\ Recorded(metrics) \subseteq Recorded(metrics')
            /\ \A x \in Ids : devices'[x].gen = devices[x].gen
        BY <1>0, <2>2, <2>4, <2>5, <2>6, <3>2
      <4> QED BY <1>0, <2>4, <4>1, OwnStepLedger
    <3>4. DuePolls' = DuePolls \ {<<r, e>>}
      <4>1. \A x \in Ids : (n.run = sess[q].run /\ Concerns(n, x)) <=> (Concerns(sess[q], x) /\ x # e)
        BY <2>2, <2>5, <3>1 DEF Concerns
      <4>2. n.run \in {0, sess[q].run} /\ sess[q].run # 0 /\ OneOwner /\ r = sess[q].run
        BY <2>2, <2>5, <3>1 DEF LedgerInv
      <4>3. DuePolls' = DuePolls \ {<<sess[q].run, e>>}
        BY <1>0, <2>4, <4>1, <4>2, DueSettled
      <4> QED BY <4>2, <4>3
    <3>5. <<r, e>> \in DuePolls
      BY <1>0, <2>2, <3>1 DEF DuePolls, Concerns, Runs
    <3>6. Ledger!Leave(r, e)
      <4>1. Recorded(metrics)' = Recorded(metrics') /\ Recorded(traffic)' = Recorded(traffic)
        BY <2>4 DEF Recorded
      <4> QED BY <2>4, <3>2, <3>4, <3>5, <4>1 DEF Ledger!Leave
    <3> QED BY <3>3, <3>6 DEF LedgerStep, Ledger!Next
  <2>8. CASE ~s.pend
    <3>1. s.cur = 0
      BY <1>0, <1>1, <2>2, <2>8 DEF SessionFits, StartTest
    <3>2. \A x \in Ids : Concerns(n, x) <=> Concerns(sess[q], x)
      BY <2>2, <2>5, <3>1 DEF Concerns, Ids
    <3>3. UNCHANGED metrics
      BY <2>4, <2>8
    <3> QED BY <1>0, <2>2, <2>4, <2>5, <2>6, <3>2, <3>3, OwnMove
  <2> QED BY <2>7, <2>8
<1>2. CASE PlayedOut(q) \/ ToldOnly(q)
  <2>1. sess[q].pc \in {"play", "told", "collect"} /\ UNCHANGED <<devices, created, metrics, traffic, runs>>
    BY <1>2 DEF PlayedOut, ToldOnly, tables
  <2>2. PICK s \in Session :
               /\ s = Refreshed(sess[q], sess[q].cur)
               /\ s.pc = sess[q].pc /\ s.run = sess[q].run /\ s.cur = sess[q].cur
               /\ s.todo = sess[q].todo /\ s.gen = sess[q].gen /\ s.pend = sess[q].pend
               /\ s.test = sess[q].test /\ s.cur \in Ids /\ s.run # 0
               /\ \A e \in Ids : s.rows[e].gen <= created
    BY <1>r, <2>1
  <2>3. PICK n : n = Left(s)
    OBVIOUS
  <2>4. sess' = [sess EXCEPT ![q] = n]
    BY <1>2, <2>2, <2>3 DEF PlayedOut, ToldOnly
  <2> QED BY <1>0, <2>1, <2>2, <2>3, <2>4, LeaveLedger
<1>3. CASE Played(q)
  <2>1. sess[q].pc = "play" /\ UNCHANGED <<devices, created, metrics, traffic, runs>>
    BY <1>3 DEF Played, tables
  <2>2. PICK s \in Session :
               /\ s = Refreshed(sess[q], sess[q].cur)
               /\ s.pc = sess[q].pc /\ s.run = sess[q].run /\ s.cur = sess[q].cur
               /\ s.todo = sess[q].todo /\ s.gen = sess[q].gen /\ s.pend = sess[q].pend
               /\ s.test = sess[q].test /\ s.cur \in Ids /\ s.run # 0
               /\ \A e \in Ids : s.rows[e].gen <= created
    BY <1>r, <2>1
  <2>3. PICK n : n = [s EXCEPT !.pc = "tell"]
    OBVIOUS
  <2>4. sess' = [sess EXCEPT ![q] = n]
    BY <1>3, <2>2, <2>3 DEF Played
  <2>5. /\ n.pc = "tell" /\ n.run = s.run /\ n.cur = s.cur /\ n.todo = s.todo /\ n.gen = s.gen
        /\ n.rows = s.rows /\ n.pend = s.pend /\ n.test = s.test
    BY <2>3 DEF Session
  <2>6. SessionFits(q, n, runs, created) /\ NotedEarly(n, Recorded(metrics), devices)
    BY <1>0, <2>1, <2>2, <2>5 DEF SessionFits, NotedEarly
  <2> QED BY <1>0, <2>1, <2>2, <2>4, <2>5, <2>6, OwnMove DEF Concerns
<1>4. CASE Told(q)
  <2>1. sess[q].pc = "told" /\ UNCHANGED <<devices, created, metrics, traffic, runs>>
    BY <1>4 DEF Told, tables
  <2>2. PICK s \in Session :
               /\ s = Refreshed(sess[q], sess[q].cur)
               /\ s.pc = sess[q].pc /\ s.run = sess[q].run /\ s.cur = sess[q].cur
               /\ s.todo = sess[q].todo /\ s.gen = sess[q].gen /\ s.pend = sess[q].pend
               /\ s.test = sess[q].test /\ s.cur \in Ids /\ s.run # 0
               /\ \A e \in Ids : s.rows[e].gen <= created
    BY <1>r, <2>1
  <2>3. PICK n : n = [s EXCEPT !.pc = "dwalk", !.gen = s.rows[s.cur].gen]
    OBVIOUS
  <2>4. sess' = [sess EXCEPT ![q] = n] /\ s.rows[s.cur].gen # 0
    BY <1>4, <2>2, <2>3 DEF Told
  <2>5. /\ n.pc = "dwalk" /\ n.run = s.run /\ n.cur = s.cur /\ n.todo = s.todo
        /\ n.gen = s.rows[s.cur].gen /\ n.rows = s.rows /\ n.pend = s.pend /\ n.test = s.test
    BY <2>3 DEF Session
  <2>6. SessionFits(q, n, runs, created) /\ NotedEarly(n, Recorded(metrics), devices)
    BY <1>0, <2>1, <2>2, <2>4, <2>5 DEF SessionFits, NotedEarly
  <2> QED BY <1>0, <2>1, <2>2, <2>4, <2>5, <2>6, OwnMove DEF Concerns
<1>5. CASE Collect(q)
  <2>1. sess[q].pc = "collect" /\ UNCHANGED <<devices, created, metrics, traffic, runs>>
    BY <1>5 DEF Collect, tables
  <2>2. PICK s \in Session :
               /\ s = Refreshed(sess[q], sess[q].cur)
               /\ s.pc = sess[q].pc /\ s.run = sess[q].run /\ s.cur = sess[q].cur
               /\ s.todo = sess[q].todo /\ s.gen = sess[q].gen /\ s.pend = sess[q].pend
               /\ s.test = sess[q].test /\ s.cur \in Ids /\ s.run # 0
               /\ \A e \in Ids : s.rows[e].gen <= created
    BY <1>r, <2>1
  <2>3. PICK dirty \in BOOLEAN : sess' = [sess EXCEPT ![q] =
          [s EXCEPT !.pc = "walk", !.gen = s.rows[s.cur].gen, !.pend = TRUE, !.dirty = dirty]]
    BY <1>5, <2>2 DEF Collect
  <2>4. PICK n : n = [s EXCEPT !.pc = "walk", !.gen = s.rows[s.cur].gen, !.pend = TRUE, !.dirty = dirty]
    OBVIOUS
  <2>5. sess' = [sess EXCEPT ![q] = n] /\ s.rows[s.cur].gen # 0
    BY <1>5, <2>2, <2>3, <2>4 DEF Collect
  <2>6. /\ n.pc = "walk" /\ n.run = s.run /\ n.cur = s.cur /\ n.todo = s.todo
        /\ n.gen = s.rows[s.cur].gen /\ n.rows = s.rows /\ n.pend = TRUE /\ n.test = s.test
    BY <2>4 DEF Session
  <2>7. SessionFits(q, n, runs, created) /\ NotedEarly(n, Recorded(metrics), devices)
    BY <1>0, <2>1, <2>2, <2>5, <2>6 DEF SessionFits, NotedEarly
  <2> QED BY <1>0, <2>1, <2>2, <2>5, <2>6, <2>7, OwnMove DEF Concerns
<1>6. CASE Tell(q)
  <2>1. PICK s \in Session : s = sess[q]
    BY <1>0
  <2>2. /\ s.pc = "tell" /\ s.cur \in Ids /\ s.run \in 1 .. MaxRuns
        /\ UNCHANGED <<created, metrics, traffic, runs>>
    BY <1>0, <1>6, <2>1 DEF Tell, SessionFits, Session
  <2>3. PICK status : devices' = [devices EXCEPT ![s.cur] = Flushed(@, s, status)]
    BY <1>6, <2>1 DEF Tell
  <2>4. PICK n : n = [Expired(s) EXCEPT !.pc = "told"]
    OBVIOUS
  <2>5. sess' = [sess EXCEPT ![q] = n]
    BY <1>6, <2>1, <2>4 DEF Tell
  <2>6. /\ n.pc = "told" /\ n.run = s.run /\ n.cur = s.cur /\ n.todo = s.todo /\ n.gen = s.gen
        /\ n.rows = NoRows /\ n.pend = FALSE /\ n.test = s.test
    BY <2>4 DEF Session, Expired
  <2>7. SessionFits(q, n, runs, created) /\ \A records, devs : NotedEarly(n, records, devs)
    BY <1>0, <2>1, <2>2, <2>6, BlankGens DEF SessionFits, NotedEarly
  <2>8. \A d \in Ids : /\ devices'[d].gen = devices[d].gen
                       /\ devices'[d].polled = IF d = s.cur THEN s.run ELSE devices[d].polled
    <3>1. devices \in [Ids -> Row] /\ \A d \in Ids : devices[d] \in Row
      BY DEF TypeInv, TypeOK
    <3>2. /\ devices'[s.cur] = Flushed(devices[s.cur], s, status)
          /\ \A d \in Ids : d # s.cur => devices'[d] = devices[d]
      BY <2>2, <2>3, <3>1
    <3>3. Flushed(devices[s.cur], s, status).polled = s.run
      BY <2>2, <3>1 DEF Flushed, Row
    <3> QED BY <2>2, <3>1, <3>2, <3>3, FlushedKeeps
  <2>9. LedgerInv'
    <3>1. /\ runs' \in Nat /\ runs <= runs' /\ created' = created /\ n.run = sess[q].run
          /\ SessionFits(q, n, runs', created) /\ NotedEarly(n, Recorded(metrics'), devices')
          /\ Recorded(metrics) \subseteq Recorded(metrics')
          /\ \A d \in Ids : devices'[d].gen = devices[d].gen
      BY <1>0, <2>1, <2>2, <2>6, <2>7, <2>8
    <3> QED BY <1>0, <2>5, <3>1, OwnStepLedger
  <2>10. DuePolls' = DuePolls
    <3>1. n.run = sess[q].run /\ \A d \in Ids : Concerns(n, d) <=> Concerns(sess[q], d)
      BY <2>1, <2>6 DEF Concerns
    <3> QED BY <1>0, <2>5, <3>1, DueKept
  <2>11. PICK r \in 1 .. MaxRuns, e \in Ids : r = s.run /\ e = s.cur
    BY <2>2
  <2>12. <<r, e>> \in DuePolls
    BY <1>0, <2>1, <2>11 DEF DuePolls, Concerns, Runs
  <2>13. Ledger!Tell(r, e)
    <3>1. [d \in Ids |-> devices'[d].polled] = [[d \in Ids |-> devices[d].polled] EXCEPT ![e] = r]
      BY <2>8, <2>11
    <3>2. Recorded(metrics)' = Recorded(metrics) /\ Recorded(traffic)' = Recorded(traffic)
      BY <2>2 DEF Recorded
    <3> QED BY <2>2, <2>10, <2>12, <3>1, <3>2 DEF Ledger!Tell
  <2> QED BY <2>9, <2>13 DEF LedgerStep, Ledger!Next
<1>7. CASE TestGone(q)
  <2>1. UNCHANGED <<tables, runs>>
    BY <1>7 DEF TestGone
  <2>2. CASE Abort(q)
    BY <1>0, <2>1, <2>2, AbortLedger
  <2>3. CASE sess[q].pc = "play" /\ Raise(q)
    <3>1. sess[q].run # 0
      BY <1>0, <2>3 DEF SessionFits
    <3> QED BY <1>0, <2>1, <2>3, <3>1, RaiseLedger
  <2> QED BY <1>7, <2>2, <2>3 DEF TestGone
<1>8. CASE TestFails(q)
  <2>1. PICK conflict : FailedCommit(q, conflict)
    BY <1>8 DEF TestFails
  <2> QED BY <1>0, <2>1, FailedCommitLedger
<1> QED BY <1>1, <1>2, <1>3, <1>4, <1>5, <1>6, <1>7, <1>8 DEF TestStep

\* The administrator's edits, and a restart.
LEMMA AdminLedger ==
  ASSUME TypeInv, LedgerInv, AdminStep \/ Restart
  PROVE  LedgerStep
<1>1. /\ devices \in [Ids -> Row] /\ created \in Nat /\ runs \in Nat
      /\ sess \in [Workers -> Session]
      /\ \A w \in Workers : sess[w].gen \in Nat
      /\ \A w \in Workers, d \in Ids : sess[w].rows[d].gen \in Nat
      /\ \A d \in Ids : devices[d].gen \in Nat
      /\ \A w \in Workers : sess[w].pc \notin {"idle", "next"} => sess[w].cur \in Ids
  <2>1. devices \in [Ids -> Row] /\ created \in Nat /\ runs \in Nat /\ sess \in [Workers -> Session]
    BY DEF TypeInv, TypeOK, Gens
  <2>2. \A r \in Row : r.gen \in Nat
    <3>1. \A r \in Row : r.gen \in Gens
      BY DEF Row
    <3> QED BY <3>1 DEF Gens
  <2>3. \A x \in Session : x.gen \in Nat /\ x.rows \in [Ids -> Row]
    BY DEF Session, Gens
  <2>4. \A w \in Workers : sess[w] \in Session /\ (sess[w].pc \notin {"idle", "next"} => sess[w].cur \in Ids)
    BY <2>1 DEF TypeInv, BusyHasDevice
  <2>5. \A w \in Workers : sess[w].gen \in Nat /\ sess[w].rows \in [Ids -> Row]
    BY <2>3, <2>4
  <2> QED BY <2>1, <2>2, <2>4, <2>5
<1>2. CASE Create
  <2>1. PICK mon, snmp \in BOOLEAN : devices' = [devices EXCEPT ![NextId] =
                        [Blank EXCEPT !.gen = created + 1, !.mon = mon, !.snmp = snmp]]
    BY <1>2 DEF Create
  <2>2. NextId \in Ids /\ created' = created + 1 /\ UNCHANGED <<metrics, traffic, sess, runs>>
    BY <1>2 DEF Create
  <2>3. PICK e \in Ids : e = NextId
    BY <2>2
  <2>4. /\ devices'[e].gen = created + 1 /\ devices'[e].polled = 0
        /\ \A d \in Ids : d # e => devices'[d] = devices[d]
    BY <1>1, <2>1, <2>3 DEF Blank
  <2>5. LedgerInv'
    <3>1. \A w \in Workers : SessionFits(w, sess'[w], runs', created')
      BY <1>1, <2>2 DEF LedgerInv, SessionFits
    <3>2. \A w \in Workers : NotedEarly(sess'[w], Recorded(metrics)', devices')
      BY <1>1, <2>2, <2>4 DEF LedgerInv, NotedEarly, Recorded, SessionFits
    <3>3. OneOwner' /\ \A d \in Ids : devices'[d].gen <= created'
      BY <1>1, <2>2, <2>4 DEF LedgerInv, OneOwner
    <3> QED BY <3>1, <3>2, <3>3 DEF LedgerInv
  <2>6. Ledger!Forget(e)
    <3>1. [d \in Ids |-> devices'[d].polled] = [[d \in Ids |-> devices[d].polled] EXCEPT ![e] = 0]
      BY <2>4
    <3> QED BY <2>2, <3>1 DEF Ledger!Forget, DuePolls, Recorded, Concerns
  <2> QED BY <2>5, <2>6 DEF LedgerStep, Ledger!Next
<1>3. ASSUME NEW e \in Ids, Patch(e) PROVE LedgerStep
  <2>1. UNCHANGED <<created, metrics, traffic, sess, runs>>
    BY <1>3 DEF Patch
  <2>2. \A d \in Ids : devices'[d].gen = devices[d].gen /\ devices'[d].polled = devices[d].polled
    <3>1. PICK mon, snmp \in BOOLEAN : devices' = [devices EXCEPT ![e].mon = mon, ![e].snmp = snmp]
      BY <1>3 DEF Patch
    <3>2. /\ devices'[e].gen = devices[e].gen /\ devices'[e].polled = devices[e].polled
          /\ \A d \in Ids : d # e => devices'[d] = devices[d]
      <4>1. devices[e] \in Row
        BY <1>1
      <4> QED BY <1>1, <3>1, <4>1 DEF Row
    <3> QED BY <3>2
  <2>3. LedgerInv'
    <3>1. \A w \in Workers : NotedEarly(sess'[w], Recorded(metrics)', devices')
      BY <1>1, <2>1, <2>2 DEF LedgerInv, NotedEarly, Recorded
    <3> QED BY <2>1, <2>2, <3>1 DEF LedgerInv, OneOwner
  <2>4. UNCHANGED Ledger!vars
    BY <2>1, <2>2, LedgerSame DEF DuePolls, Concerns
  <2> QED BY <2>3, <2>4 DEF LedgerStep
<1>4. ASSUME NEW e \in Ids, Delete(e) PROVE LedgerStep
  <2>1. /\ UNCHANGED <<created, sess, runs>> /\ devices' = [devices EXCEPT ![e] = Blank]
        /\ metrics' = IF IsMySQL THEN {m \in metrics : m.dev # e} ELSE metrics
        /\ traffic' = IF IsMySQL THEN {m \in traffic : m.dev # e} ELSE traffic
    BY <1>4 DEF Delete
  <2>2. /\ devices'[e].gen = 0 /\ devices'[e].polled = 0
        /\ \A d \in Ids : d # e => devices'[d] = devices[d]
    BY <1>1, <2>1 DEF Blank
  <2>3. \A table : Recorded({m \in table : m.dev # e}) = {p \in Recorded(table) : p[2] # e}
    BY DEF Recorded
  <2>4. LedgerInv'
    <3>1. \A w \in Workers : SessionFits(w, sess'[w], runs', created')
      BY <2>1 DEF LedgerInv
    <3>2. \A w \in Workers : NotedEarly(sess'[w], Recorded(metrics'), devices')
      <4> SUFFICES ASSUME NEW w \in Workers, sess[w].pc \in {"reload", "commit"}, ~sess[w].pend
                   PROVE  \/ <<sess[w].run, sess[w].cur>> \in Recorded(metrics')
                          \/ IsMySQL /\ devices'[sess[w].cur].gen # sess[w].gen
        BY <2>1 DEF NotedEarly
      <4>1. sess[w].gen # 0 /\ sess[w].cur \in Ids
        BY <1>1 DEF LedgerInv, SessionFits
      <4>2. \/ <<sess[w].run, sess[w].cur>> \in Recorded(metrics)
            \/ IsMySQL /\ devices[sess[w].cur].gen # sess[w].gen
        BY DEF LedgerInv, NotedEarly
      <4>3. CASE sess[w].cur = e /\ IsMySQL
        BY <2>2, <4>1, <4>3
      <4>4. CASE ~IsMySQL
        BY <2>1, <4>2, <4>4
      <4>5. CASE sess[w].cur # e /\ IsMySQL
        BY <2>1, <2>2, <2>3, <4>1, <4>2, <4>5
      <4> QED BY <4>3, <4>4, <4>5
    <3>3. OneOwner' /\ \A d \in Ids : devices'[d].gen <= created'
      BY <1>1, <2>1, <2>2 DEF LedgerInv, OneOwner
    <3>4. Recorded(metrics)' = Recorded(metrics')
      BY DEF Recorded
    <3> QED BY <3>1, <3>2, <3>3, <3>4 DEF LedgerInv
  <2>5. Ledger!Forget(e)
    <3>1. [d \in Ids |-> devices'[d].polled] = [[d \in Ids |-> devices[d].polled] EXCEPT ![e] = 0]
      BY <2>2
    <3>2. DuePolls' = DuePolls
      BY <2>1 DEF DuePolls, Concerns
    <3>3. \/ Recorded(metrics') = Recorded(metrics) /\ Recorded(traffic') = Recorded(traffic)
          \/ /\ Recorded(metrics') = {p \in Recorded(metrics) : p[2] # e}
             /\ Recorded(traffic') = {p \in Recorded(traffic) : p[2] # e}
      BY <2>1, <2>3
    <3>4. Recorded(metrics)' = Recorded(metrics') /\ Recorded(traffic)' = Recorded(traffic')
      BY DEF Recorded
    <3> QED BY <2>1, <3>1, <3>2, <3>3, <3>4 DEF Ledger!Forget
  <2> QED BY <2>4, <2>5 DEF LedgerStep, Ledger!Next
<1>5. CASE Restart
  <2>1. UNCHANGED <<devices, created, metrics, traffic, runs>> /\ \A w \in Workers : sess'[w] = Idle
    BY <1>5 DEF Restart, tables
  <2>2. LedgerInv'
    <3>1. /\ \A w \in Workers : SessionFits(w, sess'[w], runs', created')
          /\ \A w \in Workers : NotedEarly(sess'[w], Recorded(metrics)', devices')
          /\ \A w \in Workers : sess'[w].run = 0
      <4>1. \A w \in Workers :
              SessionFits(w, Idle, runs, created) /\ NotedEarly(Idle, Recorded(metrics)', devices') /\ Idle.run = 0
        BY <1>1, IdleFits
      <4> QED BY <2>1, <4>1
    <3>2. OneOwner' /\ \A d \in Ids : devices'[d].gen <= created'
      BY <2>1, <3>1 DEF LedgerInv, OneOwner
    <3> QED BY <3>1, <3>2 DEF LedgerInv
  <2>3. DuePolls' = {}
    <3>1. \A x \in Runs \X Ids : x[1] # 0
      BY DEF Runs
    <3>2. \A w \in Workers : sess'[w].run = 0
      BY <1>1, <2>1, IdleFits
    <3> QED BY <3>1, <3>2 DEF DuePolls
  <2>4. Ledger!Crash
    BY <2>1, <2>3 DEF Ledger!Crash, Recorded
  <2> QED BY <2>2, <2>4 DEF LedgerStep, Ledger!Next
<1> QED BY <1>2, <1>3, <1>4, <1>5 DEF AdminStep

-----------------------------------------------------------------------------
\* The initial state has no poll and no record.
LEMMA InitLedger == Init => LedgerInv /\ Ledger!Init
<1> SUFFICES ASSUME Init PROVE LedgerInv /\ Ledger!Init
  OBVIOUS
<1>1. /\ \A w \in Workers : sess[w] = Idle
      /\ runs = 0 /\ created = 0 /\ metrics = {} /\ traffic = {} /\ devices = NoRows
  BY DEF Init
<1>2. LedgerInv
  BY <1>1, IdleFits, BlankGens DEF LedgerInv, OneOwner
<1>3. DuePolls = {}
  <2>1. \A x \in Runs \X Ids : x[1] # 0
    BY DEF Runs
  <2>2. \A w \in Workers : sess[w].run = 0
    BY <1>1, IdleFits
  <2> QED BY <2>1, <2>2 DEF DuePolls
<1>4. Recorded(metrics) = {} /\ Recorded(traffic) = {}
  BY <1>1 DEF Recorded
<1>5. [d \in Ids |-> devices[d].polled] = [d \in Ids |-> 0]
  BY <1>1 DEF NoRows, Blank
<1> QED BY <1>1, <1>2, <1>3, <1>4, <1>5 DEF Ledger!Init

\* Every step of the collector is a step of the ledger or leaves it alone.
LEMMA NextLedger ==
  ASSUME TypeInv, LedgerInv, IsMySQL => CascadeInv, [Next]_vars
  PROVE  LedgerStep
<1>1. ASSUME NEW t \in Ticks, TickStart(t) \/ TickStep(t) PROVE LedgerStep
  BY <1>1, TickStartLedger, TickStepLedger
<1>2. ASSUME NEW q \in Requests, NEW d \in Ids,
             PollRequest(q, d) \/ DiscoverRequest(q, d) \/ SnmpRequest(q, d)
      PROVE  LedgerStep
  BY <1>2, RequestLedger
<1>6. ASSUME NEW q \in Requests,
             TestStep(q) \/ \E chosen \in SUBSET Ids : TestRequest(q, chosen)
      PROVE  LedgerStep
  BY <1>6, TestStepLedger, TestRequestLedger
<1>3. ASSUME NEW w \in Workers, CollectStep(w) PROVE LedgerStep
  BY <1>3, CollectStepLedger
<1>4. CASE AdminStep \/ Restart
  BY <1>4, AdminLedger
<1>5. CASE UNCHANGED vars
  <2>1. UNCHANGED <<devices, created, metrics, traffic, runs, sess>>
    BY <1>5 DEF vars, tables
  <2>2. LedgerInv'
    BY <2>1 DEF LedgerInv, OneOwner, Recorded
  <2>3. UNCHANGED Ledger!vars
    BY <2>1, LedgerSame DEF DuePolls, Concerns
  <2> QED BY <2>2, <2>3 DEF LedgerStep
<1> QED BY <1>1, <1>2, <1>3, <1>4, <1>5, <1>6 DEF Next

\* The collector keeps the promises of polling on both databases: what it writes
\* for a poll, it writes before that poll is over, and a poll ends once.
THEOREM PollingKeepsLedger == Spec => ImplementsLedger
<1>1. TypeInv /\ LedgerInv /\ (IsMySQL => CascadeInv) /\ [Next]_vars
        => LedgerInv' /\ [Ledger!Next]_(Ledger!vars)
  BY NextLedger DEF LedgerStep
<1> QED BY <1>1, InitLedger, TypeCorrect, CascadeInvariant, PTL
         DEF Spec, ImplementsLedger, Ledger!Spec

=============================================================================
