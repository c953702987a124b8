----------------------------- MODULE Collector -----------------------------
(***************************************************************************)
(* The SNMP collector: scheduler threads (ticks) and HTTP handlers that     *)
(* poll devices, connectivity tests included, each with a SQLAlchemy        *)
(* session of its own, over one database the administrator edits at the     *)
(* same time.                                                               *)
(*                                                                          *)
(* A session keeps copies of the rows it has loaded.  A commit writes only  *)
(* the columns that differ from the copy, then expires every copy, and the  *)
(* next access reads the row again and raises when it is gone.  After a     *)
(* commit that failed any access to the session raises.                     *)
(* SQLite (IsMySQL = FALSE) shows a reader the latest committed rows, does  *)
(* not enforce foreign keys as the code opens it, and gives a new row the   *)
(* largest id in use plus one.  MySQL shows the snapshot of the             *)
(* transaction's first read, enforces and cascades foreign keys, and never  *)
(* gives an id twice.                                                       *)
(*                                                                          *)
(* A port row is identified by its unique key (device_id, if_index), and    *)
(* the content of samples is left to the model of the counters.  The        *)
(* retention prune never reaches the samples of the polls considered.  Jobs *)
(* and playbooks of tests are in the model Jobs; here their commits matter. *)
(***************************************************************************)
EXTENDS Naturals, FiniteSets

CONSTANTS
  Ticks,      \* scheduler threads running _tick (max_instances of them)
  Requests,   \* HTTP worker threads
  IfIndexes,  \* interface indexes a device can report
  MaxId,      \* bound: device ids
  MaxGen,     \* bound: devices ever created
  MaxRuns,    \* bound: ticks and poll requests ever started
  MaxEdits,   \* bound: edits and deletions of devices
  IsMySQL,    \* which database the deployment uses
  DbFaults    \* whether a commit may fail for the database's own reasons

ASSUME BoundsAssumption ==
  MaxId \in Nat /\ MaxGen \in Nat /\ MaxRuns \in Nat /\ MaxEdits \in Nat
ASSUME DatabaseAssumption == IsMySQL \in BOOLEAN /\ DbFaults \in BOOLEAN
ASSUME WorkersAssumption == Ticks \cap Requests = {}

Workers == Ticks \cup Requests
Ids == 1 .. MaxId
Runs == 1 .. MaxRuns
Gens == 0 .. MaxGen

\* A row of devices.  gen tells apart the devices that had the same id, mon
\* stands for enabled and snmp_monitor_enabled, polled is the run whose time
\* is in snmp_last_polled (0: never).
Row == [gen : Gens, mon : BOOLEAN, snmp : BOOLEAN,
        status : {"", "success", "failed"}, polled : 0 .. MaxRuns]

\* No such row, or a copy that is expired.
Blank == [gen |-> 0, mon |-> FALSE, snmp |-> FALSE, status |-> "", polled |-> 0]

PortRow == [dev : Ids, ifx : IfIndexes, gen : Gens]
Sample == [dev : Ids, gen : Gens, run : 0 .. MaxRuns]

VARIABLES
  devices,    \* table devices
  created,    \* how many devices were ever created
  ports,      \* table device_ports
  metrics,    \* table device_metric_samples
  traffic,    \* table port_traffic_samples, one entry per poll that wrote some
  sess,       \* what each worker is doing, and its database session
  runs,       \* how many ticks and poll requests were started
  edits,      \* how many edits and deletions were made
  \* The rest only observes: no action's effect on the above depends on it.
  polls,      \* what became of the poll of each device in each run
  last,       \* how the last tick of each scheduler thread ended
  disturbed,  \* ticks whose devices were deleted or discovered by others
  asked       \* snmp_enabled as the administrator last set it

tables == <<devices, created, edits, ports, metrics, traffic>>
observed == <<polls, last, disturbed, asked>>
vars == <<tables, sess, runs, observed>>

\* The state of a worker.  pc: idle, next (top of the loop over devices), walk
\* (about to walk the interface tables), dwalk and dcommit (inside
\* discover_ports), reload (just after it), commit (computing rates, then the
\* commit), except (the handler of poll_all_monitored_devices).  In requests also
\* play (the playbook of a test runs), tell and told (before and after the commit
\* of run_snmp_poll) and collect (before collect_device_metrics).
Session ==
  [pc : {"idle", "next", "walk", "dwalk", "dcommit", "reload", "commit", "except",
         "play", "tell", "told", "collect"},
   run : 0 .. MaxRuns, cur : 0 .. MaxId, todo : SUBSET Ids,
   test : BOOLEAN,            \* it is a connectivity test, of one device or more
   n : BOOLEAN,               \* the tick's n is not 0
   gen : Gens,                \* the device the SnmpClient addresses
   rows : [Ids -> Row],       \* copies of rows of devices
   open : BOOLEAN,            \* a MySQL snapshot is open
   snap : SUBSET PortRow,     \* device_ports in that snapshot
   known : SUBSET IfIndexes,  \* port rows the session loaded
   found : SUBSET IfIndexes,  \* ports the device reported
   pend : BOOLEAN,            \* a DeviceMetricSample was added, not flushed
   dirty : BOOLEAN]           \* columns of the device were assigned

NoRows == [d \in Ids |-> Blank]

Idle == [pc |-> "idle", run |-> 0, cur |-> 0, todo |-> {}, test |-> FALSE, n |-> FALSE,
         gen |-> 0, rows |-> NoRows,
         open |-> FALSE, snap |-> {}, known |-> {}, found |-> {},
         pend |-> FALSE, dirty |-> FALSE]

\* What becomes of a poll: besides success, the handler of a tick marks it as failed;
\* there is nothing to do; a test told the status only, or swallowed an exception; its
\* run is given up, or ends with the process.
Outcome == {"none", "queued", "open", "success", "marked", "skipped", "told", "swallowed",
            "aborted", "lost"}
Pending == {"queued", "open"}

\* told is the status the poll wrote last.
Poll == [out : Outcome, gen : Gens, early : BOOLEAN, raced : BOOLEAN,
         told : {"", "success", "failed"}]
NoPoll == [out |-> "none", gen |-> 0, early |-> FALSE, raced |-> FALSE, told |-> ""]

TypeOK ==
  /\ devices \in [Ids -> Row]
  /\ created \in Gens
  /\ edits \in 0 .. MaxEdits
  /\ ports \subseteq PortRow
  /\ metrics \subseteq Sample
  /\ traffic \subseteq Sample
  /\ sess \in [Workers -> Session]
  /\ runs \in 0 .. MaxRuns
  /\ polls \in [Runs -> [Ids -> Poll]]
  /\ last \in [Ticks -> [how : {"none", "done", "crashed"}, run : 0 .. MaxRuns]]
  /\ disturbed \in [Ticks -> BOOLEAN]
  /\ asked \in [Ids -> BOOLEAN]

Init ==
  /\ devices = NoRows
  /\ created = 0 /\ edits = 0
  /\ ports = {} /\ metrics = {} /\ traffic = {}
  /\ sess = [w \in Workers |-> Idle]
  /\ runs = 0
  /\ polls = [r \in Runs |-> [d \in Ids |-> NoPoll]]
  /\ last = [t \in Ticks |-> [how |-> "none", run |-> 0]]
  /\ disturbed = [t \in Ticks |-> FALSE]
  /\ asked = [d \in Ids |-> FALSE]

-----------------------------------------------------------------------------
\* Sessions and tables

Live == {d \in Ids : devices[d].gen # 0}
Keys(table, d) == {p.ifx : p \in {q \in table : q.dev = d}}
Concerns(s, d) == s.cur = d \/ d \in s.todo

\* The session after it needed row d: an expired copy is read again, and on
\* MySQL the first read of a transaction fixes all that it will see.
Refreshed(s, d) ==
  IF s.open \/ s.rows[d].gen # 0 THEN s
  ELSE IF IsMySQL THEN [s EXCEPT !.open = TRUE, !.rows = devices, !.snap = ports]
       ELSE [s EXCEPT !.rows[d] = devices[d]]

\* The ports of the session's device that a query returns.
SeenPorts(s) == Keys(IF s.open THEN s.snap ELSE ports, s.cur)

\* A commit expires every copy, ends the transaction and leaves nothing pending.
Expired(s) == [s EXCEPT !.rows = NoRows, !.open = FALSE, !.snap = {},
                        !.pend = FALSE, !.dirty = FALSE]

\* Mutant of Finished: a return in the loop body.
FinishedEarly(w) ==
  IF w \in Ticks THEN [Idle EXCEPT !.pc = "next", !.run = sess[w].run] ELSE Idle

\* The worker after a commit that ends the poll it was busy with: a tick takes the
\* next device, and so does a test if there is one.
Finished(w) ==
  IF w \in Ticks \/ (sess[w].test /\ sess[w].todo # {})
  THEN [Idle EXCEPT !.pc = "next", !.run = sess[w].run, !.todo = sess[w].todo,
                    !.test = sess[w].test, !.n = sess[w].n]
  ELSE Idle

\* The session of a request after a device it leaves without a commit: the next device
\* of a test finds in it what is not committed.
Left(s) ==
  IF s.todo = {} THEN Idle
  ELSE [s EXCEPT !.pc = "next", !.known = {}, !.found = {},
                 !.cur = IF s.pend THEN @ ELSE 0, !.gen = IF s.pend THEN @ ELSE 0]

\* Mutants of Flushed: every column of the copy is written; the status column is
\* forgotten; the text of the error goes to the status column.
FlushedWhole(row, s, status) == [s.rows[s.cur] EXCEPT !.status = status, !.polled = s.run]
FlushedTimeOnly(row, s, status) == [row EXCEPT !.polled = s.run]
FlushedError(row, s, status) ==
  [row EXCEPT !.polled = s.run, !.status = IF status = "failed" THEN "timeout" ELSE status]

\* The row a flush of the poll's status leaves: snmp_last_polled always changes,
\* snmp_last_status is written only when it differs from the session's copy.
Flushed(row, s, status) ==
  [row EXCEPT !.polled = s.run,
              !.status = IF s.rows[s.cur].status = status THEN row.status ELSE status]

\* The samples a commit of the session publishes, after INSERT on the table.
WithSample(table, s) == table \cup {[dev |-> s.cur, gen |-> s.gen, run |-> s.run]}

-----------------------------------------------------------------------------
\* Observation

\* The poll of d in run r0 comes to outcome out and writes a status; other polls of d
\* under way have seen its row change.
Publish(r0, d0, out, status) ==
  [r \in Runs |-> [d \in Ids |->
     IF d # d0 THEN polls[r][d]
     ELSE IF r = r0 THEN [polls[r][d] EXCEPT !.out = out, !.told = status]
     ELSE [polls[r][d] EXCEPT !.raced = @ \/ polls[r][d].out \in Pending]]]

\* Every poll of the run that is not over ends with outcome out.
Drop(r0, out) ==
  [r \in Runs |-> [d \in Ids |->
     IF r = r0 /\ polls[r][d].out \in Pending
     THEN [polls[r][d] EXCEPT !.out = out] ELSE polls[r][d]]]

\* Those of the ticks that have device d in hand or ahead of them.
Disturb(others, d) ==
  disturbed' = [t \in Ticks |-> disturbed[t] \/ (t \in others /\ Concerns(sess[t], d))]

\* An exception leaves the loop of a tick, or the handler of a request: the
\* session is closed and what it had not committed is rolled back.
Abort(w) ==
  /\ sess' = [sess EXCEPT ![w] = Idle]
  /\ polls' = Drop(sess[w].run, "aborted")
  /\ last' = [t \in Ticks |-> IF t = w THEN [last[t] EXCEPT !.how = "crashed"] ELSE last[t]]

\* An exception while the session is in order.  That of a test is swallowed, without a
\* rollback.
Raise(w) ==
  IF sess[w].test
  THEN /\ sess' = [sess EXCEPT ![w] = Left(@)]
       /\ polls' = [polls EXCEPT ![sess[w].run][sess[w].cur].out = "swallowed"]
       /\ UNCHANGED last
  ELSE Abort(w)

\* A commit that raises, because of a conflict or of the database itself.
\* In a tick the handler's own device.name raises as well on such a session.
FailedCommit(w, conflict) ==
  /\ conflict \/ DbFaults
  /\ Abort(w)
  /\ disturbed' = [t \in Ticks |-> disturbed[t] \/ (t = w /\ ~conflict)]
  /\ UNCHANGED <<tables, runs, asked>>

-----------------------------------------------------------------------------
\* A scheduler thread: _tick and poll_all_monitored_devices

\* The query of the devices to poll loads a copy of each.  A tick that selects
\* nothing changes nothing and is left out.
TickStart(t) ==
  LET chosen == {d \in Live : devices[d].mon /\ devices[d].snmp}
      run == runs + 1
  IN /\ sess[t].pc = "idle"
     /\ runs < MaxRuns
     /\ chosen # {}
     /\ runs' = run
     /\ sess' = [sess EXCEPT ![t] =
          [Idle EXCEPT !.pc = "next", !.run = run, !.todo = chosen, !.open = IsMySQL,
             !.rows = [d \in Ids |-> IF IsMySQL \/ d \in chosen THEN devices[d] ELSE Blank],
             !.snap = IF IsMySQL THEN ports ELSE {}]]
     /\ polls' = [polls EXCEPT ![run] =
          [d \in Ids |-> IF d \in chosen THEN [NoPoll EXCEPT !.out = "queued"] ELSE NoPoll]]
     /\ last' = [last EXCEPT ![t] = [how |-> "none", run |-> run]]
     /\ disturbed' = [disturbed EXCEPT ![t] = FALSE]
     /\ UNCHANGED <<tables, asked>>

\* Mutant of Begin: a sample only when the device gave its CPU or memory.
BeginAnswered(t, d) ==
  LET s == Refreshed(sess[t], d)
  IN /\ sess[t].pc = "next"
     /\ d \in sess[t].todo
     /\ s.rows[d].gen # 0
     /\ s.rows[d].snmp
     /\ \E dirty \in BOOLEAN :
          sess' = [sess EXCEPT ![t] =
            [s EXCEPT !.pc = "walk", !.cur = d, !.todo = @ \ {d}, !.gen = s.rows[d].gen,
                      !.pend = dirty, !.dirty = dirty]]
     /\ polls' = [polls EXCEPT ![s.run][d] = [@ EXCEPT !.out = "open", !.gen = s.rows[d].gen]]
     /\ UNCHANGED <<tables, runs, last, disturbed, asked>>

\* collect_device_metrics up to the walk of the interface tables.  Errors of the
\* system group, CPU and memory are swallowed; the sample is added whatever
\* they gave, and the device's columns are assigned if they gave anything.
Begin(t, d) ==
  LET s == Refreshed(sess[t], d)
  IN /\ sess[t].pc = "next"
     /\ d \in sess[t].todo
     /\ s.rows[d].gen # 0
     /\ s.rows[d].snmp
     /\ \E dirty \in BOOLEAN :
          sess' = [sess EXCEPT ![t] =
            [s EXCEPT !.pc = "walk", !.cur = d, !.todo = @ \ {d}, !.gen = s.rows[d].gen,
                      !.pend = TRUE, !.dirty = dirty]]
     /\ polls' = [polls EXCEPT ![s.run][d] = [@ EXCEPT !.out = "open", !.gen = s.rows[d].gen]]
     /\ UNCHANGED <<tables, runs, last, disturbed, asked>>

\* SNMP was switched off since the tick selected the device: nothing to do, and
\* no commit, so the copies stay as they are.
Skip(t, d) ==
  LET s == Refreshed(sess[t], d)
  IN /\ sess[t].pc = "next"
     /\ d \in sess[t].todo
     /\ s.rows[d].gen # 0
     /\ ~s.rows[d].snmp
     /\ sess' = [sess EXCEPT ![t] = [s EXCEPT !.todo = @ \ {d}, !.n = TRUE]]
     /\ polls' = [polls EXCEPT ![s.run][d].out = "skipped"]
     /\ UNCHANGED <<tables, runs, last, disturbed, asked>>

\* The row is gone: the access raises, the handler's device.name raises again.
BeginGone(t, d) ==
  /\ sess[t].pc = "next"
  /\ d \in sess[t].todo
  /\ Refreshed(sess[t], d).rows[d].gen = 0
  /\ Abort(t)
  /\ UNCHANGED <<tables, runs, disturbed, asked>>

\* The handler of a failed poll.  There is no rollback, so its commit publishes
\* the sample and the columns collect_device_metrics left in the session.
Except(t) ==
  LET s == sess[t]
  IN /\ s.pc = "except"
     /\ s.cur \in Live
     /\ devices' = [devices EXCEPT ![s.cur] = Flushed(@, s, "failed")]
     /\ metrics' = IF s.pend THEN WithSample(metrics, s) ELSE metrics
     /\ sess' = [sess EXCEPT ![t] = Finished(t)]
     /\ polls' = Publish(s.run, s.cur, "marked", "failed")
     /\ UNCHANGED <<created, edits, ports, traffic, runs, last, disturbed, asked>>

\* The UPDATE of the device matches no row.
ExceptFails(t) ==
  /\ sess[t].pc = "except"
  /\ FailedCommit(t, sess[t].cur \notin Live)

\* Mutant of TickEnd: the loop stops after a device.
TickEndEarly(t) ==
  /\ sess[t].pc = "next"
  /\ sess' = [sess EXCEPT ![t] = Idle]
  /\ last' = [last EXCEPT ![t].how = "done"]
  /\ UNCHANGED <<tables, runs, polls, disturbed, asked>>

\* The commit of prune_old_samples, which a tick comes to when n is not 0, raises.
PruneFails(t) ==
  /\ sess[t].pc = "next"
  /\ sess[t].todo = {}
  /\ sess[t].n
  /\ FailedCommit(t, FALSE)

\* Every device was handled, and old samples are pruned if n is not 0.
TickEnd(t) ==
  /\ sess[t].pc = "next"
  /\ sess[t].todo = {}
  /\ sess' = [sess EXCEPT ![t] = Idle]
  /\ last' = [last EXCEPT ![t].how = "done"]
  /\ UNCHANGED <<tables, runs, polls, disturbed, asked>>

-----------------------------------------------------------------------------
\* collect_device_metrics and discover_ports, in ticks and in requests

\* The interface tables answered; the ports are queried only now.
Walk(w) ==
  LET known == SeenPorts(sess[w])
  IN /\ sess[w].pc = "walk"
     /\ sess' = [sess EXCEPT ![w].known = known,
                             ![w].pc = IF known = {} THEN "dwalk" ELSE "commit"]
     /\ UNCHANGED <<tables, runs, observed>>

\* Mutant of WalkFails: the loop of a tick has no handler.
WalkFailsUncaught(w) ==
  /\ sess[w].pc \in {"walk", "dwalk"}
  /\ Abort(w)
  /\ UNCHANGED <<tables, runs, disturbed, asked>>

\* A walk raised.  A tick goes to its handler, a request answers 502, a test goes on.
WalkFails(w) ==
  /\ sess[w].pc \in {"walk", "dwalk"}
  /\ IF w \in Ticks
     THEN /\ sess' = [sess EXCEPT ![w].pc = "except"]
          /\ UNCHANGED <<polls, last>>
     ELSE Raise(w)
  /\ UNCHANGED <<tables, runs, disturbed, asked>>

\* discover_ports: the walks answered, the known ports are queried after them.
DiscoverWalk(w) ==
  /\ sess[w].pc = "dwalk"
  /\ \E found \in SUBSET IfIndexes :
       sess' = [sess EXCEPT ![w].pc = "dcommit", ![w].found = found,
                            ![w].known = SeenPorts(sess[w])]
  /\ UNCHANGED <<tables, runs, observed>>

\* What makes the flush of discover_ports raise: an UPDATE that matches no row,
\* a second row with the same key, or a foreign key.
DiscoverConflict(s) ==
  LET present == Keys(ports, s.cur)
      new == s.found \ s.known
  IN \/ ~((s.found \cap s.known) \subseteq present)
     \/ new \cap present # {}
     \/ s.cur \notin Live /\ (s.dirty \/ (IsMySQL /\ (s.pend \/ new # {})))

\* The commit of discover_ports.  Inside collect_device_metrics it also publishes the
\* sample that was only added; before a poll of a test or of snmp/poll there is none.
DiscoverCommit(w) ==
  LET s == sess[w]
      new == s.found \ s.known
  IN /\ s.pc = "dcommit"
     /\ ~DiscoverConflict(s)
     /\ ports' = ports \cup {[dev |-> s.cur, ifx |-> i, gen |-> s.gen] : i \in new}
     /\ metrics' = IF s.pend THEN WithSample(metrics, s) ELSE metrics
     /\ sess' = [sess EXCEPT ![w] =
          IF s.run = 0 THEN Idle
          ELSE [Expired(s) EXCEPT !.pc = IF s.pend THEN "reload" ELSE "collect"]]
     /\ polls' = IF s.pend THEN [polls EXCEPT ![s.run][s.cur].early = TRUE] ELSE polls
     /\ IF new = {} THEN UNCHANGED disturbed ELSE Disturb(Ticks \ {w}, s.cur)
     /\ UNCHANGED <<devices, created, edits, traffic, runs, last, asked>>

DiscoverCommitFails(w) ==
  /\ sess[w].pc = "dcommit"
  /\ FailedCommit(w, DiscoverConflict(sess[w]))

\* Back in collect_device_metrics: device.id reads the device again.
Reload(w) ==
  LET s == Refreshed(sess[w], sess[w].cur)
  IN /\ sess[w].pc = "reload"
     /\ s.rows[s.cur].gen # 0
     /\ sess' = [sess EXCEPT ![w] = [s EXCEPT !.pc = "commit", !.known = SeenPorts(s)]]
     /\ UNCHANGED <<tables, runs, observed>>

\* After each of these commits the device is read again.
ReloadGone(w) ==
  /\ sess[w].pc \in {"reload", "told", "collect"}
  /\ sess[w].cur \notin Live
  /\ Raise(w)
  /\ UNCHANGED <<tables, runs, disturbed, asked>>

\* The final flush updates the device and every port it loaded.
CommitConflict(s) == s.cur \notin Live \/ ~(s.known \subseteq Keys(ports, s.cur))

\* The final commit.  A port gets a traffic sample when the device reported both
\* of its counters.
Commit(w) ==
  LET s == sess[w]
  IN /\ s.pc = "commit"
     /\ ~CommitConflict(s)
     /\ devices' = [devices EXCEPT ![s.cur] = Flushed(@, s, "success")]
     /\ metrics' = IF s.pend THEN WithSample(metrics, s) ELSE metrics
     /\ \E counted \in SUBSET s.known :
          traffic' = IF counted = {} THEN traffic ELSE WithSample(traffic, s)
     /\ sess' = [sess EXCEPT ![w] = [Finished(w) EXCEPT !.n = w \in Ticks]]
     /\ polls' = Publish(s.run, s.cur, "success", "success")
     /\ UNCHANGED <<created, edits, ports, runs, last, disturbed, asked>>

CommitFails(w) ==
  /\ sess[w].pc = "commit"
  /\ FailedCommit(w, CommitConflict(sess[w]))

-----------------------------------------------------------------------------
\* HTTP requests

\* The session of a request that has loaded device d.
Loaded(d) ==
  [Idle EXCEPT !.cur = d, !.gen = devices[d].gen, !.open = IsMySQL,
     !.rows = IF IsMySQL THEN devices ELSE [NoRows EXCEPT ![d] = devices[d]],
     !.snap = IF IsMySQL THEN ports ELSE {}]

\* POST /{id}/monitor/poll, up to the walk of the interface tables.
PollRequest(q, d) ==
  /\ sess[q].pc = "idle"
  /\ runs < MaxRuns
  /\ d \in Live
  /\ devices[d].snmp
  /\ runs' = runs + 1
  /\ \E dirty \in BOOLEAN :
       sess' = [sess EXCEPT ![q] = [Loaded(d) EXCEPT !.pc = "walk", !.run = runs + 1,
                                                     !.pend = TRUE, !.dirty = dirty]]
  /\ polls' = [polls EXCEPT ![runs + 1][d] =
                 [NoPoll EXCEPT !.out = "open", !.gen = devices[d].gen]]
  /\ UNCHANGED <<tables, last, disturbed, asked>>

\* POST /{id}/monitor/discover.
DiscoverRequest(q, d) ==
  /\ sess[q].pc = "idle"
  /\ d \in Live
  /\ devices[d].snmp
  /\ sess' = [sess EXCEPT ![q] = [Loaded(d) EXCEPT !.pc = "dwalk"]]
  /\ UNCHANGED <<tables, runs, observed>>

\* POST /{id}/snmp/poll, up to the answer of the device.
SnmpRequest(q, d) ==
  /\ sess[q].pc = "idle"
  /\ runs < MaxRuns
  /\ d \in Live
  /\ devices[d].snmp
  /\ runs' = runs + 1
  /\ sess' = [sess EXCEPT ![q] = [Loaded(d) EXCEPT !.pc = "tell", !.run = runs + 1]]
  /\ polls' = [polls EXCEPT ![runs + 1][d] =
                 [NoPoll EXCEPT !.out = "open", !.gen = devices[d].gen]]
  /\ UNCHANGED <<tables, last, disturbed, asked>>

\* POST /{id}/test and POST /test/bulk: the devices to test are loaded.
TestRequest(q, chosen) ==
  /\ sess[q].pc = "idle"
  /\ runs < MaxRuns
  /\ chosen # {} /\ chosen \subseteq Live
  /\ runs' = runs + 1
  /\ sess' = [sess EXCEPT ![q] =
       [Idle EXCEPT !.pc = "next", !.run = runs + 1, !.todo = chosen, !.test = TRUE,
          !.open = IsMySQL,
          !.rows = [d \in Ids |-> IF IsMySQL \/ d \in chosen THEN devices[d] ELSE Blank],
          !.snap = IF IsMySQL THEN ports ELSE {}]]
  /\ polls' = [polls EXCEPT ![runs + 1] =
       [d \in Ids |-> IF d \in chosen THEN [NoPoll EXCEPT !.out = "queued"] ELSE NoPoll]]
  /\ UNCHANGED <<tables, last, disturbed, asked>>

\* What makes the commit of a test's job raise: the pending UPDATE of the device before
\* matches no row, or a foreign key of its sample or of the job.
StartConflict(s, d) ==
  \/ s.pend /\ s.cur \notin Live /\ (s.dirty \/ IsMySQL)
  \/ IsMySQL /\ d \notin Live

\* run_connectivity_test up to the playbook.  The commit of its job also publishes
\* what a poll that was swallowed has left in the session.
StartTest(q, d) ==
  LET s == Refreshed(sess[q], d)
  IN /\ sess[q].pc = "next"
     /\ d \in sess[q].todo
     /\ s.rows[d].gen # 0
     /\ ~StartConflict(s, d)
     /\ metrics' = IF s.pend THEN WithSample(metrics, s) ELSE metrics
     /\ sess' = [sess EXCEPT ![q] =
          [Expired(s) EXCEPT !.pc = "play", !.cur = d, !.todo = @ \ {d}, !.gen = s.rows[d].gen]]
     /\ polls' = [polls EXCEPT ![s.run][d] = [@ EXCEPT !.out = "open", !.gen = s.rows[d].gen]]
     /\ UNCHANGED <<devices, created, edits, ports, traffic, runs, last, disturbed, asked>>

\* The playbook failed, or the device has no SNMP.
PlayedOut(q) ==
  LET s == Refreshed(sess[q], sess[q].cur)
  IN /\ sess[q].pc = "play"
     /\ s.rows[s.cur].gen # 0
     /\ sess' = [sess EXCEPT ![q] = Left(s)]
     /\ polls' = [polls EXCEPT ![s.run][s.cur].out = "skipped"]
     /\ UNCHANGED <<tables, runs, last, disturbed, asked>>

\* The playbook succeeded: run_snmp_poll reads the device again after the commit of
\* its own job.
Played(q) ==
  LET s == Refreshed(sess[q], sess[q].cur)
  IN /\ sess[q].pc = "play"
     /\ s.rows[s.cur].gen # 0
     /\ s.rows[s.cur].snmp
     /\ sess' = [sess EXCEPT ![q] = [s EXCEPT !.pc = "tell"]]
     /\ UNCHANGED <<tables, runs, observed>>

\* A device of a test is gone when it is read; by run_snmp_poll, that is swallowed.
TestGone(q) ==
  /\ \/ /\ sess[q].pc = "next" /\ sess[q].test
        /\ \E d \in sess[q].todo : Refreshed(sess[q], d).rows[d].gen = 0
        /\ Abort(q)
     \/ /\ sess[q].pc = "play" /\ sess[q].cur \notin Live
        /\ Abort(q) \/ Raise(q)
  /\ UNCHANGED <<tables, runs, disturbed, asked>>

\* The commit of run_snmp_poll: the status and the time of the device.
Tell(q) ==
  LET s == sess[q]
  IN /\ s.pc = "tell"
     /\ s.cur \in Live
     /\ \E status \in {"success", "failed"} :
          /\ status = "success" => s.rows[s.cur].snmp
          /\ devices' = [devices EXCEPT ![s.cur] = Flushed(@, s, status)]
          /\ polls' = Publish(s.run, s.cur, "open", status)
     /\ sess' = [sess EXCEPT ![q] = [Expired(s) EXCEPT !.pc = "told"]]
     /\ UNCHANGED <<created, edits, ports, metrics, traffic, runs, last, disturbed, asked>>

\* A commit of run_connectivity_test or run_snmp_poll raises.
TestFails(q) ==
  LET s == sess[q]
  IN \/ /\ s.pc = "next" /\ s.test
        /\ \E d \in s.todo : FailedCommit(q, StartConflict(s, d))
     \/ s.pc = "play" /\ FailedCommit(q, FALSE)
     \/ s.pc = "tell" /\ FailedCommit(q, s.cur \notin Live)

\* The device is monitored: discover_ports.  A device that is not enabled may be.
Told(q) ==
  LET s == Refreshed(sess[q], sess[q].cur)
  IN /\ sess[q].pc = "told"
     /\ s.rows[s.cur].gen # 0
     /\ sess' = [sess EXCEPT ![q] = [s EXCEPT !.pc = "dwalk", !.gen = s.rows[s.cur].gen]]
     /\ UNCHANGED <<tables, runs, observed>>

\* Mutant of ToldOnly: the sample is added before the test of snmp_enabled.
ToldOnlyAdded(q) ==
  LET s == Refreshed(sess[q], sess[q].cur)
  IN /\ sess[q].pc \in {"told", "collect"}
     /\ s.rows[s.cur].gen # 0
     /\ IF s.pc = "told" THEN ~s.rows[s.cur].mon ELSE ~s.rows[s.cur].snmp
     /\ sess' = [sess EXCEPT ![q] = Left([s EXCEPT !.pend = s.pc = "collect"])]
     /\ polls' = [polls EXCEPT ![s.run][s.cur].out = "told"]
     /\ UNCHANGED <<tables, runs, last, disturbed, asked>>

\* It is not monitored, or SNMP was switched off meanwhile.
ToldOnly(q) ==
  LET s == Refreshed(sess[q], sess[q].cur)
  IN /\ sess[q].pc \in {"told", "collect"}
     /\ s.rows[s.cur].gen # 0
     /\ IF s.pc = "told" THEN ~s.rows[s.cur].mon ELSE ~s.rows[s.cur].snmp
     /\ sess' = [sess EXCEPT ![q] = Left(s)]
     /\ polls' = [polls EXCEPT ![s.run][s.cur].out = "told"]
     /\ UNCHANGED <<tables, runs, last, disturbed, asked>>

\* collect_device_metrics after discover_ports, up to the walk of the interface tables.
Collect(q) ==
  LET s == Refreshed(sess[q], sess[q].cur)
  IN /\ sess[q].pc = "collect"
     /\ s.rows[s.cur].gen # 0
     /\ s.rows[s.cur].snmp
     /\ \E dirty \in BOOLEAN :
          sess' = [sess EXCEPT ![q] =
            [s EXCEPT !.pc = "walk", !.gen = s.rows[s.cur].gen, !.pend = TRUE, !.dirty = dirty]]
     /\ polls' = [polls EXCEPT ![s.run][s.cur].gen = s.rows[s.cur].gen]
     /\ UNCHANGED <<tables, runs, last, disturbed, asked>>

\* The id a new row gets.
NextId ==
  IF IsMySQL THEN created + 1
  ELSE CHOOSE n \in 1 .. MaxId + 1 :
         /\ \A d \in Live : d < n
         /\ n = 1 \/ n - 1 \in Live

\* POST /api/devices with a name not in use.
Create ==
  /\ created < MaxGen
  /\ NextId \in Ids
  /\ created' = created + 1
  /\ \E mon, snmp \in BOOLEAN :
       /\ devices' = [devices EXCEPT ![NextId] =
                        [Blank EXCEPT !.gen = created + 1, !.mon = mon, !.snmp = snmp]]
       /\ asked' = [asked EXCEPT ![NextId] = snmp]
  /\ UNCHANGED <<edits, ports, metrics, traffic, sess, runs, polls, last, disturbed>>

\* PATCH /api/devices/{id}.
Patch(d) ==
  /\ d \in Live
  /\ edits < MaxEdits
  /\ edits' = edits + 1
  /\ \E mon, snmp \in BOOLEAN :
       /\ devices' = [devices EXCEPT ![d].mon = mon, ![d].snmp = snmp]
       /\ asked' = [asked EXCEPT ![d] = snmp]
  /\ UNCHANGED <<created, ports, metrics, traffic, sess, runs, polls, last, disturbed>>

\* Mutant of Delete: the metric samples' foreign key does not cascade.
DeleteKeepsMetrics(d) ==
  /\ d \in Live
  /\ edits < MaxEdits
  /\ edits' = edits + 1
  /\ devices' = [devices EXCEPT ![d] = Blank]
  /\ ports' = {p \in ports : p.dev # d}
  /\ traffic' = IF IsMySQL THEN {m \in traffic : m.dev # d} ELSE traffic
  /\ Disturb(Ticks, d)
  /\ polls' = Publish(0, d, "none", "")
  /\ UNCHANGED <<created, metrics, sess, runs, last, asked>>

\* DELETE /api/devices/{id}.  The ORM deletes the ports; the samples go only with
\* the foreign keys' ON DELETE CASCADE, where the database enforces them.
Delete(d) ==
  /\ d \in Live
  /\ edits < MaxEdits
  /\ edits' = edits + 1
  /\ devices' = [devices EXCEPT ![d] = Blank]
  /\ ports' = {p \in ports : p.dev # d}
  /\ metrics' = IF IsMySQL THEN {m \in metrics : m.dev # d} ELSE metrics
  /\ traffic' = IF IsMySQL THEN {m \in traffic : m.dev # d} ELSE traffic
  /\ Disturb(Ticks, d)
  /\ polls' = Publish(0, d, "none", "")
  /\ UNCHANGED <<created, sess, runs, last, asked>>

\* The process stops and starts again: threads and sessions are gone.
Restart ==
  /\ sess' = [w \in Workers |-> Idle]
  /\ polls' = [r \in Runs |-> [d \in Ids |->
       IF polls[r][d].out \in Pending
       THEN [polls[r][d] EXCEPT !.out = "lost"] ELSE polls[r][d]]]
  /\ UNCHANGED <<tables, runs, last, disturbed, asked>>

-----------------------------------------------------------------------------
TickStep(t) ==
  \/ \E d \in Ids : Begin(t, d) \/ Skip(t, d) \/ BeginGone(t, d)
  \/ Except(t) \/ ExceptFails(t)
  \/ TickEnd(t) \/ PruneFails(t)

TestStep(q) ==
  \/ \E d \in Ids : StartTest(q, d)
  \/ PlayedOut(q) \/ Played(q)
  \/ Tell(q) \/ Told(q) \/ ToldOnly(q) \/ Collect(q)
  \/ TestGone(q) \/ TestFails(q)

CollectStep(w) ==
  \/ Walk(w) \/ WalkFails(w)
  \/ DiscoverWalk(w) \/ DiscoverCommit(w) \/ DiscoverCommitFails(w)
  \/ Reload(w) \/ ReloadGone(w)
  \/ Commit(w) \/ CommitFails(w)

AdminStep == Create \/ (\E d \in Ids : Patch(d) \/ Delete(d))

Next ==
  \/ \E t \in Ticks : TickStart(t) \/ TickStep(t)
  \/ \E q \in Requests, d \in Ids : PollRequest(q, d) \/ DiscoverRequest(q, d) \/ SnmpRequest(q, d)
  \/ \E q \in Requests : TestStep(q) \/ \E chosen \in SUBSET Ids : TestRequest(q, chosen)
  \/ \E w \in Workers : CollectStep(w)
  \/ AdminStep
  \/ Restart

Spec == Init /\ [][Next]_vars

\* A worker that started goes on: its thread is scheduled, every SNMP call and every
\* playbook has a timeout, and a database call returns or raises.
Fairness ==
  /\ \A t \in Ticks : WF_vars(TickStep(t))
  /\ \A q \in Requests : WF_vars(TestStep(q))
  /\ \A w \in Workers : WF_vars(CollectStep(w))

FairSpec == Spec /\ Fairness

-----------------------------------------------------------------------------
\* A tick is cut short, and the devices after the failing one go without a poll,
\* only when one of its devices was deleted or had its ports discovered by
\* someone else meanwhile, or the database failed by itself.  Devices that do
\* not answer, whatever the call that fails, never have that effect.
CrashOnlyIfDisturbed ==
  \A t \in Ticks : last[t].how = "crashed" => disturbed[t]

\* A tick that ran to its end left no selected device without an outcome: each
\* was polled, marked as failed, or found to have SNMP switched off.
DoneMeansAllSettled ==
  \A t \in Ticks : last[t].how = "done" =>
    \A d \in Ids : polls[last[t].run][d].out \in {"none", "success", "marked", "skipped", "lost"}

\* snmp_last_status and snmp_last_polled of a device come from the same poll, the
\* status being what that poll wrote last, unless another poll of it committed, or it
\* was deleted, during that poll.
StatusMatchesPoll ==
  \A d \in Live : devices[d].polled # 0 =>
    LET p == polls[devices[d].polled][d]
    IN ~p.raced => p.told # "" /\ devices[d].status = p.told

\* The administrator's last word on snmp_enabled is never undone by a poll that
\* loaded the device before.
AdminEditsSurvive == \A d \in Live : devices[d].snmp = asked[d]

\* As long as a device exists, each of its polls that succeeded has its metric sample,
\* and a sample is of a poll that succeeded, or that the handler of a tick marked as
\* failed, or that a test swallowed, or that got through the commit of discover_ports:
\* a poll that was left out or given up leaves none.  Traffic is recorded by
\* successful polls only.
SamplesMatchOutcomes ==
  \A r \in Runs, d \in Live :
    LET p == polls[r][d]
        mine == [dev |-> d, gen |-> p.gen, run |-> r]
    IN p.gen = devices[d].gen =>
         /\ p.out = "success" => mine \in metrics
         /\ mine \in metrics => p.out \in {"success", "marked", "swallowed"} \/ p.early
         /\ mine \in traffic => p.out = "success"

\* Every port and every sample belongs to the device whose id it carries, and
\* that device exists.
RowsHaveTheirDevice ==
  \A x \in ports \cup metrics \cup traffic :
    x.dev \in Live /\ devices[x.dev].gen = x.gen

\* The same for the samples alone: the models declare
\* ForeignKey("devices.id", ondelete="CASCADE") on both sample tables.
SamplesCascade ==
  \A x \in metrics \cup traffic : x.dev \in Live /\ devices[x.dev].gen = x.gen

-----------------------------------------------------------------------------
\* The ledger of polls, read off the sessions and the tables.

DuePolls == {x \in Runs \X Ids : \E w \in Workers : sess[w].run = x[1] /\ Concerns(sess[w], x[2])}
Recorded(table) == {<<m.run, m.dev>> : m \in table}

Ledger == INSTANCE PollLedger
  WITH announced <- runs, due <- DuePolls, book <- Recorded(metrics),
       flows <- Recorded(traffic), board <- [d \in Ids |-> devices[d].polled]

\* The collector keeps the promises of polling: whatever is written for a poll, a
\* session holds that poll as not over; a commit ends one poll at most, with its
\* sample on record; a poll that is given up leaves no further trace.
ImplementsLedger == Ledger!Spec

\* A poll that was announced to a tick or a request comes to an end.
EveryPollSettles ==
  \A r \in Runs, d \in Ids :
    (polls[r][d].out \in Pending) ~> (polls[r][d].out \notin Pending)

=============================================================================
