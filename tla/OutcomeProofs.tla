---------------------------- MODULE OutcomeProofs ----------------------------
(***************************************************************************)
(* What the collector tells of its polls is true, for any number of ticks,  *)
(* requests, devices and polls, on both databases: a tick that ran to its   *)
(* end settled every poll it announced, the samples on record are those of  *)
(* polls whose outcome allows one, and a device's status and time come from *)
(* the same poll.                                                           *)
(***************************************************************************)
EXTENDS CollectorProofs, WellFoundedInduction

\* Once it was loaded, the copy of a row the session still has to poll has the
\* row's status, unless the poll saw the row change.
CopyHasStatus(s, ps, devs) ==
  \A d \in Ids : s.run # 0 /\ Concerns(s, d) /\ ps[s.run][d].out \in Pending
                   /\ s.rows[d].gen # 0 /\ ~ps[s.run][d].raced
                   => s.rows[d].status = devs[d].status

\* What the record of polls says of the polls a session has in hand or ahead of it.
SessionPolls(s, ps) ==
  s.run # 0 =>
    /\ \A d \in s.todo : ps[s.run][d].out = "queued"
    /\ s.pc = "next" /\ s.pend =>
         ps[s.run][s.cur].out = "swallowed" /\ ps[s.run][s.cur].gen = s.gen
    /\ s.pc # "next" =>
         /\ ps[s.run][s.cur].out = "open"
         /\ s.pend \/ s.pc \in {"reload", "commit"} => ps[s.run][s.cur].gen = s.gen
         /\ ps[s.run][s.cur].early <=> ~s.pend /\ s.pc \in {"reload", "commit"}
         /\ s.pc \notin {"reload", "play", "told", "collect"} => s.rows[s.cur].gen # 0
         /\ s.pc \in {"play", "tell", "told", "collect"} => ~s.pend

\* A poll is not over only while a worker has it in hand or ahead of it.
PendingIsDue ==
  \A r \in Runs, d \in Ids : polls[r][d].out \in Pending => <<r, d>> \in DuePolls

\* A poll that did not begin has no device and no sample, and a run to come has
\* no poll.
PollStarts ==
  \A r \in Runs, d \in Ids :
    /\ polls[r][d].out \in {"none", "queued"} => polls[r][d].gen = 0 /\ ~polls[r][d].early
    /\ polls[r][d].gen <= created
    /\ r > runs => polls[r][d].out = "none"

\* A poll of which the sample was committed, and one of which it may have been.
Noted(p) == p.out \in {"success", "marked"} \/ p.early
MayBeNoted(p) == Noted(p) \/ p.out = "swallowed"

\* A sample is that of a poll whose outcome allows it, and has the device of that poll.
SampleHasPoll ==
  /\ \A m \in metrics \cup traffic : m.run \in Runs /\ m.gen # 0 /\ polls[m.run][m.dev].gen = m.gen
  /\ \A m \in metrics : MayBeNoted(polls[m.run][m.dev])
  /\ \A m \in traffic : polls[m.run][m.dev].out = "success"

\* As long as its device exists, the sample a poll has committed is there.
PollHasSample ==
  \A r \in Runs, d \in Ids :
    devices[d].gen # 0 /\ polls[r][d].gen = devices[d].gen /\ Noted(polls[r][d]) =>
      [dev |-> d, gen |-> polls[r][d].gen, run |-> r] \in metrics

\* The run a tick reports is that of the tick alone, the one under way if there is
\* one, no poll of it is a test's, and none is given up before the tick has crashed.
TickRuns ==
  \A t \in Ticks :
    /\ last[t].run <= runs
    /\ sess[t].run # 0 => last[t].how = "none" /\ last[t].run = sess[t].run
    /\ last[t].run # 0 => \A v \in Workers : sess[v].run = last[t].run => v = t
    /\ last[t].how = "done" => last[t].run # 0
    /\ last[t].run # 0 => \A d \in Ids : polls[last[t].run][d].out \notin {"told", "swallowed"}
    /\ last[t].how # "crashed" /\ last[t].run # 0 =>
         \A d \in Ids : polls[last[t].run][d].out # "aborted"

\* A row names a run that was started, and a row that is not there has no status.
RowsTell == \A d \in Ids : devices[d].polled <= runs /\ (devices[d].gen = 0 => devices[d].status = Blank.status)

OutcomeInv ==
  /\ \A w \in Workers : SessionPolls(sess[w], polls) /\ CopyHasStatus(sess[w], polls, devices)
  /\ PendingIsDue
  /\ PollStarts
  /\ SampleHasPoll
  /\ PollHasSample
  /\ TickRuns
  /\ RowsTell
  /\ StatusMatchesPoll

-----------------------------------------------------------------------------
\* What the updates of the record of polls change

\* Types of the parts the proofs look at.
LEMMA OutcomeTypes ==
  ASSUME TypeInv
  PROVE  /\ runs \in Nat /\ created \in Nat /\ MaxRuns \in Nat
         /\ \A w \in Workers : sess[w] \in Session /\ sess[w].run \in Nat
         /\ \A w \in Workers : sess[w].run # 0 => sess[w].run \in Runs
         /\ \A r \in Runs, d \in Ids : polls[r][d] \in Poll /\ polls[r][d].gen \in Nat
         /\ \A r \in Runs : r \in Nat /\ r # 0
         /\ \A t \in Ticks : last[t].run \in Nat /\ (last[t].run # 0 => last[t].run \in Runs)
         /\ \A d \in Ids : devices[d] \in Row /\ d # 0
<1>1. runs \in Nat /\ created \in Nat /\ MaxRuns \in Nat
  BY BoundsAssumption DEF TypeInv, TypeOK, Gens
<1>2. \A w \in Workers : sess[w] \in Session /\ sess[w].run \in 0 .. MaxRuns
  BY DEF TypeInv, TypeOK, Session
<1>3. \A r \in Runs, d \in Ids : polls[r][d] \in Poll /\ polls[r][d].gen \in Nat
  <2>1. \A p \in Poll : p.gen \in Nat
    <3>1. \A p \in Poll : p.gen \in Gens
      BY DEF Poll
    <3>2. Gens \subseteq Nat
      BY BoundsAssumption DEF Gens
    <3> QED BY <3>1, <3>2
  <2>2. \A r \in Runs, d \in Ids : polls[r][d] \in Poll
    BY DEF TypeInv, TypeOK
  <2> QED BY <2>1, <2>2
<1>4. \A t \in Ticks : last[t].run \in 0 .. MaxRuns
  BY DEF TypeInv, TypeOK
<1>5. \A d \in Ids : devices[d] \in Row /\ d # 0
  BY DEF TypeInv, TypeOK, Ids
<1>6. \A r \in 0 .. MaxRuns : r \in Nat /\ (r # 0 => r \in Runs)
  BY DEF Runs
<1>7. \A r \in Runs : r \in Nat /\ r # 0
  BY DEF Runs
<1> QED BY <1>1, <1>2, <1>3, <1>4, <1>5, <1>6, <1>7

\* The polls a tick or a request gives up.
LEMMA DropFacts ==
  ASSUME TypeInv, NEW r0, NEW out, polls' = Drop(r0, out), NEW r \in Runs, NEW d \in Ids
  PROVE  /\ polls'[r][d].gen = polls[r][d].gen /\ polls'[r][d].early = polls[r][d].early
         /\ polls'[r][d].raced = polls[r][d].raced /\ polls'[r][d].told = polls[r][d].told
         /\ polls'[r][d].out = IF r = r0 /\ polls[r][d].out \in Pending THEN out ELSE polls[r][d].out
<1> DEFINE p == polls[r][d]
<1>1. p \in Poll
  BY OutcomeTypes
<1>2. polls'[r][d] = IF r = r0 /\ p.out \in Pending THEN [p EXCEPT !.out = out] ELSE p
  BY DEF Drop
<1> HIDE DEF p
<1>3. [p EXCEPT !.out = out].gen = p.gen /\ [p EXCEPT !.out = out].early = p.early
      /\ [p EXCEPT !.out = out].raced = p.raced /\ [p EXCEPT !.out = out].told = p.told
      /\ [p EXCEPT !.out = out].out = out
  BY <1>1 DEF Poll
<1> QED BY <1>2, <1>3 DEF p

\* The poll a commit tells of, and those that saw the row change.
LEMMA PublishFacts ==
  ASSUME TypeInv, NEW r0, NEW d0, NEW out, NEW status, polls' = Publish(r0, d0, out, status),
         NEW r \in Runs, NEW d \in Ids
  PROVE  /\ polls'[r][d].gen = polls[r][d].gen /\ polls'[r][d].early = polls[r][d].early
         /\ polls[r][d].raced => polls'[r][d].raced
         /\ d = d0 /\ r # r0 /\ polls[r][d].out \in Pending => polls'[r][d].raced
         /\ r = r0 => polls'[r][d].raced = polls[r][d].raced
         /\ polls'[r][d].out = IF r = r0 /\ d = d0 THEN out ELSE polls[r][d].out
         /\ polls'[r][d].told = IF r = r0 /\ d = d0 THEN status ELSE polls[r][d].told
<1> DEFINE p == polls[r][d]
           b == p.raced \/ p.out \in Pending
<1>1. p \in Poll /\ (p.raced => b) /\ (p.out \in Pending => b)
  BY OutcomeTypes
<1>2. polls'[r][d] = IF d # d0 THEN p
                     ELSE IF r = r0 THEN [p EXCEPT !.out = out, !.told = status]
                          ELSE [p EXCEPT !.raced = b]
  BY DEF Publish
<1> HIDE DEF p, b
<1> DEFINE x == [p EXCEPT !.out = out, !.told = status]
           y == [p EXCEPT !.raced = b]
<1>3. /\ x.gen = p.gen /\ x.early = p.early /\ x.raced = p.raced /\ x.out = out /\ x.told = status
      /\ y.gen = p.gen /\ y.early = p.early /\ y.raced = b /\ y.out = p.out /\ y.told = p.told
  BY <1>1 DEF Poll
<1> HIDE DEF x, y
<1>4. polls'[r][d] = IF d # d0 THEN p ELSE IF r = r0 THEN x ELSE y
  BY <1>2 DEF x, y
<1> QED BY <1>1, <1>3, <1>4 DEF p

\* The record of one poll is replaced.
Records(r0, d0, p) == polls' = [polls EXCEPT ![r0][d0] = p]

\* The other polls when the record of one is replaced.
LEMMA OnePoll ==
  ASSUME TypeInv, NEW r0 \in Runs, NEW d0 \in Ids, NEW p, Records(r0, d0, p)
  PROVE  /\ polls'[r0][d0] = p
         /\ \A r \in Runs, d \in Ids : ~(r = r0 /\ d = d0) => polls'[r][d] = polls[r][d]
BY DEF Records, TypeInv, TypeOK

-----------------------------------------------------------------------------
\* What a step leaves alone

\* What polls have seen they have seen, and what they told they told.
Onward ==
  \A r \in Runs, d \in Ids : r <= runs =>
    /\ polls[r][d].raced => polls'[r][d].raced
    /\ polls'[r][d].told = polls[r][d].told

\* Outside one run, polls change only in what they see.
OtherRunsKeep(r0) ==
  \A r \in Runs, d \in Ids : r <= runs /\ r # r0 =>
    /\ polls'[r][d].out = polls[r][d].out
    /\ polls'[r][d].gen = polls[r][d].gen
    /\ polls'[r][d].early = polls[r][d].early
    /\ polls[r][d].raced => polls'[r][d].raced

\* A change of a row's status is seen by the polls of the device outside the run.
ChangeIsSeen(r0) ==
  \A d \in Ids : \/ devices'[d].status = devices[d].status
                 \/ \A r \in Runs : r # r0 /\ polls[r][d].out \in Pending => polls'[r][d].raced

\* What the record says of the polls of a worker outside that run stays true.
LEMMA SessionKept ==
  ASSUME TypeInv, LedgerInv, OutcomeInv, NEW r0, NEW v \in Workers, sess[v].run = 0 \/ sess[v].run # r0,
         OtherRunsKeep(r0), ChangeIsSeen(r0)
  PROVE  SessionPolls(sess[v], polls') /\ CopyHasStatus(sess[v], polls', devices')
<1> DEFINE s == sess[v]
<1>1. SessionPolls(s, polls) /\ CopyHasStatus(s, polls, devices) /\ SessionFits(v, s, runs, created)
  BY DEF OutcomeInv, LedgerInv
<1>2. s.run # 0 => s.run \in Runs /\ s.run <= runs /\ s.run # r0
  BY <1>1, OutcomeTypes DEF SessionFits
<1>3. s.todo \subseteq Ids /\ (s.run # 0 /\ (s.pc # "next" \/ s.pend) => s.cur \in Ids)
  BY <1>1, OutcomeTypes DEF Session, SessionFits, TypeInv, BusyHasDevice
<1>4. \A d \in Ids : s.run # 0 =>
        /\ polls'[s.run][d].out = polls[s.run][d].out
        /\ polls'[s.run][d].gen = polls[s.run][d].gen
        /\ polls'[s.run][d].early = polls[s.run][d].early
        /\ polls[s.run][d].raced => polls'[s.run][d].raced
  BY <1>2 DEF OtherRunsKeep
<1>5. SessionPolls(s, polls')
  BY <1>1, <1>3, <1>4 DEF SessionPolls
<1>7. CopyHasStatus(s, polls', devices')
  BY <1>1, <1>2, <1>4 DEF CopyHasStatus, ChangeIsSeen
<1> QED BY <1>5, <1>7

\* So does what it says of the other workers' polls, when the run is one worker's.
LEMMA OthersPolls ==
  ASSUME TypeInv, LedgerInv, OutcomeInv, NEW w \in Workers, NEW v \in Workers, v # w,
         OtherRunsKeep(sess[w].run), ChangeIsSeen(sess[w].run)
  PROVE  SessionPolls(sess[v], polls') /\ CopyHasStatus(sess[v], polls', devices')
<1>1. sess[v].run = 0 \/ sess[v].run # sess[w].run
  BY DEF LedgerInv, OneOwner
<1> QED BY <1>1, SessionKept

\* A step keeps what polls that did not begin are like.
LEMMA StartsKept ==
  ASSUME TypeInv, OutcomeInv, created <= created', runs <= runs', created' \in Nat, runs' \in Nat,
         \A r \in Runs, d \in Ids :
           \/ /\ \/ polls'[r][d].out = polls[r][d].out
                 \/ polls'[r][d].out \notin {"none", "queued"} /\ polls[r][d].out # "none"
              /\ polls'[r][d].gen = polls[r][d].gen
              /\ polls'[r][d].early = polls[r][d].early
           \/ /\ r <= runs'
              /\ polls'[r][d].gen <= created'
              /\ polls'[r][d].out \in {"none", "queued"} => polls'[r][d].gen = 0 /\ ~polls'[r][d].early
  PROVE  PollStarts'
<1> SUFFICES ASSUME NEW r \in Runs, NEW d \in Ids
    PROVE  /\ polls'[r][d].out \in {"none", "queued"} => polls'[r][d].gen = 0 /\ ~polls'[r][d].early
           /\ polls'[r][d].gen <= created'
           /\ r > runs' => polls'[r][d].out = "none"
  BY DEF PollStarts
<1>1. /\ polls[r][d].out \in {"none", "queued"} => polls[r][d].gen = 0 /\ ~polls[r][d].early
      /\ polls[r][d].gen <= created
      /\ r > runs => polls[r][d].out = "none"
  BY DEF OutcomeInv, PollStarts
<1>2. polls[r][d].gen \in Nat /\ created \in Nat /\ runs \in Nat /\ r \in Nat
  BY OutcomeTypes
<1> QED BY <1>1, <1>2

\* A step that publishes samples only of polls that allow it, and changes the device
\* of a poll only while there is none, keeps every sample with its poll.
LEMMA SamplesKept ==
  ASSUME TypeInv, OutcomeInv,
         \A r \in Runs, d \in Ids :
           /\ polls'[r][d].gen = polls[r][d].gen \/ ~MayBeNoted(polls[r][d])
           /\ MayBeNoted(polls[r][d]) => MayBeNoted(polls'[r][d])
           /\ polls[r][d].out = "success" => polls'[r][d].out = "success",
         \A m \in metrics' \ metrics :
           /\ m.run \in Runs /\ m.gen # 0 /\ polls'[m.run][m.dev].gen = m.gen
           /\ MayBeNoted(polls'[m.run][m.dev]),
         \A m \in traffic' \ traffic :
           /\ m.run \in Runs /\ m.gen # 0 /\ polls'[m.run][m.dev].gen = m.gen
           /\ polls'[m.run][m.dev].out = "success"
  PROVE  SampleHasPoll'
<1>1. \A m \in metrics \cup traffic : m.dev \in Ids
  BY DEF TypeInv, TypeOK, Sample
<1>2. \A m \in metrics : /\ m.run \in Runs /\ m.gen # 0 /\ polls[m.run][m.dev].gen = m.gen
                         /\ MayBeNoted(polls[m.run][m.dev])
  BY DEF OutcomeInv, SampleHasPoll
<1>3. \A m \in traffic : /\ m.run \in Runs /\ m.gen # 0 /\ polls[m.run][m.dev].gen = m.gen
                         /\ polls[m.run][m.dev].out = "success"
  BY DEF OutcomeInv, SampleHasPoll
<1>4. \A m \in traffic : MayBeNoted(polls[m.run][m.dev])
  BY <1>3 DEF MayBeNoted, Noted
<1>5. \A m \in metrics' : /\ m.run \in Runs /\ m.gen # 0 /\ polls'[m.run][m.dev].gen = m.gen
                          /\ MayBeNoted(polls'[m.run][m.dev])
  BY <1>1, <1>2
<1>6. \A m \in traffic' : /\ m.run \in Runs /\ m.gen # 0 /\ polls'[m.run][m.dev].gen = m.gen
                          /\ polls'[m.run][m.dev].out = "success"
  BY <1>1, <1>3, <1>4
<1> QED BY <1>5, <1>6 DEF SampleHasPoll, MayBeNoted, Noted

\* A step that takes samples off the record only with their device keeps every
\* poll's sample there.
LEMMA RecordKept ==
  ASSUME TypeInv, OutcomeInv,
         \A d \in Ids : devices'[d].gen \in {0, devices[d].gen} \/ devices'[d].gen > created,
         \A m \in metrics : devices'[m.dev].gen # 0 => m \in metrics',
         \A r \in Runs, d \in Ids : Noted(polls'[r][d]) =>
           \/ polls'[r][d].gen = polls[r][d].gen /\ Noted(polls[r][d])
           \/ [dev |-> d, gen |-> polls'[r][d].gen, run |-> r] \in metrics'
  PROVE  PollHasSample'
<1> SUFFICES ASSUME NEW r \in Runs, NEW d \in Ids, devices'[d].gen # 0,
                    polls'[r][d].gen = devices'[d].gen, Noted(polls'[r][d])
             PROVE  [dev |-> d, gen |-> polls'[r][d].gen, run |-> r] \in metrics'
  BY DEF PollHasSample, Noted
<1>1. CASE polls'[r][d].gen = polls[r][d].gen /\ Noted(polls[r][d])
  <2>1. polls[r][d].gen <= created /\ polls[r][d].gen \in Nat /\ created \in Nat
    BY OutcomeTypes DEF OutcomeInv, PollStarts
  <2>2. devices'[d].gen = devices[d].gen
    <3>1. devices'[d].gen \in {0, devices[d].gen} \/ devices'[d].gen > created
      OBVIOUS
    <3>2. devices'[d].gen = polls[r][d].gen
      BY <1>1
    <3> QED BY <2>1, <3>1, <3>2
  <2>3. PICK m : m = [dev |-> d, gen |-> polls[r][d].gen, run |-> r]
    OBVIOUS
  <2>4. m \in metrics
    BY <1>1, <2>2, <2>3 DEF OutcomeInv, PollHasSample
  <2>5. m.dev = d
    BY <2>3
  <2> QED BY <1>1, <2>3, <2>4, <2>5
<1> QED BY <1>1

\* A row names no poll, or one of a run that was started.
LEMMA PolledRuns ==
  ASSUME TypeInv, OutcomeInv
  PROVE  \A d \in Ids : /\ devices[d].polled \in Nat /\ devices[d].polled <= runs
                        /\ devices[d].polled # 0 => devices[d].polled \in Runs
<1>1. \A d \in Ids : devices[d].polled \in 0 .. MaxRuns
  BY OutcomeTypes DEF Row
<1>2. \A d \in Ids : devices[d].polled <= runs
  BY DEF OutcomeInv, RowsTell
<1> QED BY <1>1, <1>2 DEF Runs

\* A step that flushes no status keeps the rows' status with their poll.
LEMMA StatusKept ==
  ASSUME TypeInv, OutcomeInv, Onward, runs <= runs', runs' \in Nat,
         \A d \in Ids : \/ devices'[d].polled = 0 /\ (devices'[d].gen = 0 => devices'[d].status = Blank.status)
                        \/ /\ devices'[d].polled = devices[d].polled
                           /\ devices'[d].status = devices[d].status
                           /\ devices'[d].gen = devices[d].gen
  PROVE  RowsTell' /\ StatusMatchesPoll'
<1>1. \A d \in Ids : devices[d].polled \in Nat /\ devices[d].polled <= runs
                     /\ (devices[d].polled # 0 => devices[d].polled \in Runs)
  BY PolledRuns
<1>2. RowsTell'
  <2>1. ASSUME NEW d \in Ids PROVE devices'[d].polled <= runs'
    <3>1. devices'[d].polled = 0 \/ devices'[d].polled = devices[d].polled
      OBVIOUS
    <3>2. runs \in Nat /\ runs' \in Nat /\ runs <= runs'
      BY OutcomeTypes
    <3> QED BY <1>1, <3>1, <3>2
  <2>2. \A d \in Ids : devices'[d].gen = 0 => devices'[d].status = Blank.status
    BY DEF OutcomeInv, RowsTell
  <2> QED BY <2>1, <2>2 DEF RowsTell
<1>3. ASSUME NEW d \in Live', devices'[d].polled # 0
      PROVE  LET p == polls'[devices'[d].polled][d]
             IN ~p.raced => p.told # "" /\ devices'[d].status = p.told
  <2> DEFINE r == devices[d].polled
  <2>1. d \in Ids /\ d \in Live /\ devices'[d].polled = r /\ devices'[d].status = devices[d].status
    BY <1>3 DEF Live
  <2>2. r # 0 /\ r \in Runs /\ r <= runs
    BY <1>1, <1>3, <2>1
  <2>3. (polls[r][d].raced => polls'[r][d].raced) /\ polls'[r][d].told = polls[r][d].told
    BY <2>1, <2>2 DEF Onward
  <2>4. ~polls[r][d].raced => polls[r][d].told # "" /\ devices[d].status = polls[r][d].told
    BY <2>1, <2>2 DEF OutcomeInv, StatusMatchesPoll
  <2> HIDE DEF r
  <2> QED BY <2>1, <2>3, <2>4
<1> QED BY <1>2, <1>3 DEF StatusMatchesPoll

\* A run that was started is not reported as another's.
LEMMA RunsKept ==
  ASSUME TypeInv, OutcomeInv, runs <= runs', runs' \in Nat,
         \A v \in Workers : sess'[v].run \in {0, sess[v].run, runs + 1},
         \A t \in Ticks : last'[t].run = last[t].run,
         \A t \in Ticks : sess'[t].run # 0 => sess'[t].run = sess[t].run /\ last'[t].how = "none",
         \A t \in Ticks : last'[t].how = "done" => last[t].run # 0,
         \A t \in Ticks, d \in Ids : last[t].run # 0 =>
           \/ polls'[last[t].run][d].out \notin {"told", "swallowed"}
           \/ polls[last[t].run][d].out \in {"told", "swallowed"},
         \A t \in Ticks, d \in Ids : last'[t].how # "crashed" /\ last[t].run # 0 =>
           /\ last[t].how # "crashed"
           /\ polls'[last[t].run][d].out = "aborted" => polls[last[t].run][d].out = "aborted"
  PROVE  TickRuns'
<1> SUFFICES ASSUME NEW t \in Ticks
    PROVE  /\ last'[t].run <= runs'
           /\ sess'[t].run # 0 => last'[t].how = "none" /\ last'[t].run = sess'[t].run
           /\ last'[t].run # 0 => \A v \in Workers : sess'[v].run = last'[t].run => v = t
           /\ last'[t].how = "done" => last'[t].run # 0
           /\ last'[t].run # 0 => \A d \in Ids : polls'[last'[t].run][d].out \notin {"told", "swallowed"}
           /\ last'[t].how # "crashed" /\ last'[t].run # 0 =>
                \A d \in Ids : polls'[last'[t].run][d].out # "aborted"
  BY DEF TickRuns
<1>1. /\ last[t].run <= runs
      /\ sess[t].run # 0 => last[t].how = "none" /\ last[t].run = sess[t].run
      /\ last[t].run # 0 => \A v \in Workers : sess[v].run = last[t].run => v = t
      /\ last[t].run # 0 => \A d \in Ids : polls[last[t].run][d].out \notin {"told", "swallowed"}
      /\ last[t].how # "crashed" /\ last[t].run # 0 =>
           \A d \in Ids : polls[last[t].run][d].out # "aborted"
  BY DEF OutcomeInv, TickRuns
<1>2. last[t].run \in Nat /\ runs \in Nat
  BY OutcomeTypes
<1>3. last[t].run # 0 => \A v \in Workers : sess'[v].run = last[t].run => v = t
  BY <1>1, <1>2
<1> QED BY <1>1, <1>2, <1>3

-----------------------------------------------------------------------------
\* Steps that write nothing

\* Steps after which a worker has the same polls, with nothing told of them.
LEMMA MoveOutcome ==
  ASSUME TypeInv, LedgerInv, OutcomeInv, NEW w \in Workers, NEW n, sess' = [sess EXCEPT ![w] = n],
         UNCHANGED <<devices, created, metrics, traffic, runs, polls, last>>,
         \/ n.run = sess[w].run /\ \A d \in Ids : Concerns(n, d) <=> Concerns(sess[w], d)
         \/ n.run = 0 /\ sess[w].run = 0,
         SessionPolls(n, polls), CopyHasStatus(n, polls, devices)
  PROVE  OutcomeInv'
<1>1. sess'[w] = n /\ \A v \in Workers : v # w => sess'[v] = sess[v]
  BY DEF TypeInv, TypeOK
<1>2. \A v \in Workers : SessionPolls(sess'[v], polls') /\ CopyHasStatus(sess'[v], polls', devices')
  BY <1>1 DEF OutcomeInv
<1>3. PendingIsDue'
  BY DueKept DEF OutcomeInv, PendingIsDue
<1>4. PollStarts' /\ SampleHasPoll' /\ PollHasSample' /\ RowsTell'
  BY DEF OutcomeInv, PollStarts, SampleHasPoll, PollHasSample, RowsTell
<1>5. TickRuns'
  <2>1. \A v \in Workers : sess'[v].run = sess[v].run
    BY <1>1
  <2> QED BY <2>1, WorkerTypes DEF OutcomeInv, TickRuns
<1>6. StatusMatchesPoll'
  BY DEF OutcomeInv, StatusMatchesPoll, Live
<1> QED BY <1>2, <1>3, <1>4, <1>5, <1>6 DEF OutcomeInv

\* The idle session has no poll.
LEMMA IdleOutcome == Idle.run = 0 /\ \A ps, devs : SessionPolls(Idle, ps) /\ CopyHasStatus(Idle, ps, devs)
<1>1. Idle.run = 0
  BY DEF Idle
<1> QED BY <1>1 DEF SessionPolls, CopyHasStatus

\* Giving up a run gives up the polls that are not over.
LEMMA AbortOutcome ==
  ASSUME TypeInv, LedgerInv, OutcomeInv, NEW w \in Workers, Abort(w),
         UNCHANGED <<devices, created, metrics, traffic, runs>>
  PROVE  OutcomeInv'
<1> DEFINE r0 == sess[w].run
<1>1. /\ sess' = [sess EXCEPT ![w] = Idle] /\ polls' = Drop(r0, "aborted")
      /\ \A t \in Ticks : last'[t] = IF t = w THEN [last[t] EXCEPT !.how = "crashed"] ELSE last[t]
  BY DEF Abort
<1>2. sess'[w] = Idle /\ (\A v \in Workers : v # w => sess'[v] = sess[v]) /\ Idle.run = 0
  BY <1>1 DEF TypeInv, TypeOK, Idle
<1>3. \A r \in Runs, d \in Ids :
        /\ polls'[r][d].gen = polls[r][d].gen /\ polls'[r][d].early = polls[r][d].early
        /\ polls'[r][d].raced = polls[r][d].raced /\ polls'[r][d].told = polls[r][d].told
        /\ polls'[r][d].out = IF r = r0 /\ polls[r][d].out \in Pending THEN "aborted" ELSE polls[r][d].out
  BY <1>1, DropFacts
<1>4. OtherRunsKeep(r0) /\ Onward
  BY <1>3 DEF OtherRunsKeep, Onward, Pending
<1>5. \A v \in Workers : SessionPolls(sess'[v], polls') /\ CopyHasStatus(sess'[v], polls', devices')
  BY <1>2, <1>4, IdleOutcome, OthersPolls DEF ChangeIsSeen
<1>6. PendingIsDue'
  <2> SUFFICES ASSUME NEW r \in Runs, NEW d \in Ids, polls'[r][d].out \in Pending
               PROVE  <<r, d>> \in DuePolls'
    BY DEF PendingIsDue
  <2>1. r # r0 /\ polls[r][d].out \in Pending
    BY <1>3 DEF Pending
  <2>2. <<r, d>> \in DuePolls
    BY <2>1 DEF OutcomeInv, PendingIsDue
  <2>3. PICK v \in Workers : sess[v].run = r /\ Concerns(sess[v], d)
    BY <2>2 DEF DuePolls
  <2>4. sess'[v] = sess[v]
    BY <1>2, <2>1, <2>3
  <2>5. sess'[v].run = r /\ Concerns(sess'[v], d)
    BY <2>3, <2>4
  <2> QED BY <2>5 DEF DuePolls, Concerns
<1>7. PollStarts'
  <2>1. created <= created' /\ runs <= runs' /\ created' \in Nat /\ runs' \in Nat
    BY OutcomeTypes
  <2>2. \A r \in Runs, d \in Ids :
          \/ polls'[r][d].out = polls[r][d].out
          \/ polls'[r][d].out \notin {"none", "queued"} /\ polls[r][d].out # "none"
    BY <1>3 DEF Pending
  <2> QED BY <1>3, <2>1, <2>2, StartsKept
<1>8. SampleHasPoll' /\ PollHasSample'
  <2>1. \A r \in Runs, d \in Ids :
          /\ MayBeNoted(polls[r][d]) => MayBeNoted(polls'[r][d])
          /\ polls[r][d].out = "success" => polls'[r][d].out = "success"
          /\ Noted(polls'[r][d]) => Noted(polls[r][d])
    BY <1>3 DEF MayBeNoted, Noted, Pending
  <2>2. SampleHasPoll'
    BY <1>3, <2>1, SamplesKept
  <2>3. PollHasSample'
    BY <1>3, <2>1, RecordKept
  <2> QED BY <2>2, <2>3
<1>9. RowsTell' /\ StatusMatchesPoll'
  BY <1>4, OutcomeTypes, StatusKept
<1>10. TickRuns'
  <2>1. \A t \in Ticks : last[t] \in [how : {"none", "done", "crashed"}, run : 0 .. MaxRuns]
    BY DEF TypeInv, TypeOK
  <2>2. \A t \in Ticks : last'[t].run = last[t].run /\ last'[t].how = IF t = w THEN "crashed" ELSE last[t].how
    BY <1>1, <2>1
  <2>3. \A v \in Workers : sess'[v].run \in {0, sess[v].run, runs + 1}
    BY <1>2
  <2>4. \A t \in Ticks : sess'[t].run # 0 => sess'[t].run = sess[t].run /\ last'[t].how = "none"
    BY <1>2, <2>2, WorkerTypes DEF OutcomeInv, TickRuns
  <2>5. \A t \in Ticks : last'[t].how = "done" => last[t].run # 0
    BY <2>2 DEF OutcomeInv, TickRuns
  <2>6. ASSUME NEW t \in Ticks, NEW d \in Ids, last'[t].how # "crashed", last[t].run # 0
        PROVE  /\ last[t].how # "crashed"
               /\ polls'[last[t].run][d].out = "aborted" => polls[last[t].run][d].out = "aborted"
    <3>1. t # w /\ last[t].how # "crashed" /\ last[t].run \in Runs
      BY <2>2, <2>6, OutcomeTypes
    <3>2. last[t].run # r0
      BY <2>6, <3>1 DEF OutcomeInv, TickRuns
    <3> QED BY <1>3, <3>1, <3>2
  <2>7. \A t \in Ticks, d \in Ids : last[t].run # 0 =>
          \/ polls'[last[t].run][d].out \notin {"told", "swallowed"}
          \/ polls[last[t].run][d].out \in {"told", "swallowed"}
    BY <1>3, OutcomeTypes
  <2> QED BY <2>2, <2>3, <2>4, <2>5, <2>6, <2>7, OutcomeTypes, RunsKept
<1> QED BY <1>5, <1>6, <1>7, <1>8, <1>9, <1>10 DEF OutcomeInv

\* A commit that raises gives up the run.
LEMMA FailedCommitOutcome ==
  ASSUME TypeInv, LedgerInv, OutcomeInv, NEW w \in Workers, NEW conflict, FailedCommit(w, conflict)
  PROVE  OutcomeInv'
BY AbortOutcome DEF FailedCommit, tables

-----------------------------------------------------------------------------
\* Steps that tell of one poll

\* Of all the polls only one changes, but for what the others see.
OnlyPoll(r0, d0) ==
  \A r \in Runs, d \in Ids : ~(r = r0 /\ d = d0) =>
    /\ polls'[r][d].out = polls[r][d].out
    /\ polls'[r][d].gen = polls[r][d].gen
    /\ polls'[r][d].early = polls[r][d].early
    /\ polls'[r][d].told = polls[r][d].told
    /\ polls[r][d].raced => polls'[r][d].raced

\* How the record p of a poll may come to be q: a poll that was told of as committed
\* stays so, with its device.
GoesOn(p, q) ==
  /\ q.raced = p.raced /\ q.gen <= created
  /\ p.out \notin {"none", "success"}
  /\ q.out \notin {"none", "queued", "aborted"}
  /\ MayBeNoted(p) => q.gen = p.gen /\ MayBeNoted(q)

\* What a step of worker w in run r0, after which its session is n, publishes of the
\* poll of device d0: samples of polls that allow them, that of d0 if it is noted.
Publishes(r0, d0) ==
  /\ metrics \subseteq metrics' /\ traffic \subseteq traffic'
  /\ \A m \in metrics' \ metrics :
       /\ m.run \in Runs /\ m.gen # 0 /\ polls'[m.run][m.dev].gen = m.gen
       /\ MayBeNoted(polls'[m.run][m.dev])
  /\ \A m \in traffic' \ traffic :
       /\ m.run \in Runs /\ m.gen # 0 /\ polls'[m.run][m.dev].gen = m.gen
       /\ polls'[m.run][m.dev].out = "success"
  /\ Noted(polls'[r0][d0]) =>
       \/ Noted(polls[r0][d0])
       \/ [dev |-> d0, gen |-> polls'[r0][d0].gen, run |-> r0] \in metrics'

\* Rows stay as they are, but that of d0, which may take status and time from the poll.
Writes(r0, d0) ==
  /\ \A d \in Ids : devices'[d].gen = devices[d].gen
  /\ \A d \in Ids \ {d0} : devices'[d].status = devices[d].status /\ devices'[d].polled = devices[d].polled
  /\ \/ /\ devices'[d0].status = devices[d0].status /\ devices'[d0].polled = devices[d0].polled
        /\ polls'[r0][d0].told = polls[r0][d0].told
     \/ /\ devices[d0].gen # 0 /\ devices'[d0].polled = r0 /\ polls'[r0][d0].told # ""
        /\ ~polls'[r0][d0].raced => devices'[d0].status = polls'[r0][d0].told
        /\ \A r \in Runs : r # r0 /\ polls[r][d0].out \in Pending => polls'[r][d0].raced

\* The polls that are not over are those the session has in hand or ahead of it.
Holds(w, n, r0, d0) ==
  /\ polls'[r0][d0].out \in Pending => n.run = r0 /\ Concerns(n, d0)
  /\ \A d \in Ids \ {d0} : Concerns(sess[w], d) /\ polls[r0][d].out \in Pending
                             => n.run = r0 /\ Concerns(n, d)

\* Such a step keeps the invariant.
LEMMA PollStepOutcome ==
  ASSUME TypeInv, LedgerInv, OutcomeInv, NEW w \in Workers, NEW n, NEW r0 \in Runs, NEW d0 \in Ids,
         sess' = [sess EXCEPT ![w] = n], sess[w].run = r0, n.run \in {0, r0},
         UNCHANGED <<created, runs, last>>,
         OnlyPoll(r0, d0), GoesOn(polls[r0][d0], polls'[r0][d0]),
         w \in Ticks => polls'[r0][d0].out \notin {"told", "swallowed"},
         Publishes(r0, d0), Writes(r0, d0), Holds(w, n, r0, d0),
         SessionPolls(n, polls'), CopyHasStatus(n, polls', devices')
  PROVE  OutcomeInv'
<1> DEFINE p == polls[r0][d0]
           q == polls'[r0][d0]
<1>1. sess'[w] = n /\ \A v \in Workers : v # w => sess'[v] = sess[v]
  BY DEF TypeInv, TypeOK
<1>2. OtherRunsKeep(r0)
  BY DEF OnlyPoll, OtherRunsKeep
<1>3. ChangeIsSeen(r0)
  BY DEF Writes, ChangeIsSeen
<1>4. \A v \in Workers : SessionPolls(sess'[v], polls') /\ CopyHasStatus(sess'[v], polls', devices')
  BY <1>1, <1>2, <1>3, OthersPolls
<1>5. PendingIsDue'
  <2> SUFFICES ASSUME NEW r \in Runs, NEW d \in Ids, polls'[r][d].out \in Pending
               PROVE  <<r, d>> \in DuePolls'
    BY DEF PendingIsDue
  <2>1. CASE r = r0 /\ d = d0
    <3>1. sess'[w].run = r /\ Concerns(sess'[w], d)
      BY <1>1, <2>1 DEF Holds
    <3> QED BY <3>1 DEF DuePolls, Concerns
  <2>2. CASE ~(r = r0 /\ d = d0)
    <3>1. polls[r][d].out \in Pending
      BY <2>2 DEF OnlyPoll
    <3>2. PICK v \in Workers : sess[v].run = r /\ Concerns(sess[v], d)
      BY <3>1 DEF OutcomeInv, PendingIsDue, DuePolls
    <3>3. sess'[v].run = r /\ Concerns(sess'[v], d)
      <4>1. CASE v # w
        BY <1>1, <3>2, <4>1
      <4>2. CASE v = w
        BY <1>1, <2>2, <3>1, <3>2, <4>2 DEF Holds
      <4> QED BY <4>1, <4>2
    <3> QED BY <3>3 DEF DuePolls, Concerns
  <2> QED BY <2>1, <2>2
<1>6. PollStarts'
  <2>1. created <= created' /\ runs <= runs' /\ created' \in Nat /\ runs' \in Nat
    BY OutcomeTypes
  <2>2. r0 <= runs'
    BY OutcomeTypes DEF LedgerInv, SessionFits
  <2>3. \A r \in Runs, d \in Ids :
           \/ /\ \/ polls'[r][d].out = polls[r][d].out
                 \/ polls'[r][d].out \notin {"none", "queued"} /\ polls[r][d].out # "none"
              /\ polls'[r][d].gen = polls[r][d].gen
              /\ polls'[r][d].early = polls[r][d].early
           \/ /\ r <= runs'
              /\ polls'[r][d].gen <= created'
              /\ polls'[r][d].out \in {"none", "queued"} => polls'[r][d].gen = 0 /\ ~polls'[r][d].early
    BY <2>2 DEF OnlyPoll, GoesOn
  <2> QED BY <2>1, <2>3, StartsKept
<1>7. \A r \in Runs, d \in Ids :
        /\ polls'[r][d].gen = polls[r][d].gen \/ ~MayBeNoted(polls[r][d])
        /\ MayBeNoted(polls[r][d]) => MayBeNoted(polls'[r][d])
        /\ polls[r][d].out = "success" => polls'[r][d].out = "success"
  BY DEF OnlyPoll, GoesOn, MayBeNoted, Noted
<1>8. SampleHasPoll'
  BY <1>7, SamplesKept DEF Publishes
<1>9. PollHasSample'
  <2>1. \A d \in Ids : devices'[d].gen \in {0, devices[d].gen} \/ devices'[d].gen > created
    BY DEF Writes
  <2>2. \A m \in metrics : devices'[m.dev].gen # 0 => m \in metrics'
    BY DEF Publishes
  <2>3. \A r \in Runs, d \in Ids : Noted(polls'[r][d]) =>
           \/ polls'[r][d].gen = polls[r][d].gen /\ Noted(polls[r][d])
           \/ [dev |-> d, gen |-> polls'[r][d].gen, run |-> r] \in metrics'
    <3> SUFFICES ASSUME NEW r \in Runs, NEW d \in Ids, Noted(polls'[r][d])
                 PROVE  \/ polls'[r][d].gen = polls[r][d].gen /\ Noted(polls[r][d])
                        \/ [dev |-> d, gen |-> polls'[r][d].gen, run |-> r] \in metrics'
      OBVIOUS
    <3>1. CASE r = r0 /\ d = d0
      <4>1. Noted(p) => q.gen = p.gen
        BY DEF GoesOn, MayBeNoted
      <4>2. Noted(p) \/ [dev |-> d0, gen |-> q.gen, run |-> r0] \in metrics'
        BY <3>1 DEF Publishes
      <4> QED BY <3>1, <4>1, <4>2
    <3>2. CASE ~(r = r0 /\ d = d0)
      BY <3>2 DEF OnlyPoll, Noted
    <3> QED BY <3>1, <3>2
  <2> QED BY <2>1, <2>2, <2>3, RecordKept
<1>10. TickRuns'
  <2>1. \A v \in Workers : sess'[v].run \in {0, sess[v].run, runs + 1}
    BY <1>1
  <2>2. \A t \in Ticks : sess'[t].run # 0 => sess'[t].run = sess[t].run /\ last'[t].how = "none"
    BY <1>1, WorkerTypes DEF OutcomeInv, TickRuns
  <2>3. \A t \in Ticks : last[t].run = r0 => t = w
    BY OutcomeTypes DEF OutcomeInv, TickRuns
  <2>4. \A t \in Ticks, d \in Ids : last[t].run # 0 =>
          \/ polls'[last[t].run][d].out \notin {"told", "swallowed"}
          \/ polls[last[t].run][d].out \in {"told", "swallowed"}
    <3> SUFFICES ASSUME NEW t \in Ticks, NEW d \in Ids, last[t].run # 0
                 PROVE  polls'[last[t].run][d].out \in {"told", "swallowed"}
                          => polls[last[t].run][d].out \in {"told", "swallowed"}
      OBVIOUS
    <3>1. last[t].run \in Runs
      BY OutcomeTypes
    <3> QED BY <2>3, <3>1 DEF OnlyPoll
  <2>5. \A t \in Ticks, d \in Ids : last'[t].how # "crashed" /\ last[t].run # 0 =>
           /\ last[t].how # "crashed"
           /\ polls'[last[t].run][d].out = "aborted" => polls[last[t].run][d].out = "aborted"
    BY OutcomeTypes DEF OnlyPoll, GoesOn
  <2>6. \A t \in Ticks : last'[t].how = "done" => last[t].run # 0
    BY DEF OutcomeInv, TickRuns
  <2> QED BY <2>1, <2>2, <2>4, <2>5, <2>6, OutcomeTypes, RunsKept
<1>11. RowsTell'
  <2>1. r0 <= runs
    BY DEF LedgerInv, SessionFits
  <2>2. \A d \in Ids : devices'[d].polled \in {devices[d].polled, r0}
    BY DEF Writes
  <2>3. \A d \in Ids : devices'[d].gen = 0 => devices'[d].status = devices[d].status /\ devices[d].gen = 0
    BY DEF Writes
  <2> QED BY <2>1, <2>2, <2>3 DEF OutcomeInv, RowsTell
<1>12. StatusMatchesPoll'
  <2> SUFFICES ASSUME NEW d \in Ids, devices'[d].gen # 0, devices'[d].polled # 0,
                      ~polls'[devices'[d].polled][d].raced
               PROVE  /\ polls'[devices'[d].polled][d].told # ""
                      /\ devices'[d].status = polls'[devices'[d].polled][d].told
    BY DEF StatusMatchesPoll, Live
  <2>1. CASE d = d0 /\ devices'[d0].polled = r0 /\ q.told # "" /\ (~q.raced => devices'[d0].status = q.told)
    BY <2>1
  <2>2. CASE /\ devices'[d].status = devices[d].status /\ devices'[d].polled = devices[d].polled
             /\ d = d0 => q.told = p.told
    <3> DEFINE r == devices[d].polled
    <3>1. r \in Runs /\ devices[d].gen # 0
      BY <2>2, PolledRuns DEF Writes
    <3>2. ~polls[r][d].raced => polls[r][d].told # "" /\ devices[d].status = polls[r][d].told
      BY <2>2, <3>1 DEF OutcomeInv, StatusMatchesPoll, Live
    <3>3. polls'[r][d].told = polls[r][d].told /\ (polls[r][d].raced => polls'[r][d].raced)
      BY <2>2, <3>1 DEF OnlyPoll, GoesOn
    <3> HIDE DEF r
    <3> QED BY <2>2, <3>2, <3>3 DEF r
  <2> QED BY <2>1, <2>2 DEF Writes
<1> QED BY <1>4, <1>5, <1>6, <1>8, <1>9, <1>10, <1>11, <1>12 DEF OutcomeInv

\* The same for a step that writes no row and replaces the record of one poll.
LEMMA RecordOutcome ==
  ASSUME TypeInv, LedgerInv, OutcomeInv, NEW w \in Workers, NEW n, NEW r0 \in Runs, NEW d0 \in Ids, NEW q,
         sess' = [sess EXCEPT ![w] = n], sess[w].run = r0, n.run \in {0, r0},
         UNCHANGED <<devices, created, runs, last>>,
         Records(r0, d0, q),
         q.told = polls[r0][d0].told, GoesOn(polls[r0][d0], q),
         w \in Ticks => q.out \notin {"told", "swallowed"},
         Publishes(r0, d0),
         q.out \in Pending => n.run = r0 /\ Concerns(n, d0),
         \A d \in Ids \ {d0} : Concerns(sess[w], d) /\ polls[r0][d].out \in Pending
                                 => n.run = r0 /\ Concerns(n, d),
         SessionPolls(n, polls'), CopyHasStatus(n, polls', devices)
  PROVE  OutcomeInv'
<1>1. polls'[r0][d0] = q /\ \A r \in Runs, d \in Ids : ~(r = r0 /\ d = d0) => polls'[r][d] = polls[r][d]
  BY OnePoll
<1>2. OnlyPoll(r0, d0) /\ GoesOn(polls[r0][d0], polls'[r0][d0])
  BY <1>1 DEF OnlyPoll
<1>3. Writes(r0, d0)
  BY <1>1 DEF Writes
<1>4. Holds(w, n, r0, d0)
  BY <1>1 DEF Holds
<1>5. CopyHasStatus(n, polls', devices')
  OBVIOUS
<1>6. w \in Ticks => polls'[r0][d0].out \notin {"told", "swallowed"}
  BY <1>1
<1> QED BY <1>2, <1>3, <1>4, <1>5, <1>6, PollStepOutcome

\* A step that writes no table publishes nothing.
LEMMA NothingPublished ==
  ASSUME NEW r0 \in Runs, NEW d0 \in Ids, UNCHANGED <<metrics, traffic>>,
         Noted(polls'[r0][d0]) => Noted(polls[r0][d0])
  PROVE  Publishes(r0, d0)
BY DEF Publishes

\* What is known of a worker that is busy with a run.
LEMMA BusyFacts ==
  ASSUME TypeInv, LedgerInv, OutcomeInv, NEW w \in Workers
  PROVE  /\ sess[w] \in Session /\ SessionFits(w, sess[w], runs, created)
         /\ sess[w].todo \subseteq Ids /\ sess[w].cur \notin sess[w].todo
         /\ sess[w].run # 0 => sess[w].run \in Runs
         /\ SessionPolls(sess[w], polls) /\ CopyHasStatus(sess[w], polls, devices)
         /\ sess[w].pc \notin {"idle", "next"} \/ sess[w].pend => sess[w].cur \in Ids
BY OutcomeTypes DEF LedgerInv, SessionFits, OutcomeInv, Session, TypeInv, BusyHasDevice

\* A session whose copies are its own or new ones, and that has no more polls.
LEMMA CopiesKept ==
  ASSUME TypeInv, LedgerInv, OutcomeInv, NEW w \in Workers, NEW n,
         \A e \in Ids : n.rows[e] \in {sess[w].rows[e], devices[e]},
         n.run \in {0, sess[w].run},
         \A e \in Ids : Concerns(n, e) /\ polls'[n.run][e].out \in Pending
                          => Concerns(sess[w], e) /\ polls[n.run][e].out \in Pending,
         sess[w].run # 0 => \A e \in Ids : polls[sess[w].run][e].raced => polls'[sess[w].run][e].raced
  PROVE  CopyHasStatus(n, polls', devices)
<1>1. CopyHasStatus(sess[w], polls, devices)
  BY DEF OutcomeInv
<1> QED BY <1>1 DEF CopyHasStatus

\* A row that is read again is a copy the session had, or the row as it is.
LEMMA RefreshedRows ==
  ASSUME TypeInv, NEW w \in Workers, NEW d \in Ids, NEW e \in Ids
  PROVE  Refreshed(sess[w], d).rows[e] \in {sess[w].rows[e], devices[e]}
<1>1. sess[w] \in Session
  BY OutcomeTypes
<1> QED BY <1>1 DEF Refreshed, Session

\* A session without copies shows nothing that is not so.
LEMMA NoCopies ==
  ASSUME NEW n, \A d \in Ids : n.rows[d].gen = 0, NEW ps, NEW devs
  PROVE  CopyHasStatus(n, ps, devs)
BY DEF CopyHasStatus

-----------------------------------------------------------------------------
\* The loop over the devices

\* A device number that is read is one that was given.
LEMMA ReadGen ==
  ASSUME TypeInv, LedgerInv, NEW w \in Workers, NEW d \in Ids
  PROVE  /\ Refreshed(sess[w], d) \in Session
         /\ Refreshed(sess[w], d).rows[d].gen \in Nat
         /\ Refreshed(sess[w], d).rows[d].gen <= created
<1>1. Refreshed(sess[w], d) \in Session /\ Refreshed(sess[w], d).rows[d].gen <= created
  BY OutcomeTypes, RefreshedType, RefreshedFits DEF TypeInv
<1>2. Refreshed(sess[w], d).rows[d].gen \in Gens
  BY <1>1 DEF Session, Row
<1> QED BY <1>1, <1>2, BoundsAssumption DEF Gens

\* The poll that begins takes the device's number; nothing is written.
LEMMA BeginOutcome ==
  ASSUME TypeInv, LedgerInv, OutcomeInv, NEW t \in Ticks, NEW d \in Ids, Begin(t, d)
  PROVE  OutcomeInv'
<1> USE WorkerTypes
<1> DEFINE s == Refreshed(sess[t], d)
<1>1. /\ sess[t].pc = "next" /\ d \in sess[t].todo /\ s.rows[d].gen # 0
      /\ UNCHANGED <<devices, created, metrics, traffic, runs, last>>
  BY DEF Begin, tables
<1>2. /\ s \in Session /\ s.todo = sess[t].todo /\ s.run = sess[t].run /\ s.run # 0
      /\ s.rows[d].gen <= created /\ s.rows[d].gen \in Nat /\ sess[t].cur = 0 /\ s.todo \subseteq Ids
  BY <1>1, BusyFacts, ReadGen, RefreshedType DEF TypeInv, SessionFits
<1>3. PICK r0 \in Runs : r0 = sess[t].run
  BY <1>2, BusyFacts
<1>4. PICK g : g = s.rows[d].gen
  OBVIOUS
<1>5. PICK dirty \in BOOLEAN : sess' = [sess EXCEPT ![t] =
          [s EXCEPT !.pc = "walk", !.cur = d, !.todo = @ \ {d}, !.gen = g,
                    !.pend = TRUE, !.dirty = dirty]]
  BY <1>4 DEF Begin
<1> DEFINE p == polls[r0][d]
<1>6. p \in Poll /\ p.gen = 0 /\ ~p.early /\ p.out = "queued" /\ \A e \in s.todo : polls[r0][e].out = "queued"
  BY <1>1, <1>2, <1>3, BusyFacts, OutcomeTypes DEF OutcomeInv, PollStarts, SessionPolls
<1>7. PICK q : q = [p EXCEPT !.out = "open", !.gen = g]
  OBVIOUS
<1>8. Records(r0, d, q)
  BY <1>2, <1>3, <1>4, <1>7 DEF Records, Begin, TypeInv, TypeOK
<1> HIDE DEF p
<1>9. q.out = "open" /\ q.gen = g /\ q.early = FALSE /\ q.raced = p.raced /\ q.told = p.told
  BY <1>6, <1>7 DEF Poll
<1>10. PICK n : n = [s EXCEPT !.pc = "walk", !.cur = d, !.todo = @ \ {d}, !.gen = g,
                              !.pend = TRUE, !.dirty = dirty]
  OBVIOUS
<1> HIDE DEF s
<1>11. /\ n.pc = "walk" /\ n.cur = d /\ n.todo = s.todo \ {d} /\ n.gen = g
       /\ n.pend = TRUE /\ n.run = r0 /\ n.rows = s.rows
  BY <1>2, <1>3, <1>10 DEF Session
<1>12. sess' = [sess EXCEPT ![t] = n]
  BY <1>5, <1>10
<1>13. \A e \in Ids : Concerns(n, e) <=> Concerns(sess[t], e)
  BY <1>1, <1>2, <1>11, OutcomeTypes DEF Concerns
<1>14. polls'[r0][d] = q /\ \A r \in Runs, e \in Ids : ~(r = r0 /\ e = d) => polls'[r][e] = polls[r][e]
  BY <1>8, OnePoll
<1>15. SessionPolls(n, polls')
  <2>1. \A e \in n.todo : polls'[n.run][e].out = "queued"
    BY <1>2, <1>6, <1>11, <1>14
  <2>2. polls'[n.run][n.cur] = q /\ n.rows[n.cur].gen # 0
    BY <1>1, <1>11, <1>14 DEF s
  <2> QED BY <1>9, <1>11, <2>1, <2>2 DEF SessionPolls
<1>16. CopyHasStatus(n, polls', devices)
  <2>1. \A e \in Ids : /\ polls'[r0][e].out \in Pending => polls[r0][e].out \in Pending
                       /\ polls[r0][e].raced => polls'[r0][e].raced
    BY <1>6, <1>9, <1>14 DEF Pending, p
  <2>2. /\ \A e \in Ids : n.rows[e] \in {sess[t].rows[e], devices[e]}
        /\ n.run \in {0, sess[t].run}
        /\ \A e \in Ids : Concerns(n, e) /\ polls'[n.run][e].out \in Pending
                          => Concerns(sess[t], e) /\ polls[n.run][e].out \in Pending
        /\ sess[t].run # 0 => \A e \in Ids : polls[sess[t].run][e].raced => polls'[sess[t].run][e].raced
    BY <1>3, <1>11, <1>13, <2>1, RefreshedRows DEF s
  <2> QED BY <2>2, CopiesKept
<1>17. GoesOn(polls[r0][d], q)
  BY <1>2, <1>4, <1>6, <1>9 DEF GoesOn, MayBeNoted, Noted, p
<1>18. Publishes(r0, d)
  BY <1>1, <1>9, <1>14, NothingPublished DEF Noted
<1>19. \A e \in Ids : Concerns(sess[t], e) => n.run = r0 /\ Concerns(n, e)
  BY <1>11, <1>13
<1>20. q.out \in Pending => n.run = r0 /\ Concerns(n, d)
  BY <1>11 DEF Concerns
<1> QED BY <1>1, <1>3, <1>8, <1>9, <1>11, <1>12, <1>15, <1>16, <1>17, <1>18, <1>19, <1>20, RecordOutcome DEF p

\* A device without SNMP is skipped; nothing is written.
LEMMA SkipOutcome ==
  ASSUME TypeInv, LedgerInv, OutcomeInv, NEW t \in Ticks, NEW d \in Ids, Skip(t, d)
  PROVE  OutcomeInv'
<1> USE WorkerTypes
<1> DEFINE s == Refreshed(sess[t], d)
<1>1. /\ sess[t].pc = "next" /\ d \in sess[t].todo
      /\ UNCHANGED <<devices, created, metrics, traffic, runs, last>>
  BY DEF Skip, tables
<1>2. /\ s \in Session /\ s.todo = sess[t].todo /\ s.run = sess[t].run /\ s.run # 0 /\ s.pc = "next"
      /\ sess[t].cur = 0 /\ s.cur = 0 /\ s.todo \subseteq Ids /\ ~s.pend
  BY <1>1, BusyFacts, ReadGen, RefreshedType DEF TypeInv, SessionFits
<1>3. PICK r0 \in Runs : r0 = sess[t].run
  BY <1>2, BusyFacts
<1>4. PICK n : n = [s EXCEPT !.todo = @ \ {d}, !.n = TRUE]
  OBVIOUS
<1>5. sess' = [sess EXCEPT ![t] = n]
  BY <1>4 DEF Skip
<1> DEFINE p == polls[r0][d]
<1>6. p \in Poll /\ p.gen = 0 /\ ~p.early /\ p.out = "queued" /\ \A e \in s.todo : polls[r0][e].out = "queued"
  BY <1>1, <1>2, <1>3, BusyFacts, OutcomeTypes DEF OutcomeInv, PollStarts, SessionPolls
<1>7. PICK q : q = [p EXCEPT !.out = "skipped"]
  OBVIOUS
<1>8. Records(r0, d, q)
  BY <1>2, <1>3, <1>7 DEF Records, Skip, TypeInv, TypeOK
<1> HIDE DEF p
<1>9. q.out = "skipped" /\ q.gen = 0 /\ q.early = FALSE /\ q.raced = p.raced /\ q.told = p.told
  BY <1>6, <1>7 DEF Poll
<1> HIDE DEF s
<1>10. n.pc = "next" /\ n.cur = 0 /\ n.todo = s.todo \ {d} /\ ~n.pend /\ n.run = r0 /\ n.rows = s.rows
  BY <1>2, <1>3, <1>4 DEF Session
<1>11. \A e \in Ids : Concerns(n, e) <=> Concerns(sess[t], e) /\ e # d
  BY <1>1, <1>2, <1>10, OutcomeTypes DEF Concerns
<1>12. polls'[r0][d] = q /\ \A r \in Runs, e \in Ids : ~(r = r0 /\ e = d) => polls'[r][e] = polls[r][e]
  BY <1>8, OnePoll
<1>13. SessionPolls(n, polls')
  BY <1>2, <1>6, <1>10, <1>12 DEF SessionPolls
<1>14. CopyHasStatus(n, polls', devices)
  <2>1. \A e \in Ids : /\ polls'[r0][e].out \in Pending => polls[r0][e].out \in Pending
                       /\ polls[r0][e].raced => polls'[r0][e].raced
    BY <1>6, <1>9, <1>12 DEF Pending, p
  <2>2. /\ \A e \in Ids : n.rows[e] \in {sess[t].rows[e], devices[e]}
        /\ n.run \in {0, sess[t].run}
        /\ \A e \in Ids : Concerns(n, e) /\ polls'[n.run][e].out \in Pending
                          => Concerns(sess[t], e) /\ polls[n.run][e].out \in Pending
        /\ sess[t].run # 0 => \A e \in Ids : polls[sess[t].run][e].raced => polls'[sess[t].run][e].raced
    BY <1>3, <1>10, <1>11, <2>1, RefreshedRows DEF s
  <2> QED BY <2>2, CopiesKept
<1>15. GoesOn(polls[r0][d], q)
  <2>1. 0 <= created
    BY OutcomeTypes DEF TypeInv, TypeOK, Gens
  <2> QED BY <1>6, <1>9, <2>1 DEF GoesOn, MayBeNoted, Noted, p
<1>16. Publishes(r0, d)
  BY <1>1, <1>9, <1>12, NothingPublished DEF Noted
<1>17. \A e \in Ids \ {d} : Concerns(sess[t], e) => n.run = r0 /\ Concerns(n, e)
  BY <1>10, <1>11
<1>18. q.out \notin Pending
  BY <1>9 DEF Pending
<1> QED BY <1>1, <1>3, <1>5, <1>8, <1>9, <1>10, <1>13, <1>14, <1>15, <1>16, <1>17, <1>18, RecordOutcome DEF p

-----------------------------------------------------------------------------
\* The commits that write a status

\* What a flush writes into the status and time of a row.
LEMMA FlushedStatus ==
  ASSUME NEW row \in Row, NEW s, NEW status
  PROVE  /\ Flushed(row, s, status).polled = s.run
         /\ Flushed(row, s, status).status = IF s.rows[s.cur].status = status THEN row.status ELSE status
BY DEF Flushed, Row

\* What is told of a poll that goes on or ends is what the commit wrote.
LEMMA FlushOutcome ==
  ASSUME TypeInv, LedgerInv, OutcomeInv, NEW w \in Workers, NEW n, NEW r0 \in Runs, NEW d0 \in Ids,
         NEW out \in {"open", "success", "marked"}, NEW status \in {"success", "failed"},
         sess' = [sess EXCEPT ![w] = n], UNCHANGED <<created, runs, last>>,
         sess[w].run = r0, sess[w].cur = d0, n.run \in {0, r0}, devices[d0].gen # 0,
         polls[r0][d0].out = "open", sess[w].rows[d0].gen # 0,
         devices' = [devices EXCEPT ![d0] = Flushed(@, sess[w], status)],
         polls' = Publish(r0, d0, out, status),
         Publishes(r0, d0),
         out = "open" => n.run = r0 /\ Concerns(n, d0),
         \A d \in sess[w].todo : n.run = r0 /\ Concerns(n, d),
         SessionPolls(n, polls'), \A d \in Ids : n.rows[d].gen = 0
  PROVE  OutcomeInv'
<1> DEFINE s == sess[w]
<1>1. /\ devices'[d0] = Flushed(devices[d0], s, status) /\ devices[d0] \in Row
      /\ \A d \in Ids : d # d0 => devices'[d] = devices[d]
  BY DEF TypeInv, TypeOK
<1>2. /\ devices'[d0].gen = devices[d0].gen /\ devices'[d0].polled = r0
      /\ devices'[d0].status = IF s.rows[d0].status = status THEN devices[d0].status ELSE status
  BY <1>1, FlushedKeeps, FlushedStatus
<1>3. \A r \in Runs, d \in Ids :
        /\ polls'[r][d].gen = polls[r][d].gen /\ polls'[r][d].early = polls[r][d].early
        /\ polls[r][d].raced => polls'[r][d].raced
        /\ d = d0 /\ r # r0 /\ polls[r][d].out \in Pending => polls'[r][d].raced
        /\ r = r0 => polls'[r][d].raced = polls[r][d].raced
        /\ polls'[r][d].out = IF r = r0 /\ d = d0 THEN out ELSE polls[r][d].out
        /\ polls'[r][d].told = IF r = r0 /\ d = d0 THEN status ELSE polls[r][d].told
  BY PublishFacts
<1>4. OnlyPoll(r0, d0)
  BY <1>3 DEF OnlyPoll
<1>5. GoesOn(polls[r0][d0], polls'[r0][d0])
  <2>1. polls[r0][d0].gen <= created
    BY DEF OutcomeInv, PollStarts
  <2> QED BY <1>3, <2>1 DEF GoesOn, MayBeNoted, Noted
<1>6. Writes(r0, d0)
  <2>1. ~polls[r0][d0].raced => s.rows[d0].status = devices[d0].status
    <3>1. CopyHasStatus(s, polls, devices) /\ Concerns(s, d0) /\ s.run = r0 /\ r0 # 0
      BY OutcomeTypes DEF OutcomeInv, Concerns
    <3> HIDE DEF s
    <3> QED BY <3>1 DEF CopyHasStatus, Pending, s
  <2>2. polls'[r0][d0].told = status /\ polls'[r0][d0].raced = polls[r0][d0].raced
    BY <1>3
  <2>3. ~polls'[r0][d0].raced => devices'[d0].status = polls'[r0][d0].told
    BY <1>2, <2>1, <2>2
  <2>4. \A r \in Runs : r # r0 /\ polls[r][d0].out \in Pending => polls'[r][d0].raced
    BY <1>3
  <2>5. \A d \in Ids : devices'[d].gen = devices[d].gen
    BY <1>1, <1>2
  <2> QED BY <1>1, <1>2, <2>2, <2>3, <2>4, <2>5 DEF Writes
<1>7. Holds(w, n, r0, d0)
  BY <1>3 DEF Holds, Concerns, Pending
<1>8. CopyHasStatus(n, polls', devices')
  BY NoCopies
<1>9. polls'[r0][d0].out \notin {"told", "swallowed"}
  BY <1>3
<1> QED BY <1>4, <1>5, <1>6, <1>7, <1>8, <1>9, PollStepOutcome

\* The session a worker is left with when a poll has ended.
LEMMA AfterPoll ==
  ASSUME TypeInv, LedgerInv, NEW w \in Workers, NEW n,
         \E b \in BOOLEAN : n \in {Finished(w), [Finished(w) EXCEPT !.n = b]}
  PROVE  \/ /\ n.pc = "next" /\ n.run = sess[w].run /\ n.todo = sess[w].todo /\ ~n.pend
            /\ n.rows = NoRows
         \/ /\ n.run = 0 /\ sess[w].todo = {} /\ n.rows = NoRows
<1> DEFINE more == w \in Ticks \/ (sess[w].test /\ sess[w].todo # {})
<1>1. PICK b \in BOOLEAN : n \in {Finished(w), [Finished(w) EXCEPT !.n = b]}
  OBVIOUS
<1>2. CASE more
  <2>1. TypeOK /\ (w \in Ticks \/ (sess[w].test /\ sess[w].todo # {}))
    BY <1>2 DEF TypeInv
  <2>2. \A f \in {Finished(w), [Finished(w) EXCEPT !.n = b]} :
          /\ f.pc = "next" /\ f.run = sess[w].run /\ f.todo = sess[w].todo
          /\ f.cur = 0 /\ f.open = FALSE /\ f.pend = FALSE /\ f.dirty = FALSE
          /\ f.test = sess[w].test /\ f.rows = NoRows /\ f.gen = 0
    <3> HIDE DEF more
    <3> QED BY <2>1, FinishedFields
  <2> QED BY <1>1, <2>2
<1>3. CASE ~more
  <2>1. sess[w].todo = {}
    BY <1>3 DEF LedgerInv, SessionFits
  <2>2. Finished(w) = Idle
    BY <1>3 DEF Finished
  <2>3. n.run = 0 /\ n.rows = NoRows
    BY <1>1, <2>2 DEF Idle
  <2> QED BY <2>1, <2>3
<1> QED BY <1>2, <1>3

\* The session's own flush and sample, and what is told of the poll it ends.
EndsPoll(w, n, status, out) ==
  /\ sess[w].pc \in {"commit", "except"} /\ sess[w].cur \in Live
  /\ \/ status = "success" /\ out = "success" /\ traffic' \in {traffic, WithSample(traffic, sess[w])}
     \/ status = "failed" /\ out = "marked" /\ traffic' = traffic
  /\ devices' = [devices EXCEPT ![sess[w].cur] = Flushed(@, sess[w], status)]
  /\ metrics' = IF sess[w].pend THEN WithSample(metrics, sess[w]) ELSE metrics
  /\ \E b \in BOOLEAN : n \in {Finished(w), [Finished(w) EXCEPT !.n = b]}
  /\ sess' = [sess EXCEPT ![w] = n]
  /\ polls' = Publish(sess[w].run, sess[w].cur, out, status)
  /\ UNCHANGED <<created, runs, last>>

\* A commit that ends a poll puts its sample on record, if it is not there.
LEMMA EndsPollOutcome ==
  ASSUME TypeInv, LedgerInv, OutcomeInv, NEW w \in Workers, NEW n, NEW status, NEW out,
         EndsPoll(w, n, status, out)
  PROVE  OutcomeInv'
<1> DEFINE s == sess[w]
<1>1. /\ s.pc \in {"commit", "except"} /\ SessionFits(w, s, runs, created) /\ s.run # 0 /\ s.run \in Runs
      /\ s.cur \in Ids /\ devices[s.cur].gen # 0 /\ SessionPolls(s, polls) /\ s.todo \subseteq Ids /\ s.cur \notin s.todo
  BY BusyFacts DEF EndsPoll, SessionFits, Live
<1>2. PICK r0 \in Runs : r0 = s.run
  BY <1>1
<1>3. PICK d0 \in Ids : d0 = s.cur
  BY <1>1
<1>4. /\ polls[r0][d0].out = "open" /\ polls[r0][d0].gen = s.gen /\ s.rows[d0].gen # 0 /\ s.gen # 0
      /\ polls[r0][d0].early \/ s.pend
  BY <1>1, <1>2, <1>3 DEF SessionPolls, SessionFits
<1>5. \A d \in s.todo : polls[r0][d].out = "queued"
  BY <1>1, <1>2 DEF SessionPolls
<1>6. /\ out \in {"success", "marked"} /\ status \in {"success", "failed"}
      /\ sess' = [sess EXCEPT ![w] = n] /\ UNCHANGED <<created, runs, last>>
      /\ devices' = [devices EXCEPT ![d0] = Flushed(@, sess[w], status)]
      /\ polls' = Publish(r0, d0, out, status)
      /\ metrics' = IF s.pend THEN WithSample(metrics, s) ELSE metrics
      /\ traffic' = traffic \/ (out = "success" /\ traffic' = WithSample(traffic, s))
  BY <1>2, <1>3 DEF EndsPoll
<1>7. \A r \in Runs, d \in Ids :
        /\ polls'[r][d].gen = polls[r][d].gen /\ polls'[r][d].early = polls[r][d].early
        /\ polls'[r][d].out = IF r = r0 /\ d = d0 THEN out ELSE polls[r][d].out
  BY <1>6, PublishFacts
<1>8. Publishes(r0, d0)
  <2> DEFINE new == [dev |-> d0, gen |-> s.gen, run |-> r0]
  <2>1. WithSample(metrics, s) = metrics \cup {new} /\ WithSample(traffic, s) = traffic \cup {new}
    BY <1>2, <1>3 DEF WithSample
  <2>2. new.run = r0 /\ new.dev = d0 /\ new.gen = s.gen
    OBVIOUS
  <2> HIDE DEF new
  <2>3. /\ metrics' = IF s.pend THEN metrics \cup {new} ELSE metrics
        /\ traffic' = traffic \/ (out = "success" /\ traffic' = traffic \cup {new})
    BY <1>6, <2>1
  <2>4. polls'[r0][d0].gen = s.gen /\ polls'[r0][d0].out = out /\ MayBeNoted(polls'[r0][d0])
    BY <1>4, <1>6, <1>7 DEF MayBeNoted, Noted
  <2>5. /\ metrics \subseteq metrics' /\ traffic \subseteq traffic'
        /\ \A m \in metrics' \ metrics : m = new
        /\ \A m \in traffic' \ traffic : m = new /\ out = "success"
    BY <2>3
  <2>6. Noted(polls[r0][d0]) \/ new \in metrics'
    BY <1>4, <2>3 DEF Noted
  <2>7. new = [dev |-> d0, gen |-> polls'[r0][d0].gen, run |-> r0]
    BY <2>4 DEF new
  <2> QED BY <1>4, <2>2, <2>4, <2>5, <2>6, <2>7 DEF Publishes
<1>9. \/ n.pc = "next" /\ n.run = r0 /\ n.todo = s.todo /\ ~n.pend /\ n.rows = NoRows
      \/ n.run = 0 /\ s.todo = {} /\ n.rows = NoRows
  BY <1>2, AfterPoll DEF EndsPoll
<1>10. n.run \in {0, r0} /\ (\A d \in s.todo : n.run = r0 /\ Concerns(n, d)) /\ \A d \in Ids : n.rows[d].gen = 0
  BY <1>9, BlankGens DEF Concerns
<1>11. SessionPolls(n, polls')
  BY <1>1, <1>3, <1>5, <1>7, <1>9 DEF SessionPolls
<1>12. /\ sess[w].run = r0 /\ sess[w].cur = d0 /\ sess[w].rows[d0].gen # 0 /\ devices[d0].gen # 0
       /\ \A d \in sess[w].todo : n.run = r0 /\ Concerns(n, d)
  BY <1>1, <1>2, <1>3, <1>4, <1>10
<1>13. out \in {"open", "success", "marked"} /\ (out = "open" => n.run = r0 /\ Concerns(n, d0))
  BY <1>6
<1> HIDE DEF s
<1>14. /\ sess' = [sess EXCEPT ![w] = n] /\ UNCHANGED <<created, runs, last>>
       /\ status \in {"success", "failed"} /\ polls[r0][d0].out = "open"
       /\ devices' = [devices EXCEPT ![d0] = Flushed(@, sess[w], status)]
       /\ polls' = Publish(r0, d0, out, status)
  BY <1>4, <1>6
<1>15. n.run \in {0, r0} /\ \A d \in Ids : n.rows[d].gen = 0
  BY <1>10
<1> QED BY <1>8, <1>11, <1>12, <1>13, <1>14, <1>15, FlushOutcome

\* A tick that ran to its end has settled its polls.
LEMMA TickEndOutcome ==
  ASSUME TypeInv, LedgerInv, OutcomeInv, NEW t \in Ticks, TickEnd(t)
  PROVE  OutcomeInv'
<1> USE WorkerTypes
<1>1. /\ sess' = [sess EXCEPT ![t] = Idle] /\ sess[t].pc = "next" /\ sess[t].todo = {}
      /\ last' = [last EXCEPT ![t].how = "done"]
      /\ UNCHANGED <<devices, created, metrics, traffic, runs, polls>>
  BY DEF TickEnd, tables
<1>2. sess'[t] = Idle /\ (\A v \in Workers : v # t => sess'[v] = sess[v]) /\ Idle.run = 0
  BY <1>1 DEF TypeInv, TypeOK, Idle
<1>3. sess[t].run # 0 /\ \A d \in Ids : ~Concerns(sess[t], d)
  BY <1>1, OutcomeTypes DEF LedgerInv, SessionFits, Concerns
<1>4. \A v \in Workers : SessionPolls(sess'[v], polls') /\ CopyHasStatus(sess'[v], polls', devices')
  BY <1>1, <1>2, IdleOutcome DEF OutcomeInv
<1>5. PendingIsDue'
  <2> SUFFICES ASSUME NEW r \in Runs, NEW e \in Ids, polls[r][e].out \in Pending
               PROVE  <<r, e>> \in DuePolls'
    BY <1>1 DEF PendingIsDue
  <2>1. PICK v \in Workers : sess[v].run = r /\ Concerns(sess[v], e)
    BY DEF OutcomeInv, PendingIsDue, DuePolls
  <2>2. sess'[v].run = r /\ Concerns(sess'[v], e)
    BY <1>2, <1>3, <2>1
  <2> QED BY <2>2 DEF DuePolls, Concerns
<1>6. PollStarts' /\ SampleHasPoll' /\ PollHasSample' /\ RowsTell' /\ StatusMatchesPoll'
  BY <1>1 DEF OutcomeInv, PollStarts, SampleHasPoll, PollHasSample, RowsTell, StatusMatchesPoll, Live
<1>7. TickRuns'
  <2>1. \A u \in Ticks : last[u] \in [how : {"none", "done", "crashed"}, run : 0 .. MaxRuns]
    BY DEF TypeInv, TypeOK
  <2>2. \A u \in Ticks : last'[u].run = last[u].run /\ last'[u].how = IF u = t THEN "done" ELSE last[u].how
    <3>1. last \in [Ticks -> [how : {"none", "done", "crashed"}, run : 0 .. MaxRuns]]
      BY DEF TypeInv, TypeOK
    <3> QED BY <1>1, <2>1, <3>1
  <2>3. last[t].how = "none" /\ last[t].run = sess[t].run
    BY <1>3 DEF OutcomeInv, TickRuns
  <2>4. \A v \in Workers : sess'[v].run \in {0, sess[v].run, runs + 1}
    BY <1>2
  <2>5. \A u \in Ticks : sess'[u].run # 0 => sess'[u].run = sess[u].run /\ last'[u].how = "none"
    BY <1>2, <2>2 DEF OutcomeInv, TickRuns
  <2>6. \A u \in Ticks : last'[u].how = "done" => last[u].run # 0
    BY <1>3, <2>2, <2>3 DEF OutcomeInv, TickRuns
  <2>7. \A u \in Ticks : last'[u].how # "crashed" => last[u].how # "crashed"
    BY <2>2, <2>3
  <2> QED BY <1>1, <2>2, <2>4, <2>5, <2>6, <2>7, OutcomeTypes, RunsKept
<1> QED BY <1>4, <1>5, <1>6, <1>7 DEF OutcomeInv

\* The polls of a run that starts are queued or open, and nothing else changes.
LEMMA AnnounceOutcome ==
  ASSUME TypeInv, LedgerInv, OutcomeInv, NEW w \in Workers, NEW n, sess' = [sess EXCEPT ![w] = n],
         sess[w].run = 0, n.run = runs + 1, runs + 1 \in Runs, runs' = runs + 1,
         UNCHANGED <<devices, created, metrics, traffic>>, TickRuns',
         \A r \in Runs, d \in Ids : r # runs + 1 => polls'[r][d] = polls[r][d],
         \A d \in Ids :
           /\ polls'[runs + 1][d].out \in {"none", "queued", "open"}
           /\ ~polls'[runs + 1][d].early /\ polls'[runs + 1][d].gen \in 0 .. created
           /\ polls'[runs + 1][d].out # "open" => polls'[runs + 1][d].gen = 0
           /\ polls'[runs + 1][d].out \in Pending => Concerns(n, d),
         SessionPolls(n, polls'), CopyHasStatus(n, polls', devices')
  PROVE  OutcomeInv'
<1>1. sess'[w] = n /\ \A v \in Workers : v # w => sess'[v] = sess[v]
  BY DEF TypeInv, TypeOK
<1>2. runs \in Nat /\ created \in Nat /\ runs' \in Nat /\ runs <= runs'
  BY OutcomeTypes
<1>3. \A d \in Ids : polls[runs + 1][d].out = "none" /\ ~polls[runs + 1][d].early
  BY <1>2 DEF OutcomeInv, PollStarts
<1>4. OtherRunsKeep(runs + 1) /\ ChangeIsSeen(runs + 1) /\ Onward
  BY <1>2 DEF OtherRunsKeep, ChangeIsSeen, Onward
<1>5. \A v \in Workers : SessionPolls(sess'[v], polls') /\ CopyHasStatus(sess'[v], polls', devices')
  <2>1. ASSUME NEW v \in Workers, v # w
        PROVE  SessionPolls(sess[v], polls') /\ CopyHasStatus(sess[v], polls', devices')
    <3>1. sess[v].run # runs + 1
      <4>1. sess[v].run <= runs /\ sess[v].run \in Nat
        BY OutcomeTypes DEF LedgerInv, SessionFits
      <4> QED BY <1>2, <4>1
    <3> QED BY <1>4, <3>1, SessionKept
  <2> QED BY <1>1, <2>1
<1>6. PendingIsDue'
  <2> SUFFICES ASSUME NEW r \in Runs, NEW d \in Ids, polls'[r][d].out \in Pending
               PROVE  <<r, d>> \in DuePolls'
    BY DEF PendingIsDue
  <2>1. CASE r = runs + 1
    <3>1. sess'[w].run = r /\ Concerns(sess'[w], d)
      BY <1>1, <2>1
    <3> QED BY <3>1 DEF DuePolls, Concerns
  <2>2. CASE r # runs + 1
    <3>0. <<r, d>> \in DuePolls
      BY <2>2 DEF OutcomeInv, PendingIsDue
    <3>1. PICK v \in Workers : sess[v].run = r /\ Concerns(sess[v], d)
      BY <3>0 DEF DuePolls
    <3>2. sess'[v] = sess[v]
      BY <1>1, <3>1, OutcomeTypes
    <3>3. sess'[v].run = r /\ Concerns(sess'[v], d)
      BY <3>1, <3>2
    <3> QED BY <3>3 DEF DuePolls, Concerns
  <2> QED BY <2>1, <2>2
<1>7. PollStarts'
  <2>1. \A r \in Runs, d \in Ids :
           \/ /\ polls'[r][d].out = polls[r][d].out
              /\ polls'[r][d].gen = polls[r][d].gen
              /\ polls'[r][d].early = polls[r][d].early
           \/ /\ r <= runs'
              /\ polls'[r][d].gen <= created'
              /\ polls'[r][d].out \in {"none", "queued"} => polls'[r][d].gen = 0 /\ ~polls'[r][d].early
    BY <1>2
  <2> QED BY <1>2, <2>1, StartsKept
<1>8. \A d \in Ids : ~MayBeNoted(polls[runs + 1][d]) /\ ~Noted(polls'[runs + 1][d])
  BY <1>3 DEF MayBeNoted, Noted
<1>9. SampleHasPoll' /\ PollHasSample'
  <2>1. \A r \in Runs, d \in Ids :
           /\ polls'[r][d].gen = polls[r][d].gen \/ ~MayBeNoted(polls[r][d])
           /\ MayBeNoted(polls[r][d]) => MayBeNoted(polls'[r][d])
           /\ polls[r][d].out = "success" => polls'[r][d].out = "success"
           /\ Noted(polls'[r][d]) => polls'[r][d].gen = polls[r][d].gen /\ Noted(polls[r][d])
    BY <1>3, <1>8
  <2>2. SampleHasPoll'
    BY <2>1, SamplesKept
  <2>3. PollHasSample'
    BY <2>1, RecordKept
  <2> QED BY <2>2, <2>3
<1>10. RowsTell' /\ StatusMatchesPoll'
  BY <1>2, <1>4, StatusKept
<1> QED BY <1>5, <1>6, <1>7, <1>9, <1>10 DEF OutcomeInv

\* The polls of a tick that starts.
LEMMA TickStartOutcome ==
  ASSUME TypeInv, LedgerInv, OutcomeInv, NEW t \in Ticks, TickStart(t)
  PROVE  OutcomeInv'
<1> USE WorkerTypes
<1> DEFINE chosen == {d \in Live : devices[d].mon /\ devices[d].snmp}
           rows == [d \in Ids |-> IF IsMySQL \/ d \in chosen THEN devices[d] ELSE Blank]
           snap == IF IsMySQL THEN ports ELSE {}
           n == [Idle EXCEPT !.pc = "next", !.run = runs + 1, !.todo = chosen, !.open = IsMySQL,
                             !.rows = rows, !.snap = snap]
           ps == [d \in Ids |-> IF d \in chosen THEN [NoPoll EXCEPT !.out = "queued"] ELSE NoPoll]
<1>1. /\ sess' = [sess EXCEPT ![t] = n] /\ sess[t].pc = "idle" /\ runs' = runs + 1 /\ runs < MaxRuns
      /\ polls' = [polls EXCEPT ![runs + 1] = ps]
      /\ last' = [last EXCEPT ![t] = [how |-> "none", run |-> runs + 1]]
      /\ UNCHANGED <<created, devices, metrics, traffic>>
  BY DEF TickStart, tables
<1>2. runs \in Nat /\ created \in Nat /\ runs + 1 \in Runs
  <2>1. runs \in Nat /\ runs + 1 \in 1 .. MaxRuns
    BY <1>1, OutcomeTypes
  <2> QED BY <2>1, OutcomeTypes DEF Runs
<1>3. chosen \subseteq Ids
  BY DEF Live
<1>4. \A d \in Ids : /\ ps[d].out = IF d \in chosen THEN "queued" ELSE "none"
                     /\ ps[d].gen = 0 /\ ~ps[d].early
  BY DEF NoPoll
<1>5. n.pc = "next" /\ n.run = runs + 1 /\ n.todo = chosen /\ n.cur = 0 /\ n.rows = rows /\ ~n.pend
  <2> HIDE DEF chosen, rows, snap, ps
  <2> QED BY DEF Idle
<1>6. \A d \in Ids : d \in chosen => rows[d] = devices[d]
  OBVIOUS
<1> HIDE DEF chosen, rows, snap, n, ps
<1>7. sess[t].run = 0
  BY <1>1 DEF LedgerInv, SessionFits
<1>8. polls'[runs + 1] = ps /\ \A r \in Runs, d \in Ids : r # runs + 1 => polls'[r][d] = polls[r][d]
  BY <1>1, <1>2 DEF TypeInv, TypeOK
<1>9. \A d \in Ids : Concerns(n, d) <=> d \in chosen
  BY <1>5, OutcomeTypes DEF Concerns
<1>10. SessionPolls(n, polls') /\ CopyHasStatus(n, polls', devices')
  <2>1. SessionPolls(n, polls')
    BY <1>3, <1>4, <1>5, <1>8 DEF SessionPolls
  <2>2. \A d \in Ids : d \in chosen => n.rows[d] = devices'[d]
    BY <1>1, <1>5, <1>6
  <2> QED BY <1>9, <2>1, <2>2 DEF CopyHasStatus
<1>11. TickRuns'
  <2>1. sess'[t] = n /\ \A v \in Workers : v # t => sess'[v] = sess[v]
    BY <1>1 DEF TypeInv, TypeOK
  <2>2. last'[t] = [how |-> "none", run |-> runs + 1] /\ \A u \in Ticks : u # t => last'[u] = last[u]
    BY <1>1 DEF TypeInv, TypeOK
  <2>3. last'[t].how = "none" /\ last'[t].run = runs + 1
    BY <2>2
  <2>4. \A v \in Workers : sess[v].run \in Nat /\ sess[v].run <= runs
    BY OutcomeTypes DEF LedgerInv, SessionFits
  <2> SUFFICES ASSUME NEW u \in Ticks
      PROVE  /\ last'[u].run <= runs'
             /\ sess'[u].run # 0 => last'[u].how = "none" /\ last'[u].run = sess'[u].run
             /\ last'[u].run # 0 => \A v \in Workers : sess'[v].run = last'[u].run => v = u
             /\ last'[u].how = "done" => last'[u].run # 0
             /\ last'[u].run # 0 => \A d \in Ids : polls'[last'[u].run][d].out \notin {"told", "swallowed"}
             /\ last'[u].how # "crashed" /\ last'[u].run # 0 =>
                  \A d \in Ids : polls'[last'[u].run][d].out # "aborted"
    BY DEF TickRuns
  <2>5. CASE u = t
    <3>1. \A v \in Workers : sess'[v].run = runs + 1 => v = t
      BY <1>2, <2>1, <2>4
    <3>2. \A d \in Ids : polls'[runs + 1][d].out \notin {"aborted", "told", "swallowed"}
      BY <1>4, <1>8
    <3> QED BY <1>1, <1>2, <1>5, <2>1, <2>3, <2>5, <3>1, <3>2
  <2>6. CASE u # t
    <3>1. /\ last[u].run <= runs
          /\ sess[u].run # 0 => last[u].how = "none" /\ last[u].run = sess[u].run
          /\ last[u].run # 0 => \A v \in Workers : sess[v].run = last[u].run => v = u
          /\ last[u].how = "done" => last[u].run # 0
          /\ last[u].run # 0 => \A d \in Ids : polls[last[u].run][d].out \notin {"told", "swallowed"}
          /\ last[u].how # "crashed" /\ last[u].run # 0 =>
               \A d \in Ids : polls[last[u].run][d].out # "aborted"
      BY DEF OutcomeInv, TickRuns
    <3>2. last[u].run \in Nat /\ (last[u].run # 0 => last[u].run \in Runs) /\ last'[u] = last[u]
      BY <2>2, <2>6, OutcomeTypes
    <3>3. last[u].run <= runs' /\ last[u].run # runs + 1
      BY <1>1, <1>2, <3>1, <3>2
    <3>4. last[u].run # 0 => \A v \in Workers : sess'[v].run = last[u].run => v = u
      BY <1>5, <2>1, <3>1, <3>3
    <3>6. last[u].run # 0 => \A d \in Ids : polls'[last[u].run][d].out \notin {"told", "swallowed"}
      BY <1>8, <3>1, <3>2, <3>3
    <3>5. last[u].how # "crashed" /\ last[u].run # 0 =>
            \A d \in Ids : polls'[last[u].run][d].out # "aborted"
      BY <1>8, <3>1, <3>2, <3>3
    <3> QED BY <2>1, <2>6, <3>1, <3>2, <3>3, <3>4, <3>5, <3>6
  <2> QED BY <2>5, <2>6
<1>12. \A d \in Ids :
           /\ polls'[runs + 1][d].out \in {"none", "queued", "open"}
           /\ ~polls'[runs + 1][d].early /\ polls'[runs + 1][d].gen \in 0 .. created
           /\ polls'[runs + 1][d].out # "open" => polls'[runs + 1][d].gen = 0
           /\ polls'[runs + 1][d].out \in Pending => Concerns(n, d)
  BY <1>2, <1>4, <1>8, <1>9 DEF Pending
<1> QED BY <1>1, <1>2, <1>5, <1>7, <1>8, <1>10, <1>11, <1>12, AnnounceOutcome

\* The steps of the loop over the devices.
LEMMA TickStepOutcome ==
  ASSUME TypeInv, LedgerInv, OutcomeInv, NEW t \in Ticks, TickStep(t)
  PROVE  OutcomeInv'
<1> USE WorkerTypes
<1>1. CASE \E d \in Ids : Begin(t, d) \/ Skip(t, d)
  BY <1>1, BeginOutcome, SkipOutcome
<1>2. ASSUME NEW d \in Ids, BeginGone(t, d) PROVE OutcomeInv'
  BY <1>2, AbortOutcome DEF BeginGone, tables
<1>3. CASE Except(t)
  <2>1. sess[t].pc = "except" /\ sess[t].cur \in Live /\ UNCHANGED <<created, traffic, runs, last>>
    BY <1>3 DEF Except
  <2>2. EndsPoll(t, Finished(t), "failed", "marked")
    BY <1>3, <2>1 DEF Except, EndsPoll
  <2> QED BY <2>2, EndsPollOutcome
<1>4. CASE ExceptFails(t)
  BY <1>4, FailedCommitOutcome DEF ExceptFails
<1>5. CASE TickEnd(t)
  BY <1>5, TickEndOutcome
<1>6. CASE PruneFails(t)
  BY <1>6, FailedCommitOutcome DEF PruneFails
<1> QED BY <1>1, <1>2, <1>3, <1>4, <1>5, <1>6 DEF TickStep

-----------------------------------------------------------------------------
\* Exceptions, and devices a test leaves without a commit

\* The session and the poll of a device that is left without a commit.
Leaves(w, x, out) ==
  /\ sess' = [sess EXCEPT ![w] = Left(x)]
  /\ polls' = [polls EXCEPT ![sess[w].run][sess[w].cur].out = out]

\* A test that leaves a device takes the next one with the copies it has; what it
\* says of the poll is no success, and if a sample is pending, that it was swallowed.
LEMMA LeaveOutcome ==
  ASSUME TypeInv, LedgerInv, OutcomeInv, NEW w \in Workers, NEW x \in Session, NEW out,
         w \notin Ticks, sess[w].pc \notin {"idle", "next"}, sess[w].run # 0,
         x.run = sess[w].run, x.cur = sess[w].cur, x.todo = sess[w].todo, x.pend = sess[w].pend,
         x.gen = sess[w].gen, \A d \in Ids : x.rows[d] \in {sess[w].rows[d], devices[d]},
         out \in {"skipped", "told", "swallowed"}, out # "swallowed" => ~sess[w].pend,
         Leaves(w, x, out), UNCHANGED <<devices, created, metrics, traffic, runs, last>>
  PROVE  OutcomeInv'
<1> DEFINE s == sess[w]
<1>1. /\ s.run \in Runs /\ s.cur \in Ids /\ s.cur \notin s.todo /\ s.todo \subseteq Ids
      /\ SessionPolls(s, polls)
  BY BusyFacts
<1>2. PICK r0 \in Runs : r0 = s.run
  BY <1>1
<1>3. PICK d0 \in Ids : d0 = s.cur
  BY <1>1
<1> DEFINE p == polls[r0][d0]
<1>4. /\ p \in Poll /\ p.out = "open" /\ (s.pend => p.gen = s.gen) /\ p.gen <= created
      /\ \A d \in s.todo : polls[r0][d].out = "queued"
  BY <1>1, <1>2, <1>3, OutcomeTypes DEF OutcomeInv, SessionPolls, PollStarts
<1>5. PICK q : q = [p EXCEPT !.out = out]
  OBVIOUS
<1>6. Records(r0, d0, q)
  BY <1>2, <1>3, <1>5 DEF Records, Leaves, TypeInv, TypeOK
<1> HIDE DEF p
<1>7. q.out = out /\ q.gen = p.gen /\ q.early = p.early /\ q.raced = p.raced /\ q.told = p.told
  BY <1>4, <1>5 DEF Poll
<1>8. PICK n : n = Left(x)
  OBVIOUS
<1>9. \/ n.run = 0 /\ x.todo = {} /\ n = Idle
      \/ /\ n.pc = "next" /\ n.run = x.run /\ n.todo = x.todo /\ n.pend = x.pend /\ n.rows = x.rows
         /\ x.pend => n.cur = x.cur /\ n.gen = x.gen
         /\ ~x.pend => n.cur = 0
  <2>1. CASE x.todo = {}
    BY <1>8, <2>1, LeftType, IdleOutcome
  <2>2. CASE x.todo # {}
    BY <1>8, <2>2, LeftType
  <2> QED BY <2>1, <2>2
<1>10. polls'[r0][d0] = q /\ \A r \in Runs, e \in Ids : ~(r = r0 /\ e = d0) => polls'[r][e] = polls[r][e]
  BY <1>6, OnePoll
<1>11. \A d \in Ids \ {d0} : Concerns(s, d) => n.run = r0 /\ Concerns(n, d)
  BY <1>2, <1>3, <1>9 DEF Concerns
<1>12. SessionPolls(n, polls')
  <2>1. CASE n = Idle
    BY <2>1, IdleOutcome
  <2>2. CASE /\ n.pc = "next" /\ n.run = x.run /\ n.todo = x.todo /\ n.pend = x.pend
             /\ x.pend => n.cur = x.cur /\ n.gen = x.gen
    <3>1. \A d \in n.todo : polls'[n.run][d].out = "queued"
      BY <1>1, <1>2, <1>3, <1>4, <1>10, <2>2
    <3>2. n.pend => polls'[n.run][n.cur].out = "swallowed" /\ polls'[n.run][n.cur].gen = n.gen
      <4>1. n.pend => q.out = "swallowed" /\ q.gen = s.gen
        BY <1>4, <1>7, <2>2
      <4>2. n.pend => polls'[n.run][n.cur] = q /\ n.gen = s.gen
        BY <1>2, <1>3, <1>10, <2>2
      <4> QED BY <4>1, <4>2
    <3> QED BY <2>2, <3>1, <3>2 DEF SessionPolls
  <2> QED BY <1>9, <2>1, <2>2
<1>13. CopyHasStatus(n, polls', devices)
  <2>1. CASE n = Idle
    BY <2>1, IdleOutcome
  <2>2. CASE /\ n.pc = "next" /\ n.run = x.run /\ n.todo = x.todo /\ n.rows = x.rows
             /\ x.pend => n.cur = x.cur
             /\ ~x.pend => n.cur = 0
    <3>1. \A e \in Ids : Concerns(n, e) => Concerns(s, e)
      BY <2>2, OutcomeTypes DEF Concerns
    <3>2. \A e \in Ids : /\ polls'[r0][e].out \in Pending => polls[r0][e].out \in Pending
                         /\ polls[r0][e].raced => polls'[r0][e].raced
      BY <1>7, <1>10, <1>4 DEF Pending, p
    <3>3. /\ \A e \in Ids : n.rows[e] \in {sess[w].rows[e], devices[e]}
          /\ n.run \in {0, sess[w].run}
          /\ \A e \in Ids : Concerns(n, e) /\ polls'[n.run][e].out \in Pending
                            => Concerns(sess[w], e) /\ polls[n.run][e].out \in Pending
          /\ sess[w].run # 0 => \A e \in Ids : polls[sess[w].run][e].raced => polls'[sess[w].run][e].raced
      BY <1>2, <2>2, <3>1, <3>2
    <3> QED BY <3>3, CopiesKept
  <2> QED BY <1>9, <2>1, <2>2
<1>14. GoesOn(polls[r0][d0], q)
  BY <1>4, <1>7 DEF GoesOn, MayBeNoted, Noted, p
<1>15. Publishes(r0, d0)
  <2>1. Noted(polls'[r0][d0]) => Noted(polls[r0][d0])
    BY <1>7, <1>10 DEF Noted, p
  <2> QED BY <2>1, NothingPublished
<1>16. q.out \notin Pending
  BY <1>7 DEF Pending
<1>17. sess' = [sess EXCEPT ![w] = n] /\ sess[w].run = r0 /\ n.run \in {0, r0} /\ q.told = polls[r0][d0].told
  BY <1>2, <1>7, <1>8, <1>9 DEF Leaves, p
<1> QED BY <1>6, <1>11, <1>12, <1>13, <1>14, <1>15, <1>16, <1>17, RecordOutcome

\* An exception in a poll gives up the run, or is swallowed.
LEMMA RaiseOutcome ==
  ASSUME TypeInv, LedgerInv, OutcomeInv, NEW w \in Workers, sess[w].pc \notin {"idle", "next"}, Raise(w),
         UNCHANGED <<devices, created, metrics, traffic, runs>>
  PROVE  OutcomeInv'
<1>1. CASE ~sess[w].test
  BY <1>1, AbortOutcome DEF Raise
<1>2. CASE sess[w].test
  <2>1. sess[w] \in Session /\ sess[w].run # 0
    BY <1>2, BusyFacts DEF SessionFits
  <2>2. w \notin Ticks
    BY <1>2 DEF TypeInv, BusyHasDevice
  <2>3. Leaves(w, sess[w], "swallowed") /\ last' = last
    BY <1>2, Zenon DEF Raise, Leaves
  <2> QED BY <2>1, <2>2, <2>3, LeaveOutcome
<1> QED BY <1>1, <1>2

-----------------------------------------------------------------------------
\* collect_device_metrics and discover_ports

\* The commit of discover_ports puts the pending sample of a poll on record.
LEMMA NoteOutcome ==
  ASSUME TypeInv, LedgerInv, OutcomeInv, NEW w \in Workers, DiscoverCommit(w), sess[w].pend
  PROVE  OutcomeInv'
<1> DEFINE s == sess[w]
<1>1. /\ s \in Session /\ s.pc = "dcommit" /\ s.cur \in Ids /\ s.run \in Runs /\ s.run # 0
      /\ s.todo \subseteq Ids /\ s.cur \notin s.todo /\ s.pend /\ s.gen # 0 /\ SessionPolls(s, polls)
  BY BusyFacts DEF DiscoverCommit, SessionFits
<1>2. PICK r0 \in Runs : r0 = s.run
  BY <1>1
<1>3. PICK d0 \in Ids : d0 = s.cur
  BY <1>1
<1> DEFINE p == polls[r0][d0]
<1>4. /\ p \in Poll /\ p.out = "open" /\ p.gen = s.gen /\ p.gen <= created
      /\ \A d \in s.todo : polls[r0][d].out = "queued"
  BY <1>1, <1>2, <1>3, OutcomeTypes DEF OutcomeInv, SessionPolls, PollStarts
<1>5. PICK q : q = [p EXCEPT !.early = TRUE]
  OBVIOUS
<1>6. PICK n : n = [Expired(s) EXCEPT !.pc = "reload"]
  OBVIOUS
<1>7. /\ metrics' = WithSample(metrics, s) /\ UNCHANGED <<devices, created, traffic, runs, last>>
      /\ sess' = [sess EXCEPT ![w] = n]
  BY <1>1, <1>6 DEF DiscoverCommit
<1>8. Records(r0, d0, q)
  BY <1>1, <1>2, <1>3, <1>5 DEF Records, DiscoverCommit, TypeInv, TypeOK
<1> HIDE DEF p
<1>9. q.out = "open" /\ q.gen = p.gen /\ q.early = TRUE /\ q.raced = p.raced /\ q.told = p.told
  BY <1>4, <1>5 DEF Poll
<1>10. /\ n.pc = "reload" /\ n.run = s.run /\ n.cur = s.cur /\ n.todo = s.todo /\ n.gen = s.gen
       /\ n.rows = NoRows /\ n.pend = FALSE
  BY <1>1, <1>6 DEF Session, Expired
<1>11. polls'[r0][d0] = q /\ \A r \in Runs, e \in Ids : ~(r = r0 /\ e = d0) => polls'[r][e] = polls[r][e]
  BY <1>8, OnePoll
<1>12. SessionPolls(n, polls')
  <2>1. \A e \in n.todo : polls'[n.run][e].out = "queued"
    BY <1>1, <1>2, <1>3, <1>4, <1>10, <1>11
  <2>2. polls'[n.run][n.cur] = q
    BY <1>2, <1>3, <1>10, <1>11
  <2>3. q.gen = n.gen
    BY <1>4, <1>9, <1>10
  <2> QED BY <1>9, <1>10, <2>1, <2>2, <2>3 DEF SessionPolls
<1>13. CopyHasStatus(n, polls', devices)
  BY <1>10, BlankGens, NoCopies
<1>14. GoesOn(polls[r0][d0], q)
  BY <1>4, <1>9 DEF GoesOn, MayBeNoted, Noted, p
<1>15. Publishes(r0, d0)
  <2> DEFINE new == [dev |-> d0, gen |-> s.gen, run |-> r0]
  <2>1. WithSample(metrics, s) = metrics \cup {new}
    BY <1>2, <1>3 DEF WithSample
  <2>2. new.run = r0 /\ new.dev = d0 /\ new.gen = s.gen
    OBVIOUS
  <2>3. new = [dev |-> d0, gen |-> polls'[r0][d0].gen, run |-> r0]
    BY <1>4, <1>9, <1>11
  <2> HIDE DEF new
  <2>4. MayBeNoted(polls'[r0][d0]) /\ polls'[r0][d0].gen = s.gen
    BY <1>4, <1>9, <1>11 DEF MayBeNoted, Noted
  <2>5. metrics \subseteq metrics' /\ new \in metrics' /\ (\A m \in metrics' \ metrics : m = new) /\ traffic' = traffic
    BY <1>7, <2>1
  <2> QED BY <1>1, <2>2, <2>3, <2>4, <2>5 DEF Publishes
<1>16. n.run = r0 /\ (\A e \in Ids : Concerns(s, e) => Concerns(n, e)) /\ Concerns(n, d0)
  BY <1>2, <1>3, <1>10 DEF Concerns
<1>17. sess[w].run = r0 /\ n.run \in {0, r0} /\ q.told = polls[r0][d0].told /\ q.out \notin {"told", "swallowed"}
  BY <1>2, <1>9, <1>16 DEF p
<1> QED BY <1>7, <1>8, <1>12, <1>13, <1>14, <1>15, <1>16, <1>17, RecordOutcome

\* The commit of a discovery that is no part of collecting has no sample.
LEMMA DiscoveredOutcome ==
  ASSUME TypeInv, LedgerInv, OutcomeInv, NEW w \in Workers, DiscoverCommit(w), ~sess[w].pend
  PROVE  OutcomeInv'
<1> DEFINE s == sess[w]
<1>1. s \in Session /\ s.pc = "dcommit" /\ SessionPolls(s, polls)
  BY BusyFacts DEF DiscoverCommit
<1>2. UNCHANGED <<devices, created, metrics, traffic, runs, polls, last>>
  BY DEF DiscoverCommit
<1>3. CASE s.run = 0
  <2>1. sess' = [sess EXCEPT ![w] = Idle]
    BY <1>3 DEF DiscoverCommit
  <2> QED BY <1>2, <1>3, <2>1, IdleOutcome, MoveOutcome
<1>4. CASE s.run # 0
  <2>1. PICK n : n = [Expired(s) EXCEPT !.pc = "collect"]
    OBVIOUS
  <2>2. sess' = [sess EXCEPT ![w] = n]
    BY <1>4, <2>1 DEF DiscoverCommit
  <2>3. /\ n.pc = "collect" /\ n.run = s.run /\ n.cur = s.cur /\ n.todo = s.todo
        /\ n.rows = NoRows /\ n.pend = FALSE
    BY <1>1, <2>1 DEF Session, Expired
  <2>4. SessionPolls(n, polls)
    BY <1>1, <2>3 DEF SessionPolls
  <2>5. CopyHasStatus(n, polls, devices)
    BY <2>3, BlankGens, NoCopies
  <2>6. n.run = sess[w].run /\ \A d \in Ids : Concerns(n, d) <=> Concerns(sess[w], d)
    BY <2>3 DEF Concerns
  <2> QED BY <1>2, <2>2, <2>4, <2>5, <2>6, MoveOutcome
<1> QED BY <1>3, <1>4

\* The steps of a poll or a discovery.
LEMMA CollectStepOutcome ==
  ASSUME TypeInv, LedgerInv, OutcomeInv, NEW w \in Workers, CollectStep(w)
  PROVE  OutcomeInv'
<1> DEFINE s == sess[w]
<1>1. /\ s \in Session /\ SessionFits(w, s, runs, created)
      /\ s.pc \notin {"idle", "next"} => s.cur \in Ids
      /\ SessionPolls(s, polls) /\ CopyHasStatus(s, polls, devices)
  BY BusyFacts
<1>m. ASSUME NEW n, sess' = [sess EXCEPT ![w] = n], s.pc \in {"walk", "dwalk"},
             n.pc \in {"dwalk", "dcommit", "commit", "except"}, n.pc = "commit" => s.pend,
             n.run = s.run, n.cur = s.cur, n.todo = s.todo,
             n.gen = s.gen, n.rows = s.rows, n.pend = s.pend,
             UNCHANGED <<devices, created, metrics, traffic, runs, polls, last>>
      PROVE  OutcomeInv'
  <2>1. SessionPolls(n, polls)
    BY <1>1, <1>m DEF SessionPolls
  <2>2. \A d \in Ids : Concerns(n, d) <=> Concerns(s, d)
    BY <1>m DEF Concerns
  <2>3. CopyHasStatus(n, polls, devices)
    BY <1>1, <1>m, <2>2 DEF CopyHasStatus
  <2> QED BY <1>m, <2>1, <2>2, <2>3, MoveOutcome
<1>2. CASE Walk(w)
  <2>1. PICK known, pc : sess' = [sess EXCEPT ![w].known = known, ![w].pc = pc] /\ pc \in {"dwalk", "commit"}
    BY <1>2 DEF Walk
  <2>2. PICK n : n = [s EXCEPT !.known = known, !.pc = pc]
    OBVIOUS
  <2>3. sess' = [sess EXCEPT ![w] = n]
    BY <2>1, <2>2 DEF TypeInv, TypeOK
  <2>4. /\ n.pc = pc /\ n.run = s.run /\ n.cur = s.cur /\ n.todo = s.todo /\ n.gen = s.gen
        /\ n.rows = s.rows /\ n.pend = s.pend
    BY <1>1, <2>2 DEF Session
  <2>5. s.pc = "walk" /\ s.pend /\ UNCHANGED <<devices, created, metrics, traffic, runs, polls, last>>
    BY <1>1, <1>2 DEF Walk, tables, observed, SessionFits
  <2> QED BY <1>m, <2>1, <2>3, <2>4, <2>5
<1>3. CASE WalkFails(w)
  <2>1. CASE w \in Ticks
    <3>1. PICK n : n = [s EXCEPT !.pc = "except"]
      OBVIOUS
    <3>2. sess' = [sess EXCEPT ![w] = n]
      BY <1>3, <2>1, <3>1 DEF WalkFails, TypeInv, TypeOK
    <3>3. /\ n.pc = "except" /\ n.run = s.run /\ n.cur = s.cur /\ n.todo = s.todo /\ n.gen = s.gen
          /\ n.rows = s.rows /\ n.pend = s.pend
      BY <1>1, <3>1 DEF Session
    <3>4. s.pc \in {"walk", "dwalk"} /\ UNCHANGED <<devices, created, metrics, traffic, runs, polls, last>>
      BY <1>3, <2>1 DEF WalkFails, tables
    <3> QED BY <1>m, <3>2, <3>3, <3>4
  <2>2. CASE w \notin Ticks
    BY <1>3, <2>2, RaiseOutcome DEF WalkFails, tables
  <2> QED BY <2>1, <2>2
<1>4. CASE DiscoverWalk(w)
  <2>1. PICK found, known : sess' = [sess EXCEPT ![w].pc = "dcommit", ![w].found = found, ![w].known = known]
    BY <1>4 DEF DiscoverWalk
  <2>2. PICK n : n = [s EXCEPT !.pc = "dcommit", !.found = found, !.known = known]
    OBVIOUS
  <2>3. sess' = [sess EXCEPT ![w] = n]
    BY <2>1, <2>2 DEF TypeInv, TypeOK
  <2>4. /\ n.pc = "dcommit" /\ n.run = s.run /\ n.cur = s.cur /\ n.todo = s.todo /\ n.gen = s.gen
        /\ n.rows = s.rows /\ n.pend = s.pend
    BY <1>1, <2>2 DEF Session
  <2>5. s.pc = "dwalk" /\ UNCHANGED <<devices, created, metrics, traffic, runs, polls, last>>
    BY <1>4 DEF DiscoverWalk, tables, observed
  <2> QED BY <1>m, <2>3, <2>4, <2>5
<1>5. CASE DiscoverCommit(w)
  BY <1>5, NoteOutcome, DiscoveredOutcome
<1>6. CASE DiscoverCommitFails(w)
  BY <1>6, FailedCommitOutcome DEF DiscoverCommitFails
<1>7. CASE Reload(w)
  <2> DEFINE x == Refreshed(s, s.cur)
  <2>1. /\ s.pc = "reload" /\ s.cur \in Ids /\ x.rows[s.cur].gen # 0
        /\ UNCHANGED <<devices, created, metrics, traffic, runs, polls, last>>
    <3>1. s.pc = "reload" /\ UNCHANGED <<devices, created, metrics, traffic, runs, polls, last>>
      BY <1>7 DEF Reload, tables, observed
    <3>2. x.cur = s.cur /\ s.cur \in Ids
      BY <1>1, <3>1, RefreshedType DEF TypeInv
    <3> QED BY <1>7, <3>1, <3>2 DEF Reload
  <2>2. PICK known : sess' = [sess EXCEPT ![w] = [x EXCEPT !.pc = "commit", !.known = known]]
    BY <1>7 DEF Reload
  <2>3. /\ x \in Session /\ x.run = s.run /\ x.cur = s.cur /\ x.todo = s.todo /\ x.gen = s.gen
        /\ x.pend = s.pend /\ \A e \in Ids : x.rows[e] \in {s.rows[e], devices[e]}
    BY <1>1, <2>1, RefreshedType, RefreshedRows DEF TypeInv
  <2> HIDE DEF x
  <2>4. PICK n : n = [x EXCEPT !.pc = "commit", !.known = known]
    OBVIOUS
  <2>5. /\ n.pc = "commit" /\ n.run = s.run /\ n.cur = s.cur /\ n.todo = s.todo /\ n.gen = s.gen
        /\ n.rows = x.rows /\ n.pend = s.pend
    BY <2>3, <2>4 DEF Session
  <2>6. \A d \in Ids : Concerns(n, d) <=> Concerns(s, d)
    BY <2>5 DEF Concerns
  <2>7. SessionPolls(n, polls)
    BY <1>1, <2>1, <2>5 DEF SessionPolls
  <2>8. CopyHasStatus(n, polls, devices)
    BY <1>1, <2>3, <2>5, <2>6 DEF CopyHasStatus
  <2>9. sess' = [sess EXCEPT ![w] = n]
    BY <2>2, <2>4
  <2> QED BY <2>1, <2>5, <2>6, <2>7, <2>8, <2>9, MoveOutcome
<1>8. CASE ReloadGone(w)
  BY <1>8, RaiseOutcome DEF ReloadGone, tables
<1>9. CASE Commit(w)
  <2>1. s.pc = "commit" /\ s.cur \in Live /\ UNCHANGED <<created, runs, last>>
    BY <1>9 DEF Commit, CommitConflict
  <2>2. traffic' \in {traffic, WithSample(traffic, s)}
    BY <1>9 DEF Commit
  <2>3. PICK n : n = [Finished(w) EXCEPT !.n = w \in Ticks]
    OBVIOUS
  <2>4. \E b \in BOOLEAN : n \in {Finished(w), [Finished(w) EXCEPT !.n = b]}
    <3>1. CASE w \in Ticks
      <4>1. (w \in Ticks) = TRUE
        BY <3>1
      <4> QED BY <2>3, <4>1
    <3>2. CASE w \notin Ticks
      <4>1. (w \in Ticks) = FALSE
        BY <3>2
      <4> QED BY <2>3, <4>1
    <3> QED BY <3>1, <3>2
  <2>5. sess' = [sess EXCEPT ![w] = n]
    BY <1>9, <2>3 DEF Commit
  <2>6. EndsPoll(w, n, "success", "success")
    BY <1>9, <2>1, <2>2, <2>4, <2>5 DEF Commit, EndsPoll
  <2> QED BY <2>6, EndsPollOutcome
<1>10. CASE CommitFails(w)
  BY <1>10, FailedCommitOutcome DEF CommitFails
<1> QED BY <1>2, <1>3, <1>4, <1>5, <1>6, <1>7, <1>8, <1>9, <1>10 DEF CollectStep

-----------------------------------------------------------------------------
\* Requests

\* The copy of its device a request has loaded is the row.
LEMMA LoadedCopy ==
  ASSUME TypeInv, NEW d \in Ids
  PROVE  Loaded(d).rows[d] = devices[d]
<1> DEFINE rows == IF IsMySQL THEN devices ELSE [NoRows EXCEPT ![d] = devices[d]]
           snap == IF IsMySQL THEN ports ELSE {}
<1>1. Loaded(d) = [Idle EXCEPT !.cur = d, !.gen = devices[d].gen, !.open = IsMySQL,
                               !.rows = rows, !.snap = snap]
  BY DEF Loaded
<1>2. rows[d] = devices[d]
  BY BlankTypes
<1> HIDE DEF rows, snap
<1>3. Loaded(d).rows = rows
  BY <1>1 DEF Idle
<1> QED BY <1>2, <1>3

\* The poll of device d is open in the run that starts.
Opens(d) == polls' = [polls EXCEPT ![runs + 1][d] = [NoPoll EXCEPT !.out = "open", !.gen = devices[d].gen]]

\* A request that takes one poll in hand opens it.
LEMMA OpenedOutcome ==
  ASSUME TypeInv, LedgerInv, OutcomeInv, NEW q \in Requests, NEW d \in Ids, NEW n,
         sess[q].pc = "idle", devices[d].gen # 0, runs < MaxRuns, runs' = runs + 1,
         sess' = [sess EXCEPT ![q] = n],
         n.pc \in {"walk", "tell"}, n.pc = "tell" => ~n.pend, n.run = runs + 1, n.cur = d, n.todo = {},
         n.gen = devices[d].gen, n.rows[d] = devices[d],
         Opens(d),
         UNCHANGED <<devices, created, metrics, traffic, last>>
  PROVE  OutcomeInv'
<1>1. /\ q \in Workers /\ q \notin Ticks /\ runs \in Nat /\ created \in Nat
      /\ devices[d].gen \in 0 .. created /\ sess[q].run = 0
  <2>1. q \in Workers /\ q \notin Ticks
    BY WorkerTypes, WorkersAssumption
  <2>2. runs \in Nat /\ created \in Nat /\ devices[d].gen <= created
    BY OutcomeTypes DEF LedgerInv
  <2>3. sess[q].run = 0
    BY <2>1 DEF LedgerInv, SessionFits
  <2>4. devices[d].gen \in Gens
    BY OutcomeTypes DEF Row
  <2>5. devices[d].gen \in Nat
    BY <2>4, BoundsAssumption DEF Gens
  <2> QED BY <2>1, <2>2, <2>3, <2>5
<1>2. PICK p : p = [NoPoll EXCEPT !.out = "open", !.gen = devices[d].gen]
  OBVIOUS
<1>3. p.out = "open" /\ p.gen = devices[d].gen /\ p.early = FALSE
  BY <1>2 DEF NoPoll
<1>4. runs + 1 \in Runs
  BY <1>1, BoundsAssumption DEF Runs
<1>5. /\ polls'[runs + 1][d] = p
      /\ \A r \in Runs, e \in Ids : ~(r = runs + 1 /\ e = d) => polls'[r][e] = polls[r][e]
  <2>1. PICK r0 \in Runs : r0 = runs + 1
    BY <1>4
  <2>2. Records(r0, d, p)
    BY <1>2, <2>1 DEF Records, Opens
  <2>3. /\ polls'[r0][d] = p
        /\ \A r \in Runs, e \in Ids : ~(r = r0 /\ e = d) => polls'[r][e] = polls[r][e]
    BY <2>2, OnePoll
  <2> QED BY <2>1, <2>3
<1>6. \A e \in Ids : /\ polls[runs + 1][e].out = "none" /\ polls[runs + 1][e].gen = 0
                     /\ ~polls[runs + 1][e].early
  BY <1>1, <1>4 DEF OutcomeInv, PollStarts
<1>7. \A e \in Ids :
         /\ polls'[runs + 1][e].out \in {"none", "queued", "open"}
         /\ ~polls'[runs + 1][e].early /\ polls'[runs + 1][e].gen \in 0 .. created
         /\ polls'[runs + 1][e].out # "open" => polls'[runs + 1][e].gen = 0
         /\ polls'[runs + 1][e].out \in Pending => Concerns(n, e)
  <2> TAKE e \in Ids
  <2>1. CASE e = d
    BY <1>1, <1>3, <1>5, <2>1 DEF Concerns
  <2>2. CASE e # d
    <3>1. polls'[runs + 1][e] = polls[runs + 1][e]
      BY <1>4, <1>5, <2>2
    <3>2. 0 \in 0 .. created
      BY <1>1
    <3> QED BY <1>6, <3>1, <3>2 DEF Pending
  <2> QED BY <2>1, <2>2
<1>8. SessionPolls(n, polls')
  BY <1>3, <1>5 DEF SessionPolls
<1>9. CopyHasStatus(n, polls', devices')
  BY DEF CopyHasStatus, Concerns
<1>10. TickRuns'
  <2>1. \A v \in Workers : sess'[v].run \in {0, sess[v].run, runs + 1}
    BY <1>1 DEF TypeInv, TypeOK
  <2>2. \A t \in Ticks : sess'[t] = sess[t]
    BY <1>1, WorkerTypes DEF TypeInv, TypeOK
  <2>3. \A t \in Ticks, e \in Ids : last[t].run # 0 =>
          \/ polls'[last[t].run][e].out = polls[last[t].run][e].out
          \/ polls'[last[t].run][e].out = "open"
    BY <1>3, <1>5, OutcomeTypes
  <2> QED BY <1>1, <2>1, <2>2, <2>3, RunsKept DEF OutcomeInv, TickRuns
<1>11. \A r \in Runs, e \in Ids : r # runs + 1 => polls'[r][e] = polls[r][e]
  BY <1>5
<1> QED BY <1>1, <1>4, <1>7, <1>8, <1>9, <1>10, <1>11, AnnounceOutcome

\* A request for a poll opens it; one for a discovery has none.
LEMMA RequestOutcome ==
  ASSUME TypeInv, LedgerInv, OutcomeInv, NEW q \in Requests, NEW d \in Ids,
         PollRequest(q, d) \/ DiscoverRequest(q, d) \/ SnmpRequest(q, d)
  PROVE  OutcomeInv'
<1> DEFINE s == Loaded(d)
<1>1. /\ s \in Session /\ s.cur = d /\ s.gen = devices[d].gen /\ s.run = 0 /\ s.todo = {}
      /\ s.pend = FALSE /\ s.rows[d] = devices[d]
  BY LoadedFits, LoadedCopy
<1>2. q \in Workers /\ sess[q].pc = "idle" /\ devices[d].gen # 0 /\ sess[q].run = 0
  <2>1. q \in Workers /\ sess[q].pc = "idle" /\ devices[d].gen # 0
    BY WorkerTypes DEF PollRequest, DiscoverRequest, SnmpRequest, Live
  <2> QED BY <2>1 DEF LedgerInv, SessionFits
<1> HIDE DEF s
<1>3. CASE PollRequest(q, d)
  <2>1. PICK dirty \in BOOLEAN : sess' = [sess EXCEPT ![q] =
          [s EXCEPT !.pc = "walk", !.run = runs + 1, !.pend = TRUE, !.dirty = dirty]]
    BY <1>3 DEF PollRequest, s
  <2>2. PICK n : n = [s EXCEPT !.pc = "walk", !.run = runs + 1, !.pend = TRUE, !.dirty = dirty]
    OBVIOUS
  <2>3. /\ n.pc = "walk" /\ n.run = runs + 1 /\ n.cur = d /\ n.todo = {}
        /\ n.gen = devices[d].gen /\ n.rows = s.rows
    BY <1>1, <2>2 DEF Session
  <2>4. /\ sess' = [sess EXCEPT ![q] = n] /\ runs' = runs + 1 /\ runs < MaxRuns
        /\ Opens(d)
        /\ UNCHANGED <<devices, created, metrics, traffic, last>>
    BY <1>3, <2>1, <2>2 DEF PollRequest, Opens, tables
  <2> QED BY <1>1, <1>2, <2>3, <2>4, OpenedOutcome
<1>4. CASE SnmpRequest(q, d)
  <2>1. PICK n : n = [s EXCEPT !.pc = "tell", !.run = runs + 1]
    OBVIOUS
  <2>2. /\ n.pc = "tell" /\ n.run = runs + 1 /\ n.cur = d /\ n.todo = {} /\ n.pend = FALSE
        /\ n.gen = devices[d].gen /\ n.rows = s.rows
    BY <1>1, <2>1 DEF Session
  <2>3. /\ sess' = [sess EXCEPT ![q] = n] /\ runs' = runs + 1 /\ runs < MaxRuns
        /\ Opens(d)
        /\ UNCHANGED <<devices, created, metrics, traffic, last>>
    BY <1>4, <2>1 DEF SnmpRequest, Opens, tables, s
  <2> QED BY <1>1, <1>2, <2>2, <2>3, OpenedOutcome
<1>5. CASE DiscoverRequest(q, d)
  <2>1. PICK n : n = [s EXCEPT !.pc = "dwalk"]
    OBVIOUS
  <2>2. sess' = [sess EXCEPT ![q] = n] /\ UNCHANGED <<devices, created, metrics, traffic, runs, polls, last>>
    BY <1>5, <2>1 DEF DiscoverRequest, tables, observed, s
  <2>3. n.run = 0
    BY <1>1, <2>1 DEF Session
  <2>4. SessionPolls(n, polls) /\ CopyHasStatus(n, polls, devices)
    BY <2>3 DEF SessionPolls, CopyHasStatus
  <2> QED BY <1>2, <2>2, <2>3, <2>4, MoveOutcome
<1> QED BY <1>3, <1>4, <1>5

\* The polls of a test are those of the devices it has loaded.
LEMMA TestRequestOutcome ==
  ASSUME TypeInv, LedgerInv, OutcomeInv, NEW q \in Requests, NEW chosen \in SUBSET Ids, TestRequest(q, chosen)
  PROVE  OutcomeInv'
<1> DEFINE rows == [d \in Ids |-> IF IsMySQL \/ d \in chosen THEN devices[d] ELSE Blank]
           snap == IF IsMySQL THEN ports ELSE {}
           n == [Idle EXCEPT !.pc = "next", !.run = runs + 1, !.todo = chosen, !.test = TRUE,
                             !.open = IsMySQL, !.rows = rows, !.snap = snap]
           ps == [d \in Ids |-> IF d \in chosen THEN [NoPoll EXCEPT !.out = "queued"] ELSE NoPoll]
<1>1. /\ sess' = [sess EXCEPT ![q] = n] /\ sess[q].pc = "idle" /\ runs' = runs + 1 /\ runs < MaxRuns
      /\ polls' = [polls EXCEPT ![runs + 1] = ps]
      /\ UNCHANGED <<created, devices, metrics, traffic, last>>
  BY DEF TestRequest, tables
<1>2. runs \in Nat /\ created \in Nat /\ runs + 1 \in Runs /\ q \in Workers /\ q \notin Ticks
  <2>1. runs \in Nat /\ runs + 1 \in 1 .. MaxRuns
    BY <1>1, OutcomeTypes
  <2> QED BY <2>1, OutcomeTypes, WorkerTypes, WorkersAssumption DEF Runs
<1>3. \A d \in Ids : /\ ps[d].out = IF d \in chosen THEN "queued" ELSE "none"
                     /\ ps[d].gen = 0 /\ ~ps[d].early
  BY DEF NoPoll
<1>4. n.pc = "next" /\ n.run = runs + 1 /\ n.todo = chosen /\ n.cur = 0 /\ n.rows = rows /\ ~n.pend
  <2> HIDE DEF rows, snap, ps
  <2> QED BY DEF Idle
<1>5. \A d \in Ids : d \in chosen => rows[d] = devices[d]
  OBVIOUS
<1> HIDE DEF rows, snap, n, ps
<1>6. sess[q].run = 0
  BY <1>1, <1>2 DEF LedgerInv, SessionFits
<1>7. polls'[runs + 1] = ps /\ \A r \in Runs, d \in Ids : r # runs + 1 => polls'[r][d] = polls[r][d]
  BY <1>1, <1>2 DEF TypeInv, TypeOK
<1>8. \A d \in Ids : Concerns(n, d) <=> d \in chosen
  BY <1>4, OutcomeTypes DEF Concerns
<1>9. SessionPolls(n, polls') /\ CopyHasStatus(n, polls', devices')
  <2>1. SessionPolls(n, polls')
    BY <1>3, <1>4, <1>7 DEF SessionPolls
  <2>2. \A d \in Ids : d \in chosen => n.rows[d] = devices'[d]
    BY <1>1, <1>4, <1>5
  <2> QED BY <1>8, <2>1, <2>2 DEF CopyHasStatus
<1>10. TickRuns'
  <2>1. \A v \in Workers : sess'[v].run \in {0, sess[v].run, runs + 1}
    BY <1>1, <1>2, <1>4 DEF TypeInv, TypeOK
  <2>2. \A t \in Ticks : sess'[t] = sess[t]
    BY <1>1, <1>2, WorkerTypes DEF TypeInv, TypeOK
  <2>3. \A t \in Ticks, e \in Ids : last[t].run # 0 =>
          polls'[last[t].run][e].out = polls[last[t].run][e].out
    <3> SUFFICES ASSUME NEW t \in Ticks, NEW e \in Ids, last[t].run # 0
                 PROVE  polls'[last[t].run][e].out = polls[last[t].run][e].out
      OBVIOUS
    <3>1. last[t].run \in Runs /\ last[t].run <= runs /\ last[t].run \in Nat
      BY OutcomeTypes DEF OutcomeInv, TickRuns
    <3>2. last[t].run # runs + 1
      BY <1>2, <3>1
    <3> QED BY <1>7, <3>1, <3>2
  <2> QED BY <1>1, <1>2, <2>1, <2>2, <2>3, RunsKept DEF OutcomeInv, TickRuns
<1>11. \A d \in Ids :
           /\ polls'[runs + 1][d].out \in {"none", "queued", "open"}
           /\ ~polls'[runs + 1][d].early /\ polls'[runs + 1][d].gen \in 0 .. created
           /\ polls'[runs + 1][d].out # "open" => polls'[runs + 1][d].gen = 0
           /\ polls'[runs + 1][d].out \in Pending => Concerns(n, d)
  BY <1>2, <1>3, <1>7, <1>8 DEF Pending
<1> QED BY <1>1, <1>2, <1>4, <1>6, <1>7, <1>9, <1>10, <1>11, AnnounceOutcome

-----------------------------------------------------------------------------
\* Connectivity tests

\* The commit of a test's job publishes what a swallowed poll has left, and the poll
\* of the next device begins.
LEMMA StartTestOutcome ==
  ASSUME TypeInv, LedgerInv, OutcomeInv, NEW w \in Requests, NEW d \in Ids, StartTest(w, d)
  PROVE  OutcomeInv'
<1> USE WorkerTypes
<1> DEFINE s == Refreshed(sess[w], d)
<1>1. /\ sess[w].pc = "next" /\ d \in sess[w].todo /\ s.rows[d].gen # 0
      /\ metrics' = IF s.pend THEN WithSample(metrics, s) ELSE metrics
      /\ UNCHANGED <<devices, created, traffic, runs, last>>
  BY DEF StartTest
<1>2. /\ s \in Session /\ s.todo = sess[w].todo /\ s.run = sess[w].run /\ s.cur = sess[w].cur
      /\ s.pend = sess[w].pend /\ s.gen = sess[w].gen
      /\ s.rows[d].gen <= created /\ s.rows[d].gen \in Nat
  BY ReadGen, RefreshedType, OutcomeTypes DEF TypeInv
<1>3. /\ sess[w].run # 0 /\ sess[w].run \in Runs /\ sess[w].todo \subseteq Ids /\ sess[w].cur \notin sess[w].todo
      /\ w \notin Ticks /\ (sess[w].pend => sess[w].gen # 0 /\ sess[w].cur \in Ids)
      /\ ~sess[w].pend => sess[w].cur = 0
      /\ SessionPolls(sess[w], polls)
  <2>1. w \notin Ticks
    BY WorkersAssumption
  <2>2. sess[w].test /\ SessionFits(w, sess[w], runs, created)
    BY <1>1, <2>1, BusyFacts DEF SessionFits
  <2> QED BY <1>1, <2>1, <2>2, BusyFacts DEF SessionFits
<1>4. PICK r0 \in Runs : r0 = sess[w].run
  BY <1>3
<1>5. PICK g : g = s.rows[d].gen
  OBVIOUS
<1> DEFINE p == polls[r0][d]
<1>6. p \in Poll /\ p.gen = 0 /\ ~p.early /\ p.out = "queued" /\ \A e \in s.todo : polls[r0][e].out = "queued"
  BY <1>1, <1>2, <1>3, <1>4, OutcomeTypes DEF OutcomeInv, PollStarts, SessionPolls
<1>7. PICK q : q = [p EXCEPT !.out = "open", !.gen = g]
  OBVIOUS
<1>8. Records(r0, d, q)
  BY <1>2, <1>4, <1>5, <1>7 DEF Records, StartTest, TypeInv, TypeOK
<1> HIDE DEF p
<1>9. q.out = "open" /\ q.gen = g /\ q.early = FALSE /\ q.raced = p.raced /\ q.told = p.told
  BY <1>6, <1>7 DEF Poll
<1>10. PICK n : n = [Expired(s) EXCEPT !.pc = "play", !.cur = d, !.todo = @ \ {d}, !.gen = g]
  OBVIOUS
<1>11. sess' = [sess EXCEPT ![w] = n]
  BY <1>5, <1>10 DEF StartTest
<1> HIDE DEF s
<1>12. /\ n.pc = "play" /\ n.cur = d /\ n.todo = s.todo \ {d} /\ n.gen = g
       /\ n.pend = FALSE /\ n.run = r0 /\ n.rows = NoRows
  BY <1>2, <1>4, <1>10 DEF Session, Expired
<1>13. polls'[r0][d] = q /\ \A r \in Runs, e \in Ids : ~(r = r0 /\ e = d) => polls'[r][e] = polls[r][e]
  BY <1>8, OnePoll
<1>14. SessionPolls(n, polls')
  <2>1. \A e \in n.todo : polls'[n.run][e].out = "queued"
    BY <1>2, <1>3, <1>6, <1>12, <1>13
  <2>2. polls'[n.run][n.cur] = q
    BY <1>12, <1>13
  <2> QED BY <1>9, <1>12, <2>1, <2>2 DEF SessionPolls
<1>15. CopyHasStatus(n, polls', devices)
  BY <1>12, BlankGens, NoCopies
<1>16. GoesOn(polls[r0][d], q)
  BY <1>2, <1>5, <1>6, <1>9 DEF GoesOn, MayBeNoted, Noted, p
<1>17. Publishes(r0, d)
  <2>1. ~Noted(polls'[r0][d])
    BY <1>9, <1>13 DEF Noted
  <2>2. CASE ~sess[w].pend
    <3>1. UNCHANGED <<metrics, traffic>>
      BY <1>1, <1>2, <2>2
    <3> QED BY <2>1, <3>1, NothingPublished
  <2>3. CASE sess[w].pend
    <3>1. PICK c \in Ids : c = sess[w].cur
      BY <1>3, <2>3
    <3>2. c # d /\ polls[r0][c].out = "swallowed" /\ polls[r0][c].gen = s.gen /\ s.gen # 0
      BY <1>1, <1>2, <1>3, <1>4, <2>3, <3>1 DEF SessionPolls
    <3>3. polls'[r0][c] = polls[r0][c]
      BY <1>13, <3>2
    <3> DEFINE new == [dev |-> c, gen |-> s.gen, run |-> r0]
    <3>4. new.run = r0 /\ new.dev = c /\ new.gen = s.gen
      OBVIOUS
    <3>5. metrics' = metrics \cup {new}
      BY <1>1, <1>2, <1>4, <2>3, <3>1 DEF WithSample
    <3> HIDE DEF new
    <3>6. MayBeNoted(polls'[r0][c])
      BY <3>2, <3>3 DEF MayBeNoted
    <3>7. traffic' = traffic
      BY <1>1
    <3> QED BY <2>1, <3>2, <3>3, <3>4, <3>5, <3>6, <3>7 DEF Publishes
  <2> QED BY <2>2, <2>3
<1>18. \A e \in Ids \ {d} : Concerns(sess[w], e) /\ polls[r0][e].out \in Pending
                              => n.run = r0 /\ Concerns(n, e)
  <2> SUFFICES ASSUME NEW e \in Ids \ {d}, Concerns(sess[w], e), polls[r0][e].out \in Pending
               PROVE  n.run = r0 /\ Concerns(n, e)
    OBVIOUS
  <2>1. sess[w].cur # e
    <3> SUFFICES ASSUME sess[w].cur = e PROVE FALSE
      OBVIOUS
    <3>1. sess[w].pend
      BY <1>3, OutcomeTypes
    <3>2. polls[r0][e].out = "swallowed"
      BY <1>1, <1>3, <1>4, <3>1 DEF SessionPolls
    <3> QED BY <3>2 DEF Pending
  <2> QED BY <1>2, <1>12, <2>1 DEF Concerns
<1>19. q.out \in Pending => n.run = r0 /\ Concerns(n, d)
  BY <1>12 DEF Concerns
<1> QED BY <1>1, <1>3, <1>4, <1>8, <1>9, <1>11, <1>12, <1>14, <1>15, <1>16, <1>17, <1>18, <1>19, RecordOutcome DEF p

\* The poll of a test becomes that of the device as it is now.
LEMMA CollectOutcome ==
  ASSUME TypeInv, LedgerInv, OutcomeInv, NEW w \in Requests, Collect(w)
  PROVE  OutcomeInv'
<1> USE WorkerTypes
<1> DEFINE s == Refreshed(sess[w], sess[w].cur)
<1>1. /\ sess[w].pc = "collect" /\ s.rows[s.cur].gen # 0
      /\ UNCHANGED <<devices, created, metrics, traffic, runs, last>>
  BY DEF Collect, tables
<1>2. /\ sess[w].run # 0 /\ sess[w].run \in Runs /\ sess[w].todo \subseteq Ids /\ sess[w].cur \notin sess[w].todo
      /\ sess[w].cur \in Ids /\ w \notin Ticks /\ SessionPolls(sess[w], polls)
  BY <1>1, BusyFacts, WorkersAssumption DEF SessionFits
<1>3. PICK r0 \in Runs : r0 = sess[w].run
  BY <1>2
<1>4. PICK d \in Ids : d = sess[w].cur
  BY <1>2
<1>5. /\ s \in Session /\ s.todo = sess[w].todo /\ s.run = r0 /\ s.cur = d
      /\ s.rows[d].gen <= created /\ s.rows[d].gen \in Nat
      /\ \A e \in Ids : s.rows[e] \in {sess[w].rows[e], devices[e]}
  BY <1>3, <1>4, ReadGen, RefreshedType, RefreshedRows, OutcomeTypes DEF TypeInv
<1>6. PICK g : g = s.rows[d].gen
  OBVIOUS
<1> DEFINE p == polls[r0][d]
<1>7. p \in Poll /\ ~p.early /\ p.out = "open" /\ \A e \in s.todo : polls[r0][e].out = "queued"
  BY <1>1, <1>2, <1>3, <1>4, <1>5, OutcomeTypes DEF SessionPolls
<1>8. PICK q : q = [p EXCEPT !.gen = g]
  OBVIOUS
<1>9. Records(r0, d, q)
  BY <1>5, <1>6, <1>8 DEF Records, Collect, TypeInv, TypeOK
<1>10. PICK dirty \in BOOLEAN : sess' = [sess EXCEPT ![w] =
          [s EXCEPT !.pc = "walk", !.gen = g, !.pend = TRUE, !.dirty = dirty]]
  BY <1>5, <1>6 DEF Collect
<1> HIDE DEF p
<1>11. q.out = "open" /\ q.gen = g /\ q.early = FALSE /\ q.raced = p.raced /\ q.told = p.told
  BY <1>7, <1>8 DEF Poll
<1>12. PICK n : n = [s EXCEPT !.pc = "walk", !.gen = g, !.pend = TRUE, !.dirty = dirty]
  OBVIOUS
<1> HIDE DEF s
<1>13. /\ n.pc = "walk" /\ n.cur = d /\ n.todo = s.todo /\ n.gen = g
       /\ n.pend = TRUE /\ n.run = r0 /\ n.rows = s.rows
  BY <1>5, <1>12 DEF Session
<1>14. sess' = [sess EXCEPT ![w] = n]
  BY <1>10, <1>12
<1>15. \A e \in Ids : Concerns(n, e) <=> Concerns(sess[w], e)
  BY <1>4, <1>5, <1>13 DEF Concerns
<1>16. polls'[r0][d] = q /\ \A r \in Runs, e \in Ids : ~(r = r0 /\ e = d) => polls'[r][e] = polls[r][e]
  BY <1>9, OnePoll
<1>17. SessionPolls(n, polls')
  <2>1. \A e \in n.todo : polls'[n.run][e].out = "queued"
    BY <1>2, <1>4, <1>5, <1>7, <1>13, <1>16
  <2>2. polls'[n.run][n.cur] = q /\ n.rows[n.cur].gen # 0
    BY <1>1, <1>5, <1>13, <1>16
  <2> QED BY <1>11, <1>13, <2>1, <2>2 DEF SessionPolls
<1>18. CopyHasStatus(n, polls', devices)
  <2>1. \A e \in Ids : /\ polls'[r0][e].out \in Pending => polls[r0][e].out \in Pending
                       /\ polls[r0][e].raced => polls'[r0][e].raced
    BY <1>7, <1>11, <1>16 DEF Pending, p
  <2>2. /\ \A e \in Ids : n.rows[e] \in {sess[w].rows[e], devices[e]}
        /\ n.run \in {0, sess[w].run}
        /\ \A e \in Ids : Concerns(n, e) /\ polls'[n.run][e].out \in Pending
                          => Concerns(sess[w], e) /\ polls[n.run][e].out \in Pending
        /\ sess[w].run # 0 => \A e \in Ids : polls[sess[w].run][e].raced => polls'[sess[w].run][e].raced
    BY <1>3, <1>5, <1>13, <1>15, <2>1
  <2> QED BY <2>2, CopiesKept
<1>19. GoesOn(polls[r0][d], q)
  BY <1>5, <1>6, <1>7, <1>11 DEF GoesOn, MayBeNoted, Noted, p
<1>20. Publishes(r0, d)
  BY <1>1, <1>11, <1>16, NothingPublished DEF Noted
<1>21. \A e \in Ids : Concerns(sess[w], e) => n.run = r0 /\ Concerns(n, e)
  BY <1>13, <1>15
<1>22. q.out \in Pending => n.run = r0 /\ Concerns(n, d)
  BY <1>13 DEF Concerns
<1> QED BY <1>1, <1>2, <1>3, <1>9, <1>11, <1>13, <1>14, <1>17, <1>18, <1>19, <1>20, <1>21, <1>22, RecordOutcome DEF p

\* The commit of run_snmp_poll tells a status, and the poll goes on.
LEMMA TellOutcome ==
  ASSUME TypeInv, LedgerInv, OutcomeInv, NEW w \in Requests, Tell(w)
  PROVE  OutcomeInv'
<1> USE WorkerTypes
<1> DEFINE s == sess[w]
<1>1. /\ s.pc = "tell" /\ devices[s.cur].gen # 0
      /\ UNCHANGED <<created, metrics, traffic, runs, last>>
      /\ sess' = [sess EXCEPT ![w] = [Expired(s) EXCEPT !.pc = "told"]]
  BY DEF Tell, Live
<1>2. /\ s \in Session /\ s.run # 0 /\ s.run \in Runs /\ s.todo \subseteq Ids /\ s.cur \notin s.todo
      /\ s.cur \in Ids /\ SessionPolls(s, polls)
  BY <1>1, BusyFacts DEF SessionFits
<1>3. PICK r0 \in Runs : r0 = s.run
  BY <1>2
<1>4. PICK d0 \in Ids : d0 = s.cur
  BY <1>2
<1>5. /\ polls[r0][d0].out = "open" /\ ~polls[r0][d0].early /\ s.rows[d0].gen # 0 /\ ~s.pend
      /\ \A d \in s.todo : polls[r0][d].out = "queued"
  BY <1>1, <1>2, <1>3, <1>4 DEF SessionPolls
<1>6. PICK status \in {"success", "failed"} :
        /\ devices' = [devices EXCEPT ![d0] = Flushed(@, sess[w], status)]
        /\ polls' = Publish(r0, d0, "open", status)
  BY <1>3, <1>4 DEF Tell
<1>7. PICK n : n = [Expired(s) EXCEPT !.pc = "told"]
  OBVIOUS
<1>8. sess' = [sess EXCEPT ![w] = n]
  BY <1>1, <1>7
<1>9. /\ n.pc = "told" /\ n.run = r0 /\ n.cur = d0 /\ n.todo = s.todo
      /\ n.rows = NoRows /\ n.pend = FALSE
  BY <1>2, <1>3, <1>4, <1>7 DEF Session, Expired
<1>10. \A r \in Runs, d \in Ids :
        /\ polls'[r][d].gen = polls[r][d].gen /\ polls'[r][d].early = polls[r][d].early
        /\ polls'[r][d].out = IF r = r0 /\ d = d0 THEN "open" ELSE polls[r][d].out
  BY <1>6, PublishFacts
<1>11. SessionPolls(n, polls')
  BY <1>2, <1>4, <1>5, <1>9, <1>10 DEF SessionPolls
<1>12. Publishes(r0, d0)
  BY <1>1, <1>5, <1>10, NothingPublished DEF Noted
<1>13. /\ Concerns(n, d0) /\ (\A d \in sess[w].todo : n.run = r0 /\ Concerns(n, d))
       /\ \A d \in Ids : n.rows[d].gen = 0
  BY <1>9, BlankGens DEF Concerns
<1>14. /\ sess[w].run = r0 /\ sess[w].cur = d0 /\ n.run \in {0, r0} /\ devices[d0].gen # 0
       /\ polls[r0][d0].out = "open" /\ sess[w].rows[d0].gen # 0 /\ n.run = r0
  BY <1>1, <1>3, <1>4, <1>5, <1>9
<1> HIDE DEF s
<1>15. UNCHANGED <<created, runs, last>>
  BY <1>1
<1> QED BY <1>6, <1>8, <1>11, <1>12, <1>13, <1>14, <1>15, FlushOutcome

\* A test that reads its device again, and goes on with it or leaves it.
LEMMA ReadAgainOutcome ==
  ASSUME TypeInv, LedgerInv, OutcomeInv, NEW w \in Requests, Played(w) \/ Told(w) \/ PlayedOut(w) \/ ToldOnly(w)
  PROVE  OutcomeInv'
<1> USE WorkerTypes
<1> DEFINE x == Refreshed(sess[w], sess[w].cur)
<1>1. /\ sess[w].pc \in {"play", "told", "collect"} /\ x.rows[x.cur].gen # 0
      /\ UNCHANGED <<devices, created, metrics, traffic, runs, last>>
  BY DEF Played, Told, PlayedOut, ToldOnly, tables, observed
<1>2. /\ sess[w].run # 0 /\ sess[w].cur \in Ids /\ w \notin Ticks /\ SessionPolls(sess[w], polls)
      /\ CopyHasStatus(sess[w], polls, devices)
  BY <1>1, BusyFacts, WorkersAssumption DEF SessionFits
<1>3. /\ x \in Session /\ x.todo = sess[w].todo /\ x.run = sess[w].run /\ x.cur = sess[w].cur
      /\ x.pend = sess[w].pend /\ x.gen = sess[w].gen
      /\ \A e \in Ids : x.rows[e] \in {sess[w].rows[e], devices[e]}
  BY <1>2, RefreshedType, RefreshedRows, OutcomeTypes DEF TypeInv
<1>4. ~sess[w].pend
  BY <1>1, <1>2 DEF SessionPolls
<1>m. ASSUME NEW n, sess' = [sess EXCEPT ![w] = n], polls' = polls, n.pc \in {"tell", "dwalk"},
             n.run = x.run, n.cur = x.cur, n.todo = x.todo, n.rows = x.rows, n.pend = x.pend
      PROVE  OutcomeInv'
  <2>1. SessionPolls(n, polls)
    BY <1>1, <1>2, <1>3, <1>4, <1>m DEF SessionPolls
  <2>2. \A d \in Ids : Concerns(n, d) <=> Concerns(sess[w], d)
    BY <1>3, <1>m DEF Concerns
  <2>3. CopyHasStatus(n, polls, devices)
    BY <1>2, <1>3, <1>m, <2>2 DEF CopyHasStatus
  <2> QED BY <1>1, <1>3, <1>m, <2>1, <2>2, <2>3, MoveOutcome
<1>5. CASE Played(w)
  <2>1. sess' = [sess EXCEPT ![w] = [x EXCEPT !.pc = "tell"]] /\ polls' = polls
    BY <1>5 DEF Played, observed
  <2> HIDE DEF x
  <2>2. PICK n : n = [x EXCEPT !.pc = "tell"]
    OBVIOUS
  <2>3. /\ n.pc = "tell" /\ n.run = x.run /\ n.cur = x.cur /\ n.todo = x.todo /\ n.rows = x.rows
        /\ n.pend = x.pend
    BY <1>3, <2>2 DEF Session
  <2> QED BY <1>m, <2>1, <2>2, <2>3
<1>6. CASE Told(w)
  <2>1. PICK g : sess' = [sess EXCEPT ![w] = [x EXCEPT !.pc = "dwalk", !.gen = g]] /\ polls' = polls
    BY <1>6 DEF Told, observed
  <2> HIDE DEF x
  <2>2. PICK n : n = [x EXCEPT !.pc = "dwalk", !.gen = g]
    OBVIOUS
  <2>3. /\ n.pc = "dwalk" /\ n.run = x.run /\ n.cur = x.cur /\ n.todo = x.todo /\ n.rows = x.rows
        /\ n.pend = x.pend
    BY <1>3, <2>2 DEF Session
  <2> QED BY <1>m, <2>1, <2>2, <2>3
<1>7. ASSUME NEW out \in {"skipped", "told"}, Leaves(w, x, out) PROVE OutcomeInv'
  <2> HIDE DEF x
  <2> QED BY <1>1, <1>2, <1>3, <1>4, <1>7, LeaveOutcome
<1>8. CASE PlayedOut(w)
  <2>1. Leaves(w, x, "skipped")
    BY <1>3, <1>8 DEF PlayedOut, Leaves
  <2> QED BY <1>7, <2>1
<1>9. CASE ToldOnly(w)
  <2>1. Leaves(w, x, "told")
    BY <1>3, <1>9 DEF ToldOnly, Leaves
  <2> QED BY <1>7, <2>1
<1> QED BY <1>5, <1>6, <1>8, <1>9

\* The steps of a test.
LEMMA TestStepOutcome ==
  ASSUME TypeInv, LedgerInv, OutcomeInv, NEW w \in Requests, TestStep(w)
  PROVE  OutcomeInv'
<1> USE WorkerTypes
<1>1. ASSUME NEW d \in Ids, StartTest(w, d) PROVE OutcomeInv'
  BY <1>1, StartTestOutcome
<1>2. CASE Played(w) \/ Told(w) \/ PlayedOut(w) \/ ToldOnly(w)
  BY <1>2, ReadAgainOutcome
<1>3. CASE Tell(w) \/ Collect(w)
  BY <1>3, TellOutcome, CollectOutcome
<1>4. CASE TestGone(w)
  <2>1. UNCHANGED <<devices, created, metrics, traffic, runs>> /\ (Abort(w) \/ (sess[w].pc = "play" /\ Raise(w)))
    BY <1>4 DEF TestGone, tables
  <2> QED BY <2>1, AbortOutcome, RaiseOutcome
<1>5. CASE TestFails(w)
  <2>1. \E conflict : FailedCommit(w, conflict)
    BY <1>5 DEF TestFails
  <2> QED BY <2>1, FailedCommitOutcome
<1> QED BY <1>1, <1>2, <1>3, <1>4, <1>5 DEF TestStep

-----------------------------------------------------------------------------
\* The administrator, restarts

\* A step of the administrator: the sessions go on, polls only see it, and the
\* samples of a device that is left are left too.
LEMMA EditOutcome ==
  ASSUME TypeInv, LedgerInv, OutcomeInv, UNCHANGED <<sess, runs, last>>,
         created' \in Nat, created <= created',
         \A r \in Runs, d \in Ids :
           /\ polls'[r][d].out = polls[r][d].out /\ polls'[r][d].gen = polls[r][d].gen
           /\ polls'[r][d].early = polls[r][d].early /\ polls'[r][d].told = polls[r][d].told
           /\ polls[r][d].raced => polls'[r][d].raced,
         \A d \in Ids :
           \/ devices'[d].gen = devices[d].gen /\ devices'[d].polled = devices[d].polled
              /\ devices'[d].status = devices[d].status
           \/ devices'[d].polled = 0 /\ devices[d].gen = 0 /\ devices'[d].gen > created
              /\ devices'[d].status = devices[d].status
           \/ /\ devices'[d].polled = 0 /\ devices'[d].gen = 0 /\ devices'[d].status = Blank.status
              /\ \A r \in Runs : polls[r][d].out \in Pending => polls'[r][d].raced,
         metrics' \subseteq metrics, traffic' \subseteq traffic,
         \A m \in metrics \ metrics' : devices'[m.dev].gen = 0
  PROVE  OutcomeInv'
<1>1. OtherRunsKeep(0) /\ ChangeIsSeen(0) /\ Onward
  BY DEF OtherRunsKeep, ChangeIsSeen, Onward
<1>2. \A v \in Workers : SessionPolls(sess'[v], polls') /\ CopyHasStatus(sess'[v], polls', devices')
  BY <1>1, SessionKept
<1>3. PendingIsDue'
  <2>1. DuePolls' = DuePolls
    BY DEF DuePolls, Concerns
  <2> QED BY <2>1 DEF OutcomeInv, PendingIsDue
<1>t. runs \in Nat /\ runs' = runs /\ runs' \in Nat /\ runs <= runs' /\ created \in Nat
  <2>1. runs \in Nat /\ created \in Nat
    BY OutcomeTypes
  <2>2. runs' = runs
    OBVIOUS
  <2> QED BY <2>1, <2>2
<1>4. PollStarts'
  BY <1>t, StartsKept
<1>5. SampleHasPoll'
  <2>1. \A r \in Runs, d \in Ids :
          /\ polls'[r][d].gen = polls[r][d].gen
          /\ MayBeNoted(polls[r][d]) => MayBeNoted(polls'[r][d])
          /\ polls[r][d].out = "success" => polls'[r][d].out = "success"
    BY DEF MayBeNoted, Noted
  <2>2. metrics' \ metrics = {} /\ traffic' \ traffic = {}
    OBVIOUS
  <2> QED BY <2>1, <2>2, SamplesKept
<1>6. TickRuns'
  <2>1. \A t \in Ticks, d \in Ids : last[t].run # 0 =>
          polls'[last[t].run][d].out = polls[last[t].run][d].out
    BY OutcomeTypes
  <2>2. \A t \in Ticks : sess[t].run # 0 => last[t].how = "none"
    BY DEF OutcomeInv, TickRuns
  <2>3. \A t \in Ticks : last[t].how = "done" => last[t].run # 0
    BY DEF OutcomeInv, TickRuns
  <2> QED BY <1>t, <2>1, <2>2, <2>3, RunsKept
<1>7. RowsTell' /\ StatusMatchesPoll'
  <2>1. \A d \in Ids : \/ /\ devices'[d].polled = 0
                          /\ devices'[d].gen = 0 => devices'[d].status = Blank.status
                       \/ /\ devices'[d].polled = devices[d].polled
                          /\ devices'[d].status = devices[d].status
                          /\ devices'[d].gen = devices[d].gen
    <3> TAKE d \in Ids
    <3>1. devices'[d].gen > created => devices'[d].gen # 0
      BY <1>t
    <3> QED BY <3>1
  <2> QED BY <1>1, <1>t, <2>1, StatusKept
<1>8. PollHasSample'
  <2>1. \A d \in Ids : devices'[d].gen \in {0, devices[d].gen} \/ devices'[d].gen > created
    OBVIOUS
  <2>2. \A r \in Runs, d \in Ids : Noted(polls'[r][d]) => polls'[r][d].gen = polls[r][d].gen /\ Noted(polls[r][d])
    BY DEF Noted
  <2> QED BY <2>1, <2>2, RecordKept
<1> QED BY <1>2, <1>3, <1>4, <1>5, <1>6, <1>7, <1>8 DEF OutcomeInv

\* A set of numbers that is not empty has a least one.
LEMMA LeastNumber ==
  ASSUME NEW S \in SUBSET Nat, S # {}
  PROVE  \E m \in S : \A n \in S : m <= n
<1> DEFINE R == {ss \in Nat \X Nat : ss[1] < ss[2]}
<1>1. IsWellFoundedOn(R, Nat)
  BY NatLessThanWellFounded DEF OpToRel
<1>2. \E x \in S : \A y \in S : ~(<<y, x>> \in R)
  <2> HIDE DEF R
  <2> QED BY <1>1, WFMin
<1>3. PICK x \in S : \A y \in S : ~(<<y, x>> \in R)
  BY <1>2
<1>4. \A y \in S : ~(y < x)
  BY <1>3
<1> QED BY <1>4

\* The id of a new device is that of a row which is not there.
LEMMA NewIdFree ==
  ASSUME TypeInv, LedgerInv, IsMySQL => CascadeInv, NextId \in Ids
  PROVE  devices[NextId].gen = 0
<1>1. CASE IsMySQL
  <2>1. created \in Nat /\ NextId = created + 1 /\ NextId > created
    BY <1>1, OutcomeTypes DEF NextId
  <2> QED BY <1>1, <2>1 DEF CascadeInv, GivenOnce
<1>2. CASE ~IsMySQL
  <2> DEFINE Above == {n \in 1 .. MaxId + 1 : \A d \in Live : d < n}
  <2>1. MaxId + 1 \in Above
    BY BoundsAssumption DEF Live, Ids
  <2>2. PICK m \in Above : \A n \in Above : m <= n
    <3>1. Above \in SUBSET Nat /\ Above # {}
      BY <2>1
    <3> HIDE DEF Above
    <3> QED BY <3>1, LeastNumber
  <2>3. m = 1 \/ m - 1 \in Live
    <3> SUFFICES ASSUME m # 1, m - 1 \notin Live PROVE FALSE
      OBVIOUS
    <3>1. m - 1 \in 1 .. MaxId + 1
      BY BoundsAssumption
    <3>2. \A d \in Live : d < m - 1
      BY <3>1, BoundsAssumption DEF Live, Ids
    <3>3. m - 1 \in Above
      BY <3>1, <3>2
    <3> QED BY <2>2, <3>3
  <2>4. \E n \in 1 .. MaxId + 1 : (\A d \in Live : d < n) /\ (n = 1 \/ n - 1 \in Live)
    BY <2>3
  <2>5. \A d \in Live : d < NextId
    BY <1>2, <2>4 DEF NextId
  <2> QED BY <2>5 DEF Ids, Live
<1> QED BY <1>1, <1>2

\* The administrator's edits.
LEMMA AdminOutcome ==
  ASSUME TypeInv, LedgerInv, IsMySQL => CascadeInv, OutcomeInv, AdminStep
  PROVE  OutcomeInv'
<1>1. devices \in [Ids -> Row] /\ created \in Nat /\ runs \in Nat /\ \A d \in Ids : devices[d] \in Row
  BY OutcomeTypes DEF TypeInv, TypeOK
<1>b. Blank.gen = 0 /\ Blank.polled = 0
  BY DEF Blank
<1>2. CASE Create
  <2>1. PICK mon, snmp \in BOOLEAN : devices' = [devices EXCEPT ![NextId] =
                        [Blank EXCEPT !.gen = created + 1, !.mon = mon, !.snmp = snmp]]
    BY <1>2 DEF Create
  <2>2. NextId \in Ids /\ created' = created + 1
        /\ UNCHANGED <<metrics, traffic, sess, runs, polls, last>>
    BY <1>2 DEF Create
  <2>3. PICK e \in Ids : e = NextId
    BY <2>2
  <2>4. /\ devices'[e].gen = created + 1 /\ devices'[e].polled = 0 /\ devices'[e].status = Blank.status
        /\ \A d \in Ids : d # e => devices'[d] = devices[d]
    BY <1>1, <2>1, <2>3 DEF Blank
  <2>5. devices[e].gen = 0 /\ devices[e].status = Blank.status
    BY <2>2, <2>3, NewIdFree DEF OutcomeInv, RowsTell
  <2>6. \A d \in Ids :
           \/ devices'[d].gen = devices[d].gen /\ devices'[d].polled = devices[d].polled
              /\ devices'[d].status = devices[d].status
           \/ devices'[d].polled = 0 /\ devices[d].gen = 0 /\ devices'[d].gen > created
              /\ devices'[d].status = devices[d].status
    <3> TAKE d \in Ids
    <3>0. created + 1 > created
      BY <1>1
    <3>1. CASE d = e
      BY <2>4, <2>5, <3>0, <3>1
    <3>2. CASE d # e
      BY <2>4, <3>2
    <3> QED BY <3>1, <3>2
  <2>7. created' \in Nat /\ created <= created'
    BY <1>1, <2>2
  <2> QED BY <2>2, <2>6, <2>7, EditOutcome
<1>3. ASSUME NEW e \in Ids, Patch(e) PROVE OutcomeInv'
  <2>1. UNCHANGED <<created, metrics, traffic, sess, runs, polls, last>>
    BY <1>3 DEF Patch
  <2>2. PICK mon, snmp \in BOOLEAN : devices' = [devices EXCEPT ![e].mon = mon, ![e].snmp = snmp]
    BY <1>3 DEF Patch
  <2>3. /\ devices'[e].gen = devices[e].gen /\ devices'[e].polled = devices[e].polled
        /\ devices'[e].status = devices[e].status
        /\ \A d \in Ids : d # e => devices'[d] = devices[d]
    <3>1. devices[e] \in Row
      BY <1>1
    <3> QED BY <1>1, <2>2, <3>1 DEF Row
  <2>4. \A d \in Ids : devices'[d].gen = devices[d].gen /\ devices'[d].polled = devices[d].polled
                       /\ devices'[d].status = devices[d].status
    BY <2>3
  <2>5. /\ created' \in Nat /\ created <= created'
        /\ metrics' \subseteq metrics /\ traffic' \subseteq traffic
        /\ metrics \ metrics' = {}
    BY <1>1, <2>1
  <2> QED BY <2>1, <2>4, <2>5, EditOutcome
<1>4. ASSUME NEW e \in Ids, Delete(e) PROVE OutcomeInv'
  <2>7. UNCHANGED <<created, sess, runs, last>>
    BY <1>4 DEF Delete
  <2>1. /\ devices' = [devices EXCEPT ![e] = Blank]
        /\ metrics' = IF IsMySQL THEN {m \in metrics : m.dev # e} ELSE metrics
        /\ traffic' = IF IsMySQL THEN {m \in traffic : m.dev # e} ELSE traffic
        /\ polls' = Publish(0, e, "none", "")
    BY <1>4 DEF Delete
  <2>2. devices'[e] = Blank /\ \A d \in Ids : d # e => devices'[d] = devices[d]
    BY <1>1, <2>1
  <2>3. \A r \in Runs, d \in Ids :
          /\ polls'[r][d].out = polls[r][d].out /\ polls'[r][d].gen = polls[r][d].gen
          /\ polls'[r][d].early = polls[r][d].early /\ polls'[r][d].told = polls[r][d].told
          /\ polls[r][d].raced => polls'[r][d].raced
          /\ d = e /\ polls[r][d].out \in Pending => polls'[r][d].raced
    <3> TAKE r \in Runs, d \in Ids
    <3>1. PICK r0, out, status : r0 = 0 /\ out = "none" /\ status = ""
      OBVIOUS
    <3>2. polls' = Publish(r0, e, out, status) /\ r # r0
      BY <2>1, <3>1, OutcomeTypes
    <3> QED BY <3>2, PublishFacts
  <2>4. \A d \in Ids :
           \/ devices'[d].gen = devices[d].gen /\ devices'[d].polled = devices[d].polled
              /\ devices'[d].status = devices[d].status
           \/ /\ devices'[d].polled = 0 /\ devices'[d].gen = 0 /\ devices'[d].status = Blank.status
              /\ \A r \in Runs : polls[r][d].out \in Pending => polls'[r][d].raced
    BY <1>b, <2>2, <2>3
  <2>5. /\ metrics' \subseteq metrics /\ traffic' \subseteq traffic
        /\ \A m \in metrics \ metrics' : devices'[m.dev].gen = 0
    BY <1>b, <2>1, <2>2
  <2>6. created' \in Nat /\ created <= created'
    BY <1>1, <2>7
  <2> QED BY <2>3, <2>4, <2>5, <2>6, <2>7, EditOutcome
<1> QED BY <1>2, <1>3, <1>4 DEF AdminStep

\* A restart loses the polls that are not over, and no record.
LEMMA RestartOutcome ==
  ASSUME TypeInv, LedgerInv, OutcomeInv, Restart
  PROVE  OutcomeInv'
<1>1. /\ sess' = [w \in Workers |-> Idle] /\ UNCHANGED <<devices, created, metrics, traffic, runs, last>>
      /\ polls' = [r \in Runs |-> [d \in Ids |->
           IF polls[r][d].out \in Pending
           THEN [polls[r][d] EXCEPT !.out = "lost"] ELSE polls[r][d]]]
  BY DEF Restart, tables
<1>2. Idle.run = 0 /\ \A v \in Workers : sess'[v] = Idle
  BY <1>1 DEF Idle
<1>3. \A r \in Runs, d \in Ids :
        /\ polls'[r][d].gen = polls[r][d].gen /\ polls'[r][d].early = polls[r][d].early
        /\ polls'[r][d].raced = polls[r][d].raced /\ polls'[r][d].told = polls[r][d].told
        /\ polls'[r][d].out = IF polls[r][d].out \in Pending THEN "lost" ELSE polls[r][d].out
  <2> TAKE r \in Runs, d \in Ids
  <2>1. PICK p \in Poll : p = polls[r][d]
    BY OutcomeTypes
  <2>2. polls'[r][d] = IF p.out \in Pending THEN [p EXCEPT !.out = "lost"] ELSE p
    BY <1>1, <2>1
  <2>3. [p EXCEPT !.out = "lost"].gen = p.gen /\ [p EXCEPT !.out = "lost"].early = p.early
        /\ [p EXCEPT !.out = "lost"].raced = p.raced /\ [p EXCEPT !.out = "lost"].out = "lost"
        /\ [p EXCEPT !.out = "lost"].told = p.told
    BY DEF Poll
  <2> QED BY <2>1, <2>2, <2>3
<1>4. \A v \in Workers : SessionPolls(sess'[v], polls') /\ CopyHasStatus(sess'[v], polls', devices')
  BY <1>2, IdleOutcome
<1>5. PendingIsDue'
  BY <1>3 DEF PendingIsDue, Pending
<1>6. PollStarts'
  <2>1. \A r \in Runs, d \in Ids :
          \/ polls'[r][d].out = polls[r][d].out
          \/ polls'[r][d].out \notin {"none", "queued"} /\ polls[r][d].out # "none"
    BY <1>3 DEF Pending
  <2> QED BY <1>1, <1>3, <2>1, OutcomeTypes, StartsKept
<1>7. SampleHasPoll' /\ PollHasSample'
  <2>1. \A r \in Runs, d \in Ids :
          /\ MayBeNoted(polls[r][d]) => MayBeNoted(polls'[r][d])
          /\ polls[r][d].out = "success" => polls'[r][d].out = "success"
          /\ Noted(polls'[r][d]) => Noted(polls[r][d])
    BY <1>3 DEF MayBeNoted, Noted, Pending
  <2>2. SampleHasPoll'
    BY <1>1, <1>3, <2>1, SamplesKept
  <2>3. PollHasSample'
    BY <1>1, <1>3, <2>1, RecordKept
  <2> QED BY <2>2, <2>3
<1>8. TickRuns'
  <2>1. \A v \in Workers : sess'[v].run = 0
    BY <1>2
  <2>2. \A t \in Ticks, d \in Ids : last[t].run # 0 =>
          \/ polls'[last[t].run][d].out = polls[last[t].run][d].out
          \/ polls'[last[t].run][d].out = "lost"
    BY <1>3, OutcomeTypes
  <2>3. \A t \in Ticks : last[t].how = "done" => last[t].run # 0
    BY DEF OutcomeInv, TickRuns
  <2> QED BY <1>1, <2>1, <2>2, <2>3, OutcomeTypes, WorkerTypes, RunsKept
<1>9. RowsTell' /\ StatusMatchesPoll'
  <2>1. Onward
    BY <1>3 DEF Onward, Pending
  <2> QED BY <1>1, <2>1, OutcomeTypes, StatusKept
<1> QED BY <1>4, <1>5, <1>6, <1>7, <1>8, <1>9 DEF OutcomeInv

-----------------------------------------------------------------------------
\* The invariant and what it says

\* At first nothing was polled and nothing is told.
LEMMA InitOutcome == Init => OutcomeInv
<1> SUFFICES ASSUME Init PROVE OutcomeInv
  OBVIOUS
<1>1. /\ (\A w \in Workers : sess[w] = Idle) /\ runs = 0 /\ created = 0 /\ metrics = {} /\ traffic = {}
      /\ devices = NoRows /\ \A r \in Runs, d \in Ids : polls[r][d] = NoPoll
  BY DEF Init
<1>2. \A t \in Ticks : last[t].how = "none" /\ last[t].run = 0 /\ sess[t].run = 0
  <2>1. \A t \in Ticks : last[t] = [how |-> "none", run |-> 0]
    BY DEF Init
  <2>2. Idle.run = 0
    BY DEF Idle
  <2> QED BY <1>1, <2>1, <2>2, WorkerTypes
<1>3. NoPoll.out = "none" /\ NoPoll.gen = 0 /\ ~NoPoll.early
  BY DEF NoPoll
<1>4. \A d \in Ids : devices[d] = Blank /\ Blank.gen = 0 /\ Blank.polled = 0
  BY <1>1 DEF NoRows, Blank
<1>5. \A w \in Workers : SessionPolls(sess[w], polls) /\ CopyHasStatus(sess[w], polls, devices)
  BY <1>1, IdleOutcome
<1>6. PendingIsDue /\ PollStarts /\ SampleHasPoll
  <2>1. PollStarts
    BY <1>1, <1>3 DEF PollStarts
  <2>2. PendingIsDue
    BY <1>1, <1>3 DEF PendingIsDue, Pending
  <2> QED BY <1>1, <2>1, <2>2 DEF SampleHasPoll
<1>7. TickRuns
  BY <1>1, <1>2 DEF TickRuns
<1>8. RowsTell /\ PollHasSample /\ StatusMatchesPoll
  <2>1. \A d \in Ids : devices[d].gen = 0 /\ devices[d].polled = 0 /\ devices[d].status = Blank.status
    BY <1>4
  <2>2. RowsTell
    BY <1>1, <2>1 DEF RowsTell
  <2>3. PollHasSample
    BY <2>1 DEF PollHasSample
  <2>4. StatusMatchesPoll
    BY <2>1 DEF StatusMatchesPoll, Live
  <2> QED BY <2>2, <2>3, <2>4
<1> QED BY <1>5, <1>6, <1>7, <1>8 DEF OutcomeInv

\* Every step keeps what is told of the polls true.
LEMMA NextOutcome ==
  ASSUME TypeInv, LedgerInv, IsMySQL => CascadeInv, OutcomeInv, [Next]_vars
  PROVE  OutcomeInv'
<1>1. ASSUME NEW t \in Ticks, TickStart(t) \/ TickStep(t) PROVE OutcomeInv'
  BY <1>1, TickStartOutcome, TickStepOutcome
<1>2. ASSUME NEW q \in Requests, NEW d \in Ids, PollRequest(q, d) \/ DiscoverRequest(q, d) \/ SnmpRequest(q, d)
      PROVE  OutcomeInv'
  BY <1>2, RequestOutcome
<1>3. ASSUME NEW w \in Workers, CollectStep(w) PROVE OutcomeInv'
  BY <1>3, CollectStepOutcome
<1>6. ASSUME NEW q \in Requests, TestStep(q) PROVE OutcomeInv'
  BY <1>6, TestStepOutcome
<1>7. ASSUME NEW q \in Requests, NEW chosen \in SUBSET Ids, TestRequest(q, chosen) PROVE OutcomeInv'
  BY <1>7, TestRequestOutcome
<1>4. CASE AdminStep \/ Restart
  BY <1>4, AdminOutcome, RestartOutcome
<1>5. CASE UNCHANGED vars
  <2>1. UNCHANGED <<devices, created, metrics, traffic, runs, sess, polls, last>>
    BY <1>5 DEF vars, tables, observed
  <2>2. PendingIsDue' /\ PollStarts' /\ SampleHasPoll' /\ TickRuns' /\ RowsTell'
    BY <2>1 DEF OutcomeInv, PendingIsDue, PollStarts, SampleHasPoll, TickRuns, RowsTell, DuePolls, Concerns
  <2>3. PollHasSample' /\ StatusMatchesPoll'
    BY <2>1 DEF OutcomeInv, PollHasSample, Noted, StatusMatchesPoll, Live
  <2>4. \A w \in Workers : SessionPolls(sess'[w], polls') /\ CopyHasStatus(sess'[w], polls', devices')
    BY <2>1 DEF OutcomeInv
  <2> QED BY <2>2, <2>3, <2>4 DEF OutcomeInv
<1> QED BY <1>1, <1>2, <1>3, <1>4, <1>5, <1>6, <1>7 DEF Next

\* The invariant holds on both databases.
LEMMA OutcomeInvariant == Spec => []OutcomeInv
<1>1. TypeInv /\ LedgerInv /\ (IsMySQL => CascadeInv) /\ OutcomeInv /\ [Next]_vars => OutcomeInv'
  BY NextOutcome
<1>2. TypeInv /\ LedgerInv /\ (IsMySQL => CascadeInv) /\ [Next]_vars => LedgerInv'
  BY NextLedger DEF LedgerStep
<1>3. Init => LedgerInv
  BY InitLedger
<1> QED BY <1>1, <1>2, <1>3, InitOutcome, TypeCorrect, CascadeInvariant, PTL DEF Spec

\* As long as a device exists, each poll of it that succeeded has its metric sample,
\* and its samples are those of polls that succeeded, that the handler of a tick marked
\* as failed, that a test swallowed, or that got through the commit of discover_ports;
\* its traffic is that of polls which succeeded.
THEOREM SamplesTellOutcomes == Spec => []SamplesMatchOutcomes
<1>1. TypeInv /\ OutcomeInv => SamplesMatchOutcomes
  <2> SUFFICES ASSUME TypeInv, OutcomeInv, NEW r \in Runs, NEW d \in Ids, devices[d].gen # 0,
                      polls[r][d].gen = devices[d].gen
               PROVE  LET mine == [dev |-> d, gen |-> polls[r][d].gen, run |-> r]
                      IN /\ polls[r][d].out = "success" => mine \in metrics
                         /\ mine \in metrics => MayBeNoted(polls[r][d])
                         /\ mine \in traffic => polls[r][d].out = "success"
    BY DEF SamplesMatchOutcomes, MayBeNoted, Noted, Live
  <2>1. PICK mine : mine = [dev |-> d, gen |-> polls[r][d].gen, run |-> r]
    OBVIOUS
  <2>2. mine.dev = d /\ mine.run = r
    BY <2>1
  <2>3. polls[r][d].out = "success" => mine \in metrics
    BY <2>1 DEF OutcomeInv, PollHasSample, Noted
  <2>4. mine \in metrics => MayBeNoted(polls[r][d])
    BY <2>2 DEF OutcomeInv, SampleHasPoll
  <2>5. mine \in traffic => polls[r][d].out = "success"
    BY <2>2 DEF OutcomeInv, SampleHasPoll
  <2> QED BY <2>1, <2>3, <2>4, <2>5
<1> QED BY <1>1, OutcomeInvariant, TypeCorrect, PTL

\* The status and the time of a device come from the same poll, unless another poll
\* of it committed, or it was deleted, during that poll.
THEOREM StatusIsThePolls == Spec => []StatusMatchesPoll
<1>1. OutcomeInv => StatusMatchesPoll
  BY DEF OutcomeInv
<1> QED BY <1>1, OutcomeInvariant, PTL

\* A tick that ran to its end settled every poll it announced: none is left over,
\* and none was given up.
THEOREM DoneTicksSettle == Spec => []DoneMeansAllSettled
<1>1. TypeInv /\ OutcomeInv => DoneMeansAllSettled
  <2> SUFFICES ASSUME TypeInv, OutcomeInv, NEW t \in Ticks, last[t].how = "done", NEW d \in Ids
               PROVE  polls[last[t].run][d].out \in {"none", "success", "marked", "skipped", "lost"}
    BY DEF DoneMeansAllSettled
  <2> DEFINE r == last[t].run
  <2>1. /\ r # 0 /\ r \in Runs /\ polls[r][d].out \notin {"aborted", "told", "swallowed"} /\ sess[t].run = 0
        /\ \A v \in Workers : sess[v].run = r => v = t
    BY OutcomeTypes DEF OutcomeInv, TickRuns
  <2>2. <<r, d>> \notin DuePolls
    BY <2>1, WorkerTypes DEF DuePolls
  <2>3. polls[r][d].out \notin Pending
    BY <2>1, <2>2 DEF OutcomeInv, PendingIsDue
  <2>4. polls[r][d].out \in Outcome
    BY <2>1, OutcomeTypes DEF Poll
  <2> QED BY <2>1, <2>3, <2>4 DEF Outcome, Pending
<1> QED BY <1>1, OutcomeInvariant, TypeCorrect, PTL

=============================================================================
