----------------------------- MODULE JobsProofs -----------------------------
(***************************************************************************)
(* What the device and job handlers keep true, proved for any number of     *)
(* workers, devices, jobs and restarts: the types, that a job which runs    *)
(* has an owner, that a job refers to its device on MySQL, and that the     *)
(* inventory file catches up with the devices.                              *)
(***************************************************************************)
EXTENDS Jobs, FiniteSetTheorems, WellFoundedInduction, TLAPS

-----------------------------------------------------------------------------
\* The invariants

\* Where a job of the request is running.
Working == {"prepare", "run", "finish", "snmpread", "snmpsave"}

\* What a request is at its place: a change of a device has no job and tests nothing,
\* only a bulk test has more than one device, a job that runs is one.
RequestFits(r) ==
  /\ r.pc = "idle" => r = Idle
  /\ r.kind \in {"create", "patch", "delete"} =>
       r.pc \in {"sync", "write", "delete"} /\ ~r.snap /\ r.todo = {} /\ r.job = 0
  /\ r.pc = "delete" => r.kind = "delete"
  /\ r.pc # "idle" => r.cur \in Ids \/ (r.kind = "delete" /\ r.cur = 0 /\ r.gen = 0)
  /\ r.pc = "delete" => r.cur \in Ids
  /\ r.cur \notin r.todo
  /\ r.kind # "test" => r.todo = {}
  /\ 0 \notin r.view /\ 0 \notin r.hosts
  /\ r.pc \in Working => r.job # 0
  /\ r.loaded => r.gen # 0

\* The table of jobs: those that were asked for, numbered in their order.
Used == {j \in JobIds : jobs[j].status # "none"}

JobFits(j) ==
  /\ j.epoch <= epoch
  /\ j.status # "none" => j.gen # 0
  /\ j.status = "none" => j = NoJob

\* The jobs a request may still insert: two for a device ahead of a test, fewer
\* for the one at hand.
Coming(r) ==
  IF r.pc \in {"sync", "write", "job"} /\ r.kind \notin {"create", "patch", "delete"} THEN {1, 2}
  ELSE IF r.pc \in {"prepare", "run", "finish", "after", "snmp"} THEN {1}
  ELSE {}

Owes(r) == {x \in Ids \X {1, 2} : x[1] \in r.todo \/ (x[1] = r.cur /\ x[2] \in Coming(r))}

Owed == {y \in Requests \X (Ids \X {1, 2}) : y[2] \in Owes(req[y[1]])}

\* There is room for them.
Room ==
  /\ IsFiniteSet(Owed)
  /\ \E n \in 0 .. MaxJobs : Used = 1 .. n /\ n + Cardinality(Owed) + budget <= MaxJobs

TypeInv ==
  /\ TypeOK
  /\ \A w \in Requests : RequestFits(req[w])
  /\ \A j \in JobIds : JobFits(jobs[j])
  /\ \A w \in Requests : req[w].job # 0 => req[w].job \in Used
  /\ Room

\* Devices are numbered as they are created, on MySQL by their ids, too.
Numbered ==
  \A d \in Ids : devices[d].gen <= created /\ (IsMySQL => devices[d].gen \in {0, d})

\* The device a request says it has is there, or was deleted.
Known(r, devs, gone) == r.gen \in gone \cup {0} \/ (r.cur \in Ids /\ r.gen = devs[r.cur].gen)

\* So it is with the device of a job that runs; any other job of a request has ended.
JobKnown(r, devs, table, gone) ==
  IF r.pc \in Working
  THEN table[r.job].gen \in gone \/ table[r.job].gen = devs[r.cur].gen
  ELSE r.job # 0 => table[r.job].status # "running"

OwnerInv ==
  /\ TypeInv /\ Numbered
  /\ \A w \in Requests : Known(req[w], devices, deleted) /\ JobKnown(req[w], devices, jobs, deleted)
  /\ RunningHasOwner

\* On MySQL the device of a job, and the one at hand, has the number of its id.
DeviceInv ==
  /\ \A w \in Requests : req[w].gen \in {0, req[w].cur}
  /\ \A j \in JobIds : jobs[j].dev # 0 => jobs[j].gen = jobs[j].dev
  /\ JobsHaveTheirDevice

\* The inventory, complete.
Complete == [ok |-> TRUE, hosts |-> Enabled]

\* A request that nobody disturbed sees the devices as they are ...
Seen(w) ==
  clean[w] \/ ~behind =>
    /\ req[w].pc = "sync" /\ req[w].snap => req[w].view = Enabled
    /\ req[w].pc = "write" => req[w].hosts = Enabled /\ file = NoFile

\* ... and finds the file as it wrote it.
Finds(w) ==
  clean[w] =>
    /\ req[w].pc \in {"job", "prepare", "run"} => file = Complete
    /\ req[w].pc = "finish" => req[w].read = Complete

\* The handler of a change will not find its device any more.
Lost(w) == req[w].pc = "sync" /\ req[w].kind \in {"create", "patch"} /\ ~Gets(w)

\* The file is behind the devices only while somebody is about to rewrite it, or
\* writers met; and nobody who is about to fails to, unless writers met.
FileInv ==
  /\ \A w \in Requests : Seen(w) /\ Finds(w)
  /\ ~behind => file = Complete \/ \E w \in Requests : Syncing(w)
  /\ \A w \in Requests : Lost(w) => behind

-----------------------------------------------------------------------------
\* Least numbers

\* A set of numbers that is not empty has a least one.
LEMMA LeastNumber ==
  ASSUME NEW S \in SUBSET Nat, S # {}
  PROVE  \E m \in S : \A n \in S : m <= n
<1> DEFINE R == {ss \in Nat \X Nat : ss[1] < ss[2]}
<1>1. IsWellFoundedOn(R, Nat)
  BY NatLessThanWellFounded DEF OpToRel
<1>2. \E x \in S : \A y \in S : ~(<<y, x>> \in R)
  <2> HIDE DEF R
  <2> QED BY <1>1, WFMin
<1>3. PICK x \in S : \A y \in S : ~(<<y, x>> \in R)
  BY <1>2
<1>4. \A y \in S : ~(y < x)
  BY <1>3
<1> QED BY <1>4

\* The devices of a test are taken in the order of their ids.
LEMMA FirstDevice ==
  ASSUME NEW D \in SUBSET Ids, D # {}
  PROVE  (CHOOSE e \in D : \A f \in D : e <= f) \in D
<1>1. \E e \in D : \A f \in D : e <= f
  BY LeastNumber DEF Ids
<1> QED BY <1>1

\* The id of a new device is free.
LEMMA NewIdFree ==
  ASSUME TypeOK, Numbered, created < MaxGen, NextId \in Ids
  PROVE  NextId \notin Live
<1>1. CASE IsMySQL
  <2>1. SUFFICES ASSUME NextId \in Live PROVE FALSE
    OBVIOUS
  <2>2. NextId = created + 1 /\ devices[NextId].gen <= created /\ devices[NextId].gen \in {0, NextId}
    BY <1>1 DEF NextId, Numbered
  <2>3. devices[NextId].gen # 0 /\ created \in Nat
    BY <2>1, JobBounds DEF Live, TypeOK, Gens
  <2> QED BY <2>2, <2>3
<1>2. CASE ~IsMySQL
  <2> DEFINE Above == {n \in 1 .. MaxId + 1 : \A d \in Live : d < n}
  <2>1. MaxId + 1 \in Above
    BY JobBounds DEF Live, Ids
  <2>2. PICK m \in Above : \A n \in Above : m <= n
    <3>1. Above \in SUBSET Nat /\ Above # {}
      BY <2>1
    <3> HIDE DEF Above
    <3> QED BY <3>1, LeastNumber
  <2>3. m = 1 \/ m - 1 \in Live
    <3>1. SUFFICES ASSUME m # 1, m - 1 \notin Live PROVE FALSE
      OBVIOUS
    <3>2. m - 1 \in 1 .. MaxId + 1
      BY <3>1, JobBounds
    <3>3. \A d \in Live : d < m - 1
      BY <3>1, <3>2, JobBounds DEF Live, Ids
    <3>4. m - 1 \in Above
      BY <3>2, <3>3
    <3> QED BY <2>2, <3>4
  <2>4. \E n \in 1 .. MaxId + 1 : (\A d \in Live : d < n) /\ (n = 1 \/ n - 1 \in Live)
    BY <2>3
  <2>5. \A d \in Live : d < NextId
    BY <1>2, <2>4 DEF NextId
  <2> QED BY <2>5 DEF Ids, Live
<1> QED BY <1>1, <1>2

-----------------------------------------------------------------------------
\* What is still owed

\* A request that starts nothing new owes nothing new.
LEMMA OwedShrinks ==
  ASSUME TypeOK, NEW w \in Requests, NEW n, req' = [req EXCEPT ![w] = n], Owes(n) \subseteq Owes(req[w])
  PROVE  Owed' \subseteq Owed
<1>1. \A v \in Requests : Owes(req'[v]) \subseteq Owes(req[v])
  BY DEF TypeOK
<1> QED BY <1>1 DEF Owed, Owes

\* So there is room for it as long as the jobs stay.
LEMMA RoomKept ==
  ASSUME Room, Owed' \subseteq Owed, Used' = Used, budget' = budget, budget \in Nat
  PROVE  Room'
<1>1. IsFiniteSet(Owed') /\ Cardinality(Owed') <= Cardinality(Owed)
  BY FS_Subset DEF Room
<1>2. Cardinality(Owed') \in Nat /\ Cardinality(Owed) \in Nat
  BY <1>1, FS_CardinalityType DEF Room
<1>3. PICK n \in 0 .. MaxJobs : Used = 1 .. n /\ n + Cardinality(Owed) + budget <= MaxJobs
  BY DEF Room
<1>4. n + Cardinality(Owed') + budget' <= MaxJobs
  BY <1>1, <1>2, <1>3, JobBounds
<1> QED BY <1>1, <1>3, <1>4 DEF Room

-----------------------------------------------------------------------------
\* Where a request goes

LEMMA IdleFits ==
  Idle \in Request /\ RequestFits(Idle) /\ Owes(Idle) = {}
<1>1. Idle \in Request
  BY JobBounds DEF Idle, Request, NoFile, Gens
<1>2. RequestFits(Idle)
  BY DEF Idle, RequestFits, Working
<1>3. Owes(Idle) = {}
  BY DEF Idle, Owes, Coming
<1> QED BY <1>1, <1>2, <1>3

\* Enabled devices exist.
LEMMA EnabledTyped ==
  ASSUME TypeOK
  PROVE  Enabled \subseteq Gens /\ 0 \notin Enabled
BY DEF TypeOK, Enabled, Live, Row

\* A request that starts to view the devices.
LEMMA ViewingFits ==
  ASSUME TypeOK
  PROVE  LET v == Viewing(Idle)
         IN v \in Request /\ 0 \notin v.view /\ v.hosts = {} /\ v.job = 0 /\ v.kind = "test" /\ ~v.loaded
<1>1. CASE IsMySQL
  <2>1. Viewing(Idle) = [Idle EXCEPT !.snap = TRUE, !.view = Enabled]
    BY <1>1 DEF Viewing
  <2>2. Viewing(Idle) \in Request
    BY <2>1, IdleFits, EnabledTyped DEF Request
  <2>3. /\ 0 \notin Viewing(Idle).view /\ Viewing(Idle).hosts = {} /\ Viewing(Idle).job = 0
        /\ Viewing(Idle).kind = "test" /\ ~Viewing(Idle).loaded
    BY <2>1, EnabledTyped DEF Idle
  <2> QED BY <2>2, <2>3
<1>2. CASE ~IsMySQL
  BY <1>2, IdleFits DEF Viewing, Idle
<1> QED BY <1>1, <1>2

\* A test that takes the next device owes nothing for the one it is done with.
LEMMA NextDeviceFits ==
  ASSUME TypeOK, NEW w \in Requests, RequestFits(req[w]), req[w].pc # "idle", NEW n, n = NextDevice(w)
  PROVE  /\ n \in Request /\ RequestFits(n) /\ Owes(n) \subseteq Owes(req[w]) /\ n.job = 0
         /\ n.pc \in {"idle", "sync"} /\ n.kind = "test" /\ ~n.loaded
         /\ n.gen = 0 \/ (n.cur \in Ids /\ n.gen = devices[n.cur].gen)
<1> DEFINE r == req[w]
           d == CHOOSE e \in r.todo : \A f \in r.todo : e <= f
<1>1. CASE r.todo = {}
  <2>1. n = Idle
    BY <1>1 DEF NextDevice
  <2>2. n.job = 0 /\ n.pc = "idle" /\ n.kind = "test" /\ ~n.loaded /\ n.gen = 0
    BY <2>1 DEF Idle
  <2> QED BY <2>1, <2>2, IdleFits
<1>2. CASE r.todo # {}
  <2>1. d \in r.todo /\ r.todo \subseteq Ids /\ r \in Request
    BY <1>2, FirstDevice DEF TypeOK, Request
  <2>2. d \in Ids /\ devices[d].gen \in Gens
    BY <2>1 DEF TypeOK, Row
  <2> HIDE DEF d
  <2>3. n = [Viewing(Idle) EXCEPT !.pc = "sync", !.cur = d, !.gen = devices[d].gen, !.todo = r.todo \ {d}]
    BY <1>2 DEF NextDevice, d
  <2>4. n \in Request
    <3>1. d \in 0 .. MaxId /\ r.todo \ {d} \in SUBSET Ids
      BY <2>1, <2>2 DEF Ids
    <3> QED BY <2>2, <2>3, <3>1, ViewingFits DEF Request
  <2>5. 0 \notin n.view
    BY <2>3, ViewingFits DEF Request
  <2>6. /\ n.pc = "sync" /\ n.kind = "test" /\ n.job = 0 /\ ~n.loaded /\ n.cur = d
        /\ n.gen = devices[d].gen /\ n.todo = r.todo \ {d} /\ n.hosts = {}
    BY <2>3, ViewingFits DEF Request
  <2>7. RequestFits(n)
    BY <2>2, <2>5, <2>6 DEF RequestFits, Working
  <2>8. Owes(n) \subseteq Owes(r)
    BY <2>1, <2>6 DEF Owes
  <2> QED BY <2>2, <2>4, <2>6, <2>7, <2>8
<1> QED BY <1>1, <1>2

\* What a request is after the query of the inventory: it has found its device, if
\* its copy was expired and the device is there, or it has learnt nothing.
LEMMA FoundFits ==
  ASSUME TypeInv, NEW w \in Requests, req[w].pc = "sync",
         NEW H, H = (IF req[w].snap THEN req[w].view ELSE Enabled), NEW n, n = Found(w, H)
  PROVE  /\ n \in Request /\ RequestFits(n) /\ Owes(n) \subseteq Owes(req[w])
         /\ n.pc = "write" /\ n.kind = req[w].kind /\ n.cur = req[w].cur /\ n.job = req[w].job
         /\ n.hosts = H /\ n.snap = req[w].snap
         /\ n.gen = req[w].gen \/ (n.cur \in Ids /\ n.gen = devices[n.cur].gen)
<1> DEFINE r == req[w]
           q == [r EXCEPT !.pc = "write", !.hosts = H]
           g == IF r.snap \/ r.cur \notin Live THEN r.gen ELSE devices[r.cur].gen
<1>1. r \in Request /\ RequestFits(r)
  BY DEF TypeInv, TypeOK
<1>2. H \subseteq Gens /\ 0 \notin H
  BY <1>1, EnabledTyped DEF TypeInv, Request, RequestFits
<1>3. /\ q \in Request /\ q.pc = "write" /\ q.hosts = H
      /\ q.kind = r.kind /\ q.cur = r.cur /\ q.gen = r.gen /\ q.todo = r.todo /\ q.loaded = r.loaded
      /\ q.job = r.job /\ q.view = r.view /\ q.snap = r.snap
  BY <1>1, <1>2 DEF Request
<1>4. g \in Gens /\ (g = r.gen \/ (r.cur \in Ids /\ g = devices[r.cur].gen))
  BY <1>1 DEF TypeInv, TypeOK, Request, Row, Live
<1>5. n = IF r.loaded \/ g \notin H THEN q ELSE [q EXCEPT !.gen = g, !.loaded = TRUE]
  BY DEF Found
<1> HIDE DEF q, g
<1>6. /\ n \in Request /\ n.pc = "write" /\ n.hosts = H
      /\ n.kind = r.kind /\ n.cur = r.cur /\ n.todo = r.todo
      /\ n.job = r.job /\ n.view = r.view /\ n.snap = r.snap
      /\ \/ n.gen = r.gen /\ n.loaded = r.loaded
         \/ n.gen = g /\ n.loaded /\ g # 0
  <2>1. CASE r.loaded \/ g \notin H
    BY <1>3, <1>5, <2>1
  <2>2. CASE ~(r.loaded \/ g \notin H)
    <3>1. n = [q EXCEPT !.gen = g, !.loaded = TRUE]
      BY <1>5, <2>2
    <3>2. n \in Request
      BY <1>3, <1>4, <3>1 DEF Request
    <3>3. /\ n.pc = q.pc /\ n.hosts = q.hosts /\ n.kind = q.kind /\ n.cur = q.cur /\ n.todo = q.todo
          /\ n.job = q.job /\ n.view = q.view /\ n.snap = q.snap /\ n.gen = g /\ n.loaded
      BY <1>3, <3>1 DEF Request
    <3>4. g # 0
      BY <1>2, <2>2
    <3> QED BY <1>3, <3>2, <3>3, <3>4
  <2> QED BY <2>1, <2>2
<1>7. RequestFits(n)
  BY <1>1, <1>2, <1>4, <1>6 DEF RequestFits, Working
<1>8. Owes(n) \subseteq Owes(r)
  BY <1>6 DEF Owes, Coming
<1> QED BY <1>4, <1>6, <1>7, <1>8

\* A request that goes on, at the same device, with less to do.
LEMMA GoesOn ==
  ASSUME TypeInv, NEW w \in Requests, NEW n \in Request,
         n.kind = req[w].kind, n.cur = req[w].cur, n.todo = req[w].todo, n.view = req[w].view,
         n.snap = req[w].snap, n.hosts \in {{}, req[w].hosts},
         req[w].pc \notin {"idle", "delete"}, n.pc \notin {"idle", "delete"},
         n.loaded => n.gen # 0, n.pc \in Working => n.job # 0, n.gen \in Gens,
         n.kind \in {"create", "patch", "delete"} => n.pc \in {"sync", "write"} /\ n.job = 0,
         n.cur = 0 => n.gen = req[w].gen
  PROVE  RequestFits(n)
<1>1. RequestFits(req[w])
  BY DEF TypeInv
<1> QED BY <1>1 DEF RequestFits, Working

-----------------------------------------------------------------------------
\* Types

LEMMA TypeInit ==
  ASSUME Init
  PROVE  TypeInv
<1>1. TypeOK
  BY IdleFits, JobBounds DEF Init, TypeOK, Gone, Row, Gens, NoJob, Job, NoFile
<1>2. \A w \in Requests : req[w] = Idle
  BY DEF Init
<1>3. \A w \in Requests : RequestFits(req[w]) /\ req[w].job = 0
  BY <1>2, IdleFits DEF Idle
<1>4. \A j \in JobIds : JobFits(jobs[j])
  BY JobBounds DEF Init, JobFits, NoJob
<1>5. Owed = {} /\ Used = {}
  BY <1>2, IdleFits DEF Owed, Used, Init, NoJob
<1>6. Room
  <2>1. IsFiniteSet(Owed) /\ Cardinality(Owed) = 0
    BY <1>5, FS_EmptySet
  <2>2. 0 \in 0 .. MaxJobs /\ Used = 1 .. 0 /\ 0 + Cardinality(Owed) + budget <= MaxJobs
    BY <1>5, <2>1, JobBounds DEF Init
  <2> QED BY <2>1, <2>2 DEF Room
<1> QED BY <1>1, <1>3, <1>4, <1>6 DEF TypeInv

\* The tables and the file have their types after a step.
TablesTyped ==
  /\ devices' \in [Ids -> Row]
  /\ created' \in Gens
  /\ file' \in [ok : BOOLEAN, hosts : SUBSET Gens]
  /\ edits' \in 0 .. MaxEdits
  /\ deleted' \subseteq Gens
  /\ clean' \in [Requests -> BOOLEAN]
  /\ behind' \in BOOLEAN
  /\ cut' \subseteq JobIds

\* A step of a request that inserts no job.
LEMMA TypeMove ==
  ASSUME TypeInv, NEW w \in Requests, NEW n \in Request, req' = [req EXCEPT ![w] = n],
         RequestFits(n), Owes(n) \subseteq Owes(req[w]), n.job \in {0, req[w].job},
         TablesTyped, budget' = budget, epoch' = epoch,
         jobs' \in [JobIds -> Job],
         \A j \in JobIds : /\ jobs'[j].epoch = jobs[j].epoch /\ jobs'[j].gen = jobs[j].gen
                           /\ jobs[j].status = "none" => jobs'[j] = jobs[j]
                           /\ jobs'[j].status = "none" => jobs[j].status = "none"
  PROVE  TypeInv'
<1>1. TypeOK'
  BY DEF TypeInv, TypeOK, TablesTyped
<1>2. \A v \in Requests : req'[v] = IF v = w THEN n ELSE req[v]
  BY DEF TypeInv, TypeOK
<1>3. \A v \in Requests : RequestFits(req'[v])
  BY <1>2 DEF TypeInv
<1>4. \A j \in JobIds : JobFits(jobs[j])'
  BY DEF TypeInv, JobFits
<1>5. Used' = Used
  BY DEF Used
<1>6. \A v \in Requests : req'[v].job # 0 => req'[v].job \in Used'
  BY <1>2, <1>5 DEF TypeInv
<1>7. Room'
  <2>1. Owed' \subseteq Owed
    BY OwedShrinks DEF TypeInv
  <2>2. budget \in Nat
    BY JobBounds DEF TypeInv, TypeOK
  <2> QED BY <1>5, <2>1, <2>2, RoomKept DEF TypeInv
<1> QED BY <1>1, <1>3, <1>4, <1>6, <1>7 DEF TypeInv

\* A step that ends a request, and changes no job.
LEMMA TypeEnd ==
  ASSUME TypeInv, NEW w \in Requests, End(w), TablesTyped, UNCHANGED <<jobs, budget, epoch>>
  PROVE  TypeInv'
<1>1. req' = [req EXCEPT ![w] = Idle] /\ Idle.job = 0
  BY DEF End, Idle
<1>2. jobs' \in [JobIds -> Job]
  BY DEF TypeInv, TypeOK
<1> QED BY <1>1, <1>2, IdleFits, TypeMove

LEMMA TablesKept ==
  ASSUME TypeInv, UNCHANGED <<devices, created, file, edits, deleted, clean, behind, cut>>
  PROVE  TablesTyped
BY DEF TypeInv, TypeOK, TablesTyped

LEMMA TypeCreate ==
  ASSUME TypeInv, NEW w \in Requests, Create(w)
  PROVE  TypeInv'
<1> DEFINE n == [Idle EXCEPT !.pc = "sync", !.kind = "create", !.cur = NextId, !.gen = created + 1]
<1>1. NextId \in Ids /\ created + 1 \in Gens \ {0}
  BY JobBounds DEF Create, TypeInv, TypeOK, Gens
<1>2. n \in Request
  <2>1. NextId \in 0 .. MaxId
    BY <1>1 DEF Ids
  <2> QED BY <1>1, <2>1, IdleFits DEF Request
<1>3. RequestFits(n) /\ n.job = 0
  BY <1>1 DEF RequestFits, Idle, Working
<1>4. Owes(n) = {}
  BY DEF Idle, Owes, Coming
<1>5. TablesTyped
  <2>1. PICK s \in BOOLEAN : devices' = [devices EXCEPT ![NextId] = [gen |-> created + 1, enabled |-> TRUE, snmp |-> s]]
    BY DEF Create
  <2>2. devices' \in [Ids -> Row]
    BY <1>1, <2>1 DEF TypeInv, TypeOK, Row
  <2> QED BY <1>1, <2>2 DEF TablesTyped, Create, TypeInv, TypeOK
<1>6. jobs' = jobs /\ jobs \in [JobIds -> Job] /\ req' = [req EXCEPT ![w] = n] /\ budget' = budget /\ epoch' = epoch
  BY DEF Create, TypeInv, TypeOK
<1> HIDE DEF n
<1> QED BY <1>2, <1>3, <1>4, <1>5, <1>6, TypeMove

LEMMA TypePatch ==
  ASSUME TypeInv, NEW w \in Requests, NEW d \in Ids, Patch(w, d)
  PROVE  TypeInv'
<1> DEFINE n == [Idle EXCEPT !.pc = "sync", !.kind = "patch", !.cur = d, !.gen = devices[d].gen]
<1>1. d \in 0 .. MaxId /\ devices[d].gen \in Gens \ {0}
  BY DEF Patch, TypeInv, TypeOK, Row, Live, Ids
<1>2. n \in Request
  BY <1>1, IdleFits DEF Request
<1>3. RequestFits(n) /\ n.job = 0
  BY <1>1 DEF RequestFits, Idle, Working
<1>4. Owes(n) = {}
  BY DEF Idle, Owes, Coming
<1>5. TablesTyped
  <2>1. PICK e, s \in BOOLEAN : devices' = [devices EXCEPT ![d].enabled = e, ![d].snmp = s]
    BY DEF Patch
  <2>2. devices' \in [Ids -> Row]
    BY <2>1 DEF TypeInv, TypeOK, Row
  <2>3. edits' \in 0 .. MaxEdits
    BY JobBounds DEF Patch, TypeInv, TypeOK
  <2> QED BY <2>2, <2>3 DEF TablesTyped, Patch, TypeInv, TypeOK
<1>6. jobs' = jobs /\ jobs \in [JobIds -> Job] /\ req' = [req EXCEPT ![w] = n] /\ budget' = budget /\ epoch' = epoch
  BY DEF Patch, TypeInv, TypeOK
<1> HIDE DEF n
<1> QED BY <1>2, <1>3, <1>4, <1>5, <1>6, TypeMove

LEMMA TypeDelete ==
  ASSUME TypeInv, NEW w \in Requests, (\E d \in Ids : DeleteLoad(w, d)) \/ DeleteCommit(w)
  PROVE  TypeInv'
<1>1. ASSUME NEW d \in Ids, DeleteLoad(w, d) PROVE TypeInv'
  <2> DEFINE n == [Idle EXCEPT !.pc = "delete", !.kind = "delete", !.cur = d, !.gen = devices[d].gen,
                               !.seen = {j \in JobIds : jobs[j].dev = d}]
  <2>1. d \in 0 .. MaxId /\ devices[d].gen \in Gens \ {0}
    <3>1. d \in Live
      BY <1>1 DEF DeleteLoad
    <3> QED BY <3>1 DEF TypeInv, TypeOK, Row, Live, Ids
  <2>2. n \in Request
    BY <2>1, IdleFits DEF Request
  <2>3. RequestFits(n) /\ n.job = 0
    BY <2>1 DEF RequestFits, Idle, Working
  <2>4. Owes(n) = {}
    BY DEF Idle, Owes, Coming
  <2>5. TablesTyped
    <3>1. /\ edits < MaxEdits /\ edits' = edits + 1 /\ clean' = [clean EXCEPT ![w] = TRUE]
          /\ UNCHANGED <<devices, created, file, deleted, behind, cut>>
      BY <1>1 DEF DeleteLoad
    <3> QED BY <3>1, JobBounds DEF TablesTyped, TypeInv, TypeOK
  <2>6. jobs' = jobs /\ jobs \in [JobIds -> Job] /\ req' = [req EXCEPT ![w] = n] /\ budget' = budget /\ epoch' = epoch
    BY <1>1 DEF DeleteLoad, TypeInv, TypeOK
  <2> HIDE DEF n
  <2> QED BY <2>2, <2>3, <2>4, <2>5, <2>6, TypeMove
<1>2. ASSUME DeleteCommit(w) PROVE TypeInv'
  <2> DEFINE n == [Idle EXCEPT !.pc = "sync", !.kind = "delete"]
             d == req[w].cur
  <2>1. n \in Request /\ n.job = 0
    BY IdleFits DEF Request, Idle
  <2>2. RequestFits(n)
    BY DEF RequestFits, Idle, Working
  <2>3. Owes(n) = {}
    BY DEF Idle, Owes, Coming
  <2>4. d \in Ids
    BY <1>2 DEF DeleteCommit, TypeInv, RequestFits
  <2>5. TablesTyped
    <3>1. devices' = [devices EXCEPT ![d] = Gone] /\ devices' \in [Ids -> Row]
      <4>1. devices' = [devices EXCEPT ![d] = Gone]
        BY <1>2 DEF DeleteCommit
      <4>2. Gone \in Row
        BY JobBounds DEF Gone, Row, Gens
      <4> QED BY <4>1, <4>2 DEF TypeInv, TypeOK
    <3>2. deleted' \subseteq Gens
      BY <1>2, <2>4 DEF DeleteCommit, TypeInv, TypeOK, Row
    <3> QED BY <1>2, <3>1, <3>2 DEF TablesTyped, DeleteCommit, TypeInv, TypeOK
  <2>6. jobs' = [j \in JobIds |-> IF j \in req[w].seen THEN [jobs[j] EXCEPT !.dev = 0] ELSE jobs[j]]
    BY <1>2 DEF DeleteCommit
  <2>7. \A j \in JobIds : /\ jobs'[j] \in Job /\ jobs'[j].status = jobs[j].status
                          /\ jobs'[j].epoch = jobs[j].epoch /\ jobs'[j].gen = jobs[j].gen
                          /\ jobs[j].status = "none" => jobs'[j] = jobs[j]
    <3> SUFFICES ASSUME NEW j \in JobIds
                 PROVE  /\ jobs'[j] \in Job /\ jobs'[j].status = jobs[j].status
                        /\ jobs'[j].epoch = jobs[j].epoch /\ jobs'[j].gen = jobs[j].gen
                        /\ jobs[j].status = "none" => jobs'[j] = jobs[j]
      OBVIOUS
    <3>1. jobs[j] \in Job /\ 0 \in 0 .. MaxId
      BY JobBounds DEF TypeInv, TypeOK
    <3>2. jobs[j].status = "none" => jobs[j] = NoJob
      BY DEF TypeInv, JobFits
    <3>3. [NoJob EXCEPT !.dev = 0] = NoJob
      BY DEF NoJob
    <3>4. jobs'[j] = jobs[j] \/ jobs'[j] = [jobs[j] EXCEPT !.dev = 0]
      BY <2>6
    <3> QED BY <3>1, <3>2, <3>3, <3>4 DEF Job
  <2>8. jobs' \in [JobIds -> Job]
    BY <2>6, <2>7
  <2>9. req' = [req EXCEPT ![w] = n] /\ budget' = budget /\ epoch' = epoch
    BY <1>2 DEF DeleteCommit
  <2> HIDE DEF n
  <2> QED BY <2>1, <2>2, <2>3, <2>5, <2>7, <2>8, <2>9, TypeMove
<1> QED BY <1>1, <1>2

LEMMA TypeSync ==
  ASSUME TypeInv, NEW w \in Requests, Sync(w)
  PROVE  TypeInv'
<1> DEFINE H == IF req[w].snap THEN req[w].view ELSE Enabled
           n == Found(w, H)
<1>1. n \in Request /\ RequestFits(n) /\ Owes(n) \subseteq Owes(req[w]) /\ n.job = req[w].job
  BY FoundFits DEF Sync
<1>2. TablesTyped
  BY DEF TablesTyped, Sync, Touch, TypeInv, TypeOK, NoFile
<1>3. jobs' = jobs /\ jobs \in [JobIds -> Job] /\ req' = [req EXCEPT ![w] = n] /\ budget' = budget /\ epoch' = epoch
  BY DEF Sync, TypeInv, TypeOK
<1> HIDE DEF n
<1> QED BY <1>1, <1>2, <1>3, TypeMove

LEMMA TypeWrite ==
  ASSUME TypeInv, NEW w \in Requests, Write(w)
  PROVE  TypeInv'
<1> DEFINE r == req[w]
           n == IF r.kind \in {"test", "command"} THEN [r EXCEPT !.pc = "job", !.hosts = {}] ELSE Idle
<1>1. r \in Request /\ r.pc = "write" /\ RequestFits(r)
  BY DEF Write, TypeInv, TypeOK
<1>2. n \in Request /\ RequestFits(n) /\ Owes(n) \subseteq Owes(r) /\ n.job \in {0, r.job}
  <2>1. CASE r.kind \in {"test", "command"}
    <3>1. n = [r EXCEPT !.pc = "job", !.hosts = {}]
      BY <2>1
    <3>2. /\ n \in Request /\ n.pc = "job" /\ n.hosts = {} /\ n.kind = r.kind /\ n.cur = r.cur /\ n.gen = r.gen
          /\ n.todo = r.todo /\ n.loaded = r.loaded /\ n.view = r.view /\ n.snap = r.snap /\ n.job = r.job
      BY <1>1, <3>1 DEF Request
    <3>3. Owes(n) \subseteq Owes(r)
      BY <1>1, <3>2 DEF Owes, Coming
    <3>4. RequestFits(n)
      BY <1>1, <2>1, <3>2 DEF RequestFits, Working
    <3> QED BY <3>2, <3>3, <3>4
  <2>2. CASE r.kind \notin {"test", "command"}
    BY <2>2, IdleFits DEF Idle
  <2> QED BY <2>1, <2>2
<1>3. TablesTyped
  <2>1. file' \in [ok : BOOLEAN, hosts : SUBSET Gens]
    <3>1. file' \in {[ok |-> TRUE, hosts |-> r.hosts], Garbled}
      BY DEF Write
    <3>2. r.hosts \subseteq Gens
      BY <1>1 DEF Request
    <3>3. {0} \subseteq Gens
      BY JobBounds DEF Gens
    <3>4. [ok |-> TRUE, hosts |-> r.hosts] \in [ok : BOOLEAN, hosts : SUBSET Gens]
      BY <3>2
    <3>5. Garbled \in [ok : BOOLEAN, hosts : SUBSET Gens]
      BY <3>3 DEF Garbled
    <3> QED BY <3>1, <3>4, <3>5
  <2> QED BY <2>1 DEF TablesTyped, Write, TypeInv, TypeOK
<1>4. jobs' = jobs /\ jobs \in [JobIds -> Job] /\ req' = [req EXCEPT ![w] = n] /\ budget' = budget /\ epoch' = epoch
  BY DEF Write, TypeInv, TypeOK
<1> HIDE DEF n
<1> QED BY <1>2, <1>3, <1>4, TypeMove

LEMMA DevicesFinite ==
  ASSUME NEW D \in SUBSET Ids
  PROVE  IsFiniteSet(D) /\ Cardinality(D) \in Nat
<1>1. IsFiniteSet(Ids)
  <2>1. 1 \in Int /\ MaxId \in Int
    BY JobBounds
  <2> QED BY <2>1, FS_Interval DEF Ids
<1>2. IsFiniteSet(D)
  BY <1>1, FS_Subset
<1> QED BY <1>2, FS_CardinalityType

\* The new devices of a request are owed two jobs each, as the budget grants.
LEMMA RoomAsked ==
  ASSUME TypeInv, NEW w \in Requests, NEW n, req' = [req EXCEPT ![w] = n], NEW D \in SUBSET Ids,
         Owes(n) \subseteq D \X {1, 2}, 2 * Cardinality(D) <= budget,
         budget' = budget - 2 * Cardinality(D), jobs' = jobs
  PROVE  Room'
<1> DEFINE N == {w} \X (D \X {1, 2})
<1>1. IsFiniteSet(D)
  BY DevicesFinite
<1>2. IsFiniteSet({1, 2}) /\ Cardinality({1, 2}) = 2
  <2>1. IsFiniteSet({1}) /\ Cardinality({1}) = 1
    BY FS_Singleton
  <2>2. IsFiniteSet({1} \cup {2}) /\ Cardinality({1} \cup {2}) = Cardinality({1}) + 1
    BY <2>1, FS_AddElement
  <2>3. {1} \cup {2} = {1, 2}
    OBVIOUS
  <2> QED BY <2>1, <2>2, <2>3
<1>3. IsFiniteSet(N) /\ Cardinality(N) = 2 * Cardinality(D) /\ Cardinality(D) \in Nat
  <2>1. IsFiniteSet(D \X {1, 2}) /\ Cardinality(D \X {1, 2}) = Cardinality(D) * 2
    BY <1>1, <1>2, FS_Product
  <2>2. IsFiniteSet({w}) /\ Cardinality({w}) = 1
    BY FS_Singleton
  <2>3. IsFiniteSet(N) /\ Cardinality(N) = 1 * Cardinality(D \X {1, 2})
    BY <2>1, <2>2, FS_Product
  <2>4. Cardinality(D) \in Nat
    BY <1>1, FS_CardinalityType
  <2> QED BY <2>1, <2>3, <2>4
<1>4. Owed' \subseteq Owed \cup N
  <2>1. \A v \in Requests : Owes(req'[v]) = IF v = w THEN Owes(n) ELSE Owes(req[v])
    BY DEF TypeInv, TypeOK
  <2>2. SUFFICES ASSUME NEW y \in Owed' PROVE y \in Owed \cup N
    OBVIOUS
  <2>3. y \in Requests \X (Ids \X {1, 2}) /\ y[2] \in Owes(req'[y[1]])
    BY <2>2 DEF Owed, Owes, Coming
  <2>4. CASE y[1] = w
    BY <2>1, <2>3, <2>4
  <2>5. CASE y[1] # w
    BY <2>1, <2>3, <2>5 DEF Owed
  <2> QED BY <2>4, <2>5
<1>5. PICK m \in 0 .. MaxJobs : Used = 1 .. m /\ m + Cardinality(Owed) + budget <= MaxJobs
  BY DEF TypeInv, Room
<1>6. IsFiniteSet(Owed) /\ Cardinality(Owed) \in Nat
  BY FS_CardinalityType DEF TypeInv, Room
<1> HIDE DEF N
<1>7. IsFiniteSet(Owed \cup N) /\ Cardinality(Owed \cup N) <= Cardinality(Owed) + Cardinality(N)
  <2>1. /\ IsFiniteSet(Owed \cup N)
        /\ Cardinality(Owed \cup N) = Cardinality(Owed) + Cardinality(N) - Cardinality(Owed \cap N)
    BY <1>3, <1>6, FS_Union
  <2>2. IsFiniteSet(Owed \cap N) /\ Cardinality(Owed \cap N) \in Nat
    BY <1>6, FS_Subset, FS_CardinalityType, Owed \cap N \in SUBSET Owed
  <2> QED BY <1>3, <1>6, <2>1, <2>2
<1>8. IsFiniteSet(Owed') /\ Cardinality(Owed') <= Cardinality(Owed \cup N)
  BY <1>4, <1>7, FS_Subset
<1>9. Cardinality(Owed') \in Nat /\ Cardinality(Owed \cup N) \in Nat
  BY <1>7, <1>8, FS_CardinalityType
<1>10. budget \in Nat
  BY JobBounds DEF TypeInv, TypeOK
<1>11. m + Cardinality(Owed') + budget' <= MaxJobs
  BY <1>3, <1>5, <1>6, <1>7, <1>8, <1>9, <1>10, JobBounds
<1>12. Used' = Used
  BY DEF Used
<1> QED BY <1>5, <1>8, <1>11, <1>12 DEF Room

\* What a request for these devices is at its start.
Asked(kind, D, d) ==
  [Viewing(Idle) EXCEPT !.pc = IF kind = "snmp" THEN "snmp" ELSE "sync", !.kind = kind,
     !.cur = d, !.gen = devices[d].gen, !.todo = D \ {d}, !.loaded = TRUE]

LEMMA AskFits ==
  ASSUME TypeInv, NEW w \in Requests, NEW kind \in {"test", "command", "snmp"}, NEW D \in SUBSET Ids,
         Ask(w, kind, D), NEW d, d = (CHOOSE e \in D : \A f \in D : e <= f)
  PROVE  LET n == Asked(kind, D, d)
         IN /\ req' = [req EXCEPT ![w] = n]
            /\ d \in D /\ devices[d].gen # 0
            /\ n \in Request /\ RequestFits(n) /\ Owes(n) \subseteq D \X {1, 2}
            /\ n.pc \in {"sync", "snmp"} /\ n.kind = kind /\ n.cur = d /\ n.gen = devices[d].gen
            /\ n.job = 0 /\ n.view = Viewing(Idle).view /\ n.snap = Viewing(Idle).snap /\ n.hosts = {}
<1> DEFINE n == Asked(kind, D, d)
<1>1. d \in D /\ D \subseteq Live /\ req' = [req EXCEPT ![w] = n]
  BY FirstDevice DEF Ask, Asked
<1>2. d \in Ids /\ d \in 0 .. MaxId /\ devices[d].gen \in Gens \ {0}
  <2>1. d \in Live
    BY <1>1
  <2> QED BY <2>1 DEF TypeInv, TypeOK, Row, Live, Ids
<1>3. n \in Request
  <2>1. D \ {d} \in SUBSET Ids
    OBVIOUS
  <2> QED BY <1>2, <2>1, ViewingFits DEF TypeInv, Asked, Request
<1>4. /\ n.pc = (IF kind = "snmp" THEN "snmp" ELSE "sync") /\ n.kind = kind /\ n.cur = d /\ n.gen = devices[d].gen
      /\ n.todo = D \ {d} /\ n.loaded = TRUE /\ n.job = 0 /\ n.view = Viewing(Idle).view
      /\ n.snap = Viewing(Idle).snap /\ n.hosts = {} /\ 0 \notin n.view
  BY ViewingFits DEF TypeInv, Asked, Request
<1> HIDE DEF n
<1>5. kind # "test" => D \ {d} = {}
  <2>1. SUFFICES ASSUME D \ {d} # {} PROVE Cardinality(D) > 1
    BY DEF Ask
  <2>2. IsFiniteSet(D) /\ IsFiniteSet(D \ {d})
    BY DevicesFinite, D \ {d} \in SUBSET Ids
  <2>3. Cardinality(D \ {d}) # 0
    BY <2>1, <2>2, FS_EmptySet
  <2>4. Cardinality(D \ {d}) = Cardinality(D) - 1
    BY <1>1, <2>2, FS_RemoveElement
  <2>5. Cardinality(D) \in Nat /\ Cardinality(D \ {d}) \in Nat
    BY <2>2, FS_CardinalityType
  <2> QED BY <2>3, <2>4, <2>5
<1>6. RequestFits(n)
  BY <1>2, <1>4, <1>5 DEF RequestFits, Working
<1>7. Owes(n) \subseteq D \X {1, 2}
  BY <1>1, <1>4 DEF Owes
<1>8. n.pc \in {"sync", "snmp"}
  BY <1>4
<1> QED BY <1>1, <1>2, <1>3, <1>4, <1>6, <1>7, <1>8 DEF n

LEMMA TypeAsk ==
  ASSUME TypeInv, NEW w \in Requests, NEW kind \in {"test", "command", "snmp"}, NEW D \in SUBSET Ids,
         Ask(w, kind, D)
  PROVE  TypeInv'
<1> DEFINE d == CHOOSE e \in D : \A f \in D : e <= f
           n == Asked(kind, D, d)
<1>1. /\ req' = [req EXCEPT ![w] = n] /\ n \in Request /\ RequestFits(n)
      /\ Owes(n) \subseteq D \X {1, 2} /\ n.job = 0
  BY AskFits
<1> HIDE DEF n, d
<1>2. \A v \in Requests : req'[v] = IF v = w THEN n ELSE req[v]
  BY <1>1 DEF TypeInv, TypeOK
<1>3. /\ UNCHANGED <<devices, created, jobs, file, edits, epoch, deleted, behind, cut>>
      /\ 2 * Cardinality(D) <= budget /\ budget' = budget - 2 * Cardinality(D)
      /\ clean' = [clean EXCEPT ![w] = TRUE]
  BY DEF Ask
<1>4. TypeOK'
  <2>1. Cardinality(D) \in Nat
    BY DevicesFinite
  <2>2. budget' \in 0 .. MaxJobs
    BY <1>3, <2>1, JobBounds DEF TypeInv, TypeOK
  <2> QED BY <1>1, <1>3, <2>2 DEF TypeInv, TypeOK
<1>5. Room'
  BY <1>1, <1>3, RoomAsked
<1>6. \A j \in JobIds : JobFits(jobs[j])'
  BY <1>3 DEF TypeInv, JobFits
<1>7. Used' = Used
  BY <1>3 DEF Used
<1> QED BY <1>1, <1>2, <1>4, <1>5, <1>6, <1>7 DEF TypeInv

\* What a request is, and what it made, when it has inserted a job.
Inserted(r, next) == [r EXCEPT !.pc = next, !.job = LastJob, !.loaded = FALSE, !.snap = FALSE, !.view = {}]
NewJob(r) ==
  [status |-> "running", dev |-> r.cur, epoch |-> epoch,
   gen |-> IF r.loaded THEN r.gen ELSE devices[r.cur].gen]

\* A job that is inserted was owed to its request.
LEMMA InsertFits ==
  ASSUME TypeInv, NEW w \in Requests, NEW next,
         \/ req[w].pc = "job" /\ next = "prepare"
         \/ req[w].pc = "snmp" /\ next = "snmpread",
         CanInsert(w), Insert(w, next)
  PROVE  LET r == req[w]
             n == Inserted(r, next)
         IN /\ req' = [req EXCEPT ![w] = n] /\ jobs' = [jobs EXCEPT ![LastJob] = NewJob(r)]
            /\ NewJob(r) \in Job /\ NewJob(r).gen # 0
            /\ n \in Request /\ RequestFits(n)
            /\ n.pc = next /\ n.kind = r.kind /\ n.cur = r.cur /\ n.gen = r.gen /\ n.hosts = r.hosts
            /\ n.job = LastJob /\ r.cur \in Ids
            /\ LastJob \in JobIds \ Used /\ jobs[LastJob] = NoJob
            /\ Used' = Used \cup {LastJob}
            /\ Owed' \subseteq Owed
            /\ \E m \in 0 .. MaxJobs :
                 Used' = 1 .. m /\ m + Cardinality(Owed') + budget <= MaxJobs /\ IsFiniteSet(Owed')
<1> DEFINE r == req[w]
           n == Inserted(r, next)
           e == IF r.pc = "job" THEN 2 ELSE 1
           y == <<w, <<r.cur, e>>>>
<1>1. r \in Request /\ RequestFits(r) /\ r.cur \in Ids
  <2>1. r \in Request /\ RequestFits(r)
    BY DEF TypeInv, TypeOK
  <2> QED BY <2>1 DEF RequestFits
<1>2. r.kind \notin {"create", "patch", "delete"} /\ r.cur \notin r.todo
  BY <1>1 DEF RequestFits
<1>3. y \in Owed
  <2>1. e \in {1, 2} /\ e \in Coming(r)
    BY <1>2 DEF Coming
  <2>2. <<r.cur, e>> \in Owes(r)
    BY <1>1, <2>1 DEF Owes
  <2>3. y \in Requests \X (Ids \X {1, 2}) /\ y[1] = w /\ y[2] = <<r.cur, e>>
    BY <1>1, <2>1
  <2> QED BY <2>2, <2>3 DEF Owed
<1>4. PICK m \in 0 .. MaxJobs : Used = 1 .. m /\ m + Cardinality(Owed) + budget <= MaxJobs
  BY DEF TypeInv, Room
<1>5. IsFiniteSet(Owed) /\ Cardinality(Owed) \in Nat /\ budget \in Nat
  BY FS_CardinalityType, JobBounds DEF TypeInv, TypeOK, Room
<1>6. IsFiniteSet(Owed \ {y}) /\ Cardinality(Owed \ {y}) = Cardinality(Owed) - 1
  BY <1>3, <1>5, FS_RemoveElement
<1>7. Cardinality(Owed \ {y}) \in Nat
  BY <1>6, FS_CardinalityType
<1>8. LastJob = m + 1 /\ m + 1 \in JobIds \ Used
  <2>1. LastJob = Cardinality(Used) + 1
    BY DEF LastJob, Used
  <2>2. 1 \in Int /\ m \in Int /\ Cardinality(1 .. m) = m
    <3>1. 1 \in Int /\ m \in Int
      OBVIOUS
    <3>2. Cardinality(1 .. m) = IF 1 > m THEN 0 ELSE m - 1 + 1
      BY <3>1, FS_Interval
    <3> QED BY <3>1, <3>2
  <2>3. m + 1 \in 1 .. MaxJobs
    BY <1>4, <1>5, <1>6, <1>7, JobBounds
  <2> QED BY <1>4, <2>1, <2>2, <2>3 DEF JobIds
<1>9. jobs[LastJob] = NoJob
  BY <1>8 DEF TypeInv, JobFits, Used
<1>10. req' = [req EXCEPT ![w] = n] /\ jobs' = [jobs EXCEPT ![LastJob] = NewJob(r)]
  BY DEF Insert, Inserted, NewJob, TypeInv, TypeOK
<1>11. NewJob(r) \in Job /\ NewJob(r).gen # 0 /\ NewJob(r).status = "running"
  <2>1. epoch \in 0 .. MaxRestarts /\ r.cur \in 0 .. MaxId /\ r.gen \in Gens /\ devices[r.cur].gen \in Gens
    BY <1>1 DEF TypeInv, TypeOK, Request, Row
  <2>2. r.loaded => r.gen # 0
    BY <1>1 DEF RequestFits
  <2>3. ~r.loaded => devices[r.cur].gen # 0
    BY DEF CanInsert, Gets, Live
  <2> DEFINE g == IF r.loaded THEN r.gen ELSE devices[r.cur].gen
  <2>4. g \in Gens \ {0}
    BY <2>1, <2>2, <2>3
  <2>5. NewJob(r) = [status |-> "running", dev |-> r.cur, epoch |-> epoch, gen |-> g]
    BY DEF NewJob
  <2> HIDE DEF g
  <2> QED BY <2>1, <2>4, <2>5 DEF Job
<1>12. Used' = Used \cup {LastJob} /\ Used' = 1 .. m + 1
  <2>1. \A j \in JobIds : jobs'[j] = IF j = LastJob THEN NewJob(r) ELSE jobs[j]
    BY <1>8, <1>10 DEF TypeInv, TypeOK
  <2>2. Used' = Used \cup {LastJob}
    BY <1>8, <1>11, <2>1 DEF Used
  <2> QED BY <1>4, <1>8, <2>2
<1>13. n \in Request
  <2>1. LastJob \in 0 .. MaxJobs
    BY <1>8, JobBounds DEF JobIds
  <2> QED BY <1>1, <2>1 DEF Inserted, Request
<1>14. /\ n.pc = next /\ n.kind = r.kind /\ n.cur = r.cur /\ n.gen = r.gen /\ n.hosts = r.hosts
       /\ n.job = LastJob /\ n.todo = r.todo /\ n.view = {} /\ n.snap = FALSE /\ n.loaded = FALSE
  BY <1>1 DEF Inserted, Request
<1> HIDE DEF n
<1>15. RequestFits(n)
  <2>1. LastJob # 0
    BY <1>8 DEF JobIds
  <2> QED BY <1>1, <1>2, <1>14, <2>1 DEF RequestFits, Working
<1>16. Owed' \subseteq Owed \ {y}
  <2>1. Owes(n) \subseteq Owes(r) \ {<<r.cur, e>>}
    <3>1. \A x \in Owes(n) : x \in Ids \X {1, 2} /\ (x[1] \in r.todo \/ (x[1] = r.cur /\ x[2] \in Coming(n)))
      BY <1>14 DEF Owes
    <3>2. Coming(n) \subseteq Coming(r) /\ e \notin Coming(n)
      BY <1>2, <1>14 DEF Coming
    <3>3. \A x \in Owes(n) : x \in Owes(r)
      BY <3>1, <3>2 DEF Owes
    <3>4. \A x \in Owes(n) : x # <<r.cur, e>>
      BY <1>2, <3>1, <3>2
    <3> QED BY <3>3, <3>4
  <2>2. Owed' \subseteq Owed
    BY <1>10, <2>1, OwedShrinks DEF TypeInv
  <2>3. y \notin Owed'
    <3>1. req'[w] = n
      BY <1>10 DEF TypeInv, TypeOK
    <3> QED BY <2>1, <3>1 DEF Owed
  <2> QED BY <2>2, <2>3
<1>17. IsFiniteSet(Owed') /\ Cardinality(Owed') <= Cardinality(Owed \ {y})
  BY <1>6, <1>16, FS_Subset
<1>18. Cardinality(Owed') \in Nat
  BY <1>17, FS_CardinalityType
<1>19. m + 1 \in 0 .. MaxJobs /\ m + 1 + Cardinality(Owed') + budget <= MaxJobs
  <2>1. Cardinality(Owed') <= Cardinality(Owed) - 1
    BY <1>6, <1>17
  <2> QED BY <1>4, <1>5, <1>8, <1>18, <2>1, JobBounds DEF JobIds
<1>20. \E k \in 0 .. MaxJobs : Used' = 1 .. k /\ k + Cardinality(Owed') + budget <= MaxJobs /\ IsFiniteSet(Owed')
  BY <1>12, <1>17, <1>19
<1>21. LastJob \in JobIds \ Used /\ Owed' \subseteq Owed
  BY <1>8, <1>16
<1> HIDE DEF r
<1> QED BY <1>1, <1>9, <1>10, <1>11, <1>12, <1>13, <1>14, <1>15, <1>20, <1>21 DEF n, r

LEMMA TypeInsert ==
  ASSUME TypeInv, NEW w \in Requests, NEW next,
         \/ req[w].pc = "job" /\ next = "prepare"
         \/ req[w].pc = "snmp" /\ next = "snmpread",
         CanInsert(w), Insert(w, next),
         UNCHANGED <<devices, created, file, budget, edits, epoch, deleted, clean, behind, cut>>
  PROVE  TypeInv'
<1> DEFINE n == Inserted(req[w], next)
           x == NewJob(req[w])
<1>1. /\ req' = [req EXCEPT ![w] = n] /\ jobs' = [jobs EXCEPT ![LastJob] = x]
      /\ x \in Job /\ x.gen # 0 /\ n \in Request /\ RequestFits(n) /\ n.job = LastJob
      /\ LastJob \in JobIds /\ Used' = Used \cup {LastJob}
      /\ \E m \in 0 .. MaxJobs :
           Used' = 1 .. m /\ m + Cardinality(Owed') + budget <= MaxJobs /\ IsFiniteSet(Owed')
  BY InsertFits
<1>2. x.epoch = epoch /\ x.status = "running"
  BY DEF NewJob
<1> HIDE DEF n, x
<1>3. TypeOK'
  BY <1>1 DEF TypeInv, TypeOK
<1>4. \A v \in Requests : req'[v] = IF v = w THEN n ELSE req[v]
  BY <1>1 DEF TypeInv, TypeOK
<1>5. \A j \in JobIds : jobs'[j] = IF j = LastJob THEN x ELSE jobs[j]
  BY <1>1 DEF TypeInv, TypeOK
<1>6. \A j \in JobIds : JobFits(jobs[j])'
  <2>1. epoch <= epoch
    BY JobBounds DEF TypeInv, TypeOK
  <2> QED BY <1>1, <1>2, <1>5, <2>1 DEF TypeInv, JobFits
<1>7. Room'
  BY <1>1 DEF Room
<1> QED BY <1>1, <1>3, <1>4, <1>6, <1>7 DEF TypeInv

\* The job of a request that ends is one of the table, and only its status changes.
LEMMA SettleFits ==
  ASSUME TypeInv, NEW w \in Requests, req[w].pc \in Working, Settle(w)
  PROVE  /\ req[w].job \in Used
         /\ jobs' \in [JobIds -> Job]
         /\ \A j \in JobIds :
              /\ jobs'[j].epoch = jobs[j].epoch /\ jobs'[j].gen = jobs[j].gen /\ jobs'[j].dev = jobs[j].dev
              /\ jobs[j].status = "none" <=> jobs'[j].status = "none"
              /\ j # req[w].job => jobs'[j] = jobs[j]
         /\ jobs'[req[w].job].status \in {"success", "failed"}
<1> DEFINE k == req[w].job
           s == IF req[w].ok THEN "success" ELSE "failed"
<1>1. k \in Used /\ k \in JobIds
  BY DEF TypeInv, RequestFits, Used
<1>2. jobs' = [jobs EXCEPT ![k].status = s] /\ s \in {"success", "failed"}
  BY DEF Settle
<1>3. jobs[k] \in Job /\ jobs \in [JobIds -> Job]
  BY <1>1 DEF TypeInv, TypeOK
<1>4. jobs[k].status # "none"
  BY <1>1 DEF Used
<1> HIDE DEF k, s
<1>5. \A j \in JobIds : jobs'[j] = IF j = k THEN [jobs[k] EXCEPT !.status = s] ELSE jobs[j]
  BY <1>1, <1>2, <1>3
<1>6. [jobs[k] EXCEPT !.status = s] \in Job
  BY <1>2, <1>3 DEF Job
<1>7. jobs' \in [JobIds -> Job]
  BY <1>1, <1>2, <1>3, <1>6
<1>8. \A j \in JobIds :
        /\ jobs'[j].epoch = jobs[j].epoch /\ jobs'[j].gen = jobs[j].gen /\ jobs'[j].dev = jobs[j].dev
        /\ jobs[j].status = "none" <=> jobs'[j].status = "none"
        /\ j # k => jobs'[j] = jobs[j]
  BY <1>2, <1>3, <1>4, <1>5 DEF Job
<1>9. jobs'[k].status = s
  BY <1>1, <1>3, <1>5 DEF Job
<1> QED BY <1>1, <1>2, <1>7, <1>8, <1>9 DEF k

\* A request that waits, works or has worked for a device, not one that changes devices.
LEMMA AtWork ==
  ASSUME TypeInv, NEW w \in Requests, req[w].pc \notin {"idle", "sync", "write", "delete"}
  PROVE  /\ req[w] \in Request /\ RequestFits(req[w]) /\ req[w].cur \in Ids
         /\ req[w].kind \in {"test", "command", "snmp"}
         /\ devices[req[w].cur].gen \in Gens
<1>1. req[w] \in Request /\ RequestFits(req[w])
  BY DEF TypeInv, TypeOK
<1>2. req[w].kind \in {"test", "command", "snmp"}
  BY <1>1 DEF RequestFits, Request
<1>3. req[w].cur \in Ids
  BY <1>1, <1>2 DEF RequestFits
<1>4. devices[req[w].cur].gen \in Gens
  BY <1>3 DEF TypeInv, TypeOK, Row
<1> QED BY <1>1, <1>2, <1>3, <1>4

\* A request whose job goes on: what changes is its place, what it knows of its
\* device and of its job, and not what it has still to do.
LEMMA TypeProceed ==
  ASSUME TypeInv, NEW w \in Requests, NEW n \in Request,
         req' = [req EXCEPT ![w] = n], TablesTyped, UNCHANGED <<budget, epoch>>,
         \/ jobs' = jobs
         \/ Settle(w) /\ req[w].pc \in Working,
         \/ <<req[w].pc, n.pc>> \in {<<"prepare", "run">>, <<"run", "finish">>, <<"finish", "after">>,
                                     <<"after", "snmp">>, <<"snmpread", "snmpsave">>} /\ n.job = req[w].job
         \/ req[w].pc = "snmpsave" /\ n.pc = "collect" /\ n.job = 0,
         n.kind = req[w].kind, n.cur = req[w].cur, n.todo = req[w].todo, n.view = req[w].view,
         n.snap = req[w].snap, n.hosts = req[w].hosts,
         n.loaded => n.gen # 0
  PROVE  TypeInv'
<1>1. /\ req[w] \in Request /\ RequestFits(req[w]) /\ req[w].cur \in Ids
      /\ req[w].kind \in {"test", "command", "snmp"}
  BY AtWork
<1>2. n.pc \in Working => n.job # 0
  BY <1>1 DEF RequestFits, Working
<1>3. RequestFits(n)
  BY <1>1, <1>2 DEF RequestFits, Working
<1>4. Owes(n) \subseteq Owes(req[w])
  BY DEF Owes, Coming
<1>5. n.job \in {0, req[w].job}
  OBVIOUS
<1>6. /\ jobs' \in [JobIds -> Job]
      /\ \A j \in JobIds : /\ jobs'[j].epoch = jobs[j].epoch /\ jobs'[j].gen = jobs[j].gen
                           /\ jobs[j].status = "none" => jobs'[j] = jobs[j]
                           /\ jobs'[j].status = "none" => jobs[j].status = "none"
  <2>1. CASE jobs' = jobs
    BY <2>1 DEF TypeInv, TypeOK
  <2>2. CASE Settle(w) /\ req[w].pc \in Working
    <3>1. jobs[req[w].job].status # "none"
      BY <2>2, SettleFits DEF Used
    <3> QED BY <2>2, <3>1, SettleFits
  <2> QED BY <2>1, <2>2
<1> QED BY <1>3, <1>4, <1>5, <1>6, TypeMove

\* A request that ends or goes on with the next device.
LEMMA TypeNext ==
  ASSUME TypeInv, NEW w \in Requests, req[w].pc # "idle",
         req' = [req EXCEPT ![w] = NextDevice(w)] \/ End(w),
         TablesTyped, UNCHANGED <<jobs, budget, epoch>>
  PROVE  TypeInv'
<1>1. CASE End(w)
  BY <1>1, TypeEnd
<1>2. CASE req' = [req EXCEPT ![w] = NextDevice(w)]
  <2>1. RequestFits(req[w]) /\ jobs' \in [JobIds -> Job]
    BY DEF TypeInv, TypeOK
  <2>2. NextDevice(w) \in Request /\ RequestFits(NextDevice(w)) /\ Owes(NextDevice(w)) \subseteq Owes(req[w])
        /\ NextDevice(w).job = 0
    BY <2>1, NextDeviceFits DEF TypeInv
  <2> QED BY <1>2, <2>1, <2>2, TypeMove
<1> QED BY <1>1, <1>2

LEMMA TypePlaybook ==
  ASSUME TypeInv, NEW w \in Requests, Prepare(w) \/ Run(w) \/ Finish(w) \/ After(w)
  PROVE  TypeInv'
<1> DEFINE r == req[w]
<1>0. UNCHANGED <<devices, created, file, budget, edits, epoch, deleted, clean, behind, cut>>
  BY DEF Prepare, Run, Finish, After
<1>1. TablesTyped /\ budget' = budget /\ epoch' = epoch
  BY <1>0, TablesKept
<1>2. /\ r \in Request /\ RequestFits(r) /\ r.cur \in Ids /\ devices[r.cur].gen \in Gens
      /\ r.pc \in {"prepare", "run", "finish", "after"}
  <2>1. r.pc \in {"prepare", "run", "finish", "after"}
    BY DEF Prepare, Run, Finish, After
  <2> QED BY <2>1, AtWork
<1>3. ASSUME Prepare(w) PROVE TypeInv'
  <2>1. CASE Gets(w)
    <3> DEFINE n == [r EXCEPT !.pc = "run", !.gen = devices[r.cur].gen]
    <3>1. req' = [req EXCEPT ![w] = n] /\ r.pc = "prepare" /\ jobs' = jobs
      BY <1>3, <2>1 DEF Prepare
    <3>2. /\ n \in Request /\ n.pc = "run" /\ n.job = r.job /\ n.kind = r.kind /\ n.cur = r.cur
          /\ n.todo = r.todo /\ n.view = r.view /\ n.snap = r.snap /\ n.hosts = r.hosts
          /\ n.gen = devices[r.cur].gen
      BY <1>2 DEF Request
    <3>3. n.gen # 0
      BY <2>1, <3>2 DEF Gets, Live
    <3> HIDE DEF n
    <3> QED BY <1>0, <1>1, <3>1, <3>2, <3>3, TypeProceed
  <2>2. CASE ~Gets(w)
    <3>1. End(w) /\ jobs' = jobs
      BY <1>3, <2>2 DEF Prepare, End
    <3> QED BY <1>0, <1>1, <3>1, TypeEnd
  <2> QED BY <2>1, <2>2
<1>4. ASSUME Run(w) PROVE TypeInv'
  <2>1. PICK ok \in {FALSE, file.ok /\ r.gen \in file.hosts} :
          req' = [req EXCEPT ![w].pc = "finish", ![w].ok = ok, ![w].read = file]
    BY <1>4 DEF Run
  <2> DEFINE n == [r EXCEPT !.pc = "finish", !.ok = ok, !.read = file]
  <2>2. req' = [req EXCEPT ![w] = n] /\ r.pc = "run" /\ jobs' = jobs
    BY <1>4, <2>1 DEF Run, TypeInv, TypeOK
  <2>3. file \in [ok : BOOLEAN, hosts : SUBSET Gens]
    BY DEF TypeInv, TypeOK
  <2>4. ok \in BOOLEAN
    BY <2>3
  <2>5. /\ n \in Request /\ n.pc = "finish" /\ n.job = r.job /\ n.kind = r.kind /\ n.cur = r.cur
        /\ n.todo = r.todo /\ n.view = r.view /\ n.snap = r.snap /\ n.hosts = r.hosts
        /\ n.gen = r.gen /\ n.loaded = r.loaded
    BY <1>2, <2>3, <2>4 DEF Request
  <2>6. n.loaded => n.gen # 0
    BY <1>2, <2>5 DEF RequestFits
  <2> HIDE DEF n
  <2> QED BY <1>0, <1>1, <2>2, <2>5, <2>6, TypeProceed
<1>5. ASSUME Finish(w) PROVE TypeInv'
  <2>1. Settle(w) /\ r.pc = "finish" /\ r.pc \in Working
    BY <1>5 DEF Finish, Working
  <2>2. CASE r.kind = "command"
    <3>1. req' = [req EXCEPT ![w] = Idle] /\ Idle.job = 0
      BY <1>5, <2>2 DEF Finish, Idle
    <3>2. jobs[req[w].job].status # "none"
      BY <2>1, SettleFits DEF Used
    <3> QED BY <1>1, <2>1, <3>1, <3>2, SettleFits, IdleFits, TypeMove
  <2>3. CASE r.kind # "command"
    <3> DEFINE n == [r EXCEPT !.pc = "after", !.read = NoFile]
    <3>1. req' = [req EXCEPT ![w] = n]
      BY <1>5, <2>3 DEF Finish
    <3>2. /\ n \in Request /\ n.pc = "after" /\ n.job = r.job /\ n.kind = r.kind /\ n.cur = r.cur
          /\ n.todo = r.todo /\ n.view = r.view /\ n.snap = r.snap /\ n.hosts = r.hosts
          /\ n.gen = r.gen /\ n.loaded = r.loaded
      BY <1>2 DEF Request, NoFile
    <3>3. n.loaded => n.gen # 0
      BY <1>2, <3>2 DEF RequestFits
    <3> HIDE DEF n
    <3> QED BY <1>0, <1>1, <2>1, <3>1, <3>2, <3>3, TypeProceed
  <2> QED BY <2>2, <2>3
<1>6. ASSUME After(w) PROVE TypeInv'
  <2>0. r.pc = "after" /\ jobs' = jobs
    BY <1>6 DEF After
  <2>1. CASE Gets(w) /\ devices[r.cur].snmp /\ r.ok
    <3> DEFINE n == [r EXCEPT !.pc = "snmp", !.gen = devices[r.cur].gen, !.loaded = TRUE]
    <3>1. req' = [req EXCEPT ![w] = n]
      BY <1>6, <2>1 DEF After
    <3>2. /\ n \in Request /\ n.pc = "snmp" /\ n.job = r.job /\ n.kind = r.kind /\ n.cur = r.cur
          /\ n.todo = r.todo /\ n.view = r.view /\ n.snap = r.snap /\ n.hosts = r.hosts
          /\ n.gen = devices[r.cur].gen
      BY <1>2 DEF Request
    <3>3. n.gen # 0
      BY <2>1, <3>2 DEF Gets, Live
    <3> HIDE DEF n
    <3> QED BY <1>0, <1>1, <2>0, <3>1, <3>2, <3>3, TypeProceed
  <2>2. CASE ~(Gets(w) /\ devices[r.cur].snmp /\ r.ok)
    <3>1. req' = [req EXCEPT ![w] = NextDevice(w)] \/ End(w)
      BY <1>6, <2>2 DEF After, End
    <3>2. r.pc # "idle" /\ UNCHANGED <<jobs, budget, epoch>>
      BY <1>0, <2>0
    <3> QED BY <1>1, <3>1, <3>2, TypeNext
  <2> QED BY <2>1, <2>2
<1> QED BY <1>3, <1>4, <1>5, <1>6

\* After an exception.
LEMMA TypeRaise ==
  ASSUME TypeInv, NEW w \in Requests, NEW usable \in BOOLEAN, req[w].pc # "idle", Raise(w, usable),
         TablesTyped, UNCHANGED <<jobs, budget, epoch>>
  PROVE  TypeInv'
<1>1. req' = [req EXCEPT ![w] = NextDevice(w)] \/ End(w)
  BY DEF Raise, End
<1> QED BY <1>1, TypeNext

LEMMA TypePoll ==
  ASSUME TypeInv, NEW w \in Requests, SnmpStart(w) \/ SnmpRead(w) \/ SnmpSave(w) \/ Collect(w)
  PROVE  TypeInv'
<1> DEFINE r == req[w]
<1>0. UNCHANGED <<devices, created, file, budget, edits, epoch, deleted, clean, behind, cut>>
  BY DEF SnmpStart, SnmpRead, SnmpSave, Collect
<1>1. TablesTyped /\ budget' = budget /\ epoch' = epoch
  BY <1>0, TablesKept
<1>2. r.pc \in {"snmp", "snmpread", "snmpsave", "collect"}
  BY DEF SnmpStart, SnmpRead, SnmpSave, Collect
<1>3. /\ r \in Request /\ RequestFits(r) /\ r.cur \in Ids /\ devices[r.cur].gen \in Gens /\ r.pc # "idle"
  BY <1>2, AtWork
<1>4. ASSUME SnmpStart(w) PROVE TypeInv'
  <2>1. CASE CanInsert(w)
    <3>1. Insert(w, "snmpread") /\ r.pc = "snmp"
      BY <1>4, <2>1 DEF SnmpStart
    <3> QED BY <1>0, <2>1, <3>1, TypeInsert
  <2>2. CASE ~CanInsert(w)
    <3>1. Raise(w, FALSE) /\ jobs' = jobs
      BY <1>4, <2>2 DEF SnmpStart
    <3> QED BY <1>1, <1>3, <3>1, TypeRaise
  <2> QED BY <2>1, <2>2
<1>5. ASSUME SnmpRead(w) PROVE TypeInv'
  <2>0. r.pc = "snmpread" /\ jobs' = jobs
    BY <1>5 DEF SnmpRead
  <2>1. CASE Gets(w)
    <3>1. PICK ok \in {FALSE, devices[r.cur].snmp} : req' = [req EXCEPT ![w].pc = "snmpsave", ![w].ok = ok]
      BY <1>5, <2>1 DEF SnmpRead
    <3> DEFINE n == [r EXCEPT !.pc = "snmpsave", !.ok = ok]
    <3>2. req' = [req EXCEPT ![w] = n]
      BY <3>1 DEF TypeInv, TypeOK
    <3>3. ok \in BOOLEAN
      BY <1>3 DEF TypeInv, TypeOK, Row
    <3>4. /\ n \in Request /\ n.pc = "snmpsave" /\ n.job = r.job /\ n.kind = r.kind /\ n.cur = r.cur
          /\ n.todo = r.todo /\ n.view = r.view /\ n.snap = r.snap /\ n.hosts = r.hosts
          /\ n.gen = r.gen /\ n.loaded = r.loaded
      BY <1>3, <3>3 DEF Request
    <3>5. n.loaded => n.gen # 0
      BY <1>3, <3>4 DEF RequestFits
    <3> HIDE DEF n
    <3> QED BY <1>0, <1>1, <2>0, <3>2, <3>4, <3>5, TypeProceed
  <2>2. CASE ~Gets(w)
    <3>1. Raise(w, TRUE)
      BY <1>5, <2>2 DEF SnmpRead
    <3> QED BY <1>1, <1>3, <2>0, <3>1, TypeRaise
  <2> QED BY <2>1, <2>2
<1>6. ASSUME SnmpSave(w) PROVE TypeInv'
  <2>0. r.pc = "snmpsave" /\ r.pc \in Working
    BY <1>6 DEF SnmpSave, Working
  <2>1. CASE Gets(w)
    <3> DEFINE n == [r EXCEPT !.pc = "collect", !.job = 0]
    <3>1. Settle(w) /\ req' = [req EXCEPT ![w] = n]
      BY <1>6, <2>1 DEF SnmpSave, TypeInv, TypeOK
    <3>2. 0 \in 0 .. MaxJobs
      BY JobBounds
    <3>3. /\ n \in Request /\ n.pc = "collect" /\ n.job = 0 /\ n.kind = r.kind /\ n.cur = r.cur
          /\ n.todo = r.todo /\ n.view = r.view /\ n.snap = r.snap /\ n.hosts = r.hosts
          /\ n.gen = r.gen /\ n.loaded = r.loaded
      BY <1>3, <3>2 DEF Request
    <3>4. n.loaded => n.gen # 0
      BY <1>3, <3>3 DEF RequestFits
    <3> HIDE DEF n
    <3> QED BY <1>0, <1>1, <2>0, <3>1, <3>3, <3>4, TypeProceed
  <2>2. CASE ~Gets(w)
    <3>1. Raise(w, FALSE) /\ jobs' = jobs
      BY <1>6, <2>2 DEF SnmpSave
    <3> QED BY <1>1, <1>3, <3>1, TypeRaise
  <2> QED BY <2>1, <2>2
<1>7. ASSUME Collect(w) PROVE TypeInv'
  <2>1. jobs' = jobs
    BY <1>7 DEF Collect
  <2>2. PICK usable \in BOOLEAN : Raise(w, usable)
    BY <1>7 DEF Collect
  <2> QED BY <1>1, <1>3, <2>1, <2>2, TypeRaise
<1> QED BY <1>4, <1>5, <1>6, <1>7

\* An error ends a request, or a test goes on after it.
LEMMA FailsEnds ==
  ASSUME NEW w \in Requests, Fails(w)
  PROVE  /\ req[w].pc # "idle"
         /\ req' = [req EXCEPT ![w] = NextDevice(w)] \/ End(w)
         /\ req[w].pc \in {"sync", "write"} => End(w)
<1>1. CASE req[w].pc \in {"snmp", "snmpread", "snmpsave", "collect"}
  <2>1. PICK usable \in BOOLEAN : Raise(w, usable)
    BY <1>1 DEF Fails
  <2> QED BY <1>1, <2>1 DEF Fails, Raise, End
<1>2. CASE req[w].pc \notin {"snmp", "snmpread", "snmpsave", "collect"}
  BY <1>2 DEF Fails
<1> QED BY <1>1, <1>2

LEMMA TypeFails ==
  ASSUME TypeInv, NEW w \in Requests, Fails(w)
  PROVE  TypeInv'
<1>1. file' \in [ok : BOOLEAN, hosts : SUBSET Gens] /\ clean' \in [Requests -> BOOLEAN]
  <2>1. Garbled \in [ok : BOOLEAN, hosts : SUBSET Gens]
    BY JobBounds DEF Garbled, Gens
  <2>2. CASE req[w].pc = "write"
    BY <2>1, <2>2 DEF Fails, TypeInv, TypeOK
  <2>3. CASE req[w].pc # "write"
    BY <2>3 DEF Fails, TypeInv, TypeOK
  <2> QED BY <2>2, <2>3
<1>2. cut' \subseteq JobIds /\ behind' \in BOOLEAN
  BY DEF Fails, TypeInv, TypeOK, Syncing
<1>3. UNCHANGED <<devices, created, jobs, budget, edits, epoch, deleted>>
  BY DEF Fails
<1>4. TablesTyped
  BY <1>1, <1>2, <1>3 DEF TablesTyped, TypeInv, TypeOK
<1> QED BY <1>3, <1>4, FailsEnds, TypeNext

LEMMA TypeRestart ==
  ASSUME TypeInv, Restart
  PROVE  TypeInv'
<1>1. /\ \A w \in Requests : req'[w] = Idle
      /\ req' = [w \in Requests |-> Idle] /\ epoch < MaxRestarts /\ epoch' = epoch + 1
      /\ clean' = [w \in Requests |-> FALSE] /\ behind' \in BOOLEAN
      /\ UNCHANGED <<devices, created, jobs, file, budget, edits, deleted, cut>>
  BY DEF Restart, TypeInv, TypeOK
<1>2. TypeOK'
  <2>1. epoch' \in 0 .. MaxRestarts
    BY <1>1, JobBounds DEF TypeInv, TypeOK
  <2>2. req' \in [Requests -> Request]
    BY <1>1, IdleFits
  <2> QED BY <1>1, <2>1, <2>2 DEF TypeInv, TypeOK
<1>3. \A w \in Requests : RequestFits(req'[w]) /\ req'[w].job = 0
  BY <1>1, IdleFits DEF Idle
<1>4. \A j \in JobIds : JobFits(jobs[j])'
  BY <1>1, JobBounds DEF TypeInv, TypeOK, Job, JobFits
<1>5. Room'
  <2>1. Owed' \subseteq Owed
    BY <1>1, IdleFits DEF Owed
  <2>2. Used' = Used /\ budget' = budget /\ budget \in Nat
    BY <1>1, JobBounds DEF Used, TypeInv, TypeOK
  <2> QED BY <2>1, <2>2, RoomKept DEF TypeInv
<1> QED BY <1>2, <1>3, <1>4, <1>5 DEF TypeInv

LEMMA TypeStutter ==
  ASSUME TypeInv, UNCHANGED vars
  PROVE  TypeInv'
<1>1. Room'
  BY DEF vars, TypeInv, Room, Used, Owed, Owes, Coming
<1> QED BY <1>1 DEF vars, TypeInv, TypeOK, RequestFits, JobFits, Used, Coming

LEMMA TypeStep ==
  ASSUME TypeInv, [Next]_vars
  PROVE  TypeInv'
<1>1. CASE Restart
  BY <1>1, TypeRestart
<1>2. ASSUME NEW w \in Requests, Arrive(w) PROVE TypeInv'
  BY <1>2, TypeStutter, TypeCreate, TypePatch, TypeDelete, TypeAsk DEF Arrive, Refuse
<1>3. ASSUME NEW w \in Requests, Step(w) PROVE TypeInv'
  <2>1. CASE DeleteCommit(w)
    BY <2>1, TypeDelete
  <2>2. CASE DeleteFails(w) \/ SyncGone(w)
    <3>1. End(w) /\ UNCHANGED <<devices, created, jobs, file, budget, edits, epoch, deleted, clean, behind, cut>>
      BY <2>2 DEF DeleteFails, SyncGone
    <3> QED BY <3>1, TypeEnd, TablesKept
  <2>3. CASE Sync(w) \/ Write(w)
    BY <2>3, TypeSync, TypeWrite
  <2>4. CASE StartJob(w)
    <3>1. CASE CanInsert(w)
      BY <2>4, <3>1, TypeInsert DEF StartJob
    <3>2. CASE ~CanInsert(w)
      BY <2>4, <3>2, TypeEnd, TablesKept DEF StartJob
    <3> QED BY <3>1, <3>2
  <2>5. CASE Prepare(w) \/ Run(w) \/ Finish(w) \/ After(w)
    BY <2>5, TypePlaybook
  <2>6. CASE SnmpStart(w) \/ SnmpRead(w) \/ SnmpSave(w) \/ Collect(w)
    BY <2>6, TypePoll
  <2> QED BY <1>3, <2>1, <2>2, <2>3, <2>4, <2>5, <2>6 DEF Step
<1>4. ASSUME NEW w \in Requests, Fails(w) PROVE TypeInv'
  BY <1>4, TypeFails
<1>5. CASE UNCHANGED vars
  BY <1>5, TypeStutter
<1> QED BY <1>1, <1>2, <1>3, <1>4, <1>5 DEF Next

LEMMA TypeInvariant == Spec => []TypeInv
<1>1. Init => TypeInv
  BY TypeInit
<1>2. TypeInv /\ [Next]_vars => TypeInv'
  BY TypeStep
<1> QED BY <1>1, <1>2, PTL DEF Spec

\* Every variable stays in its type: so there is always a free id for the job that a
\* request inserts, and a job to settle for one that ends.
THEOREM TypeCorrect == Spec => []TypeOK
<1>1. TypeInv => TypeOK
  BY DEF TypeInv
<1> QED BY <1>1, TypeInvariant, PTL

-----------------------------------------------------------------------------
\* A job that runs has an owner

\* A request lets go of a job when it has ended, or when its device was deleted.
LetsGo(w) ==
  \/ req[w].job = 0
  \/ jobs'[req[w].job].status # "running"
  \/ jobs[req[w].job].gen \in deleted'
  \/ req[w].job \in cut'

\* A request that is not in the middle of its job may let go of it, and so may one
\* that reads its device again and does not find it.
LEMMA MayLetGo ==
  ASSUME OwnerInv, NEW w \in Requests, jobs' = jobs, deleted \subseteq deleted',
         req[w].pc \notin Working \/ ~Gets(w)
  PROVE  LetsGo(w)
<1>1. JobKnown(req[w], devices, jobs, deleted) /\ RequestFits(req[w])
  BY DEF OwnerInv, TypeInv
<1>2. CASE req[w].pc \notin Working
  BY <1>1, <1>2 DEF JobKnown, LetsGo
<1>3. CASE req[w].pc \in Working /\ ~Gets(w)
  <2>1. req[w].cur \in Ids /\ req[w].job \in Used
    BY <1>1, <1>3, AtWork DEF OwnerInv, TypeInv, RequestFits, Working
  <2>2. devices[req[w].cur].gen = 0
    BY <1>3, <2>1 DEF Gets, Live
  <2>3. jobs[req[w].job].gen # 0
    BY <2>1 DEF OwnerInv, TypeInv, JobFits, Used
  <2> QED BY <1>1, <1>3, <2>2, <2>3 DEF JobKnown, LetsGo
<1> QED BY <1>2, <1>3

\* A step of a request that inserts no job.
LEMMA OwnerMove ==
  ASSUME OwnerInv, TypeInv', Numbered', NEW w \in Requests, NEW n, req' = [req EXCEPT ![w] = n],
         \A j \in JobIds : /\ jobs'[j].gen = jobs[j].gen /\ jobs'[j].epoch = jobs[j].epoch
                           /\ jobs'[j].status = "running" => jobs[j].status = "running",
         \A d \in Ids : devices'[d].gen = devices[d].gen \/ devices[d].gen \in deleted' \cup {0},
         deleted \subseteq deleted', cut \subseteq cut', epoch' = epoch,
         Known(n, devices', deleted'), JobKnown(n, devices', jobs', deleted'),
         n.job = req[w].job \/ LetsGo(w)
  PROVE  OwnerInv'
<1>1. \A v \in Requests : req'[v] = IF v = w THEN n ELSE req[v]
  BY DEF OwnerInv, TypeInv, TypeOK
<1>2. ASSUME NEW v \in Requests, v # w
      PROVE  Known(req'[v], devices', deleted') /\ JobKnown(req'[v], devices', jobs', deleted')
  <2>1. req'[v] = req[v] /\ Known(req[v], devices, deleted) /\ JobKnown(req[v], devices, jobs, deleted)
    BY <1>1, <1>2 DEF OwnerInv
  <2>2. Known(req[v], devices', deleted')
    BY <2>1 DEF Known
  <2>3. CASE req[v].pc \in Working
    <3>1. req[v].cur \in Ids /\ req[v].job \in Used
      BY <2>3, AtWork DEF OwnerInv, TypeInv, RequestFits, Working
    <3>2. jobs[req[v].job].gen # 0 /\ jobs'[req[v].job].gen = jobs[req[v].job].gen
      BY <3>1 DEF OwnerInv, TypeInv, JobFits, Used
    <3> QED BY <2>1, <2>2, <2>3, <3>1, <3>2 DEF JobKnown
  <2>4. CASE req[v].pc \notin Working
    <3>1. req[v].job # 0 => req[v].job \in JobIds
      BY DEF OwnerInv, TypeInv, Used
    <3> QED BY <2>1, <2>2, <2>4, <3>1 DEF JobKnown
  <2> QED BY <2>3, <2>4
<1>3. RunningHasOwner'
  <2> SUFFICES ASSUME NEW j \in JobIds, jobs'[j].status = "running"
               PROVE  \/ \E u \in Requests : req'[u].job = j
                      \/ j \in cut'
                      \/ jobs'[j].gen \in deleted'
                      \/ jobs'[j].epoch < epoch'
    BY DEF RunningHasOwner
  <2>1. \/ \E u \in Requests : req[u].job = j
        \/ j \in cut
        \/ jobs[j].gen \in deleted
        \/ jobs[j].epoch < epoch
    BY DEF OwnerInv, RunningHasOwner
  <2>2. CASE \E u \in Requests : req[u].job = j
    <3>1. PICK u \in Requests : req[u].job = j
      BY <2>2
    <3>2. CASE u # w
      BY <1>1, <3>1, <3>2
    <3>3. CASE u = w
      <4>1. j # 0
        BY DEF JobIds
      <4> QED BY <1>1, <3>1, <3>3, <4>1 DEF LetsGo
    <3> QED BY <3>2, <3>3
  <2>3. CASE j \in cut \/ jobs[j].gen \in deleted \/ jobs[j].epoch < epoch
    BY <2>3
  <2> QED BY <2>1, <2>2, <2>3
<1>4. \A v \in Requests : Known(req'[v], devices', deleted') /\ JobKnown(req'[v], devices', jobs', deleted')
  BY <1>1, <1>2
<1> QED BY <1>3, <1>4 DEF OwnerInv

\* A step that touches neither the devices nor their jobs.
LEMMA OwnerStep ==
  ASSUME OwnerInv, TypeInv', NEW w \in Requests, NEW n, req' = [req EXCEPT ![w] = n],
         UNCHANGED <<devices, created, jobs, epoch, deleted, cut>>,
         Known(n, devices, deleted), JobKnown(n, devices, jobs, deleted),
         n.job = req[w].job \/ LetsGo(w)
  PROVE  OwnerInv'
<1>1. Numbered'
  BY DEF OwnerInv, Numbered
<1> QED BY <1>1, OwnerMove

LEMMA OwnerEnd ==
  ASSUME OwnerInv, TypeInv', NEW w \in Requests, End(w), UNCHANGED <<devices, created, jobs, epoch, deleted, cut>>,
         req[w].pc \notin Working \/ ~Gets(w)
  PROVE  OwnerInv'
<1>1. Known(Idle, devices, deleted) /\ JobKnown(Idle, devices, jobs, deleted)
  BY DEF Known, JobKnown, Idle, Working
<1>2. LetsGo(w)
  BY MayLetGo
<1> QED BY <1>1, <1>2, OwnerStep DEF End

LEMMA OwnerNext ==
  ASSUME OwnerInv, TypeInv', NEW w \in Requests, req[w].pc # "idle",
         req' = [req EXCEPT ![w] = NextDevice(w)] \/ End(w),
         UNCHANGED <<devices, created, jobs, epoch, deleted, cut>>,
         req[w].pc \notin Working \/ ~Gets(w)
  PROVE  OwnerInv'
<1>1. CASE End(w)
  BY <1>1, OwnerEnd
<1>2. CASE req' = [req EXCEPT ![w] = NextDevice(w)]
  <2>1. /\ NextDevice(w).job = 0 /\ NextDevice(w).pc \in {"idle", "sync"}
        /\ NextDevice(w).gen = 0 \/ (NextDevice(w).cur \in Ids /\ NextDevice(w).gen = devices[NextDevice(w).cur].gen)
    BY NextDeviceFits DEF OwnerInv, TypeInv
  <2>2. Known(NextDevice(w), devices, deleted) /\ JobKnown(NextDevice(w), devices, jobs, deleted)
    BY <2>1 DEF Known, JobKnown, Working
  <2>3. LetsGo(w)
    BY MayLetGo
  <2> QED BY <1>2, <2>2, <2>3, OwnerStep
<1> QED BY <1>1, <1>2

\* Every device keeps its number, or its place was free or is now.
LEMMA OwnerChange ==
  ASSUME OwnerInv, TypeInv', NEW w \in Requests,
         Create(w) \/ (\E d \in Ids : Patch(w, d) \/ DeleteLoad(w, d)) \/ DeleteCommit(w)
  PROVE  OwnerInv'
<1>0. TypeOK /\ RequestFits(req[w])
  BY DEF OwnerInv, TypeInv
<1>1. ASSUME Create(w) PROVE OwnerInv'
  <2> DEFINE d == NextId
             g == created + 1
             n == [Idle EXCEPT !.pc = "sync", !.kind = "create", !.cur = d, !.gen = g]
  <2>1. d \in Ids /\ d \notin Live /\ created' = g /\ created \in Nat
    BY <1>0, <1>1, NewIdFree, JobBounds DEF Create, OwnerInv, TypeOK, Gens
  <2>2. PICK s \in BOOLEAN : devices' = [devices EXCEPT ![d] = [gen |-> g, enabled |-> TRUE, snmp |-> s]]
    BY <1>1 DEF Create
  <2>3. \A e \in Ids : devices'[e].gen = IF e = d THEN g ELSE devices[e].gen
    BY <1>0, <2>2 DEF TypeOK
  <2>4. devices[d].gen = 0
    BY <2>1 DEF Live
  <2>5. Numbered'
    <3>1. \A e \in Ids : devices[e].gen \in Nat /\ devices[e].gen <= created /\ (IsMySQL => devices[e].gen \in {0, e})
      BY <1>0 DEF OwnerInv, Numbered, TypeOK, Row, Gens
    <3>2. IsMySQL => g = d
      BY DEF NextId
    <3> HIDE DEF d
    <3> QED BY <2>1, <2>3, <3>1, <3>2 DEF Numbered
  <2>6. /\ req' = [req EXCEPT ![w] = n] /\ req[w] = Idle
        /\ UNCHANGED <<jobs, epoch, deleted, cut>>
    BY <1>0, <1>1 DEF Create, RequestFits
  <2>7. n.pc = "sync" /\ n.cur = d /\ n.gen = g /\ n.job = 0 /\ req[w].job = 0
    BY <2>6 DEF Idle
  <2> HIDE DEF n, d, g
  <2>8. Known(n, devices', deleted') /\ JobKnown(n, devices', jobs', deleted')
    BY <2>1, <2>3, <2>7 DEF Known, JobKnown, Working
  <2>9. /\ \A j \in JobIds : /\ jobs'[j].gen = jobs[j].gen /\ jobs'[j].epoch = jobs[j].epoch
                             /\ jobs'[j].status = "running" => jobs[j].status = "running"
        /\ \A e \in Ids : devices'[e].gen = devices[e].gen \/ devices[e].gen \in deleted' \cup {0}
        /\ deleted \subseteq deleted' /\ cut' = cut /\ epoch' = epoch
    BY <2>3, <2>4, <2>6
  <2> QED BY <2>5, <2>6, <2>7, <2>8, <2>9, OwnerMove
<1>2. ASSUME NEW d \in Ids, Patch(w, d) PROVE OwnerInv'
  <2> DEFINE n == [Idle EXCEPT !.pc = "sync", !.kind = "patch", !.cur = d, !.gen = devices[d].gen]
  <2>1. PICK e, s \in BOOLEAN : devices' = [devices EXCEPT ![d].enabled = e, ![d].snmp = s]
    BY <1>2 DEF Patch
  <2>2. \A x \in Ids : devices'[x].gen = devices[x].gen
    BY <1>0, <2>1 DEF TypeOK, Row
  <2>3. /\ req' = [req EXCEPT ![w] = n] /\ req[w] = Idle
        /\ UNCHANGED <<created, jobs, epoch, deleted, cut>>
    BY <1>0, <1>2 DEF Patch, RequestFits
  <2>4. n.pc = "sync" /\ n.cur = d /\ n.gen = devices[d].gen /\ n.job = 0 /\ req[w].job = 0
    BY <2>3 DEF Idle
  <2> HIDE DEF n
  <2>5. Known(n, devices', deleted') /\ JobKnown(n, devices', jobs', deleted')
    BY <2>2, <2>4 DEF Known, JobKnown, Working
  <2>6. Numbered'
    BY <2>2, <2>3 DEF OwnerInv, Numbered
  <2>7. \A j \in JobIds : /\ jobs'[j].gen = jobs[j].gen /\ jobs'[j].epoch = jobs[j].epoch
                          /\ jobs'[j].status = "running" => jobs[j].status = "running"
    BY <2>3
  <2> QED BY <2>2, <2>3, <2>4, <2>5, <2>6, <2>7, OwnerMove
<1>3. ASSUME NEW d \in Ids, DeleteLoad(w, d) PROVE OwnerInv'
  <2> DEFINE n == [Idle EXCEPT !.pc = "delete", !.kind = "delete", !.cur = d, !.gen = devices[d].gen,
                               !.seen = {j \in JobIds : jobs[j].dev = d}]
  <2>1. /\ req' = [req EXCEPT ![w] = n] /\ req[w] = Idle
        /\ UNCHANGED <<devices, created, jobs, epoch, deleted, cut>>
    BY <1>0, <1>3 DEF DeleteLoad, RequestFits
  <2>2. n.pc = "delete" /\ n.cur = d /\ n.gen = devices[d].gen /\ n.job = 0 /\ req[w].job = 0
    BY <2>1 DEF Idle
  <2> HIDE DEF n
  <2>3. Known(n, devices, deleted) /\ JobKnown(n, devices, jobs, deleted)
    BY <2>2 DEF Known, JobKnown, Working
  <2> QED BY <2>1, <2>2, <2>3, OwnerStep
<1>4. ASSUME DeleteCommit(w) PROVE OwnerInv'
  <2> DEFINE n == [Idle EXCEPT !.pc = "sync", !.kind = "delete"]
             d == req[w].cur
  <2>1. d \in Ids
    BY <1>0, <1>4 DEF DeleteCommit, RequestFits
  <2>2. /\ devices' = [devices EXCEPT ![d] = Gone] /\ deleted' = deleted \cup {devices[d].gen}
        /\ jobs' = [j \in JobIds |-> IF j \in req[w].seen THEN [jobs[j] EXCEPT !.dev = 0] ELSE jobs[j]]
        /\ req' = [req EXCEPT ![w] = n] /\ UNCHANGED <<created, epoch, cut>>
    BY <1>4 DEF DeleteCommit
  <2>3. \A e \in Ids : devices'[e].gen = IF e = d THEN 0 ELSE devices[e].gen
    BY <1>0, <2>2 DEF TypeOK, Gone
  <2>4. \A j \in JobIds : /\ jobs'[j].gen = jobs[j].gen /\ jobs'[j].epoch = jobs[j].epoch
                          /\ jobs'[j].status = "running" => jobs[j].status = "running"
    <3> SUFFICES ASSUME NEW j \in JobIds
                 PROVE  /\ jobs'[j].gen = jobs[j].gen /\ jobs'[j].epoch = jobs[j].epoch
                        /\ jobs'[j].status = "running" => jobs[j].status = "running"
      OBVIOUS
    <3>1. jobs[j] \in Job
      BY <1>0 DEF TypeOK
    <3>2. jobs'[j] = jobs[j] \/ jobs'[j] = [jobs[j] EXCEPT !.dev = 0]
      BY <2>2
    <3> QED BY <3>1, <3>2 DEF Job
  <2>5. Numbered'
    <3>1. created \in Nat
      BY <1>0, JobBounds DEF TypeOK, Gens
    <3> QED BY <2>2, <2>3, <3>1 DEF OwnerInv, Numbered
  <2>6. n.pc = "sync" /\ n.gen = 0 /\ n.job = 0
    BY DEF Idle
  <2>7. req[w].job = 0
    BY <1>0, <1>4 DEF DeleteCommit, RequestFits
  <2> HIDE DEF n
  <2>8. Known(n, devices', deleted') /\ JobKnown(n, devices', jobs', deleted')
    BY <2>6 DEF Known, JobKnown, Working
  <2>9. /\ \A e \in Ids : devices'[e].gen = devices[e].gen \/ devices[e].gen \in deleted' \cup {0}
        /\ deleted \subseteq deleted' /\ cut' = cut /\ epoch' = epoch
    BY <2>2, <2>3
  <2> QED BY <2>2, <2>4, <2>5, <2>6, <2>7, <2>8, <2>9, OwnerMove
<1> QED BY <1>1, <1>2, <1>3, <1>4

LEMMA OwnerSync ==
  ASSUME OwnerInv, TypeInv', NEW w \in Requests, Sync(w) \/ Write(w)
  PROVE  OwnerInv'
<1>0. TypeInv /\ Known(req[w], devices, deleted) /\ JobKnown(req[w], devices, jobs, deleted)
  BY DEF OwnerInv
<1>1. ASSUME Sync(w) PROVE OwnerInv'
  <2> DEFINE H == IF req[w].snap THEN req[w].view ELSE Enabled
             n == Found(w, H)
  <2>1. /\ n.pc = "write" /\ n.job = req[w].job /\ n.cur = req[w].cur
        /\ n.gen = req[w].gen \/ (n.cur \in Ids /\ n.gen = devices[n.cur].gen)
    BY <1>0, <1>1, FoundFits DEF Sync
  <2>2. req' = [req EXCEPT ![w] = n] /\ UNCHANGED <<devices, created, jobs, epoch, deleted, cut>>
    BY <1>1 DEF Sync
  <2>3. req[w].pc = "sync"
    BY <1>1 DEF Sync
  <2> HIDE DEF n
  <2>4. Known(n, devices, deleted) /\ JobKnown(n, devices, jobs, deleted)
    BY <1>0, <2>1, <2>3 DEF Known, JobKnown, Working
  <2> QED BY <2>1, <2>2, <2>4, OwnerStep
<1>2. ASSUME Write(w) PROVE OwnerInv'
  <2> DEFINE r == req[w]
  <2>1. r \in Request /\ r.pc = "write" /\ UNCHANGED <<devices, created, jobs, epoch, deleted, cut>>
    BY <1>0, <1>2 DEF Write, TypeInv, TypeOK
  <2>2. CASE r.kind \in {"test", "command"}
    <3> DEFINE n == [r EXCEPT !.pc = "job", !.hosts = {}]
    <3>1. req' = [req EXCEPT ![w] = n]
      BY <1>2, <2>2 DEF Write
    <3>2. n.pc = "job" /\ n.job = r.job /\ n.gen = r.gen /\ n.cur = r.cur
      BY <2>1 DEF Request
    <3> HIDE DEF n
    <3>3. Known(n, devices, deleted) /\ JobKnown(n, devices, jobs, deleted)
      BY <1>0, <2>1, <3>2 DEF Known, JobKnown, Working
    <3> QED BY <2>1, <3>1, <3>2, <3>3, OwnerStep
  <2>3. CASE r.kind \notin {"test", "command"}
    <3>1. End(w)
      BY <1>2, <2>3 DEF Write, End
    <3>2. r.pc \notin Working
      BY <2>1 DEF Working
    <3> QED BY <2>1, <3>1, <3>2, OwnerEnd
  <2> QED BY <2>2, <2>3
<1> QED BY <1>1, <1>2

LEMMA OwnerAsk ==
  ASSUME OwnerInv, TypeInv', NEW w \in Requests, NEW kind \in {"test", "command", "snmp"},
         NEW D \in SUBSET Ids, Ask(w, kind, D)
  PROVE  OwnerInv'
<1> DEFINE d == CHOOSE e \in D : \A f \in D : e <= f
           n == Asked(kind, D, d)
<1>1. /\ req' = [req EXCEPT ![w] = n] /\ d \in D
      /\ n.pc \in {"sync", "snmp"} /\ n.cur = d /\ n.gen = devices[d].gen /\ n.job = 0
  BY AskFits DEF OwnerInv
<1> HIDE DEF n, d
<1>2. req[w] = Idle /\ UNCHANGED <<devices, created, jobs, epoch, deleted, cut>>
  BY DEF Ask, OwnerInv, TypeInv, RequestFits
<1>3. Known(n, devices, deleted) /\ JobKnown(n, devices, jobs, deleted)
  BY <1>1 DEF Known, JobKnown, Working
<1>4. n.job = req[w].job
  BY <1>1, <1>2 DEF Idle
<1> QED BY <1>1, <1>2, <1>3, <1>4, OwnerStep

\* The request that inserts a job owns it, and has let go of the one before.
LEMMA OwnerInsert ==
  ASSUME OwnerInv, TypeInv', NEW w \in Requests, NEW next,
         \/ req[w].pc = "job" /\ next = "prepare"
         \/ req[w].pc = "snmp" /\ next = "snmpread",
         CanInsert(w), Insert(w, next),
         UNCHANGED <<devices, created, epoch, deleted, cut>>
  PROVE  OwnerInv'
<1> DEFINE r == req[w]
           n == Inserted(r, next)
           x == NewJob(r)
<1>1. /\ req' = [req EXCEPT ![w] = n] /\ jobs' = [jobs EXCEPT ![LastJob] = x]
      /\ n.pc = next /\ n.cur = r.cur /\ n.gen = r.gen /\ n.job = LastJob /\ r.cur \in Ids
      /\ LastJob \in JobIds \ Used /\ x.gen # 0
  BY InsertFits DEF OwnerInv
<1>2. Known(r, devices, deleted) /\ JobKnown(r, devices, jobs, deleted) /\ RequestFits(r)
  BY DEF OwnerInv, TypeInv
<1>3. x.gen \in deleted \/ x.gen = devices[r.cur].gen
  BY <1>1, <1>2 DEF NewJob, Known
<1>4. r.job = 0 \/ jobs[r.job].status # "running"
  BY <1>2 DEF JobKnown, Working
<1> HIDE DEF n, x
<1>5. \A v \in Requests : req'[v] = IF v = w THEN n ELSE req[v]
  BY <1>1 DEF OwnerInv, TypeInv, TypeOK
<1>6. \A j \in JobIds : jobs'[j] = IF j = LastJob THEN x ELSE jobs[j]
  BY <1>1 DEF OwnerInv, TypeInv, TypeOK
<1>7. Known(n, devices, deleted) /\ JobKnown(n, devices, jobs', deleted)
  BY <1>1, <1>2, <1>3, <1>6 DEF Known, JobKnown, Working
<1>8. ASSUME NEW v \in Requests, v # w PROVE JobKnown(req[v], devices, jobs', deleted)
  <2>1. JobKnown(req[v], devices, jobs, deleted) /\ RequestFits(req[v])
        /\ (req[v].job # 0 => req[v].job \in Used)
    BY DEF OwnerInv, TypeInv
  <2>2. req[v].job # 0 => jobs'[req[v].job] = jobs[req[v].job]
    BY <1>1, <1>6, <2>1 DEF Used
  <2> QED BY <2>1, <2>2 DEF JobKnown, RequestFits
<1>9. \A v \in Requests : Known(req'[v], devices', deleted') /\ JobKnown(req'[v], devices', jobs', deleted')
  BY <1>5, <1>7, <1>8 DEF OwnerInv
<1>10. RunningHasOwner'
  <2> SUFFICES ASSUME NEW j \in JobIds, jobs'[j].status = "running"
               PROVE  \/ \E u \in Requests : req'[u].job = j
                      \/ j \in cut
                      \/ jobs'[j].gen \in deleted
                      \/ jobs'[j].epoch < epoch
    BY DEF RunningHasOwner
  <2>1. CASE j = LastJob
    BY <1>1, <1>5, <2>1
  <2>2. CASE j # LastJob
    <3>1. jobs'[j] = jobs[j] /\ j # 0
      BY <1>6, <2>2 DEF JobIds
    <3>2. \/ \E u \in Requests : req[u].job = j
          \/ j \in cut
          \/ jobs[j].gen \in deleted
          \/ jobs[j].epoch < epoch
      BY <3>1 DEF OwnerInv, RunningHasOwner
    <3>3. \A u \in Requests : req[u].job = j => u # w
      BY <1>4, <3>1
    <3> QED BY <1>5, <3>1, <3>2, <3>3
  <2> QED BY <2>1, <2>2
<1>11. Numbered'
  BY DEF OwnerInv, Numbered
<1> QED BY <1>9, <1>10, <1>11 DEF OwnerInv

LEMMA OwnerPlaybook ==
  ASSUME OwnerInv, TypeInv', NEW w \in Requests, StartJob(w) \/ Prepare(w) \/ Run(w) \/ Finish(w) \/ After(w)
  PROVE  OwnerInv'
<1> DEFINE r == req[w]
<1>0. UNCHANGED <<devices, created, epoch, deleted, cut>>
  BY DEF StartJob, Prepare, Run, Finish, After
<1>1. TypeInv /\ Known(r, devices, deleted) /\ JobKnown(r, devices, jobs, deleted)
  BY DEF OwnerInv
<1>2. r \in Request /\ RequestFits(r) /\ r.cur \in Ids /\ r.pc \in {"job", "prepare", "run", "finish", "after"}
  <2>1. r.pc \in {"job", "prepare", "run", "finish", "after"}
    BY DEF StartJob, Prepare, Run, Finish, After
  <2> QED BY <1>1, <2>1, AtWork
<1>3. ASSUME StartJob(w) PROVE OwnerInv'
  <2>1. CASE CanInsert(w)
    BY <1>0, <1>3, <2>1, OwnerInsert DEF StartJob
  <2>2. CASE ~CanInsert(w)
    <3>1. End(w) /\ jobs' = jobs /\ r.pc \notin Working
      BY <1>3, <2>2 DEF StartJob, Working
    <3> QED BY <1>0, <3>1, OwnerEnd
  <2> QED BY <2>1, <2>2
<1>4. ASSUME Prepare(w) PROVE OwnerInv'
  <2>0. jobs' = jobs /\ r.pc = "prepare"
    BY <1>4 DEF Prepare
  <2>1. CASE Gets(w)
    <3> DEFINE n == [r EXCEPT !.pc = "run", !.gen = devices[r.cur].gen]
    <3>1. req' = [req EXCEPT ![w] = n]
      BY <1>4, <2>1 DEF Prepare
    <3>2. n.pc = "run" /\ n.job = r.job /\ n.cur = r.cur /\ n.gen = devices[r.cur].gen
      BY <1>2 DEF Request
    <3> HIDE DEF n
    <3>3. Known(n, devices, deleted) /\ JobKnown(n, devices, jobs, deleted)
      BY <1>1, <1>2, <2>0, <3>2 DEF Known, JobKnown, Working
    <3> QED BY <1>0, <2>0, <3>1, <3>2, <3>3, OwnerStep
  <2>2. CASE ~Gets(w)
    <3>1. End(w)
      BY <1>4, <2>2 DEF Prepare, End
    <3> QED BY <1>0, <2>0, <2>2, <3>1, OwnerEnd
  <2> QED BY <2>1, <2>2
<1>5. ASSUME Run(w) PROVE OwnerInv'
  <2>1. PICK ok \in {FALSE, file.ok /\ r.gen \in file.hosts} :
          req' = [req EXCEPT ![w].pc = "finish", ![w].ok = ok, ![w].read = file]
    BY <1>5 DEF Run
  <2> DEFINE n == [r EXCEPT !.pc = "finish", !.ok = ok, !.read = file]
  <2>2. req' = [req EXCEPT ![w] = n] /\ jobs' = jobs /\ r.pc = "run"
    BY <1>1, <1>5, <2>1 DEF Run, TypeInv, TypeOK
  <2>3. n.pc = "finish" /\ n.job = r.job /\ n.cur = r.cur /\ n.gen = r.gen
    BY <1>2 DEF Request
  <2> HIDE DEF n
  <2>4. Known(n, devices, deleted) /\ JobKnown(n, devices, jobs, deleted)
    BY <1>1, <2>2, <2>3 DEF Known, JobKnown, Working
  <2> QED BY <1>0, <2>2, <2>3, <2>4, OwnerStep
<1>6. ASSUME Finish(w) PROVE OwnerInv'
  <2>1. Settle(w) /\ r.pc = "finish" /\ r.pc \in Working
    BY <1>6 DEF Finish, Working
  <2>2. /\ jobs'[r.job].status # "running" /\ r.job \in Used
        /\ \A j \in JobIds : /\ jobs'[j].epoch = jobs[j].epoch /\ jobs'[j].gen = jobs[j].gen
                             /\ j # r.job => jobs'[j] = jobs[j]
    BY <1>1, <2>1, SettleFits
  <2>3. \A j \in JobIds : jobs'[j].status = "running" => jobs[j].status = "running"
    BY <2>2
  <2>4. Numbered' /\ LetsGo(w)
    BY <1>0, <2>2 DEF OwnerInv, Numbered, LetsGo
  <2>5. \A e \in Ids : devices'[e].gen = devices[e].gen \/ devices[e].gen \in deleted' \cup {0}
    BY <1>0
  <2>6. CASE r.kind = "command"
    <3>1. req' = [req EXCEPT ![w] = Idle]
      BY <1>6, <2>6 DEF Finish
    <3>2. Known(Idle, devices', deleted') /\ JobKnown(Idle, devices', jobs', deleted')
      BY DEF Known, JobKnown, Idle, Working
    <3> QED BY <1>0, <2>2, <2>3, <2>4, <2>5, <3>1, <3>2, OwnerMove
  <2>7. CASE r.kind # "command"
    <3> DEFINE n == [r EXCEPT !.pc = "after", !.read = NoFile]
    <3>1. req' = [req EXCEPT ![w] = n]
      BY <1>6, <2>7 DEF Finish
    <3>2. n.pc = "after" /\ n.job = r.job /\ n.cur = r.cur /\ n.gen = r.gen
      BY <1>2 DEF Request
    <3> HIDE DEF n
    <3>3. Known(n, devices', deleted') /\ JobKnown(n, devices', jobs', deleted')
      BY <1>0, <1>1, <2>2, <3>2 DEF Known, JobKnown, Working
    <3> QED BY <1>0, <2>2, <2>3, <2>4, <2>5, <3>1, <3>3, OwnerMove
  <2> QED BY <2>6, <2>7
<1>7. ASSUME After(w) PROVE OwnerInv'
  <2>0. jobs' = jobs /\ r.pc = "after" /\ r.pc \notin Working
    BY <1>7 DEF After, Working
  <2>1. CASE Gets(w) /\ devices[r.cur].snmp /\ r.ok
    <3> DEFINE n == [r EXCEPT !.pc = "snmp", !.gen = devices[r.cur].gen, !.loaded = TRUE]
    <3>1. req' = [req EXCEPT ![w] = n]
      BY <1>7, <2>1 DEF After
    <3>2. n.pc = "snmp" /\ n.job = r.job /\ n.cur = r.cur /\ n.gen = devices[r.cur].gen
      BY <1>2 DEF Request
    <3> HIDE DEF n
    <3>3. Known(n, devices, deleted) /\ JobKnown(n, devices, jobs, deleted)
      BY <1>1, <1>2, <2>0, <3>2 DEF Known, JobKnown, Working
    <3> QED BY <1>0, <2>0, <3>1, <3>2, <3>3, OwnerStep
  <2>2. CASE ~(Gets(w) /\ devices[r.cur].snmp /\ r.ok)
    <3>1. req' = [req EXCEPT ![w] = NextDevice(w)] \/ End(w)
      BY <1>7, <2>2 DEF After, End
    <3> QED BY <1>0, <1>2, <2>0, <3>1, OwnerNext
  <2> QED BY <2>1, <2>2
<1> QED BY <1>3, <1>4, <1>5, <1>6, <1>7

LEMMA OwnerPoll ==
  ASSUME OwnerInv, TypeInv', NEW w \in Requests, SnmpStart(w) \/ SnmpRead(w) \/ SnmpSave(w) \/ Collect(w)
  PROVE  OwnerInv'
<1> DEFINE r == req[w]
<1>0. UNCHANGED <<devices, created, epoch, deleted, cut>>
  BY DEF SnmpStart, SnmpRead, SnmpSave, Collect
<1>1. TypeInv /\ Known(r, devices, deleted) /\ JobKnown(r, devices, jobs, deleted)
  BY DEF OwnerInv
<1>2. r \in Request /\ RequestFits(r) /\ r.cur \in Ids /\ r.pc \in {"snmp", "snmpread", "snmpsave", "collect"}
  <2>1. r.pc \in {"snmp", "snmpread", "snmpsave", "collect"}
    BY DEF SnmpStart, SnmpRead, SnmpSave, Collect
  <2> QED BY <1>1, <2>1, AtWork
<1>3. ASSUME NEW usable \in BOOLEAN, Raise(w, usable), jobs' = jobs, r.pc \notin Working \/ ~Gets(w)
      PROVE  OwnerInv'
  <2>1. req' = [req EXCEPT ![w] = NextDevice(w)] \/ End(w)
    BY <1>3 DEF Raise, End
  <2>2. r.pc # "idle"
    BY <1>2
  <2> QED BY <1>0, <1>3, <2>1, <2>2, OwnerNext
<1>4. ASSUME SnmpStart(w) PROVE OwnerInv'
  <2>1. CASE CanInsert(w)
    BY <1>0, <1>4, <2>1, OwnerInsert DEF SnmpStart
  <2>2. CASE ~CanInsert(w)
    <3>1. Raise(w, FALSE) /\ jobs' = jobs /\ r.pc \notin Working
      BY <1>4, <2>2 DEF SnmpStart, Working
    <3> QED BY <1>3, <3>1
  <2> QED BY <2>1, <2>2
<1>5. ASSUME SnmpRead(w) PROVE OwnerInv'
  <2>0. jobs' = jobs /\ r.pc = "snmpread"
    BY <1>5 DEF SnmpRead
  <2>1. CASE Gets(w)
    <3>1. PICK ok \in {FALSE, devices[r.cur].snmp} : req' = [req EXCEPT ![w].pc = "snmpsave", ![w].ok = ok]
      BY <1>5, <2>1 DEF SnmpRead
    <3> DEFINE n == [r EXCEPT !.pc = "snmpsave", !.ok = ok]
    <3>2. req' = [req EXCEPT ![w] = n]
      BY <1>1, <3>1 DEF TypeInv, TypeOK
    <3>3. n.pc = "snmpsave" /\ n.job = r.job /\ n.cur = r.cur /\ n.gen = r.gen
      BY <1>2 DEF Request
    <3> HIDE DEF n
    <3>4. Known(n, devices, deleted) /\ JobKnown(n, devices, jobs, deleted)
      BY <1>1, <2>0, <3>3 DEF Known, JobKnown, Working
    <3> QED BY <1>0, <2>0, <3>2, <3>3, <3>4, OwnerStep
  <2>2. CASE ~Gets(w)
    <3>1. Raise(w, TRUE)
      BY <1>5, <2>2 DEF SnmpRead
    <3> QED BY <1>3, <2>0, <2>2, <3>1
  <2> QED BY <2>1, <2>2
<1>6. ASSUME SnmpSave(w) PROVE OwnerInv'
  <2>0. r.pc = "snmpsave" /\ r.pc \in Working
    BY <1>6 DEF SnmpSave, Working
  <2>1. CASE Gets(w)
    <3> DEFINE n == [r EXCEPT !.pc = "collect", !.job = 0]
    <3>1. Settle(w) /\ req' = [req EXCEPT ![w] = n]
      BY <1>1, <1>6, <2>1 DEF SnmpSave, TypeInv, TypeOK
    <3>2. n.pc = "collect" /\ n.job = 0 /\ n.cur = r.cur /\ n.gen = r.gen
      BY <1>2 DEF Request
    <3> HIDE DEF n
    <3>3. /\ jobs'[r.job].status # "running" /\ r.job \in Used
          /\ \A j \in JobIds : /\ jobs'[j].epoch = jobs[j].epoch /\ jobs'[j].gen = jobs[j].gen
                               /\ j # r.job => jobs'[j] = jobs[j]
      BY <1>1, <2>0, <3>1, SettleFits
    <3>4. \A j \in JobIds : jobs'[j].status = "running" => jobs[j].status = "running"
      BY <3>3
    <3>5. Numbered' /\ LetsGo(w)
      BY <1>0, <3>3 DEF OwnerInv, Numbered, LetsGo
    <3>6. Known(n, devices', deleted') /\ JobKnown(n, devices', jobs', deleted')
      BY <1>0, <1>1, <3>2 DEF Known, JobKnown, Working
    <3>7. \A e \in Ids : devices'[e].gen = devices[e].gen \/ devices[e].gen \in deleted' \cup {0}
      BY <1>0
    <3> QED BY <1>0, <3>1, <3>3, <3>4, <3>5, <3>6, <3>7, OwnerMove
  <2>2. CASE ~Gets(w)
    <3>1. Raise(w, FALSE) /\ jobs' = jobs
      BY <1>6, <2>2 DEF SnmpSave
    <3> QED BY <1>3, <2>2, <3>1
  <2> QED BY <2>1, <2>2
<1>7. ASSUME Collect(w) PROVE OwnerInv'
  <2>1. jobs' = jobs /\ r.pc \notin Working
    BY <1>7 DEF Collect, Working
  <2>2. PICK usable \in BOOLEAN : Raise(w, usable)
    BY <1>7 DEF Collect
  <2> QED BY <1>3, <2>1, <2>2
<1> QED BY <1>4, <1>5, <1>6, <1>7

\* Whoever an error ends lets go of his job, and it is on record.
LEMMA OwnerFails ==
  ASSUME OwnerInv, TypeInv', NEW w \in Requests, Fails(w)
  PROVE  OwnerInv'
<1>1. /\ UNCHANGED <<devices, created, jobs, epoch, deleted>>
      /\ cut' = cut \cup {j \in JobIds : j = req[w].job /\ jobs[j].status = "running"}
  BY DEF Fails
<1>2. Numbered'
  BY <1>1 DEF OwnerInv, Numbered
<1>3. LetsGo(w)
  <2>1. req[w].job # 0 => req[w].job \in JobIds
    BY DEF OwnerInv, TypeInv, Used
  <2> QED BY <1>1, <2>1 DEF LetsGo
<1>4. PICK n : /\ req' = [req EXCEPT ![w] = n]
               /\ n.job = 0 /\ n.pc \in {"idle", "sync"}
               /\ n.gen = 0 \/ (n.cur \in Ids /\ n.gen = devices[n.cur].gen)
  <2>1. CASE End(w)
    <3>1. Idle.job = 0 /\ Idle.pc = "idle" /\ Idle.gen = 0
      BY DEF Idle
    <3> QED BY <2>1, <3>1 DEF End
  <2>2. CASE req' = [req EXCEPT ![w] = NextDevice(w)]
    BY <2>2, FailsEnds, NextDeviceFits DEF OwnerInv, TypeInv
  <2> QED BY <2>1, <2>2, FailsEnds
<1>5. Known(n, devices, deleted) /\ JobKnown(n, devices, jobs, deleted)
  BY <1>4 DEF Known, JobKnown, Working
<1> QED BY <1>1, <1>2, <1>3, <1>4, <1>5, OwnerMove

LEMMA OwnerRestart ==
  ASSUME OwnerInv, TypeInv', Restart
  PROVE  OwnerInv'
<1>1. /\ \A w \in Requests : req'[w] = Idle
      /\ epoch' = epoch + 1 /\ UNCHANGED <<devices, created, jobs, deleted, cut>>
  BY DEF Restart
<1>2. \A w \in Requests : Known(req'[w], devices', deleted') /\ JobKnown(req'[w], devices', jobs', deleted')
  BY <1>1 DEF Known, JobKnown, Idle, Working
<1>3. \A j \in JobIds : jobs'[j].epoch < epoch'
  BY <1>1, JobBounds DEF OwnerInv, TypeInv, TypeOK, JobFits, Job
<1> QED BY <1>1, <1>2, <1>3 DEF OwnerInv, Numbered, RunningHasOwner

LEMMA OwnerStutter ==
  ASSUME OwnerInv, TypeInv', UNCHANGED vars
  PROVE  OwnerInv'
BY DEF vars, OwnerInv, Numbered, RunningHasOwner, Known, JobKnown

LEMMA OwnerKept ==
  ASSUME OwnerInv, TypeInv', [Next]_vars
  PROVE  OwnerInv'
<1>1. CASE Restart
  BY <1>1, OwnerRestart
<1>2. ASSUME NEW w \in Requests, Arrive(w) PROVE OwnerInv'
  BY <1>2, OwnerStutter, OwnerChange, OwnerAsk DEF Arrive, Refuse
<1>3. ASSUME NEW w \in Requests, Step(w) PROVE OwnerInv'
  <2>1. CASE DeleteCommit(w)
    BY <2>1, OwnerChange
  <2>2. CASE DeleteFails(w) \/ SyncGone(w)
    <3>1. End(w) /\ UNCHANGED <<devices, created, jobs, epoch, deleted, cut>> /\ req[w].pc \notin Working
      BY <2>2 DEF DeleteFails, SyncGone, Working
    <3> QED BY <3>1, OwnerEnd
  <2>3. CASE Sync(w) \/ Write(w)
    BY <2>3, OwnerSync
  <2>4. CASE StartJob(w) \/ Prepare(w) \/ Run(w) \/ Finish(w) \/ After(w)
    BY <2>4, OwnerPlaybook
  <2>5. CASE SnmpStart(w) \/ SnmpRead(w) \/ SnmpSave(w) \/ Collect(w)
    BY <2>5, OwnerPoll
  <2> QED BY <1>3, <2>1, <2>2, <2>3, <2>4, <2>5 DEF Step
<1>4. ASSUME NEW w \in Requests, Fails(w) PROVE OwnerInv'
  BY <1>4, OwnerFails
<1>5. CASE UNCHANGED vars
  BY <1>5, OwnerStutter
<1> QED BY <1>1, <1>2, <1>3, <1>4, <1>5 DEF Next

LEMMA OwnerInit ==
  ASSUME Init
  PROVE  OwnerInv
<1>1. TypeInv
  BY TypeInit
<1>2. /\ \A d \in Ids : devices[d].gen = 0
      /\ \A j \in JobIds : jobs[j].status = "none"
      /\ \A w \in Requests : req[w] = Idle
      /\ created = 0
  BY DEF Init, Gone, NoJob
<1>3. Numbered /\ RunningHasOwner
  BY <1>2 DEF Numbered, RunningHasOwner
<1>4. \A w \in Requests : Known(req[w], devices, deleted) /\ JobKnown(req[w], devices, jobs, deleted)
  BY <1>2 DEF Known, JobKnown, Idle, Working
<1> QED BY <1>1, <1>3, <1>4 DEF OwnerInv

LEMMA OwnerInvariant == Spec => []OwnerInv
<1>1. Init => OwnerInv
  BY OwnerInit
<1>2. OwnerInv /\ [Next]_vars => OwnerInv'
  BY TypeStep, OwnerKept DEF OwnerInv
<1> QED BY <1>1, <1>2, PTL DEF Spec

\* A job that runs has a request that works on it, or was begun before the last
\* restart, or its device was deleted, or an error that no handler names ended its
\* request: none is lost by a playbook or a poll that fails, by its timeout, or by
\* the next device of a test.
THEOREM OwnerCorrect == Spec => []RunningHasOwner
<1>1. OwnerInv => RunningHasOwner
  BY DEF OwnerInv
<1> QED BY <1>1, OwnerInvariant, PTL

-----------------------------------------------------------------------------
\* A job refers to its device

\* A request ends, keeps its device, or has one that it has just read.
Follows(r, n, devs) ==
  \/ n.gen = 0
  \/ n.gen = r.gen /\ n.cur = r.cur
  \/ n.cur \in Ids /\ n.gen = devs[n.cur].gen

LEMMA NextFollows ==
  ASSUME TypeInv, NEW w \in Requests, req[w].pc # "idle", devices' = devices,
         req' = [req EXCEPT ![w] = NextDevice(w)] \/ End(w)
  PROVE  Follows(req[w], req'[w], devices') /\ \A v \in Requests \ {w} : req'[v] = req[v]
<1>1. req \in [Requests -> Request] /\ RequestFits(req[w])
  BY DEF TypeInv, TypeOK
<1>2. CASE End(w)
  BY <1>1, <1>2 DEF End, Follows, Idle
<1>3. CASE req' = [req EXCEPT ![w] = NextDevice(w)]
  <2>1. NextDevice(w).gen = 0 \/ (NextDevice(w).cur \in Ids /\ NextDevice(w).gen = devices[NextDevice(w).cur].gen)
    BY <1>1, NextDeviceFits DEF TypeInv
  <2>2. req'[w] = NextDevice(w)
    BY <1>1, <1>3
  <2> QED BY <1>1, <1>3, <2>1, <2>2 DEF Follows
<1> QED BY <1>2, <1>3

LEMMA RequestFollows ==
  ASSUME TypeInv, NEW w \in Requests, Arrive(w) \/ Step(w)
  PROVE  Follows(req[w], req'[w], devices') /\ \A v \in Requests \ {w} : req'[v] = req[v]
<1> DEFINE r == req[w]
           Goal == Follows(r, req'[w], devices') /\ \A v \in Requests \ {w} : req'[v] = req[v]
<1>1. req \in [Requests -> Request] /\ RequestFits(r) /\ r \in Request
  BY DEF TypeInv, TypeOK
<1>2. ASSUME NEW n, req' = [req EXCEPT ![w] = n], Follows(r, n, devices') PROVE Goal
  BY <1>1, <1>2
<1>3. ASSUME Refuse(w) PROVE Goal
  BY <1>3 DEF Refuse, vars, Follows
<1>4. ASSUME Create(w) PROVE Goal
  <2>1. NextId \in Ids /\ \E s \in BOOLEAN :
          devices' = [devices EXCEPT ![NextId] = [gen |-> created + 1, enabled |-> TRUE, snmp |-> s]]
    BY <1>4 DEF Create
  <2>2. devices'[NextId].gen = created + 1
    BY <2>1 DEF TypeInv, TypeOK
  <2> DEFINE n == [Idle EXCEPT !.pc = "sync", !.kind = "create", !.cur = NextId, !.gen = created + 1]
  <2>3. req' = [req EXCEPT ![w] = n]
    BY <1>4 DEF Create
  <2>4. n.cur = NextId /\ n.gen = created + 1
    BY DEF Idle
  <2> HIDE DEF n
  <2>5. Follows(r, n, devices')
    BY <2>1, <2>2, <2>4 DEF Follows
  <2> QED BY <1>2, <2>3, <2>5
<1>5. ASSUME NEW d \in Ids, Patch(w, d) PROVE Goal
  <2>1. \E e, s \in BOOLEAN : devices' = [devices EXCEPT ![d].enabled = e, ![d].snmp = s]
    BY <1>5 DEF Patch
  <2>2. devices'[d].gen = devices[d].gen
    BY <2>1 DEF TypeInv, TypeOK, Row
  <2> DEFINE n == [Idle EXCEPT !.pc = "sync", !.kind = "patch", !.cur = d, !.gen = devices[d].gen]
  <2>3. req' = [req EXCEPT ![w] = n]
    BY <1>5 DEF Patch
  <2>4. n.cur = d /\ n.gen = devices[d].gen
    BY DEF Idle
  <2> HIDE DEF n
  <2>5. Follows(r, n, devices')
    BY <2>2, <2>4 DEF Follows
  <2> QED BY <1>2, <2>3, <2>5
<1>6. ASSUME NEW d \in Ids, DeleteLoad(w, d) PROVE Goal
  <2> DEFINE n == [Idle EXCEPT !.pc = "delete", !.kind = "delete", !.cur = d, !.gen = devices[d].gen,
                               !.seen = {j \in JobIds : jobs[j].dev = d}]
  <2>1. req' = [req EXCEPT ![w] = n] /\ devices' = devices
    BY <1>6 DEF DeleteLoad
  <2>2. n.cur = d /\ n.gen = devices[d].gen
    BY DEF Idle
  <2> HIDE DEF n
  <2>3. Follows(r, n, devices')
    BY <2>1, <2>2 DEF Follows
  <2> QED BY <1>2, <2>1, <2>3
<1>7. ASSUME NEW kind \in {"test", "command", "snmp"}, NEW D \in SUBSET Ids, Ask(w, kind, D) PROVE Goal
  <2> DEFINE d == CHOOSE e \in D : \A f \in D : e <= f
             n == Asked(kind, D, d)
  <2>1. req' = [req EXCEPT ![w] = n] /\ d \in D /\ n.cur = d /\ n.gen = devices[d].gen
    BY <1>7, AskFits
  <2>2. devices' = devices
    BY <1>7 DEF Ask
  <2> HIDE DEF n, d
  <2>3. Follows(r, n, devices')
    BY <2>1, <2>2 DEF Follows
  <2> QED BY <1>2, <2>1, <2>3
<1>8. ASSUME DeleteCommit(w) PROVE Goal
  <2> DEFINE n == [Idle EXCEPT !.pc = "sync", !.kind = "delete"]
  <2>1. req' = [req EXCEPT ![w] = n]
    BY <1>8 DEF DeleteCommit
  <2>2. Follows(r, n, devices')
    BY DEF Follows, Idle
  <2> HIDE DEF n
  <2> QED BY <1>2, <2>1, <2>2
<1>9. ASSUME NEW n, req' = [req EXCEPT ![w] = n], n.gen = r.gen, n.cur = r.cur PROVE Goal
  BY <1>2, <1>9 DEF Follows
<1>10. ASSUME End(w) PROVE Goal
  BY <1>2, <1>10 DEF End, Follows, Idle
<1>11. ASSUME Sync(w) PROVE Goal
  <2> DEFINE H == IF req[w].snap THEN req[w].view ELSE Enabled
             n == Found(w, H)
  <2>1. n.cur = req[w].cur /\ (n.gen = req[w].gen \/ (n.cur \in Ids /\ n.gen = devices[n.cur].gen))
    BY <1>11, FoundFits DEF Sync
  <2>2. req' = [req EXCEPT ![w] = n] /\ devices' = devices
    BY <1>11 DEF Sync
  <2> HIDE DEF n
  <2> QED BY <1>2, <2>1, <2>2 DEF Follows
<1>12. ASSUME Write(w) PROVE Goal
  <2>1. CASE r.kind \in {"test", "command"}
    <3>1. req' = [req EXCEPT ![w] = [r EXCEPT !.pc = "job", !.hosts = {}]]
      BY <1>12, <2>1 DEF Write
    <3>2. [r EXCEPT !.pc = "job", !.hosts = {}].gen = r.gen /\ [r EXCEPT !.pc = "job", !.hosts = {}].cur = r.cur
      BY <1>1 DEF Request
    <3> QED BY <1>9, <3>1, <3>2
  <2>2. CASE r.kind \notin {"test", "command"}
    BY <1>10, <1>12, <2>2 DEF Write, End
  <2> QED BY <2>1, <2>2
<1>13. ASSUME NEW next, Insert(w, next) PROVE Goal
  <2>1. req' = [req EXCEPT ![w] = Inserted(r, next)]
    BY <1>13 DEF Insert, Inserted, TypeInv, TypeOK
  <2>2. Inserted(r, next).gen = r.gen /\ Inserted(r, next).cur = r.cur
    BY <1>1 DEF Inserted, Request
  <2> QED BY <1>9, <2>1, <2>2
<1>14. ASSUME Prepare(w) \/ After(w) PROVE Goal
  <2>1. devices' = devices /\ r.pc # "idle"
    BY <1>14 DEF Prepare, After
  <2>2. CASE req' = [req EXCEPT ![w] = NextDevice(w)] \/ End(w)
    BY <2>1, <2>2, NextFollows
  <2>3. ASSUME NEW p, NEW l, req' = [req EXCEPT ![w] = [r EXCEPT !.pc = p, !.gen = devices[r.cur].gen, !.loaded = l]],
               Gets(w)
        PROVE  Goal
    <3> DEFINE n == [r EXCEPT !.pc = p, !.gen = devices[r.cur].gen, !.loaded = l]
    <3>1. n.cur = r.cur /\ n.gen = devices[r.cur].gen /\ r.cur \in Ids
      BY <1>1, <2>3 DEF Request, Gets, Live
    <3> HIDE DEF n
    <3>2. Follows(r, n, devices')
      BY <2>1, <3>1 DEF Follows
    <3> QED BY <1>2, <2>3, <3>2 DEF n
  <2>4. CASE Prepare(w)
    <3>1. CASE Gets(w)
      <4>1. req' = [req EXCEPT ![w] = [r EXCEPT !.pc = "run", !.gen = devices[r.cur].gen, !.loaded = r.loaded]]
        <5>1. [r EXCEPT !.pc = "run", !.gen = devices[r.cur].gen]
                = [r EXCEPT !.pc = "run", !.gen = devices[r.cur].gen, !.loaded = r.loaded]
          BY <1>1 DEF Request
        <5> QED BY <2>4, <3>1, <5>1 DEF Prepare
      <4> QED BY <2>3, <3>1, <4>1
    <3>2. CASE ~Gets(w)
      BY <1>10, <2>4, <3>2 DEF Prepare, End
    <3> QED BY <3>1, <3>2
  <2>5. CASE After(w)
    <3>1. CASE Gets(w) /\ devices[r.cur].snmp /\ r.ok
      BY <2>3, <2>5, <3>1 DEF After
    <3>2. CASE ~(Gets(w) /\ devices[r.cur].snmp /\ r.ok)
      BY <2>2, <2>5, <3>2 DEF After, End
    <3> QED BY <3>1, <3>2
  <2> QED BY <1>14, <2>4, <2>5
<1>15. ASSUME Run(w) PROVE Goal
  <2>1. PICK ok \in {FALSE, file.ok /\ r.gen \in file.hosts} :
          req' = [req EXCEPT ![w].pc = "finish", ![w].ok = ok, ![w].read = file]
    BY <1>15 DEF Run
  <2>2. req' = [req EXCEPT ![w] = [r EXCEPT !.pc = "finish", !.ok = ok, !.read = file]]
    BY <1>1, <2>1
  <2>3. /\ [r EXCEPT !.pc = "finish", !.ok = ok, !.read = file].gen = r.gen
        /\ [r EXCEPT !.pc = "finish", !.ok = ok, !.read = file].cur = r.cur
    BY <1>1 DEF Request
  <2> QED BY <1>9, <2>2, <2>3
<1>16. ASSUME Finish(w) PROVE Goal
  <2>1. CASE r.kind = "command"
    BY <1>10, <1>16, <2>1 DEF Finish, End
  <2>2. CASE r.kind # "command"
    <3>1. req' = [req EXCEPT ![w] = [r EXCEPT !.pc = "after", !.read = NoFile]]
      BY <1>16, <2>2 DEF Finish
    <3>2. /\ [r EXCEPT !.pc = "after", !.read = NoFile].gen = r.gen
          /\ [r EXCEPT !.pc = "after", !.read = NoFile].cur = r.cur
      BY <1>1 DEF Request
    <3> QED BY <1>9, <3>1, <3>2
  <2> QED BY <2>1, <2>2
<1>17. ASSUME NEW usable \in BOOLEAN, Raise(w, usable), devices' = devices, r.pc # "idle" PROVE Goal
  <2>1. req' = [req EXCEPT ![w] = NextDevice(w)] \/ End(w)
    BY <1>17 DEF Raise, End
  <2> QED BY <1>17, <2>1, NextFollows
<1>18. ASSUME SnmpStart(w) PROVE Goal
  <2>1. CASE CanInsert(w)
    BY <1>13, <1>18, <2>1 DEF SnmpStart
  <2>2. CASE ~CanInsert(w)
    <3>1. Raise(w, FALSE) /\ devices' = devices /\ r.pc # "idle"
      BY <1>18, <2>2 DEF SnmpStart
    <3> QED BY <1>17, <3>1
  <2> QED BY <2>1, <2>2
<1>19. ASSUME SnmpRead(w) PROVE Goal
  <2>1. CASE Gets(w)
    <3>1. PICK ok \in {FALSE, devices[r.cur].snmp} : req' = [req EXCEPT ![w].pc = "snmpsave", ![w].ok = ok]
      BY <1>19, <2>1 DEF SnmpRead
    <3>2. req' = [req EXCEPT ![w] = [r EXCEPT !.pc = "snmpsave", !.ok = ok]]
      BY <1>1, <3>1
    <3>3. /\ [r EXCEPT !.pc = "snmpsave", !.ok = ok].gen = r.gen
          /\ [r EXCEPT !.pc = "snmpsave", !.ok = ok].cur = r.cur
      BY <1>1 DEF Request
    <3> QED BY <1>9, <3>2, <3>3
  <2>2. CASE ~Gets(w)
    <3>1. Raise(w, TRUE) /\ devices' = devices /\ r.pc # "idle"
      BY <1>19, <2>2 DEF SnmpRead
    <3> QED BY <1>17, <3>1
  <2> QED BY <2>1, <2>2
<1>20. ASSUME SnmpSave(w) PROVE Goal
  <2>1. CASE Gets(w)
    <3>1. req' = [req EXCEPT ![w] = [r EXCEPT !.pc = "collect", !.job = 0]]
      BY <1>1, <1>20, <2>1 DEF SnmpSave
    <3>2. /\ [r EXCEPT !.pc = "collect", !.job = 0].gen = r.gen
          /\ [r EXCEPT !.pc = "collect", !.job = 0].cur = r.cur
      BY <1>1 DEF Request
    <3> QED BY <1>9, <3>1, <3>2
  <2>2. CASE ~Gets(w)
    <3>1. Raise(w, FALSE) /\ devices' = devices /\ r.pc # "idle"
      BY <1>20, <2>2 DEF SnmpSave
    <3> QED BY <1>17, <3>1
  <2> QED BY <2>1, <2>2
<1>21. ASSUME Collect(w) PROVE Goal
  <2>1. (\E usable \in BOOLEAN : Raise(w, usable)) /\ devices' = devices /\ r.pc # "idle"
    BY <1>21 DEF Collect
  <2> QED BY <1>17, <2>1
<1>22. ASSUME StartJob(w) PROVE Goal
  BY <1>10, <1>13, <1>22 DEF StartJob
<1>23. ASSUME DeleteFails(w) \/ SyncGone(w) PROVE Goal
  BY <1>10, <1>23 DEF DeleteFails, SyncGone
<1>24. CASE Arrive(w)
  BY <1>3, <1>4, <1>5, <1>6, <1>7, <1>24 DEF Arrive
<1>25. CASE Step(w)
  BY <1>8, <1>11, <1>12, <1>14, <1>15, <1>16, <1>18, <1>19, <1>20, <1>21, <1>22, <1>23, <1>25 DEF Step
<1> QED BY <1>24, <1>25

\* What a step does to the jobs of others: it detaches them, or settles one, or adds one.
LEMMA JobsStep ==
  ASSUME TypeInv, NEW w \in Requests, Arrive(w) \/ Step(w), ~DeleteCommit(w)
  PROVE  \/ \A j \in JobIds : jobs'[j].gen = jobs[j].gen /\ jobs'[j].dev = jobs[j].dev
         \/ /\ CanInsert(w) /\ jobs' = [jobs EXCEPT ![LastJob] = NewJob(req[w])]
            /\ LastJob \in JobIds /\ req[w].cur \in Ids /\ NewJob(req[w]).gen # 0 /\ devices' = devices
<1> DEFINE Goal ==
      \/ \A j \in JobIds : jobs'[j].gen = jobs[j].gen /\ jobs'[j].dev = jobs[j].dev
      \/ /\ CanInsert(w) /\ jobs' = [jobs EXCEPT ![LastJob] = NewJob(req[w])]
         /\ LastJob \in JobIds /\ req[w].cur \in Ids /\ NewJob(req[w]).gen # 0 /\ devices' = devices
<1>1. CASE jobs' = jobs
  BY <1>1
<1>2. ASSUME Settle(w), req[w].pc \in Working PROVE Goal
  BY <1>2, SettleFits
<1>3. ASSUME NEW next, Insert(w, next), CanInsert(w), devices' = devices,
             \/ req[w].pc = "job" /\ next = "prepare"
             \/ req[w].pc = "snmp" /\ next = "snmpread"
      PROVE  Goal
  BY <1>3, InsertFits
<1>4. CASE Arrive(w)
  <2>1. jobs' = jobs
    BY <1>4 DEF Arrive, Refuse, vars, Create, Patch, DeleteLoad, Ask
  <2> QED BY <1>1, <2>1
<1>5. CASE DeleteFails(w) \/ SyncGone(w) \/ Sync(w) \/ Write(w) \/ Prepare(w) \/ Run(w) \/ After(w)
           \/ SnmpRead(w) \/ Collect(w)
  <2>1. jobs' = jobs
    BY <1>5 DEF DeleteFails, SyncGone, Sync, Write, Prepare, Run, After, SnmpRead, Collect
  <2> QED BY <1>1, <2>1
<1>6. CASE StartJob(w) \/ SnmpStart(w)
  BY <1>1, <1>3, <1>6 DEF StartJob, SnmpStart
<1>7. CASE Finish(w) \/ SnmpSave(w)
  <2>1. req[w].pc \in Working
    BY <1>7 DEF Finish, SnmpSave, Working
  <2> QED BY <1>1, <1>2, <1>7, <2>1 DEF Finish, SnmpSave
<1> QED BY <1>4, <1>5, <1>6, <1>7 DEF Step

LEMMA DeviceInit ==
  ASSUME Init
  PROVE  DeviceInv
<1>1. \A w \in Requests : req[w].gen = 0
  BY DEF Init, Idle
<1>2. \A j \in JobIds : jobs[j].dev = 0
  BY DEF Init, NoJob
<1> QED BY <1>1, <1>2 DEF DeviceInv, JobsHaveTheirDevice

\* On MySQL a device has the number of its id, so a request and a job that refer to
\* one know which it is; and a device to which a job refers is not deleted.
LEMMA DeviceKept ==
  ASSUME IsMySQL, OwnerInv, OwnerInv', DeviceInv, [Next]_vars
  PROVE  DeviceInv'
<1>0. TypeInv /\ TypeOK /\ TypeOK'
  BY DEF OwnerInv, TypeInv
<1>1. CASE UNCHANGED vars
  BY <1>1 DEF vars, DeviceInv, JobsHaveTheirDevice
<1>2. CASE Restart
  <2>1. \A w \in Requests : req'[w].gen = 0
    BY <1>2 DEF Restart, Idle
  <2>2. jobs' = jobs /\ devices' = devices
    BY <1>2 DEF Restart
  <2> QED BY <2>1, <2>2 DEF DeviceInv, JobsHaveTheirDevice
<1>3. ASSUME NEW w \in Requests, Arrive(w) \/ Step(w) PROVE DeviceInv'
  <2>1. \A v \in Requests : req'[v].gen \in {0, req'[v].cur}
    <3>1. Follows(req[w], req'[w], devices') /\ \A v \in Requests \ {w} : req'[v] = req[v]
      BY <1>0, <1>3, RequestFollows
    <3>2. req'[w].gen \in {0, req'[w].cur}
      BY <3>1 DEF Follows, DeviceInv, OwnerInv, Numbered
    <3> QED BY <3>1, <3>2 DEF DeviceInv
  <2>2. CASE DeleteCommit(w)
    <3> DEFINE d == req[w].cur
    <3>1. /\ d \in Ids /\ devices' = [devices EXCEPT ![d] = Gone]
          /\ jobs' = [j \in JobIds |-> IF j \in req[w].seen THEN [jobs[j] EXCEPT !.dev = 0] ELSE jobs[j]]
          /\ \A j \in JobIds \ req[w].seen : jobs[j].dev # d
      BY <1>0, <2>2 DEF DeleteCommit, DeleteRefused, TypeInv, RequestFits
    <3>2. ASSUME NEW j \in JobIds, jobs'[j].dev # 0
          PROVE  jobs'[j].gen = jobs'[j].dev /\ devices'[jobs'[j].dev].gen = jobs'[j].gen
      <4>1. jobs[j] \in Job
        BY <1>0 DEF TypeOK
      <4>2. j \in req[w].seen => jobs'[j] = [jobs[j] EXCEPT !.dev = 0]
        BY <3>1
      <4>3. j \notin req[w].seen /\ jobs'[j] = jobs[j] /\ jobs[j].dev # d
        BY <3>1, <3>2, <4>1, <4>2 DEF Job
      <4>4. devices'[jobs[j].dev] = devices[jobs[j].dev]
        <5>1. jobs[j].dev \in Ids
          BY <3>2, <4>1, <4>3 DEF Job, Ids
        <5> QED BY <1>0, <3>1, <4>3, <5>1 DEF TypeOK
      <4> QED BY <3>2, <4>3, <4>4 DEF DeviceInv, JobsHaveTheirDevice
    <3> QED BY <2>1, <3>2 DEF DeviceInv, JobsHaveTheirDevice
  <2>3. CASE ~DeleteCommit(w)
    <3>1. ASSUME NEW d \in Ids, d \in Live PROVE devices'[d].gen = devices[d].gen
      <4>1. CASE Create(w)
        <5>1. NextId \notin Live
          BY <1>0, <4>1, NewIdFree DEF Create, OwnerInv
        <5>2. \E x : devices' = [devices EXCEPT ![NextId] = x]
          BY <4>1 DEF Create
        <5> QED BY <1>0, <3>1, <5>1, <5>2 DEF TypeOK
      <4>2. ASSUME NEW e \in Ids, Patch(w, e) PROVE devices'[d].gen = devices[d].gen
        <5>1. \E b, s \in BOOLEAN : devices' = [devices EXCEPT ![e].enabled = b, ![e].snmp = s]
          BY <4>2 DEF Patch
        <5> QED BY <1>0, <5>1 DEF TypeOK, Row
      <4>3. CASE ~Create(w) /\ \A e \in Ids : ~Patch(w, e)
        <5>1. devices' = devices
          <6>1. CASE Arrive(w)
            BY <4>3, <6>1 DEF Arrive, Refuse, vars, DeleteLoad, Ask
          <6>2. CASE Step(w)
            BY <2>3, <6>2 DEF Step, DeleteFails, SyncGone, Sync, Write, StartJob, Prepare, Run, Finish, After,
                              SnmpStart, SnmpRead, SnmpSave, Collect
          <6> QED BY <1>3, <6>1, <6>2
        <5> QED BY <5>1
      <4> QED BY <4>1, <4>2, <4>3
    <3>2. ASSUME NEW j \in JobIds, jobs[j].dev # 0
          PROVE  jobs[j].gen = jobs[j].dev /\ devices'[jobs[j].dev].gen = jobs[j].gen
      <4>1. jobs[j].gen = jobs[j].dev /\ devices[jobs[j].dev].gen = jobs[j].gen
        BY <3>2 DEF DeviceInv, JobsHaveTheirDevice
      <4>2. jobs[j].dev \in Ids
        BY <1>0, <3>2 DEF TypeOK, Job, Ids
      <4> QED BY <3>1, <3>2, <4>1, <4>2 DEF Live
    <3>3. \/ \A j \in JobIds : jobs'[j].gen = jobs[j].gen /\ jobs'[j].dev = jobs[j].dev
          \/ /\ CanInsert(w) /\ jobs' = [jobs EXCEPT ![LastJob] = NewJob(req[w])]
             /\ LastJob \in JobIds /\ req[w].cur \in Ids /\ NewJob(req[w]).gen # 0 /\ devices' = devices
      BY <1>0, <1>3, <2>3, JobsStep
    <3>4. CASE \A j \in JobIds : jobs'[j].gen = jobs[j].gen /\ jobs'[j].dev = jobs[j].dev
      BY <2>1, <3>2, <3>4 DEF DeviceInv, JobsHaveTheirDevice
    <3>5. CASE /\ CanInsert(w) /\ jobs' = [jobs EXCEPT ![LastJob] = NewJob(req[w])]
               /\ LastJob \in JobIds /\ req[w].cur \in Ids /\ NewJob(req[w]).gen # 0 /\ devices' = devices
      <4> DEFINE x == NewJob(req[w])
      <4>1. req[w].cur \in Live /\ devices[req[w].cur].gen = req[w].cur
        BY <3>5 DEF CanInsert, Gets, OwnerInv, Numbered, Live
      <4>2. x.dev = req[w].cur /\ x.gen \in {req[w].gen, devices[req[w].cur].gen}
        BY DEF NewJob
      <4>3. x.gen = x.dev
        BY <3>5, <4>1, <4>2 DEF DeviceInv
      <4> HIDE DEF x
      <4>4. \A j \in JobIds : jobs'[j] = IF j = LastJob THEN x ELSE jobs[j]
        BY <1>0, <3>5 DEF TypeOK, x
      <4> QED BY <2>1, <3>2, <3>5, <4>1, <4>2, <4>3, <4>4 DEF DeviceInv, JobsHaveTheirDevice
    <3> QED BY <3>3, <3>4, <3>5
  <2> QED BY <2>2, <2>3
<1>4. ASSUME NEW w \in Requests, Fails(w) PROVE DeviceInv'
  <2>1. UNCHANGED <<devices, jobs>>
    BY <1>4 DEF Fails
  <2>2. Follows(req[w], req'[w], devices') /\ \A v \in Requests \ {w} : req'[v] = req[v]
    BY <1>0, <1>4, <2>1, FailsEnds, NextFollows
  <2>3. \A v \in Requests : req'[v].gen \in {0, req'[v].cur}
    BY <2>2 DEF Follows, DeviceInv, OwnerInv, Numbered
  <2> QED BY <2>1, <2>3 DEF DeviceInv, JobsHaveTheirDevice
<1> QED BY <1>1, <1>2, <1>3, <1>4 DEF Next

\* On MySQL a job refers to the device it was made for, whatever was deleted and
\* created meanwhile: the foreign key holds back the deletions that missed one.
THEOREM JobsKeepTheirDevice ==
  ASSUME IsMySQL
  PROVE  Spec => []JobsHaveTheirDevice
<1>1. Init => DeviceInv
  BY DeviceInit
<1>2. OwnerInv /\ OwnerInv' /\ DeviceInv /\ [Next]_vars => DeviceInv'
  BY DeviceKept
<1>3. DeviceInv => JobsHaveTheirDevice
  BY DEF DeviceInv
<1> QED BY <1>1, <1>2, <1>3, OwnerInvariant, PTL DEF Spec

-----------------------------------------------------------------------------
\* The inventory file

LEMMA FileInit ==
  ASSUME Init
  PROVE  FileInv
<1>1. /\ \A w \in Requests : req[w].pc = "idle" /\ ~clean[w]
      /\ behind
  BY DEF Init, Idle
<1> QED BY <1>1 DEF FileInv, Seen, Finds, Lost

\* A step that changes neither the devices nor the file.
LEMMA FileQuiet ==
  ASSUME FileInv, NEW w \in Requests,
         UNCHANGED <<devices, file, behind>>,
         \A v \in Requests \ {w} : req'[v] = req[v] /\ clean'[v] = clean[v],
         req'[w].pc # "write",
         req'[w].pc = "sync" => /\ req'[w].snap => req'[w].view = Enabled
                                /\ req'[w].kind \notin {"create", "patch"},
         clean'[w] => /\ req'[w].pc \in {"job", "prepare", "run"} => file = Complete
                      /\ req'[w].pc = "finish" => req'[w].read = Complete,
         req[w].pc \in {"sync", "write"} => behind
  PROVE  FileInv'
<1>1. Enabled' = Enabled /\ Live' = Live /\ Complete' = Complete
  BY DEF Enabled, Live, Complete
<1>2. \A v \in Requests : Seen(v)' /\ Finds(v)'
  <2> SUFFICES ASSUME NEW v \in Requests PROVE Seen(v)' /\ Finds(v)'
    OBVIOUS
  <2>1. CASE v = w
    BY <1>1, <2>1 DEF Seen, Finds
  <2>2. CASE v # w
    <3>1. Seen(v) /\ Finds(v)
      BY DEF FileInv
    <3> QED BY <1>1, <2>2, <3>1 DEF Seen, Finds
  <2> QED BY <2>1, <2>2
<1>3. ~behind' => file' = Complete' \/ \E v \in Requests : Syncing(v)'
  <2> SUFFICES ASSUME ~behind PROVE file = Complete \/ \E v \in Requests : Syncing(v)'
    BY <1>1
  <2>1. file = Complete \/ \E v \in Requests : Syncing(v)
    BY DEF FileInv
  <2>2. ASSUME NEW v \in Requests, Syncing(v) PROVE Syncing(v)'
    BY <2>2 DEF Syncing
  <2> QED BY <2>1, <2>2
<1>4. \A v \in Requests : Lost(v)' => behind'
  <2> SUFFICES ASSUME NEW v \in Requests, Lost(v)' PROVE behind
    OBVIOUS
  <2>1. v # w
    BY DEF Lost
  <2>2. Lost(v)
    BY <1>1, <2>1 DEF Lost, Gets
  <2> QED BY <2>2 DEF FileInv
<1> QED BY <1>2, <1>3, <1>4 DEF FileInv

\* A step that changes the devices or the file: other writers are on record.
LEMMA FileTouched ==
  ASSUME FileInv, NEW w \in Requests,
         \A v \in Requests \ {w} : req'[v] = req[v] /\ ~clean'[v] /\ (Syncing(v) => behind'),
         Seen(w)', Finds(w)',
         ~behind' => file' = Complete' \/ Syncing(w)',
         Lost(w)' => behind'
  PROVE  FileInv'
<1>1. ASSUME NEW v \in Requests, v # w PROVE Seen(v)' /\ Finds(v)' /\ (Lost(v)' => behind')
  <2>1. req'[v] = req[v] /\ ~clean'[v] /\ (req[v].pc \in {"sync", "write"} => behind')
    BY <1>1 DEF Syncing
  <2> QED BY <2>1 DEF Seen, Finds, Lost
<1>2. \A v \in Requests : Seen(v)' /\ Finds(v)' /\ (Lost(v)' => behind')
  BY <1>1
<1> QED BY <1>2 DEF FileInv

\* What is to be shown for each step.
LEMMA FileChange ==
  ASSUME TypeInv, FileInv, NEW w \in Requests,
         Create(w) \/ (\E d \in Ids : Patch(w, d)) \/ DeleteCommit(w)
  PROVE  FileInv'
<1>0. req \in [Requests -> Request] /\ devices \in [Ids -> Row]
  BY DEF TypeInv, TypeOK
<1>1. ASSUME NEW n, req' = [req EXCEPT ![w] = n], n.pc = "sync", ~n.snap,
             clean' = [u \in Requests |-> u = w],
             behind' = (behind \/ \E u \in Requests \ {w} : Syncing(u)),
             n.kind = "delete" \/ n.cur \in Live'
      PROVE  FileInv'
  <2>1. req'[w] = n /\ \A v \in Requests \ {w} : req'[v] = req[v]
    BY <1>0, <1>1
  <2>2. Seen(w)' /\ Finds(w)' /\ Syncing(w)' /\ ~Lost(w)'
    BY <1>1, <2>1 DEF Seen, Finds, Syncing, Lost, Gets
  <2>3. \A v \in Requests \ {w} : ~clean'[v] /\ (Syncing(v) => behind')
    BY <1>1
  <2> QED BY <2>1, <2>2, <2>3, FileTouched
<1>2. CASE Create(w)
  <2> DEFINE n == [Idle EXCEPT !.pc = "sync", !.kind = "create", !.cur = NextId, !.gen = created + 1]
  <2>1. /\ NextId \in Ids
        /\ \E s \in BOOLEAN : devices' = [devices EXCEPT ![NextId] = [gen |-> created + 1, enabled |-> TRUE, snmp |-> s]]
        /\ req' = [req EXCEPT ![w] = n]
        /\ clean' = [u \in Requests |-> u = w]
        /\ behind' = (behind \/ \E u \in Requests \ {w} : Syncing(u))
    BY <1>2 DEF Create
  <2>2. created + 1 # 0
    BY JobBounds DEF TypeInv, TypeOK, Gens
  <2>3. NextId \in Live'
    BY <1>0, <2>1, <2>2 DEF Live
  <2>4. n.pc = "sync" /\ ~n.snap /\ n.cur = NextId
    BY DEF Idle
  <2> HIDE DEF n
  <2> QED BY <1>1, <2>1, <2>3, <2>4
<1>3. ASSUME NEW d \in Ids, Patch(w, d) PROVE FileInv'
  <2> DEFINE n == [Idle EXCEPT !.pc = "sync", !.kind = "patch", !.cur = d, !.gen = devices[d].gen]
  <2>1. /\ d \in Live
        /\ \E e, s \in BOOLEAN : devices' = [devices EXCEPT ![d].enabled = e, ![d].snmp = s]
        /\ req' = [req EXCEPT ![w] = n]
        /\ clean' = [u \in Requests |-> u = w]
        /\ behind' = (behind \/ \E u \in Requests \ {w} : Syncing(u))
    BY <1>3 DEF Patch
  <2>2. d \in Live'
    BY <1>0, <2>1 DEF Live, Row
  <2>3. n.pc = "sync" /\ ~n.snap /\ n.cur = d
    BY DEF Idle
  <2> HIDE DEF n
  <2> QED BY <1>1, <2>1, <2>2, <2>3
<1>4. CASE DeleteCommit(w)
  <2> DEFINE n == [Idle EXCEPT !.pc = "sync", !.kind = "delete"]
  <2>1. /\ req' = [req EXCEPT ![w] = n]
        /\ clean' = [u \in Requests |-> u = w]
        /\ behind' = (behind \/ \E u \in Requests \ {w} : Syncing(u))
    BY <1>4 DEF DeleteCommit
  <2>2. n.pc = "sync" /\ ~n.snap /\ n.kind = "delete"
    BY DEF Idle
  <2> HIDE DEF n
  <2> QED BY <1>1, <2>1, <2>2
<1> QED BY <1>2, <1>3, <1>4

\* The file is truncated by one who queried the devices ...
LEMMA FileSync ==
  ASSUME TypeInv, FileInv, NEW w \in Requests, Sync(w)
  PROVE  FileInv'
<1> DEFINE H == IF req[w].snap THEN req[w].view ELSE Enabled
           n == Found(w, H)
<1>1. n.pc = "write" /\ n.hosts = H
  BY FoundFits DEF Sync
<1>2. req' = [req EXCEPT ![w] = n] /\ file' = NoFile /\ devices' = devices
      /\ clean' = [u \in Requests |-> clean[u] /\ u = w]
      /\ behind' = (behind \/ \E u \in Requests \ {w} : Syncing(u))
  BY DEF Sync, Touch
<1>3. req'[w] = n /\ \A v \in Requests \ {w} : req'[v] = req[v]
  BY <1>2 DEF TypeInv, TypeOK
<1>4. clean[w] \/ ~behind => H = Enabled
  BY DEF FileInv, Seen, Sync
<1> HIDE DEF n, H
<1>5. Enabled' = Enabled
  BY <1>2 DEF Enabled, Live
<1>6. Seen(w)' /\ Finds(w)' /\ Syncing(w)' /\ ~Lost(w)'
  BY <1>1, <1>2, <1>3, <1>4, <1>5 DEF Seen, Finds, Syncing, Lost
<1>7. \A v \in Requests \ {w} : ~clean'[v] /\ (Syncing(v) => behind')
  BY <1>2
<1> QED BY <1>3, <1>6, <1>7, FileTouched

\* ... and is complete when he was not disturbed.
LEMMA FileWrite ==
  ASSUME TypeInv, FileInv, NEW w \in Requests, Write(w)
  PROVE  FileInv'
<1> DEFINE r == req[w]
           mine == [ok |-> TRUE, hosts |-> r.hosts]
<1>1. r \in Request /\ r.pc = "write" /\ devices' = devices
  BY DEF Write, TypeInv, TypeOK
<1>2. /\ file' \in IF file \in {NoFile, mine} THEN {mine} ELSE {mine, Garbled}
      /\ clean' = [u \in Requests |-> clean[u] /\ u = w]
      /\ behind' = ((behind /\ ~clean[w]) \/ \E u \in Requests \ {w} : Syncing(u))
      /\ req' = [req EXCEPT ![w] = IF r.kind \in {"test", "command"} THEN [r EXCEPT !.pc = "job", !.hosts = {}] ELSE Idle]
  BY DEF Write
<1>3. req'[w].pc \in {"job", "idle"} /\ \A v \in Requests \ {w} : req'[v] = req[v]
  <2>1. [r EXCEPT !.pc = "job", !.hosts = {}].pc = "job" /\ Idle.pc = "idle"
    BY <1>1 DEF Request, Idle
  <2>2. req'[w] \in {[r EXCEPT !.pc = "job", !.hosts = {}], Idle} /\ \A v \in Requests \ {w} : req'[v] = req[v]
    BY <1>2 DEF TypeInv, TypeOK
  <2> QED BY <2>1, <2>2
<1>4. Enabled' = Enabled /\ Complete' = Complete
  BY <1>1 DEF Enabled, Live, Complete
<1>5. clean[w] \/ ~behind => file' = Complete
  <2> SUFFICES ASSUME clean[w] \/ ~behind PROVE file' = Complete
    OBVIOUS
  <2>1. r.hosts = Enabled /\ file = NoFile
    BY <1>1 DEF FileInv, Seen
  <2> QED BY <1>2, <2>1 DEF Complete
<1>6. Seen(w)' /\ Finds(w)' /\ ~Lost(w)'
  BY <1>2, <1>3, <1>4, <1>5 DEF Seen, Finds, Lost
<1>7. ~behind' => file' = Complete'
  BY <1>2, <1>4, <1>5
<1>8. \A v \in Requests \ {w} : ~clean'[v] /\ (Syncing(v) => behind')
  BY <1>2
<1> QED BY <1>3, <1>6, <1>7, <1>8, FileTouched

\* A device is viewed as it is.
LEMMA ViewsEnabled ==
  Viewing(Idle).snap => Viewing(Idle).view = Enabled
<1>1. CASE IsMySQL
  <2>1. Viewing(Idle) = [Idle EXCEPT !.snap = TRUE, !.view = Enabled]
    BY <1>1 DEF Viewing
  <2> QED BY <2>1 DEF Idle
<1>2. CASE ~IsMySQL
  BY <1>2 DEF Viewing, Idle
<1> QED BY <1>1, <1>2

\* A test that takes its next device, or a request that ends.
LEMMA FileNext ==
  ASSUME TypeInv, FileInv, NEW w \in Requests, req[w].pc \notin {"idle", "sync", "write"},
         req' = [req EXCEPT ![w] = NextDevice(w)] \/ End(w),
         UNCHANGED <<devices, file, behind>>, \A v \in Requests \ {w} : clean'[v] = clean[v]
  PROVE  FileInv'
<1> DEFINE r == req[w]
<1>0. req \in [Requests -> Request] /\ RequestFits(r)
  BY DEF TypeInv, TypeOK
<1>1. \A v \in Requests \ {w} : req'[v] = req[v]
  BY <1>0 DEF End
<1>2. CASE End(w)
  <2>1. req'[w].pc = "idle"
    BY <1>0, <1>2 DEF End, Idle
  <2> QED BY <1>1, <2>1, FileQuiet
<1>3. CASE req' = [req EXCEPT ![w] = NextDevice(w)]
  <2>1. NextDevice(w).pc \in {"idle", "sync"} /\ NextDevice(w).kind = "test"
    BY <1>0, NextDeviceFits DEF TypeInv
  <2>2. NextDevice(w).snap => NextDevice(w).view = Enabled
    <3>1. CASE r.todo = {}
      BY <3>1 DEF NextDevice, Idle
    <3>2. CASE r.todo # {}
      <4> DEFINE d == CHOOSE e \in r.todo : \A f \in r.todo : e <= f
      <4>1. NextDevice(w) = [Viewing(Idle) EXCEPT !.pc = "sync", !.cur = d, !.gen = devices[d].gen,
                                                  !.todo = r.todo \ {d}]
        BY <3>2 DEF NextDevice
      <4>2. Viewing(Idle) \in Request
        BY ViewingFits DEF TypeInv
      <4> HIDE DEF d
      <4> QED BY <4>1, <4>2, ViewsEnabled DEF Request
    <3> QED BY <3>1, <3>2
  <2>3. req'[w] = NextDevice(w)
    BY <1>0, <1>3
  <2> QED BY <1>1, <2>1, <2>2, <2>3, FileQuiet
<1> QED BY <1>2, <1>3

\* An error leaves the file behind when its request was about to write it.
LEMMA FileFails ==
  ASSUME TypeInv, FileInv, NEW w \in Requests, Fails(w)
  PROVE  FileInv'
<1>0. /\ req \in [Requests -> Request] /\ devices' = devices
      /\ behind \in BOOLEAN /\ behind' = (behind \/ Syncing(w))
  BY DEF Fails, TypeInv, TypeOK
<1>1. CASE Syncing(w)
  <2>1. req'[w] = Idle /\ behind' /\ \A v \in Requests \ {w} : req'[v] = req[v]
    BY <1>0, <1>1, FailsEnds DEF Syncing, End
  <2>2. Enabled' = Enabled /\ Complete' = Complete
    BY <1>0 DEF Enabled, Live, Complete
  <2>3. ASSUME NEW v \in Requests PROVE Seen(v)' /\ Finds(v)'
    <3>1. CASE v = w
      BY <2>1, <3>1 DEF Seen, Finds, Idle
    <3>2. CASE v # w /\ clean'[v]
      <4>1. file' = file /\ clean' = clean
        BY <3>2 DEF Fails
      <4>2. Seen(v) /\ Finds(v) /\ req'[v] = req[v]
        BY <2>1, <3>2 DEF FileInv
      <4> QED BY <2>2, <3>2, <4>1, <4>2 DEF Seen, Finds
    <3>3. CASE v # w /\ ~clean'[v]
      BY <2>1, <3>3 DEF Seen, Finds
    <3> QED BY <3>1, <3>2, <3>3
  <2> QED BY <2>1, <2>3 DEF FileInv
<1>2. CASE ~Syncing(w)
  <2>1. UNCHANGED <<devices, file, behind>> /\ clean' = clean
    <3>1. req[w].pc # "write"
      BY <1>2 DEF Syncing
    <3>2. UNCHANGED <<devices, file, clean>>
      BY <3>1 DEF Fails
    <3>3. behind' = behind
      BY <1>0, <1>2
    <3> QED BY <3>2, <3>3
  <2>2. req[w].pc \notin {"idle", "sync", "write"}
    BY <1>2, FailsEnds DEF Syncing
  <2> QED BY <2>1, <2>2, FailsEnds, FileNext
<1> QED BY <1>1, <1>2

\* The steps of a request between its writes.
LEMMA FileRest ==
  ASSUME TypeInv, FileInv, NEW w \in Requests, Arrive(w) \/ Step(w),
         ~Create(w), \A d \in Ids : ~Patch(w, d), ~DeleteCommit(w), ~Sync(w), ~Write(w)
  PROVE  FileInv'
<1> DEFINE r == req[w]
<1>0. req \in [Requests -> Request] /\ r \in Request /\ RequestFits(r) /\ Finds(w)
  BY DEF TypeInv, TypeOK, FileInv
<1>1. \A v \in Requests \ {w} : req'[v] = req[v]
  BY RequestFollows
<1>2. UNCHANGED <<devices, file, behind>> /\ \A v \in Requests \ {w} : clean'[v] = clean[v]
  <2>1. CASE Arrive(w)
    <3>1. clean' = clean \/ clean' = [clean EXCEPT ![w] = TRUE]
      BY <2>1 DEF Arrive, Refuse, vars, DeleteLoad, Ask
    <3>2. UNCHANGED <<devices, file, behind>>
      BY <2>1 DEF Arrive, Refuse, vars, DeleteLoad, Ask
    <3> QED BY <3>1, <3>2 DEF TypeInv, TypeOK
  <2>2. CASE Step(w)
    BY <2>2 DEF Step, DeleteFails, SyncGone, StartJob, Prepare, Run, Finish, After,
                SnmpStart, SnmpRead, SnmpSave, Collect
  <2> QED BY <2>1, <2>2
<1>3. ASSUME req'[w].pc \notin {"sync", "write", "job", "prepare", "run", "finish"},
             r.pc \in {"sync", "write"} => behind
      PROVE  FileInv'
  BY <1>1, <1>2, <1>3, FileQuiet
<1>4. ASSUME End(w), r.pc \in {"sync", "write"} => behind PROVE FileInv'
  <2>1. req'[w].pc = "idle"
    BY <1>0, <1>4 DEF End, Idle
  <2> QED BY <1>3, <1>4, <2>1
<1>5. ASSUME NEW p, req'[w].pc = p, r.pc \notin {"sync", "write"}, clean' = clean,
             \/ p \in {"after", "snmp", "snmpread", "snmpsave", "collect"}
             \/ p = "prepare" /\ r.pc = "job"
             \/ p = "run" /\ r.pc = "prepare"
             \/ p = "finish" /\ r.pc = "run" /\ req'[w].read = file
      PROVE  FileInv'
  BY <1>0, <1>1, <1>2, <1>5, FileQuiet DEF Finds
<1>6. ASSUME req' = [req EXCEPT ![w] = NextDevice(w)] \/ End(w), r.pc \notin {"idle", "sync", "write"}
      PROVE  FileInv'
  BY <1>1, <1>2, <1>6, FileNext
<1>7. ASSUME NEW usable \in BOOLEAN, Raise(w, usable), r.pc \notin {"idle", "sync", "write"} PROVE FileInv'
  BY <1>6, <1>7 DEF Raise, End
<1>8. CASE Refuse(w)
  BY <1>0, <1>3, <1>8 DEF Refuse, vars
<1>9. ASSUME NEW d \in Ids, DeleteLoad(w, d) PROVE FileInv'
  <2> DEFINE n == [Idle EXCEPT !.pc = "delete", !.kind = "delete", !.cur = d, !.gen = devices[d].gen,
                               !.seen = {j \in JobIds : jobs[j].dev = d}]
  <2>1. req'[w] = n /\ r.pc = "idle"
    BY <1>0, <1>9 DEF DeleteLoad
  <2>2. n.pc = "delete"
    BY DEF Idle
  <2> HIDE DEF n
  <2> QED BY <1>3, <2>1, <2>2
<1>10. ASSUME NEW kind \in {"test", "command", "snmp"}, NEW D \in SUBSET Ids, Ask(w, kind, D) PROVE FileInv'
  <2> DEFINE d == CHOOSE e \in D : \A f \in D : e <= f
             n == Asked(kind, D, d)
  <2>1. req' = [req EXCEPT ![w] = n] /\ n.pc \in {"sync", "snmp"} /\ n.kind = kind
        /\ n.view = Viewing(Idle).view /\ n.snap = Viewing(Idle).snap
    BY <1>10, AskFits
  <2> HIDE DEF n
  <2>2. req'[w] = n /\ r.pc = "idle"
    BY <1>0, <1>10, <2>1 DEF Ask
  <2> QED BY <1>1, <1>2, <2>1, <2>2, ViewsEnabled, FileQuiet
<1>11. CASE DeleteFails(w)
  BY <1>4, <1>11 DEF DeleteFails
<1>12. CASE SyncGone(w)
  <2>1. End(w) /\ Lost(w)
    BY <1>12 DEF SyncGone, Lost
  <2> QED BY <1>4, <2>1 DEF FileInv
<1>13. ASSUME NEW next, Insert(w, next), clean' = clean,
              \/ r.pc = "job" /\ next = "prepare"
              \/ r.pc = "snmp" /\ next = "snmpread"
       PROVE  FileInv'
  <2>1. req' = [req EXCEPT ![w] = Inserted(r, next)]
    BY <1>0, <1>13 DEF Insert, Inserted
  <2>2. Inserted(r, next).pc = next
    BY <1>0 DEF Inserted, Request
  <2>3. req'[w].pc = next
    BY <1>0, <2>1, <2>2
  <2> QED BY <1>5, <1>13, <2>3
<1>14. CASE StartJob(w)
  <2>1. r.pc = "job" /\ clean' = clean /\ (Insert(w, "prepare") \/ End(w))
    BY <1>14 DEF StartJob
  <2> QED BY <1>4, <1>13, <2>1
<1>15. CASE Prepare(w)
  <2>1. CASE Gets(w)
    <3>1. req'[w] = [r EXCEPT !.pc = "run", !.gen = devices[r.cur].gen] /\ r.pc = "prepare" /\ clean' = clean
      BY <1>0, <1>15, <2>1 DEF Prepare
    <3>2. req'[w].pc = "run"
      BY <1>0, <3>1 DEF Request
    <3> QED BY <1>5, <3>1, <3>2
  <2>2. CASE ~Gets(w)
    <3>1. End(w) /\ r.pc = "prepare"
      BY <1>15, <2>2 DEF Prepare, End
    <3> QED BY <1>4, <3>1
  <2> QED BY <2>1, <2>2
<1>16. CASE Run(w)
  <2>1. PICK ok \in {FALSE, file.ok /\ r.gen \in file.hosts} :
          req' = [req EXCEPT ![w].pc = "finish", ![w].ok = ok, ![w].read = file]
    BY <1>16 DEF Run
  <2>2. req'[w] = [r EXCEPT !.pc = "finish", !.ok = ok, !.read = file] /\ r.pc = "run" /\ clean' = clean
    BY <1>0, <1>16, <2>1 DEF Run
  <2>3. req'[w].pc = "finish" /\ req'[w].read = file
    BY <1>0, <2>2 DEF Request
  <2> QED BY <1>5, <2>2, <2>3
<1>17. CASE Finish(w)
  <2>1. CASE r.kind = "command"
    <3>1. End(w) /\ r.pc = "finish"
      BY <1>17, <2>1 DEF Finish, End
    <3> QED BY <1>4, <3>1
  <2>2. CASE r.kind # "command"
    <3>1. req'[w] = [r EXCEPT !.pc = "after", !.read = NoFile] /\ r.pc = "finish" /\ clean' = clean
      BY <1>0, <1>17, <2>2 DEF Finish
    <3>2. req'[w].pc = "after"
      BY <1>0, <3>1 DEF Request
    <3> QED BY <1>5, <3>1, <3>2
  <2> QED BY <2>1, <2>2
<1>18. CASE After(w)
  <2>0. r.pc = "after" /\ clean' = clean
    BY <1>18 DEF After
  <2>1. CASE Gets(w) /\ devices[r.cur].snmp /\ r.ok
    <3>1. req'[w] = [r EXCEPT !.pc = "snmp", !.gen = devices[r.cur].gen, !.loaded = TRUE]
      BY <1>0, <1>18, <2>1 DEF After
    <3>2. req'[w].pc = "snmp"
      BY <1>0, <3>1 DEF Request
    <3> QED BY <1>5, <2>0, <3>2
  <2>2. CASE ~(Gets(w) /\ devices[r.cur].snmp /\ r.ok)
    <3>1. req' = [req EXCEPT ![w] = NextDevice(w)] \/ End(w)
      BY <1>18, <2>2 DEF After, End
    <3> QED BY <1>6, <2>0, <3>1
  <2> QED BY <2>1, <2>2
<1>19. CASE SnmpStart(w)
  <2>1. r.pc = "snmp" /\ clean' = clean /\ (Insert(w, "snmpread") \/ Raise(w, FALSE))
    BY <1>19 DEF SnmpStart
  <2> QED BY <1>7, <1>13, <2>1
<1>20. CASE SnmpRead(w)
  <2>0. r.pc = "snmpread" /\ clean' = clean
    BY <1>20 DEF SnmpRead
  <2>1. CASE Gets(w)
    <3>1. PICK ok \in {FALSE, devices[r.cur].snmp} : req' = [req EXCEPT ![w].pc = "snmpsave", ![w].ok = ok]
      BY <1>20, <2>1 DEF SnmpRead
    <3>2. req'[w] = [r EXCEPT !.pc = "snmpsave", !.ok = ok]
      BY <1>0, <3>1
    <3>3. req'[w].pc = "snmpsave"
      BY <1>0, <3>2 DEF Request
    <3> QED BY <1>5, <2>0, <3>3
  <2>2. CASE ~Gets(w)
    BY <1>7, <1>20, <2>0, <2>2 DEF SnmpRead
  <2> QED BY <2>1, <2>2
<1>21. CASE SnmpSave(w)
  <2>0. r.pc = "snmpsave" /\ clean' = clean
    BY <1>21 DEF SnmpSave
  <2>1. CASE Gets(w)
    <3>1. req'[w] = [r EXCEPT !.pc = "collect", !.job = 0]
      BY <1>0, <1>21, <2>1 DEF SnmpSave
    <3>2. req'[w].pc = "collect"
      BY <1>0, <3>1 DEF Request
    <3> QED BY <1>5, <2>0, <3>2
  <2>2. CASE ~Gets(w)
    BY <1>7, <1>21, <2>0, <2>2 DEF SnmpSave
  <2> QED BY <2>1, <2>2
<1>22. CASE Collect(w)
  <2>1. r.pc = "collect" /\ \E usable \in BOOLEAN : Raise(w, usable)
    BY <1>22 DEF Collect
  <2> QED BY <1>7, <2>1
<1>23. CASE Arrive(w)
  BY <1>8, <1>9, <1>10, <1>23 DEF Arrive
<1>24. CASE Step(w)
  BY <1>11, <1>12, <1>14, <1>15, <1>16, <1>17, <1>18, <1>19, <1>20, <1>21, <1>22, <1>24 DEF Step
<1> QED BY <1>23, <1>24

LEMMA FileKept ==
  ASSUME TypeInv, FileInv, [Next]_vars
  PROVE  FileInv'
<1>1. CASE UNCHANGED vars
  BY <1>1 DEF vars, FileInv, Seen, Finds, Lost, Gets, Syncing, Complete, Enabled, Live
<1>2. CASE Restart
  <2>1. /\ \A w \in Requests : req'[w].pc = "idle" /\ ~clean'[w]
        /\ behind' = (behind \/ \E w \in Requests : Syncing(w))
        /\ devices' = devices /\ file' = file
    BY <1>2 DEF Restart, Idle
  <2>2. Complete' = Complete
    BY <2>1 DEF Complete, Enabled, Live
  <2>3. ~behind' => file' = Complete'
    BY <2>1, <2>2 DEF FileInv
  <2> QED BY <2>1, <2>3 DEF FileInv, Seen, Finds, Lost
<1>3. ASSUME NEW w \in Requests, Arrive(w) \/ Step(w) PROVE FileInv'
  <2>1. CASE Create(w) \/ (\E d \in Ids : Patch(w, d)) \/ DeleteCommit(w)
    BY <2>1, FileChange
  <2>2. CASE Sync(w) \/ Write(w)
    BY <2>2, FileSync, FileWrite
  <2> QED BY <1>3, <2>1, <2>2, FileRest
<1>4. ASSUME NEW w \in Requests, Fails(w) PROVE FileInv'
  BY <1>4, FileFails
<1> QED BY <1>1, <1>2, <1>3, <1>4 DEF Next

LEMMA FileInvariant == Spec => [](TypeInv /\ FileInv)
<1>1. Init => TypeInv /\ FileInv
  BY TypeInit, FileInit
<1>2. (TypeInv /\ FileInv) /\ [Next]_vars => (TypeInv /\ FileInv)'
  BY TypeStep, FileKept
<1> QED BY <1>1, <1>2, PTL DEF Spec

\* A playbook reads the complete inventory of the devices enabled now, unless another
\* request changed devices or the file since its own began: what was cut off or
\* garbled before does not matter, for the file is always written anew.
THEOREM RunReadsInventory == Spec => []RunSeesInventory
<1>1. FileInv => RunSeesInventory
  BY DEF FileInv, Finds, Complete, RunSeesInventory
<1> QED BY <1>1, FileInvariant, PTL

\* At rest the file lists the enabled devices, unless writers met, or an error or a
\* restart cut one off, since it was last rewritten undisturbed.
THEOREM FileIsCurrent == Spec => []FileCatchesUp
<1>1. FileInv => FileCatchesUp
  BY DEF FileInv, Complete, FileCatchesUp, Syncing
<1> QED BY <1>1, FileInvariant, PTL

=============================================================================
