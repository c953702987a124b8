-------------------------------- MODULE Jobs --------------------------------
(***************************************************************************)
(* The handlers that change devices, test them, run commands on them and    *)
(* poll them as a job: their rows in the table of jobs, and the one         *)
(* inventory file they all write and every playbook reads.                  *)
(*                                                                          *)
(* A handler reads a device again after each of its commits and raises when *)
(* it is gone.  Fields of a session beyond that, and what discover_ports    *)
(* and collect_device_metrics do after a poll, are the subject of Collector;*)
(* here they succeed, or raise, or leave a session on which any access      *)
(* raises.  A device is told by gen from others that had its id.            *)
(***************************************************************************)
EXTENDS Naturals, FiniteSets

CONSTANTS
  Requests,     \* HTTP worker threads
  MaxId,        \* bound: device ids
  MaxGen,       \* bound: devices ever created
  MaxJobs,      \* bound: jobs
  MaxEdits,     \* bound: edits and deletions
  MaxRestarts,  \* bound: restarts
  IsMySQL       \* which database the deployment uses

ASSUME JobBounds ==
  /\ MaxId \in Nat /\ MaxGen \in Nat /\ MaxJobs \in Nat /\ MaxEdits \in Nat
  /\ MaxRestarts \in Nat
ASSUME JobDatabase == IsMySQL \in BOOLEAN

Ids == 1 .. MaxId
Gens == 0 .. MaxGen
JobIds == 1 .. MaxJobs

Row == [gen : Gens, enabled : BOOLEAN, snmp : BOOLEAN]
Gone == [gen |-> 0, enabled |-> FALSE, snmp |-> FALSE]

Job == [status : {"none", "running", "success", "failed"}, dev : 0 .. MaxId, gen : Gens,
        epoch : 0 .. MaxRestarts]
NoJob == [status |-> "none", dev |-> 0, gen |-> 0, epoch |-> 0]

VARIABLES
  devices,  \* table devices
  created,  \* how many devices were ever created
  jobs,     \* table jobs
  file,     \* dynamic_inventory.yml; ok: neither missing nor truncated nor garbled
  req,      \* what each worker is doing
  budget,   \* bound: jobs that requests may still ask for
  edits,    \* bound: edits and deletions made
  epoch,    \* how often the process restarted
  \* The rest only observes.
  deleted,  \* devices that were deleted
  clean,    \* requests since whose start nobody else changed devices or the file
  behind,   \* nobody has rewritten the file, undisturbed, since writers met or one was cut off
  cut       \* jobs whose request an unexpected error ended before it could settle them

vars == <<devices, created, jobs, file, req, budget, edits, epoch, deleted, clean, behind, cut>>

\* pc: sync (about to build the inventory), write (the file is truncated), job
\* (about to insert the job), prepare, run, finish, after (the job of a playbook),
\* snmp, snmpread, snmpsave, collect (the job of an SNMP poll), delete.
Request ==
  [pc : {"idle", "sync", "write", "job", "prepare", "run", "finish", "after",
         "snmp", "snmpread", "snmpsave", "collect", "delete"},
   kind : {"create", "patch", "delete", "test", "command", "snmp"},
   cur : 0 .. MaxId, gen : Gens,    \* the device at hand
   todo : SUBSET Ids,               \* those a bulk test has still to take
   loaded : BOOLEAN,                \* a copy of the device is at hand
   hosts : SUBSET Gens,             \* the inventory about to be written
   job : 0 .. MaxJobs,
   ok : BOOLEAN,                    \* the result of a playbook or a poll
   read : [ok : BOOLEAN, hosts : SUBSET Gens],  \* the inventory the playbook read
   view : SUBSET Gens,              \* enabled devices in the MySQL snapshot
   snap : BOOLEAN,                  \* whether there is one
   seen : SUBSET JobIds]            \* the jobs a deletion detaches

\* The inventory is missing or just truncated; or a text is cut off or mixed with another's.
NoFile == [ok |-> FALSE, hosts |-> {}]
Garbled == [ok |-> FALSE, hosts |-> {0}]

Idle == [pc |-> "idle", kind |-> "test", cur |-> 0, gen |-> 0, todo |-> {}, loaded |-> FALSE,
         hosts |-> {}, job |-> 0, ok |-> FALSE, read |-> NoFile, view |-> {}, snap |-> FALSE,
         seen |-> {}]

TypeOK ==
  /\ devices \in [Ids -> Row]
  /\ created \in Gens
  /\ jobs \in [JobIds -> Job]
  /\ file \in [ok : BOOLEAN, hosts : SUBSET Gens]
  /\ req \in [Requests -> Request]
  /\ budget \in 0 .. MaxJobs
  /\ edits \in 0 .. MaxEdits
  /\ epoch \in 0 .. MaxRestarts
  /\ deleted \subseteq Gens
  /\ clean \in [Requests -> BOOLEAN]
  /\ behind \in BOOLEAN
  /\ cut \subseteq JobIds

Init ==
  /\ devices = [d \in Ids |-> Gone]
  /\ created = 0
  /\ jobs = [j \in JobIds |-> NoJob]
  /\ file = NoFile
  /\ req = [w \in Requests |-> Idle]
  /\ budget = MaxJobs
  /\ edits = 0 /\ epoch = 0
  /\ deleted = {}
  /\ clean = [w \in Requests |-> FALSE]
  /\ behind = TRUE
  /\ cut = {}

-----------------------------------------------------------------------------
Live == {d \in Ids : devices[d].gen # 0}
Enabled == {devices[d].gen : d \in {e \in Live : devices[e].enabled}}

\* Reading the device again finds a row; its id may have passed to another device.
Gets(w) == req[w].cur \in Live

Syncing(w) == req[w].pc \in {"sync", "write"}

\* The job row inserted next.
LastJob == Cardinality({j \in JobIds : jobs[j].status # "none"}) + 1

\* Request w changed devices or the file.
Touch(w) ==
  /\ clean' = [u \in Requests |-> clean[u] /\ u = w]
  /\ behind' = (behind \/ \E u \in Requests \ {w} : Syncing(u))

\* What a first query of a transaction fixes on MySQL.
Viewing(r) == IF IsMySQL THEN [r EXCEPT !.snap = TRUE, !.view = Enabled] ELSE r

\* The handler returns or raises.
End(w) == req' = [req EXCEPT ![w] = Idle]

\* The handler of a test is done with a device: a bulk test takes the next.
NextDevice(w) ==
  IF req[w].todo = {} THEN Idle
  ELSE LET d == CHOOSE e \in req[w].todo : \A f \in req[w].todo : e <= f
       IN [Viewing(Idle) EXCEPT !.pc = "sync", !.cur = d, !.gen = devices[d].gen,
                                !.todo = req[w].todo \ {d}]

-----------------------------------------------------------------------------
\* Handlers that change devices

\* The id a new row gets.
NextId ==
  IF IsMySQL THEN created + 1
  ELSE CHOOSE n \in 1 .. MaxId + 1 : (\A d \in Live : d < n) /\ (n = 1 \/ n - 1 \in Live)

Create(w) ==
  LET d == NextId
      g == created + 1
  IN /\ req[w].pc = "idle"
     /\ created < MaxGen
     /\ d \in Ids
     /\ created' = g
     /\ \E snmp \in BOOLEAN :
          devices' = [devices EXCEPT ![d] = [gen |-> g, enabled |-> TRUE, snmp |-> snmp]]
     /\ req' = [req EXCEPT ![w] = [Idle EXCEPT !.pc = "sync", !.kind = "create", !.cur = d, !.gen = g]]
     /\ clean' = [u \in Requests |-> u = w]
     /\ behind' = (behind \/ \E u \in Requests \ {w} : Syncing(u))
     /\ UNCHANGED <<jobs, file, budget, edits, epoch, deleted, cut>>

Patch(w, d) ==
  /\ req[w].pc = "idle"
  /\ d \in Live
  /\ edits < MaxEdits
  /\ edits' = edits + 1
  /\ \E enabled, snmp \in BOOLEAN :
       devices' = [devices EXCEPT ![d].enabled = enabled, ![d].snmp = snmp]
  /\ req' = [req EXCEPT ![w] =
       [Idle EXCEPT !.pc = "sync", !.kind = "patch", !.cur = d, !.gen = devices[d].gen]]
  /\ clean' = [u \in Requests |-> u = w]
  /\ behind' = (behind \/ \E u \in Requests \ {w} : Syncing(u))
  /\ UNCHANGED <<created, jobs, file, budget, epoch, deleted, cut>>

\* db.delete loads the jobs of the device; their device_id will be set to NULL.
DeleteLoad(w, d) ==
  /\ req[w].pc = "idle"
  /\ d \in Live
  /\ edits < MaxEdits
  /\ edits' = edits + 1
  /\ req' = [req EXCEPT ![w] =
       [Idle EXCEPT !.pc = "delete", !.kind = "delete", !.cur = d, !.gen = devices[d].gen,
                    !.seen = {j \in JobIds : jobs[j].dev = d}]]
  /\ clean' = [clean EXCEPT ![w] = TRUE]
  /\ UNCHANGED <<devices, created, jobs, file, budget, epoch, deleted, behind, cut>>

\* Mutant of DeleteRefused: the foreign key of jobs does not refuse.
NeverRefused(w) == FALSE

\* On MySQL the foreign key of jobs, which has no ON DELETE, refuses the deletion
\* of a device while a job that was not detached refers to it.
DeleteRefused(w) ==
  IsMySQL /\ \E j \in JobIds \ req[w].seen : jobs[j].dev = req[w].cur

DeleteCommit(w) ==
  LET d == req[w].cur
  IN /\ req[w].pc = "delete"
     /\ ~DeleteRefused(w)
     /\ devices' = [devices EXCEPT ![d] = Gone]
     /\ jobs' = [j \in JobIds |-> IF j \in req[w].seen THEN [jobs[j] EXCEPT !.dev = 0] ELSE jobs[j]]
     /\ deleted' = deleted \cup {devices[d].gen}
     /\ req' = [req EXCEPT ![w] = [Idle EXCEPT !.pc = "sync", !.kind = "delete"]]
     /\ clean' = [u \in Requests |-> u = w]
     /\ behind' = (behind \/ \E u \in Requests \ {w} : Syncing(u))
     /\ UNCHANGED <<created, file, budget, edits, epoch, cut>>

DeleteFails(w) ==
  /\ req[w].pc = "delete"
  /\ DeleteRefused(w)
  /\ End(w)
  /\ UNCHANGED <<devices, created, jobs, file, budget, edits, epoch, deleted, clean, behind, cut>>

-----------------------------------------------------------------------------
\* The inventory

\* create_device and update_device refresh the device before sync_inventory.
SyncGone(w) ==
  /\ req[w].pc = "sync"
  /\ req[w].kind \in {"create", "patch"} /\ ~Gets(w)
  /\ End(w)
  /\ UNCHANGED <<devices, created, jobs, file, budget, edits, epoch, deleted, clean, behind, cut>>

\* The query gave these hosts; it also reads the device of a test again if its copy
\* is expired and it is among them.
Found(w, hosts) ==
  LET r == [req[w] EXCEPT !.pc = "write", !.hosts = hosts]
      g == IF r.snap \/ r.cur \notin Live THEN r.gen ELSE devices[r.cur].gen
  IN IF r.loaded \/ g \notin hosts THEN r ELSE [r EXCEPT !.gen = g, !.loaded = TRUE]

\* Mutant of Sync: a file that is there is left as it is.
SyncIfMissing(w) ==
  /\ req[w].pc = "sync"
  /\ req[w].kind \in {"create", "patch"} => Gets(w)
  /\ req' = [req EXCEPT ![w] =
       IF ~file.ok THEN [@ EXCEPT !.pc = "write", !.hosts = Enabled]
       ELSE IF @.kind \in {"test", "command"} THEN [@ EXCEPT !.pc = "job"] ELSE Idle]
  /\ UNCHANGED <<devices, created, jobs, file, budget, edits, epoch, deleted, clean, behind, cut>>

\* sync_inventory queries the enabled devices, build_inventory opens the file,
\* which truncates it ...
Sync(w) ==
  /\ req[w].pc = "sync"
  /\ req[w].kind \in {"create", "patch"} => Gets(w)
  /\ req' = [req EXCEPT ![w] = Found(w, IF req[w].snap THEN req[w].view ELSE Enabled)]
  /\ file' = NoFile
  /\ Touch(w)
  /\ UNCHANGED <<devices, created, jobs, budget, edits, epoch, deleted, cut>>

\* ... and writes it.  When another request wrote meanwhile, a longer text of its
\* may stand out behind this one.
Write(w) ==
  LET mine == [ok |-> TRUE, hosts |-> req[w].hosts]
  IN /\ req[w].pc = "write"
     /\ file' \in IF file \in {NoFile, mine} THEN {mine} ELSE {mine, Garbled}
     /\ req' = [req EXCEPT ![w] =
          IF req[w].kind \in {"test", "command"} THEN [@ EXCEPT !.pc = "job", !.hosts = {}] ELSE Idle]
     /\ clean' = [u \in Requests |-> clean[u] /\ u = w]
     /\ behind' = ((behind /\ ~clean[w]) \/ \E u \in Requests \ {w} : Syncing(u))
     /\ UNCHANGED <<devices, created, jobs, budget, edits, epoch, deleted, cut>>

-----------------------------------------------------------------------------
\* run_connectivity_test and run_command

\* A request that names no device, or has nothing to do, is answered at once.
Refuse(w) == req[w].pc = "idle" /\ UNCHANGED vars

\* POST /test, /test/bulk (several devices, all enabled), /command.
Ask(w, kind, D) ==
  LET d == CHOOSE e \in D : \A f \in D : e <= f
  IN /\ req[w].pc = "idle"
     /\ D # {} /\ D \subseteq Live
     /\ Cardinality(D) > 1 => kind = "test" /\ \A e \in D : devices[e].enabled
     /\ kind = "snmp" => devices[d].snmp
     /\ 2 * Cardinality(D) <= budget
     /\ budget' = budget - 2 * Cardinality(D)
     /\ req' = [req EXCEPT ![w] =
          [Viewing(Idle) EXCEPT !.pc = IF kind = "snmp" THEN "snmp" ELSE "sync", !.kind = kind,
             !.cur = d, !.gen = devices[d].gen, !.todo = D \ {d}, !.loaded = TRUE]]
     /\ clean' = [clean EXCEPT ![w] = TRUE]
     /\ UNCHANGED <<devices, created, jobs, file, edits, epoch, deleted, behind, cut>>

\* Inserting a job raises when the device has to be read again and is gone, and
\* on MySQL whenever it is gone.
CanInsert(w) == Gets(w) \/ (req[w].loaded /\ ~IsMySQL)

\* The insertion of a running job, and its commit.
Insert(w, next) ==
  /\ jobs' = [jobs EXCEPT ![LastJob] =
       [status |-> "running", dev |-> req[w].cur, epoch |-> epoch,
        gen |-> IF req[w].loaded THEN req[w].gen ELSE devices[req[w].cur].gen]]
  /\ req' = [req EXCEPT ![w].pc = next, ![w].job = LastJob, ![w].loaded = FALSE, ![w].snap = FALSE,
                        ![w].view = {}]

\* Mutant of Settle: a status that JobStatus does not have.
SettleUnknown(w) == jobs' = [jobs EXCEPT ![req[w].job].status = IF req[w].ok THEN "success" ELSE "error"]

\* Its last update.
Settle(w) == jobs' = [jobs EXCEPT ![req[w].job].status = IF req[w].ok THEN "success" ELSE "failed"]

StartJob(w) ==
  /\ req[w].pc = "job"
  /\ IF CanInsert(w) THEN Insert(w, "prepare") ELSE End(w) /\ UNCHANGED jobs
  /\ UNCHANGED <<devices, created, file, budget, edits, epoch, deleted, clean, behind, cut>>

\* Mutant of Prepare: it waits for the device.
PrepareWaits(w) ==
  /\ req[w].pc = "prepare"
  /\ Gets(w)
  /\ req' = [req EXCEPT ![w].pc = "run", ![w].gen = devices[req[w].cur].gen]
  /\ UNCHANGED <<devices, created, jobs, file, budget, edits, epoch, deleted, clean, behind, cut>>

\* The device is read again to choose the playbook.
Prepare(w) ==
  /\ req[w].pc = "prepare"
  /\ req' = [req EXCEPT ![w] =
       IF Gets(w) THEN [@ EXCEPT !.pc = "run", !.gen = devices[req[w].cur].gen] ELSE Idle]
  /\ UNCHANGED <<devices, created, jobs, file, budget, edits, epoch, deleted, clean, behind, cut>>

\* The playbook: it may succeed only on a host it finds in the inventory, and
\* fails also when it takes too long or is not installed.
Run(w) ==
  /\ req[w].pc = "run"
  /\ \E ok \in {FALSE, file.ok /\ req[w].gen \in file.hosts} :
       req' = [req EXCEPT ![w].pc = "finish", ![w].ok = ok, ![w].read = file]
  /\ UNCHANGED <<devices, created, jobs, file, budget, edits, epoch, deleted, clean, behind, cut>>

Finish(w) ==
  /\ req[w].pc = "finish"
  /\ Settle(w)
  /\ req' = [req EXCEPT ![w] =
       IF req[w].kind = "command" THEN Idle ELSE [@ EXCEPT !.pc = "after", !.read = NoFile]]
  /\ UNCHANGED <<devices, created, file, budget, edits, epoch, deleted, clean, behind, cut>>

\* The device is read again; after a success it is polled by SNMP.
After(w) ==
  /\ req[w].pc = "after"
  /\ req' = [req EXCEPT ![w] =
       IF ~Gets(w) THEN Idle
       ELSE IF devices[req[w].cur].snmp /\ req[w].ok
            THEN [@ EXCEPT !.pc = "snmp", !.gen = devices[req[w].cur].gen, !.loaded = TRUE]
       ELSE NextDevice(w)]
  /\ UNCHANGED <<devices, created, jobs, file, budget, edits, epoch, deleted, clean, behind, cut>>

-----------------------------------------------------------------------------
\* run_snmp_poll, in a test and in POST /snmp/poll

\* An exception: a test swallows it, and goes on if its session can be used.
Raise(w, usable) ==
  req' = [req EXCEPT ![w] = IF req[w].kind = "test" /\ usable THEN NextDevice(w) ELSE Idle]

SnmpStart(w) ==
  /\ req[w].pc = "snmp"
  /\ IF CanInsert(w) THEN Insert(w, "snmpread") ELSE Raise(w, FALSE) /\ UNCHANGED jobs
  /\ UNCHANGED <<devices, created, file, budget, edits, epoch, deleted, clean, behind, cut>>

\* The poll: without SNMP it fails at once.
SnmpRead(w) ==
  /\ req[w].pc = "snmpread"
  /\ IF Gets(w)
     THEN \E ok \in {FALSE, devices[req[w].cur].snmp} :
            req' = [req EXCEPT ![w].pc = "snmpsave", ![w].ok = ok]
     ELSE Raise(w, TRUE)
  /\ UNCHANGED <<devices, created, jobs, file, budget, edits, epoch, deleted, clean, behind, cut>>

\* Mutant of SnmpSave: only a successful poll ends the job.
SnmpSaveSuccess(w) ==
  /\ req[w].pc = "snmpsave"
  /\ IF Gets(w) THEN /\ IF req[w].ok THEN Settle(w) ELSE UNCHANGED jobs
                     /\ req' = [req EXCEPT ![w].pc = "collect", ![w].job = 0]
     ELSE Raise(w, FALSE) /\ UNCHANGED jobs
  /\ UNCHANGED <<devices, created, file, budget, edits, epoch, deleted, clean, behind, cut>>

\* The result goes to the device and to the job in one commit.
SnmpSave(w) ==
  /\ req[w].pc = "snmpsave"
  /\ IF Gets(w) THEN Settle(w) /\ req' = [req EXCEPT ![w].pc = "collect", ![w].job = 0]
     ELSE Raise(w, FALSE) /\ UNCHANGED jobs
  /\ UNCHANGED <<devices, created, file, budget, edits, epoch, deleted, clean, behind, cut>>

\* discover_ports and collect_device_metrics, if the device is monitored.
Collect(w) ==
  /\ req[w].pc = "collect"
  /\ \E usable \in BOOLEAN : Raise(w, usable)
  /\ UNCHANGED <<devices, created, jobs, file, budget, edits, epoch, deleted, clean, behind, cut>>

-----------------------------------------------------------------------------
\* An error that no handler names ends the request, in the SNMP part of a test only that
\* part: OSError and undecodable output of a subprocess, a query, refresh or commit that
\* fails, a disk that is full.  A job that is running stays so, a file that is being
\* written is cut off.
Fails(w) ==
  /\ req[w].pc # "idle"
  /\ IF req[w].pc \in {"snmp", "snmpread", "snmpsave", "collect"}
     THEN \E usable \in BOOLEAN : Raise(w, usable)
     ELSE End(w)
  /\ cut' = cut \cup {j \in JobIds : j = req[w].job /\ jobs[j].status = "running"}
  /\ IF req[w].pc = "write"
     THEN /\ file' \in {file, Garbled}
          /\ clean' = [u \in Requests |-> clean[u] /\ u = w]
     ELSE UNCHANGED <<file, clean>>
  /\ behind' = (behind \/ Syncing(w))
  /\ UNCHANGED <<devices, created, jobs, budget, edits, epoch, deleted>>

Restart ==
  /\ epoch < MaxRestarts
  /\ epoch' = epoch + 1
  /\ req' = [w \in Requests |-> Idle]
  /\ clean' = [w \in Requests |-> FALSE]
  /\ behind' = (behind \/ \E w \in Requests : Syncing(w))
  /\ UNCHANGED <<devices, created, jobs, file, budget, edits, deleted, cut>>

Arrive(w) ==
  \/ Refuse(w)
  \/ Create(w)
  \/ \E d \in Ids : Patch(w, d) \/ DeleteLoad(w, d)
  \/ \E kind \in {"test", "command", "snmp"}, D \in SUBSET Ids : Ask(w, kind, D)

Step(w) ==
  \/ DeleteCommit(w) \/ DeleteFails(w)
  \/ SyncGone(w) \/ Sync(w) \/ Write(w)
  \/ StartJob(w) \/ Prepare(w) \/ Run(w) \/ Finish(w) \/ After(w)
  \/ SnmpStart(w) \/ SnmpRead(w) \/ SnmpSave(w) \/ Collect(w)

Next == Restart \/ \E w \in Requests : Arrive(w) \/ Step(w) \/ Fails(w)

Spec == Init /\ [][Next]_vars

\* A request that was taken up goes on: playbooks and SNMP calls have timeouts.
FairSpec == Spec /\ \A w \in Requests : WF_vars(Step(w))

-----------------------------------------------------------------------------
\* A job is left running only by a restart, by the deletion of its device, or by an error
\* that no handler names: a playbook that fails, takes too long or is not installed, a poll
\* that fails or finds SNMP switched off, and a test that goes on to other devices all
\* settle theirs.
RunningHasOwner ==
  \A j \in JobIds : jobs[j].status = "running" =>
    \/ \E w \in Requests : req[w].job = j
    \/ j \in cut
    \/ jobs[j].gen \in deleted
    \/ jobs[j].epoch < epoch

\* A playbook reads the inventory of the devices enabled now, complete, as long as
\* no other request changed devices or wrote the file since its own began,
\* whatever was cut off or garbled before.
RunSeesInventory ==
  \A w \in Requests : req[w].pc = "finish" /\ clean[w] =>
    req[w].read = [ok |-> TRUE, hosts |-> Enabled]

\* When nothing is under way the file lists the enabled devices, unless writers
\* met, or one was cut off by an error or a restart, since it was last rewritten
\* undisturbed: the next request that rewrites it makes up for both.
FileCatchesUp ==
  (\A w \in Requests : req[w].pc = "idle") /\ ~behind => file = [ok |-> TRUE, hosts |-> Enabled]

\* A job refers to the device it was made for.
JobsHaveTheirDevice ==
  \A j \in JobIds : jobs[j].dev # 0 => devices[jobs[j].dev].gen = jobs[j].gen

\* Every request ends.
RequestsEnd == \A w \in Requests : req[w].pc # "idle" ~> req[w].pc = "idle"

=============================================================================
