------------------------------ MODULE AsmScans ------------------------------
(***************************************************************************)
(* Attack surface scans in services/worker-scanner: create_asm_scan, the   *)
(* Celery task execute_asm_scan and the rows they leave.                   *)
(*                                                                         *)
(* A request inserts an asm_scans row, commits it and publishes a message. *)
(* A worker process marks the row running, runs the scanner pipeline for   *)
(* up to two hours, inserts every host and service it found in a commit of *)
(* its own, compares them with the latest completed scan of the target,    *)
(* records the difference and completes the row.  Meanwhile other workers  *)
(* scan the same target, the broker may deliver the message again and a    *)
(* user may delete the target, which delete_target allows under a running  *)
(* attack surface scan: it counts scan_jobs only, and the foreign keys     *)
(* then delete the scan, its hosts, services and differences with it.      *)
(*                                                                         *)
(* As in ScanJobs, a child process of a worker opens its connection in its *)
(* first task, and get_configured_db fails in each later one: the task     *)
(* ends with nothing read or written, and its message is acknowledged.     *)
(*                                                                         *)
(* The database (PyDAL on PostgreSQL, READ COMMITTED) and the broker       *)
(* (Celery on Redis, task_acks_late) are external.  A service row stands   *)
(* here for itself, its host, screenshots and certificate.                 *)
(***************************************************************************)
EXTENDS Naturals, FiniteSets

CONSTANTS
  MaxScan,       (* bound on the scans that may be created                 *)
  Target,        (* ids of scan_targets rows                               *)
  TargetOf,      (* the target each scan id is allocated for               *)
  Service,       (* entries of a scanner's report, open_ports              *)
  Address,       (* ip:port pairs                                          *)
  AddressOf,     (* that of each entry: two entries may report the same    *)
  Worker,        (* Celery worker processes, one task each at a time       *)
  AbortsOnError, (* TRUE on PostgreSQL: a refused statement dooms the      *)
                 (* transaction until a rollback, which no task issues     *)
  Faults,        (* kinds of fault that may happen (see FaultKind)         *)
  MaxFaults      (* bound on the number of faults                          *)

(* Ids are allocated in the order of created_at.  0 stands for no scan.    *)
Scan   == 1 .. MaxScan
NoScan == 0

(***************************************************************************)
(* "crash"      a worker host dies, the broker redelivers what it held     *)
(* "visibility" a scan outlives the broker's visibility timeout (one hour, *)
(*              the default) and is delivered again while it still runs    *)
(* "kill"       the child is killed at the hard time limit: Celery acks    *)
(* "publish"    delay() raises, having published the message or not        *)
(* "handler"    the API process dies between commit and delay()            *)
(* "db"         the database cannot be reached, or fails under a worker    *)
(* "insert"     storing a service is refused                               *)
(***************************************************************************)
FaultKind == {"crash", "visibility", "kill", "publish", "handler", "db", "insert"}

ASSUME AsmScansAssumption ==
  /\ MaxScan \in Nat
  /\ TargetOf \in [Scan -> Target]
  /\ AddressOf \in [Service -> Address]
  /\ IsFiniteSet(Worker)
  /\ AbortsOnError \in BOOLEAN
  /\ Faults \subseteq FaultKind
  /\ MaxFaults \in Nat

VARIABLES
  scan,      (* asm_scans.status; "none" before, "deleted" after           *)
  services,  (* how many rows record each entry under a scan               *)
  diff,      (* the latest asm_diffs row of a scan, the one that is served *)
  targets,   (* scan_targets rows that exist                               *)
  creating,  (* scans whose request is between its commit and delay()      *)
  unsent,    (* scans whose request saw delay() raise                      *)
  queue,     (* messages waiting for a scan                                *)
  pc,        (* what each worker process is doing                          *)
  task,      (* the scan in the unacknowledged message it holds            *)
  found,     (* the entries its scanner reported: open_ports               *)
  left,      (* those it has still to insert                               *)
  base,      (* prev_scan                                                  *)
  conn,      (* its thread-local database connection: open from its first  *)
             (* task on                                                    *)
  dropped,   (* scans of which a message was acknowledged, or not          *)
             (* published, with no outcome written, and which did not      *)
             (* begin to run since                                         *)
  redelivered, (* how often a held message of each scan was delivered again*)
  faults     (* faults so far                                              *)

dbVars     == <<scan, services, diff, targets>>
apiVars    == <<creating, unsent>>
localVars  == <<found, left, base>>
workerVars == <<pc, task, localVars>>
history    == <<dropped, redelivered>>
vars       == <<dbVars, apiVars, queue, workerVars, conn, history, faults>>

Active   == {"pending", "running"}
Row      == Active \cup {"completed", "failed"}
Status   == Row \cup {"none", "deleted"}
WorkerPC == {"idle", "loaded", "marked", "scanning", "saving", "comparing",
             "completing", "ending"}

Difference == [prev : Scan \cup {NoScan}, new : SUBSET Address, removed : SUBSET Address]
NoDiff     == [prev |-> NoScan, new |-> {}, removed |-> {}]

TypeOK ==
  /\ scan \in [Scan -> Status]
  /\ services \in [Scan -> [Service -> Nat]]
  /\ diff \in [Scan -> Difference]
  /\ targets \subseteq Target
  /\ creating \subseteq Scan
  /\ unsent \subseteq Scan
  /\ queue \in [Scan -> Nat]
  /\ pc \in [Worker -> WorkerPC]
  /\ task \in [Worker -> Scan \cup {NoScan}]
  /\ \A w \in Worker : pc[w] # "idle" => task[w] \in Scan
  /\ found \in [Worker -> SUBSET Service]
  /\ left \in [Worker -> SUBSET Service]
  /\ base \in [Worker -> Scan \cup {NoScan}]
  /\ conn \in [Worker -> {"none", "open"}]
  /\ \A w \in Worker : pc[w] # "idle" => conn[w] = "open"
  /\ dropped \subseteq Scan
  /\ redelivered \in [Scan -> Nat]
  /\ faults \in 0 .. MaxFaults

Init ==
  /\ scan = [s \in Scan |-> "none"]
  /\ services = [s \in Scan |-> [x \in Service |-> 0]]
  /\ diff = [s \in Scan |-> NoDiff]
  /\ targets = Target
  /\ creating = {}
  /\ unsent = {}
  /\ queue = [s \in Scan |-> 0]
  /\ pc = [w \in Worker |-> "idle"]
  /\ task = [w \in Worker |-> NoScan]
  /\ found = [w \in Worker |-> {}]
  /\ left = [w \in Worker |-> {}]
  /\ base = [w \in Worker |-> NoScan]
  /\ conn = [w \in Worker |-> "none"]
  /\ dropped = {}
  /\ redelivered = [s \in Scan |-> 0]
  /\ faults = 0

(* The entries some row records under scan s. *)
Recorded(s) == {x \in Service : services[s][x] > 0}

(* The keys "ip:port" by which two scans are compared. *)
Addresses(S) == {AddressOf[x] : x \in S}

(* UPDATE asm_scans SET status = v WHERE id = s: nothing when it is gone. *)
SetStatus(s, v) ==
  scan' = IF scan[s] \in Row THEN [scan EXCEPT ![s] = v] ELSE scan

Publish(s) == queue' = [queue EXCEPT ![s] = @ + 1]

(* Scan s is not carried on by what just ended. *)
Drop(s) == dropped' = dropped \cup {s}

(* The broker delivers the message w holds once more. *)
Redeliver(w) ==
  /\ Publish(task[w])
  /\ redelivered' = [redelivered EXCEPT ![task[w]] = @ + 1]

Fault(kind) ==
  /\ kind \in Faults
  /\ faults < MaxFaults
  /\ faults' = faults + 1

-----------------------------------------------------------------------------
(* Requests: create_asm_scan, delete_target *)

(* A pending row for an existing target, committed. *)
CreateScan(s) ==
  /\ scan[s] = "none"
  /\ \A r \in Scan : r < s => scan[r] # "none"
  /\ TargetOf[s] \in targets
  /\ scan' = [scan EXCEPT ![s] = "pending"]
  /\ creating' = creating \cup {s}
  /\ UNCHANGED <<services, diff, targets, unsent, queue, workerVars, conn, history, faults>>

(* Variant: a resent request publishes the message once more. *)
DispatchTwice(s) ==
  /\ s \in creating
  /\ queue' = [queue EXCEPT ![s] = @ + 2]
  /\ creating' = creating \ {s}
  /\ UNCHANGED <<dbVars, unsent, workerVars, conn, history, faults>>

(* execute_asm_scan.delay(scan_id) *)
Dispatch(s) ==
  /\ s \in creating
  /\ Publish(s)
  /\ creating' = creating \ {s}
  /\ UNCHANGED <<dbVars, unsent, workerVars, conn, history, faults>>

(* delay() raises; the broker may or may not have the message. *)
DispatchRaises(s) ==
  /\ s \in creating
  /\ Fault("publish")
  /\ Publish(s) \/ UNCHANGED queue
  /\ creating' = creating \ {s}
  /\ unsent' = unsent \cup {s}
  /\ UNCHANGED <<dbVars, workerVars, conn, history>>

(* except: status = failed, whatever a worker has made of it by now. *)
RecordDispatchFailure(s) ==
  /\ s \in unsent
  /\ SetStatus(s, "failed")
  /\ unsent' = unsent \ {s}
  /\ UNCHANGED <<services, diff, targets, creating, queue, workerVars, conn,
                 history, faults>>

(* The API process dies after the commit and before delay(). *)
HandlerDies(s) ==
  /\ s \in creating
  /\ Fault("handler")
  /\ Drop(s)
  /\ creating' = creating \ {s}
  /\ UNCHANGED <<dbVars, unsent, queue, workerVars, conn, redelivered>>

(* The target goes, and by ON DELETE CASCADE its scans and all their rows. *)
DeleteTarget(t) ==
  LET Gone(s) == TargetOf[s] = t /\ scan[s] \in Row IN
  /\ t \in targets
  /\ targets' = targets \ {t}
  /\ scan' = [s \in Scan |-> IF Gone(s) THEN "deleted" ELSE scan[s]]
  /\ services' = [s \in Scan |-> IF Gone(s) THEN [x \in Service |-> 0] ELSE services[s]]
  /\ diff' = [s \in Scan |-> IF Gone(s) THEN NoDiff ELSE diff[s]]
  /\ UNCHANGED <<apiVars, queue, workerVars, conn, history, faults>>

-----------------------------------------------------------------------------
(* execute_asm_scan *)

Goto(w, l) == pc' = [pc EXCEPT ![w] = l]

Idle(w) ==
  /\ Goto(w, "idle")
  /\ task' = [task EXCEPT ![w] = NoScan]
  /\ found' = [found EXCEPT ![w] = {}]
  /\ left' = [left EXCEPT ![w] = {}]
  /\ base' = [base EXCEPT ![w] = NoScan]

Receive(w, s) ==
  /\ pc[w] = "idle"
  /\ queue[s] > 0
  /\ queue' = [queue EXCEPT ![s] = @ - 1]

Hold(w, s, l) ==
  /\ Goto(w, l)
  /\ task' = [task EXCEPT ![w] = s]

Connect(w) == conn' = [conn EXCEPT ![w] = "open"]
Disconnect(w) == conn' = [conn EXCEPT ![w] = "none"]

(* The message arrives at a fresh child and the row is read; a row that is *)
(* gone is rejected without requeueing.  (A cancelled scan would be left   *)
(* alone here; no code cancels one.)                                       *)
Start(w, s) ==
  /\ Receive(w, s)
  /\ conn[w] = "none"
  /\ Connect(w)
  /\ IF scan[s] \in Row THEN Hold(w, s, "loaded") ELSE UNCHANGED <<pc, task>>
  /\ UNCHANGED <<dbVars, apiVars, localVars, history, faults>>

(* It arrives at a child that ran a task before: get_configured_db raises, *)
(* db is None and no failure is recorded.                                  *)
StartInVain(w, s) ==
  /\ Receive(w, s)
  /\ conn[w] = "open"
  /\ Drop(s)
  /\ Hold(w, s, "ending")
  /\ UNCHANGED <<dbVars, apiVars, localVars, conn, redelivered, faults>>

(* The database cannot be reached, with the same effect; the child stays   *)
(* as it was, and max_retries notwithstanding nothing retries.             *)
StartFails(w, s) ==
  /\ Receive(w, s)
  /\ conn[w] = "none"
  /\ Fault("db")
  /\ Drop(s)
  /\ UNCHANGED <<dbVars, apiVars, workerVars, conn, redelivered>>

(* status = running, whatever it is, and commit. *)
MarkRunning(w) ==
  /\ pc[w] = "loaded"
  /\ SetStatus(task[w], "running")
  /\ Goto(w, "marked")
  /\ dropped' = dropped \ {task[w]}
  /\ UNCHANGED <<services, diff, targets, apiVars, queue, task, localVars, conn,
                 redelivered, faults>>

(* Variant: the rejected message is given up before the task has ended. *)
LoadTargetReleasing(w) ==
  /\ pc[w] = "marked"
  /\ IF TargetOf[task[w]] \in targets
     THEN Goto(w, "scanning") /\ UNCHANGED task
     ELSE Goto(w, "ending") /\ task' = [task EXCEPT ![w] = NoScan]
  /\ UNCHANGED <<dbVars, apiVars, queue, localVars, conn, history, faults>>

(* A missing target is rejected without requeueing. *)
LoadTarget(w) ==
  /\ pc[w] = "marked"
  /\ IF TargetOf[task[w]] \in targets
     THEN Goto(w, "scanning") /\ UNCHANGED <<task, localVars>>
     ELSE Idle(w)
  /\ UNCHANGED <<dbVars, apiVars, queue, conn, history, faults>>

(* The pipeline succeeds and reports the entries S. *)
ScanSucceeds(w, S) ==
  /\ pc[w] = "scanning"
  /\ found' = [found EXCEPT ![w] = S]
  /\ left' = [left EXCEPT ![w] = S]
  /\ Goto(w, "saving")
  /\ UNCHANGED <<dbVars, apiVars, queue, task, base, conn, history, faults>>

(* Variant: the task returns without recording the failure. *)
ScanFailsUnrecorded(w) ==
  /\ pc[w] = "scanning"
  /\ Goto(w, "ending")
  /\ UNCHANGED <<dbVars, apiVars, queue, task, localVars, conn, history, faults>>

(* It reports failure, or raises (at the soft time limit, for one). *)
ScanFails(w) ==
  /\ pc[w] = "scanning"
  /\ SetStatus(task[w], "failed")
  /\ Goto(w, "ending")
  /\ UNCHANGED <<services, diff, targets, apiVars, queue, task, localVars, conn,
                 history, faults>>

(* A statement was refused by the database: the failed status is written   *)
(* where the transaction survives that, and nowhere else.                  *)
Refused(w) ==
  /\ IF AbortsOnError
     THEN Drop(task[w]) /\ UNCHANGED scan
     ELSE SetStatus(task[w], "failed") /\ UNCHANGED dropped
  /\ Goto(w, "ending")

(* The next entry is inserted and committed, a row of its own even if it   *)
(* was inserted before, by an earlier execution or for an entry with the   *)
(* same address; the foreign key needs the scan.                           *)
SaveService(w, x) ==
  LET s == task[w] IN
  /\ pc[w] = "saving"
  /\ x \in left[w]
  /\ IF scan[s] \in Row
     THEN /\ services' = [services EXCEPT ![s][x] = @ + 1]
          /\ left' = [left EXCEPT ![w] = @ \ {x}]
          /\ UNCHANGED <<scan, dropped, pc>>
     ELSE Refused(w) /\ UNCHANGED <<services, left>>
  /\ UNCHANGED <<diff, targets, apiVars, queue, task, found, base, conn,
                 redelivered, faults>>

(* Inserting is refused: by the database, or by its driver before the      *)
(* statement is sent (a banner with a NUL character), which harms nothing. *)
SaveFails(w) ==
  /\ pc[w] = "saving"
  /\ left[w] # {}
  /\ Fault("insert")
  /\ \/ Refused(w)
     \/ SetStatus(task[w], "failed") /\ Goto(w, "ending") /\ UNCHANGED dropped
  /\ UNCHANGED <<services, diff, targets, apiVars, queue, task, localVars, conn,
                 redelivered>>

(* The other completed scans of the same target. *)
Comparable(s) ==
  {p \in Scan : p # s /\ TargetOf[p] = TargetOf[s] /\ scan[p] = "completed"}

(* Variant: the comparison starts while services are still being stored. *)
ChoosePreviousEarly(w) ==
  LET C == Comparable(task[w]) IN
  /\ pc[w] = "saving"
  /\ \/ C = {} /\ base' = [base EXCEPT ![w] = NoScan]
     \/ \E p \in C : /\ \A q \in C : q <= p
                     /\ base' = [base EXCEPT ![w] = p]
  /\ Goto(w, "comparing")
  /\ UNCHANGED <<dbVars, apiVars, queue, task, found, left, conn, history, faults>>

(* prev_scan: the latest created of them, even if created after this one.  *)
ChoosePrevious(w) ==
  LET C == Comparable(task[w]) IN
  /\ pc[w] = "saving"
  /\ left[w] = {}
  /\ \/ C = {} /\ base' = [base EXCEPT ![w] = NoScan]
     \/ \E p \in C : /\ \A q \in C : q <= p
                     /\ base' = [base EXCEPT ![w] = p]
  /\ Goto(w, "comparing")
  /\ UNCHANGED <<dbVars, apiVars, queue, task, found, left, conn, history, faults>>

(* Variant: the two halves of the difference swapped. *)
CompareSwapped(S, p) ==
  IF p = NoScan THEN NoDiff
  ELSE [prev |-> p, new |-> Addresses(Recorded(p)) \ Addresses(S),
        removed |-> Addresses(S) \ Addresses(Recorded(p))]

(* What this scan found against what the rows of p record. *)
Compare(S, p) ==
  IF p = NoScan THEN NoDiff
  ELSE [prev |-> p, new |-> Addresses(S) \ Addresses(Recorded(p)),
        removed |-> Addresses(Recorded(p)) \ Addresses(S)]

(* The rows of p are read, and the difference is inserted and committed if *)
(* there is a previous scan or an expired certificate; the foreign keys    *)
(* need the scans.  (A second delivery of p may add rows between the reads *)
(* and the insert: rows are only added, so a reading is a smaller set of   *)
(* the rows there.)  A previous scan goes with the target, so together     *)
(* with this one.                                                          *)
RecordDiff(w, expired) ==
  LET s == task[w] IN
  /\ pc[w] = "comparing"
  /\ IF base[w] = NoScan /\ ~expired
     THEN Goto(w, "completing") /\ UNCHANGED <<scan, diff, dropped>>
     ELSE IF scan[s] \in Row
          THEN /\ diff' = [diff EXCEPT ![s] = Compare(found[w], base[w])]
               /\ Goto(w, "completing")
               /\ UNCHANGED <<scan, dropped>>
          ELSE Refused(w) /\ UNCHANGED diff
  /\ UNCHANGED <<services, targets, apiVars, queue, task, localVars, conn,
                 redelivered, faults>>

(* status = completed and commit. *)
Complete(w) ==
  /\ pc[w] = "completing"
  /\ SetStatus(task[w], "completed")
  /\ Goto(w, "ending")
  /\ UNCHANGED <<services, diff, targets, apiVars, queue, task, localVars, conn,
                 history, faults>>

(* The connection fails: the failed status cannot be written either. *)
LoseDatabase(w) ==
  /\ pc[w] \notin {"idle", "ending"}
  /\ Fault("db")
  /\ Drop(task[w])
  /\ Goto(w, "ending")
  /\ UNCHANGED <<dbVars, apiVars, queue, task, localVars, conn, redelivered>>

(* The task returned; the message is acknowledged (task_acks_late). *)
Ack(w) ==
  /\ pc[w] = "ending"
  /\ Idle(w)
  /\ UNCHANGED <<dbVars, apiVars, queue, conn, history, faults>>

(* A task of another kind runs on a fresh child. *)
OtherTask(w) ==
  /\ pc[w] = "idle"
  /\ conn[w] = "none"
  /\ Connect(w)
  /\ UNCHANGED <<dbVars, apiVars, queue, workerVars, history, faults>>

(* worker_max_tasks_per_child replaces the child. *)
Recycle(w) ==
  /\ pc[w] = "idle"
  /\ conn[w] = "open"
  /\ Disconnect(w)
  /\ UNCHANGED <<dbVars, apiVars, queue, workerVars, history, faults>>

(* The worker host dies and what it held is delivered again. *)
Crash(w) ==
  /\ pc[w] # "idle"
  /\ Fault("crash")
  /\ Redeliver(w)
  /\ Idle(w)
  /\ Disconnect(w)
  /\ UNCHANGED <<dbVars, apiVars, dropped>>

(* The child is killed at the hard time limit and its message acknowledged. *)
Kill(w) ==
  /\ pc[w] # "idle"
  /\ Fault("kill")
  /\ Drop(task[w])
  /\ Idle(w)
  /\ Disconnect(w)
  /\ UNCHANGED <<dbVars, apiVars, queue, redelivered>>

(* The visibility timeout passes under a scan that goes on. *)
Reappear(w) ==
  /\ pc[w] # "idle"
  /\ Fault("visibility")
  /\ Redeliver(w)
  /\ UNCHANGED <<dbVars, apiVars, workerVars, conn, dropped>>

-----------------------------------------------------------------------------
Request(s) ==
  \/ Dispatch(s)
  \/ RecordDispatchFailure(s)

Deliver(w, s) == Start(w, s) \/ StartInVain(w, s)

Work(w) ==
  \/ MarkRunning(w)
  \/ LoadTarget(w)
  \/ \E S \in SUBSET Service : ScanSucceeds(w, S)
  \/ ScanFails(w)
  \/ \E x \in Service : SaveService(w, x)
  \/ ChoosePrevious(w)
  \/ \E expired \in BOOLEAN : RecordDiff(w, expired)
  \/ Complete(w)
  \/ Ack(w)

Next ==
  \/ \E s \in Scan :
       \/ CreateScan(s)
       \/ Request(s)
       \/ DispatchRaises(s)
       \/ HandlerDies(s)
  \/ \E t \in Target : DeleteTarget(t)
  \/ \E w \in Worker :
       \/ \E s \in Scan : Deliver(w, s) \/ StartFails(w, s)
       \/ Work(w)
       \/ SaveFails(w)
       \/ LoseDatabase(w)
       \/ OtherTask(w)
       \/ Recycle(w)
       \/ Crash(w)
       \/ Kill(w)
       \/ Reappear(w)

Spec == Init /\ [][Next]_vars

(* A request goes on, a worker goes on with its task (every step of the    *)
(* pipeline has a timeout), and a waiting message is delivered; a child    *)
(* need not be replaced.                                                   *)
Fairness ==
  /\ \A s \in Scan :
       /\ WF_vars(Request(s))
       /\ WF_vars(\E w \in Worker : Deliver(w, s))
  /\ \A w \in Worker : WF_vars(Work(w))

FairSpec == Spec /\ Fairness

-----------------------------------------------------------------------------
(* Properties *)

(* What GET /scans/<id>/diff serves can be shown in the inventory: the     *)
(* addresses it calls new are recorded under this scan and those it calls   *)
(* removed under the previous one, another scan of the same target, and    *)
(* none is both; deleted targets, scans executed twice and scans of the    *)
(* target that run at the same time included (execute_asm_scan computes    *)
(* one half from memory and reads the other while others write it).        *)
DiffIsGrounded ==
  \A s \in Scan :
    LET d == diff[s] IN
    d.prev # NoScan =>
      /\ d.prev # s
      /\ TargetOf[d.prev] = TargetOf[s]
      /\ d.new \subseteq Addresses(Recorded(s))
      /\ d.removed \subseteq Addresses(Recorded(d.prev))
      /\ d.new \cap d.removed = {}

(* A scan is completed only by an execution all of whose findings are      *)
(* stored: execute_asm_scan commits them one by one and completes the scan *)
(* in a commit of its own, so that no error, no crash, no second delivery  *)
(* and no deletion on the way may leave a completed scan with only the     *)
(* part of the services its last execution saw.                            *)
CompletedWhole ==
  [][\A s \in Scan :
       scan[s] # "completed" /\ scan'[s] = "completed" =>
         \E w \in Worker : /\ task[w] = s
                           /\ pc[w] = "completing"
                           /\ found[w] \subseteq Recorded(s)]_vars

(* The inventory counts an entry of a report again only when the broker    *)
(* delivered a message of that scan again, after a worker died or the      *)
(* visibility timeout passed, and at most once for each time; however the  *)
(* scans of a target overlap, fail to be published or lose the database,   *)
(* there is one row (execute_asm_scan inserts without looking for what is  *)
(* there).                                                                 *)
OncePerDelivery ==
  \A s \in Scan, x \in Service : services[s][x] <= 1 + redelivered[s]

(* Every scan that a user created ends for good or goes with its target,   *)
(* with crashes, redeliveries, deletions and refused statements on the     *)
(* way, or is dropped for good: its message was given to a child that ran  *)
(* a task before or that could not reach the database, its API process     *)
(* died, or its worker was killed, lost the database or, on PostgreSQL,    *)
(* had a statement refused.                                                *)
ScansSettle ==
  \A s \in Scan :
    scan[s] \in Active ~> [](scan[s] \notin Active \/ s \in dropped)
=============================================================================
