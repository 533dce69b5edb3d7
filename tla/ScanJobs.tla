------------------------------ MODULE ScanJobs ------------------------------
(***************************************************************************)
(* The life of a scan job in services/worker-scanner.                      *)
(*                                                                         *)
(* Flask request handlers and the scheduler's runs insert a scan_jobs row, *)
(* commit it and publish a Celery message; Celery worker processes receive *)
(* the message, mark the row running, scan for up to two hours and write   *)
(* the outcome; users cancel, delete and retry jobs and delete targets     *)
(* meanwhile. The database (PyDAL on PostgreSQL, READ COMMITTED, no row is *)
(* ever locked by a read) and the broker (Celery on Redis, task_acks_late) *)
(* are external and modelled by what the code relies on.                   *)
(*                                                                         *)
(* A request reads a row in one step and writes in a later one, whatever   *)
(* happened in between; every UPDATE of the code is unconditional on the   *)
(* status, and touches nothing when the row is gone.                       *)
(*                                                                         *)
(* A child process of a worker opens its connection in its first task, of  *)
(* whatever kind, and keeps it.  get_configured_db defines the tables      *)
(* again in every task, which PyDAL refuses on a connection that has them: *)
(* each later task of the child ends there, with nothing read or written,  *)
(* and its message is acknowledged like any other.                         *)
(***************************************************************************)
EXTENDS Naturals, FiniteSets

CONSTANTS
  Job,           (* ids of scan_jobs rows that may be allocated            *)
  Target,        (* ids of scan_targets rows                               *)
  TargetOf,      (* the target each job id is allocated for                *)
  Worker,        (* Celery worker processes, one task each at a time       *)
  Handler,       (* requests, and runs of the scheduler, that may be in    *)
                 (* flight at the same time                                *)
  None,          (* no job, no target                                      *)
  MaxRetries,    (* max_retries of execute_scan (2 in the code)            *)
  AbortsOnError, (* TRUE on PostgreSQL: a failed statement dooms the       *)
                 (* transaction until a rollback, which no worker issues   *)
  Faults,        (* kinds of fault that may happen (see FaultKind)         *)
  MaxFaults      (* bound on the number of faults                          *)

(***************************************************************************)
(* "crash"      a worker host dies, the broker redelivers what it held     *)
(* "visibility" a scan outlives the broker's visibility timeout (one hour, *)
(*              the default: celery_app.py sets none) and is redelivered   *)
(* "kill"       a worker child is killed (hard time limit): Celery acks    *)
(* "publish"    delay() raises, having published the message or not        *)
(* "handler"    a process dies between commit and delay()                  *)
(* "db"         the database cannot be reached, or fails under a worker    *)
(* "insert"     inserting a finding fails                                  *)
(***************************************************************************)
FaultKind == {"crash", "visibility", "kill", "publish", "handler", "db", "insert"}

ASSUME ScanJobsAssumption ==
  /\ TargetOf \in [Job -> Target]
  /\ None \notin Job \cup Target
  /\ MaxRetries \in Nat
  /\ MaxFaults \in Nat
  /\ AbortsOnError \in BOOLEAN
  /\ Faults \subseteq FaultKind

VARIABLES
  job,      (* scan_jobs.status of each id; "none" before, "deleted" after  *)
  findings, (* committed scan_findings of each job, one per reporting scan  *)
  summary,  (* result_summary.total_findings of each job, same unit         *)
  targets,  (* scan_targets rows that exist                                 *)
  queue,    (* messages waiting in Redis: queue[j][n], n-th retry of job j  *)
  pc,       (* what each worker process is doing                            *)
  task,     (* the job in the unacknowledged message it holds               *)
  try,      (* request.retries of that message                              *)
  conn,     (* its thread-local database connection: open from its first    *)
            (* task on                                                      *)
  req,      (* the requests in flight                                       *)
  dropped,  (* jobs of which a message was acknowledged, or not published,  *)
            (* with no outcome written, and which did not begin to run since*)
  faults    (* faults so far                                                *)

dbVars     == <<job, findings, summary, targets>>
workerVars == <<pc, task, try, conn>>
vars       == <<dbVars, queue, workerVars, req, dropped, faults>>

Active    == {"pending", "running"}
Terminal  == {"completed", "failed", "cancelled"}
Row       == Active \cup Terminal
Status    == Row \cup {"none", "deleted"}
Try       == 0 .. MaxRetries
WorkerPC  == {"idle", "loaded", "scanning", "ending"}
Publishing == {"dispatch", "dispatchdue"}
Operation == Publishing \cup
             {"idle", "insert", "insertdue", "dispatchfailed", "delete", "cancel", "droptarget"}

(* A request in flight: its operation, the row it is about and the status  *)
(* it read there ("none" when it acts on no status it read).               *)
Request    == [op : Operation, on : Job \cup Target \cup {None}, seen : Status]
NoRequest  == [op |-> "idle", on |-> None, seen |-> "none"]

TypeOK ==
  /\ job \in [Job -> Status]
  /\ findings \in [Job -> Nat]
  /\ summary \in [Job -> Nat]
  /\ targets \subseteq Target
  /\ queue \in [Job -> [Try -> Nat]]
  /\ pc \in [Worker -> WorkerPC]
  /\ task \in [Worker -> Job \cup {None}]
  /\ \A w \in Worker : pc[w] # "idle" => task[w] \in Job
  /\ try \in [Worker -> Try]
  /\ conn \in [Worker -> {"none", "open"}]
  /\ \A w \in Worker : pc[w] # "idle" => conn[w] = "open"
  /\ req \in [Handler -> Request]
  /\ \A h \in Handler :
       req[h].op \in Publishing \cup {"dispatchfailed", "delete", "cancel"}
         => req[h].on \in Job
  /\ dropped \subseteq Job
  /\ faults \in Nat

Init ==
  /\ job = [j \in Job |-> "none"]
  /\ findings = [j \in Job |-> 0]
  /\ summary = [j \in Job |-> 0]
  /\ targets = Target
  /\ queue = [j \in Job |-> [n \in Try |-> 0]]
  /\ pc = [w \in Worker |-> "idle"]
  /\ task = [w \in Worker |-> None]
  /\ try = [w \in Worker |-> 0]
  /\ conn = [w \in Worker |-> "none"]
  /\ req = [h \in Handler |-> NoRequest]
  /\ dropped = {}
  /\ faults = 0

-----------------------------------------------------------------------------
(* Rows and messages *)

(* UPDATE scan_jobs SET status = s WHERE id = j *)
SetStatus(j, s) ==
  job' = IF job[j] \in Row THEN [job EXCEPT ![j] = s] ELSE job

(* DELETE the rows of the jobs in S with their findings, in one commit *)
DeleteRows(S) ==
  /\ job' = [j \in Job |-> IF j \in S /\ job[j] \in Row THEN "deleted" ELSE job[j]]
  /\ findings' = [j \in Job |-> IF j \in S THEN 0 ELSE findings[j]]
  /\ summary' = [j \in Job |-> IF j \in S THEN 0 ELSE summary[j]]

(* Job j is not carried on by what just ended. *)
Drop(j) == dropped' = dropped \cup {j}

Publish(j, n) == queue' = [queue EXCEPT ![j][n] = @ + 1]

Fault(kind) ==
  /\ kind \in Faults
  /\ faults < MaxFaults
  /\ faults' = faults + 1

-----------------------------------------------------------------------------
(* Requests: create_job, retry_job, delete_job, delete_target, cancel_scan *)
(* (a Celery task: on a child that ran a task before it does nothing); and *)
(* what process_due_schedules does for one due row                         *)

Enter(h, op, on, seen) ==
  /\ req[h] = NoRequest
  /\ req' = [req EXCEPT ![h] = [op |-> op, on |-> on, seen |-> seen]]
  /\ UNCHANGED <<dbVars, queue, workerVars, dropped, faults>>

Leave(h) == req' = [req EXCEPT ![h] = NoRequest]

Advance(h, op, on) ==
  req' = [req EXCEPT ![h] = [op |-> op, on |-> on, seen |-> "none"]]

(* The checks of create_job: the target exists (a disabled target and a    *)
(* disabled scanner are refused too, and leave no trace).  run_schedule    *)
(* goes the same way for a schedule of t, whose row implies the target's.  *)
BeginCreate(h, t) ==
  /\ t \in targets
  /\ Enter(h, "insert", t, "none")

(* The scheduler has read a due row of the target. *)
BeginDue(h, t) ==
  /\ t \in targets
  /\ Enter(h, "insertdue", t, "none")

(* Variant: the job itself is published again, no new row inserted. *)
BeginRetryInPlace(h, j) ==
  /\ job[j] \in {"failed", "cancelled"}
  /\ Enter(h, "dispatch", j, "none")

(* The checks of retry_job: the original is failed or cancelled. *)
BeginRetry(h, j) ==
  /\ job[j] \in {"failed", "cancelled"}
  /\ Enter(h, "insert", TargetOf[j], "none")

(* INSERT a pending row and commit; the foreign key needs the target. *)
InsertJob(h, j) ==
  /\ req[h].op \in {"insert", "insertdue"}
  /\ TargetOf[j] = req[h].on
  /\ job[j] = "none"
  /\ IF TargetOf[j] \in targets
     THEN /\ job' = [job EXCEPT ![j] = "pending"]
          /\ Advance(h, IF req[h].op = "insert" THEN "dispatch" ELSE "dispatchdue", j)
     ELSE /\ Leave(h)
          /\ UNCHANGED job
  /\ UNCHANGED <<findings, summary, targets, queue, workerVars, dropped, faults>>

(* execute_scan.delay(job_id) *)
Dispatch(h) ==
  /\ req[h].op \in Publishing
  /\ Publish(req[h].on, 0)
  /\ Leave(h)
  /\ UNCHANGED <<dbVars, workerVars, dropped, faults>>

(* delay() raises; the broker may or may not have the message. *)
DispatchRaises(h) ==
  /\ req[h].op = "dispatch"
  /\ Fault("publish")
  /\ Publish(req[h].on, 0) \/ UNCHANGED queue
  /\ Advance(h, "dispatchfailed", req[h].on)
  /\ UNCHANGED <<dbVars, workerVars, dropped>>

(* In the scheduler the rollback that follows undoes nothing: the row was  *)
(* committed.                                                              *)
DueDispatchRaises(h) ==
  /\ req[h].op = "dispatchdue"
  /\ Fault("publish")
  /\ \/ Publish(req[h].on, 0) /\ UNCHANGED dropped
     \/ Drop(req[h].on) /\ UNCHANGED queue
  /\ Leave(h)
  /\ UNCHANGED <<dbVars, workerVars>>

(* Variant: a status of its own for a job that was not published. *)
RecordDispatchError(h) ==
  /\ req[h].op = "dispatchfailed"
  /\ SetStatus(req[h].on, "error")
  /\ Leave(h)
  /\ UNCHANGED <<findings, summary, targets, queue, workerVars, dropped, faults>>

(* Variant: the exception is only logged. *)
LogDispatchFailure(h) ==
  /\ req[h].op = "dispatchfailed"
  /\ Leave(h)
  /\ UNCHANGED <<dbVars, queue, workerVars, dropped, faults>>

(* except: UPDATE status = failed, whatever the status is by now. *)
RecordDispatchFailure(h) ==
  /\ req[h].op = "dispatchfailed"
  /\ SetStatus(req[h].on, "failed")
  /\ Leave(h)
  /\ UNCHANGED <<findings, summary, targets, queue, workerVars, dropped, faults>>

(* The process dies after the commit and before delay(). *)
HandlerDies(h) ==
  /\ req[h].op \in Publishing
  /\ Fault("handler")
  /\ Drop(req[h].on)
  /\ Leave(h)
  /\ UNCHANGED <<dbVars, queue, workerVars>>

(* delete_job reads the row and branches on the status it read. *)
BeginDelete(h, j) ==
  /\ job[j] \in Row
  /\ Enter(h, "delete", j, job[j])

(* An active job is cancelled: the Celery revoke that follows names the    *)
(* job id where Celery expects its own task id, so it reaches no task.     *)
(* A terminal one is deleted with its findings.                            *)
FinishDelete(h) ==
  /\ req[h].op = "delete"
  /\ IF req[h].seen \in Active
     THEN /\ SetStatus(req[h].on, "cancelled")
          /\ UNCHANGED <<findings, summary>>
     ELSE DeleteRows({req[h].on})
  /\ Leave(h)
  /\ UNCHANGED <<targets, queue, workerVars, dropped, faults>>

(* Variant: any existing job may be cancelled. *)
CancellableAny == Row

Cancellable == Active

(* cancel_scan refuses any but an active job. *)
BeginCancel(h, j) ==
  /\ job[j] \in Cancellable
  /\ Enter(h, "cancel", j, job[j])

FinishCancel(h) ==
  /\ req[h].op = "cancel"
  /\ SetStatus(req[h].on, "cancelled")
  /\ Leave(h)
  /\ UNCHANGED <<findings, summary, targets, queue, workerVars, dropped, faults>>

(* delete_target counts the active jobs of the target ... *)
BeginDeleteTarget(h, t) ==
  /\ t \in targets
  /\ \A j \in Job : TargetOf[j] = t => job[j] \notin Active
  /\ Enter(h, "droptarget", t, "none")

(* ... and deletes its jobs, their findings and the target in one commit. *)
FinishDeleteTarget(h) ==
  /\ req[h].op = "droptarget"
  /\ DeleteRows({j \in Job : TargetOf[j] = req[h].on})
  /\ targets' = targets \ {req[h].on}
  /\ Leave(h)
  /\ UNCHANGED <<queue, workerVars, dropped, faults>>

-----------------------------------------------------------------------------
(* execute_scan *)

Idle(w) ==
  /\ pc' = [pc EXCEPT ![w] = "idle"]
  /\ task' = [task EXCEPT ![w] = None]
  /\ try' = [try EXCEPT ![w] = 0]

Goto(w, l) ==
  /\ pc' = [pc EXCEPT ![w] = l]
  /\ UNCHANGED <<task, try>>

(* self.retry(): a new message while retries are left, nothing otherwise.  *)
RetryMessage(j, n) ==
  IF n < MaxRetries THEN Publish(j, n + 1) ELSE UNCHANGED queue

(* The same, where the outcome could not be written either. *)
RetryOrDrop(j, n) ==
  /\ RetryMessage(j, n)
  /\ IF n < MaxRetries THEN UNCHANGED dropped ELSE Drop(j)

(* Variant: the cancelled check is missing. *)
RunnableUnchecked(j) == TRUE

(* The check before execution. *)
Runnable(j) == job[j] # "cancelled"

Receive(w, j, n) ==
  /\ pc[w] = "idle"
  /\ queue[j][n] > 0

Hold(w, j, n, l) ==
  /\ pc' = [pc EXCEPT ![w] = l]
  /\ task' = [task EXCEPT ![w] = j]
  /\ try' = [try EXCEPT ![w] = n]

Connect(w) == conn' = [conn EXCEPT ![w] = "open"]
Disconnect(w) == conn' = [conn EXCEPT ![w] = "none"]

(* The message arrives at a fresh child and the row is read.  A missing    *)
(* row is rejected without requeueing; a task that may not run ends with   *)
(* nothing written.                                                        *)
Start(w, j, n) ==
  /\ Receive(w, j, n)
  /\ conn[w] = "none"
  /\ Connect(w)
  /\ queue' = [queue EXCEPT ![j][n] = @ - 1]
  /\ IF job[j] \in Row
     THEN Hold(w, j, n, IF Runnable(j) THEN "loaded" ELSE "ending")
     ELSE UNCHANGED <<pc, task, try>>
  /\ UNCHANGED <<dbVars, req, dropped, faults>>

(* It arrives at a child that ran a task before: get_configured_db raises, *)
(* db is None, and the error is not of a kind that is retried.             *)
StartInVain(w, j, n) ==
  /\ Receive(w, j, n)
  /\ conn[w] = "open"
  /\ queue' = [queue EXCEPT ![j][n] = @ - 1]
  /\ Drop(j)
  /\ Hold(w, j, n, "ending")
  /\ UNCHANGED <<dbVars, conn, req, faults>>

(* The database cannot be reached: the child stays as it was, and the task *)
(* is retried while retries are left.                                      *)
StartFails(w, j, n) ==
  /\ Receive(w, j, n)
  /\ conn[w] = "none"
  /\ Fault("db")
  /\ IF n < MaxRetries
     THEN /\ queue' = [queue EXCEPT ![j][n] = @ - 1, ![j][n + 1] = @ + 1]
          /\ UNCHANGED dropped
     ELSE /\ queue' = [queue EXCEPT ![j][n] = @ - 1]
          /\ Drop(j)
  /\ UNCHANGED <<dbVars, workerVars, req>>

(* UPDATE status = running, unconditionally, and commit; then the target   *)
(* is loaded, and a missing one fails the job (whose row is then gone).    *)
MarkRunning(w) ==
  /\ pc[w] = "loaded"
  /\ SetStatus(task[w], "running")
  /\ Goto(w, IF TargetOf[task[w]] \in targets THEN "scanning" ELSE "ending")
  /\ dropped' = dropped \ {task[w]}
  /\ UNCHANGED <<findings, summary, targets, queue, conn, req, faults>>

(* The scan succeeded and reported k batches of findings (0 or 1): they    *)
(* are inserted, counted and committed with the completed status.  With    *)
(* the row gone every insert breaks the foreign key and is skipped.        *)
Succeed(w, k) ==
  LET j == task[w] IN
  /\ pc[w] = "scanning"
  /\ SetStatus(j, "completed")
  /\ IF job[j] \in Row
     THEN /\ findings' = [findings EXCEPT ![j] = @ + k]
          /\ summary' = [summary EXCEPT ![j] = k]
     ELSE UNCHANGED <<findings, summary>>
  /\ Goto(w, "ending")
  /\ UNCHANGED <<targets, queue, conn, req, dropped, faults>>

(* Variant: the counter is incremented before the insert. *)
CountedBeforeInsert == 1

(* What the summary counts when no finding could be inserted. *)
CountedAfterInsert == 0

(* Inserting the findings fails and the handler goes on.  Where an error   *)
(* aborts the transaction, both the completed and the failed update fail   *)
(* after it: nothing is written.  Elsewhere the job completes, and its     *)
(* summary counts only what was inserted.                                  *)
InsertFails(w) ==
  LET j == task[w] IN
  /\ pc[w] = "scanning"
  /\ job[j] \in Row
  /\ Fault("insert")
  /\ IF AbortsOnError
     THEN /\ Drop(j)
          /\ UNCHANGED <<job, summary>>
     ELSE /\ SetStatus(j, "completed")
          /\ summary' = [summary EXCEPT ![j] = CountedAfterInsert]
          /\ UNCHANGED dropped
  /\ Goto(w, "ending")
  /\ UNCHANGED <<findings, targets, queue, conn, req>>

(* The scanner reports failure. *)
Fail(w) ==
  /\ pc[w] = "scanning"
  /\ SetStatus(task[w], "failed")
  /\ Goto(w, "ending")
  /\ UNCHANGED <<findings, summary, targets, queue, conn, req, dropped, faults>>

(* An exception (the soft time limit included): the failed update commits  *)
(* whatever findings were inserted before it, and an error that reads like *)
(* a network problem is retried.                                           *)
Raise(w, k, retryable) ==
  LET j == task[w] IN
  /\ pc[w] = "scanning"
  /\ k > 0 => job[j] \in Row
  /\ SetStatus(j, "failed")
  /\ findings' = [findings EXCEPT ![j] = @ + k]
  /\ IF retryable THEN RetryMessage(j, try[w]) ELSE UNCHANGED queue
  /\ Goto(w, "ending")
  /\ UNCHANGED <<summary, targets, conn, req, dropped, faults>>

(* The database connection fails: the failed update cannot be written      *)
(* either, and the task is retried while retries are left.                 *)
LoseDatabase(w) ==
  /\ pc[w] \in {"loaded", "scanning"}
  /\ Fault("db")
  /\ RetryOrDrop(task[w], try[w])
  /\ Goto(w, "ending")
  /\ UNCHANGED <<dbVars, conn, req>>

(* The task returned; the message is acknowledged (task_acks_late). *)
Ack(w) ==
  /\ pc[w] = "ending"
  /\ Idle(w)
  /\ UNCHANGED <<dbVars, queue, conn, req, dropped, faults>>

(* A task of another kind runs on a fresh child. *)
OtherTask(w) ==
  /\ pc[w] = "idle"
  /\ conn[w] = "none"
  /\ Connect(w)
  /\ UNCHANGED <<dbVars, queue, pc, task, try, req, dropped, faults>>

(* worker_max_tasks_per_child replaces the child. *)
Recycle(w) ==
  /\ pc[w] = "idle"
  /\ conn[w] = "open"
  /\ Disconnect(w)
  /\ UNCHANGED <<dbVars, queue, pc, task, try, req, dropped, faults>>

(* Variant: without task_acks_late nothing is left to redeliver. *)
AckedEarly(w) == UNCHANGED queue

(* task_acks_late: the message held is delivered again. *)
Redeliver(w) == Publish(task[w], try[w])

(* The worker host dies: uncommitted writes are lost and the broker        *)
(* delivers the unacknowledged message again.                              *)
Crash(w) ==
  /\ pc[w] # "idle"
  /\ Fault("crash")
  /\ Redeliver(w)
  /\ Idle(w)
  /\ Disconnect(w)
  /\ UNCHANGED <<dbVars, req, dropped>>

(* The scan outlives the visibility timeout: delivered again, still held   *)
(* (and once more if the worker then dies: at least once, not exactly).    *)
VisibilityTimeout(w) ==
  /\ pc[w] = "scanning"
  /\ Fault("visibility")
  /\ Redeliver(w)
  /\ UNCHANGED <<dbVars, workerVars, req, dropped>>

(* task_time_limit kills the child: Celery acknowledges the message, the   *)
(* row keeps its status.                                                   *)
KillChild(w) ==
  /\ pc[w] = "scanning"
  /\ Fault("kill")
  /\ Drop(task[w])
  /\ Idle(w)
  /\ Disconnect(w)
  /\ UNCHANGED <<dbVars, queue, req>>

-----------------------------------------------------------------------------
(* What a user may ask for, what a request in flight goes on to do, and    *)
(* what a worker process does.                                             *)

Ask(h) ==
  \/ \E t \in Target : BeginCreate(h, t) \/ BeginDue(h, t) \/ BeginDeleteTarget(h, t)
  \/ \E j \in Job : BeginRetry(h, j) \/ BeginDelete(h, j) \/ BeginCancel(h, j)

Serve(h) ==
  \/ \E j \in Job : InsertJob(h, j)
  \/ Dispatch(h)
  \/ DispatchRaises(h)
  \/ DueDispatchRaises(h)
  \/ RecordDispatchFailure(h)
  \/ FinishDelete(h)
  \/ FinishCancel(h)
  \/ FinishDeleteTarget(h)

Work(w) ==
  \/ \E j \in Job, n \in Try : Start(w, j, n) \/ StartInVain(w, j, n) \/ StartFails(w, j, n)
  \/ MarkRunning(w)
  \/ \E k \in {0, 1} : Succeed(w, k)
  \/ InsertFails(w)
  \/ Fail(w)
  \/ \E k \in {0, 1}, retryable \in BOOLEAN : Raise(w, k, retryable)
  \/ LoseDatabase(w)
  \/ Ack(w)

Other(w) == OtherTask(w) \/ Recycle(w)

Break(w) == Crash(w) \/ VisibilityTimeout(w) \/ KillChild(w)

Next ==
  \/ \E h \in Handler : Ask(h) \/ Serve(h) \/ HandlerDies(h)
  \/ \E w \in Worker : Work(w) \/ Other(w) \/ Break(w)

Spec == Init /\ [][Next]_vars

(* Requests that were accepted are served and running workers keep working *)
(* (Celery and the WSGI server schedule them); users ask when they like,   *)
(* a child need not be replaced and faults need not happen.                *)
Fairness ==
  /\ \A h \in Handler : WF_vars(Serve(h))
  /\ \A w \in Worker : WF_vars(Work(w))

FairSpec == Spec /\ Fairness

-----------------------------------------------------------------------------
(* Properties *)

Executing(w, j)   == task[w] = j /\ pc[w] \in {"loaded", "scanning"}
Dispatching(h, j) == req[h].on = j /\ req[h].op \in Publishing \cup {"dispatchfailed"}
Queued(j)         == \E n \in Try : queue[j][n] > 0

Carried(j) ==
  \/ \E h \in Handler : Dispatching(h, j)
  \/ Queued(j)
  \/ \E w \in Worker : Executing(w, j)

(* Nobody is about to write the status of j on the strength of a status it *)
(* read when the job was still active.                                     *)
Undisturbed(j) ==
  /\ \A h \in Handler :
       ~Dispatching(h, j) /\ (req[h].on = j => req[h].seen \notin Active)
  /\ \A w \in Worker : ~Executing(w, j)

(* No job is forgotten: a pending or running job always has a request or a *)
(* scheduler run that is about to publish it, a message in the broker or a *)
(* worker executing it, through crashes, redeliveries, failed publications *)
(* and deletions, unless it was dropped: its message was given to a child  *)
(* that ran a task before, its scheduler or API process could not publish  *)
(* it, its worker was killed, lost the database with no retry left or, on  *)
(* PostgreSQL, could not insert a finding.  There is no other way.         *)
NoOrphan ==
  \A j \in Job : job[j] \in Active => Carried(j) \/ j \in dropped

(* "Acknowledge after execution for reliability" (celery_app.py): a job    *)
(* that waits to be executed is about to be published, or its message is   *)
(* in the broker or held by a worker.                                      *)
AcknowledgedIsExecuted ==
  \A j \in Job : job[j] = "pending" =>
    \/ \E h \in Handler : Dispatching(h, j)
    \/ Queued(j)
    \/ \E w \in Worker : task[w] = j

(* result_summary never counts a finding that is not stored, over retries, *)
(* redeliveries and failed inserts (execute_scan counts after inserting).  *)
SummaryBacked ==
  \A j \in Job : summary[j] <= findings[j]

(* Without redelivery no job is scanned by two workers at the same time,   *)
(* though Celery's own retry and the user's retry both reschedule it.      *)
OneExecutor ==
  Faults \cap {"crash", "visibility"} = {} =>
    \A j \in Job, v, w \in Worker : Executing(v, j) /\ Executing(w, j) => v = w

(* A job cancelled before any worker loaded it is never run: with messages *)
(* still queued no worker loads it and its status can only become deleted. *)
CancelledIsNotRun ==
  [][\A j \in Job : job[j] = "cancelled" /\ Undisturbed(j)
       => Undisturbed(j)' /\ job'[j] \in {"cancelled", "deleted"}]_vars

(* No message of j is waiting or unacknowledged either. *)
Settled(j) ==
  Undisturbed(j) /\ ~Queued(j) /\ \A w \in Worker : task[w] # j

(* The outcome of a job nobody works on any more is final: only a deletion *)
(* changes it, never a cancellation or a retry that starts after it, and   *)
(* no message of it appears again.                                         *)
OutcomeIsFinal ==
  [][\A j \in Job : job[j] \in Terminal /\ Settled(j)
       => Settled(j)' /\ job'[j] \in {job[j], "deleted"}]_vars

(* Every job that is created ends for good, completed, failed, cancelled   *)
(* or deleted, with crashes, redeliveries and retries in between, or is    *)
(* dropped for good in one of the ways that NoOrphan lists.                *)
JobsSettle ==
  \A j \in Job :
    job[j] \in Active ~> [](job[j] \in Terminal \cup {"deleted"} \/ j \in dropped)
=============================================================================
