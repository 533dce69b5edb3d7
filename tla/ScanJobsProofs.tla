--------------------------- MODULE ScanJobsProofs ---------------------------
(* Proofs about ScanJobs, for every value of its constants. *)
EXTENDS ScanJobs, TLAPS

(* The idle request is one of the requests the type invariant allows. *)
LEMMA NoRequestType == NoRequest \in Request
BY DEF NoRequest, Request, Operation, Status, Row, Active, Terminal

(* Publishing a message keeps the queue a count per job and retry. *)
LEMMA PublishType ==
  ASSUME TypeOK, NEW j \in Job, NEW n \in Try, Publish(j, n)
  PROVE  queue' \in [Job -> [Try -> Nat]]
BY DEF TypeOK, Publish

(* self.retry() publishes within the retry bound or not at all. *)
LEMMA RetryType ==
  ASSUME TypeOK, NEW j \in Job, NEW n \in Try, RetryMessage(j, n)
  PROVE  queue' \in [Job -> [Try -> Nat]]
<1>1. CASE n < MaxRetries
  <2>1. n + 1 \in Try
    BY <1>1, ScanJobsAssumption DEF Try
  <2>2. Publish(j, n + 1)
    BY <1>1 DEF RetryMessage
  <2>3. QED
    BY <2>1, <2>2, PublishType
<1>2. CASE ~(n < MaxRetries)
  BY <1>2 DEF RetryMessage, TypeOK
<1>3. QED
  BY <1>1, <1>2

(* The database rows keep their types under an UPDATE of the status. *)
LEMMA SetStatusType ==
  ASSUME TypeOK, NEW j \in Job, NEW s \in Status, SetStatus(j, s)
  PROVE  job' \in [Job -> Status]
BY DEF TypeOK, SetStatus

(* ... and under a DELETE. *)
LEMMA DeleteRowsType ==
  ASSUME TypeOK, NEW S, DeleteRows(S)
  PROVE  /\ job' \in [Job -> Status]
         /\ findings' \in [Job -> Nat]
         /\ summary' \in [Job -> Nat]
BY DEF TypeOK, DeleteRows, Status

(* Every step of a request keeps the type invariant. *)
LEMMA AskType ==
  ASSUME TypeOK, NEW h \in Handler, Ask(h)
  PROVE  TypeOK'
<1> USE DEF TypeOK, dbVars, workerVars, Publishing
<1>1. ASSUME NEW op \in Operation, NEW on \in Job \cup Target, NEW seen \in Status,
             op \in Publishing \cup {"dispatchfailed", "delete", "cancel"} => on \in Job,
             Enter(h, op, on, seen)
      PROVE  TypeOK'
  BY <1>1 DEF Enter, Request
<1>2. ASSUME NEW t \in Target,
             BeginCreate(h, t) \/ BeginDue(h, t) \/ BeginDeleteTarget(h, t)
      PROVE  TypeOK'
  BY <1>1, <1>2 DEF BeginCreate, BeginDue, BeginDeleteTarget, Operation, Status
<1>3. ASSUME NEW j \in Job, BeginRetry(h, j)
      PROVE  TypeOK'
  BY <1>1, <1>3, ScanJobsAssumption DEF BeginRetry, Operation, Status
<1>4. ASSUME NEW j \in Job, BeginDelete(h, j) \/ BeginCancel(h, j)
      PROVE  TypeOK'
  BY <1>1, <1>4 DEF BeginDelete, BeginCancel, Operation
<1>5. QED
  BY <1>2, <1>3, <1>4 DEF Ask

(* The request a handler turns to next is well typed, the idle one included. *)
LEMMA AdvanceType ==
  ASSUME TypeOK, NEW h \in Handler, NEW op \in Operation, NEW j \in Job,
         Advance(h, op, j) \/ Leave(h)
  PROVE  /\ req' \in [Handler -> Request]
         /\ \A g \in Handler :
              req'[g].op \in Publishing \cup {"dispatchfailed", "delete", "cancel"}
                => req'[g].on \in Job
<1>1. [op |-> op, on |-> j, seen |-> "none"] \in Request
  BY DEF Request, Status
<1>2. CASE Advance(h, op, j)
  BY <1>1, <1>2 DEF TypeOK, Advance, Request
<1>3. CASE Leave(h)
  BY <1>3, NoRequestType DEF TypeOK, Leave, NoRequest, Request, Publishing
<1>4. QED
  BY <1>2, <1>3

(* Every step that serves a request keeps the type invariant. *)
LEMMA ServeType ==
  ASSUME TypeOK, NEW h \in Handler, Serve(h) \/ HandlerDies(h)
  PROVE  TypeOK'
<1> USE DEF dbVars, workerVars, Publishing, Fault, Drop, Connect, Disconnect
<1>0. 0 \in Try
  BY ScanJobsAssumption DEF Try
<1>1. ASSUME NEW j \in Job, InsertJob(h, j)
      PROVE  TypeOK'
  <2>1. \E op \in Operation : Advance(h, op, j) \/ Leave(h)
    BY <1>1 DEF InsertJob, Operation
  <2>2. job' \in [Job -> Status]
    BY <1>1 DEF InsertJob, TypeOK, Status, Row, Active
  <2>3. QED
    BY <1>1, <2>1, <2>2, AdvanceType DEF InsertJob, TypeOK, Operation
<1>2. CASE Dispatch(h) \/ DispatchRaises(h) \/ DueDispatchRaises(h)
  <2>1. req[h].on \in Job
    BY <1>2 DEF Dispatch, DispatchRaises, DueDispatchRaises, TypeOK
  <2>2. queue' \in [Job -> [Try -> Nat]]
    <3>1. CASE Publish(req[h].on, 0)
      BY <3>1, <2>1, <1>0, PublishType
    <3>2. CASE UNCHANGED queue
      BY <3>2 DEF TypeOK
    <3>3. QED
      BY <1>2, <3>1, <3>2 DEF Dispatch, DispatchRaises, DueDispatchRaises
  <2>3. Advance(h, "dispatchfailed", req[h].on) \/ Leave(h)
    BY <1>2 DEF Dispatch, DispatchRaises, DueDispatchRaises
  <2>4. QED
    BY <1>2, <2>1, <2>2, <2>3, AdvanceType
    DEF Dispatch, DispatchRaises, DueDispatchRaises, TypeOK, Operation
<1>3. CASE RecordDispatchFailure(h) \/ FinishCancel(h)
  <2>1. req[h].on \in Job
    BY <1>3 DEF RecordDispatchFailure, FinishCancel, TypeOK
  <2>2. job' \in [Job -> Status]
    BY <1>3, <2>1, SetStatusType
    DEF RecordDispatchFailure, FinishCancel, Status, Row, Terminal
  <2>3. QED
    BY <1>3, <2>1, <2>2, AdvanceType
    DEF RecordDispatchFailure, FinishCancel, TypeOK, Operation
<1>4. CASE FinishDelete(h)
  <2>1. req[h].on \in Job
    BY <1>4 DEF FinishDelete, TypeOK
  <2>2. /\ job' \in [Job -> Status]
        /\ findings' \in [Job -> Nat]
        /\ summary' \in [Job -> Nat]
    <3>1. CASE req[h].seen \in Active
      <4>1. SetStatus(req[h].on, "cancelled")
        BY <1>4, <3>1 DEF FinishDelete
      <4>2. "cancelled" \in Status
        BY DEF Status, Row, Terminal
      <4>3. job' \in [Job -> Status]
        BY <2>1, <4>1, <4>2, SetStatusType
      <4>4. QED
        BY <1>4, <3>1, <4>3 DEF FinishDelete, TypeOK
    <3>2. CASE req[h].seen \notin Active
      BY <1>4, <3>2, DeleteRowsType DEF FinishDelete
    <3>3. QED
      BY <3>1, <3>2
  <2>3. QED
    BY <1>4, <2>1, <2>2, AdvanceType DEF FinishDelete, TypeOK, Operation
<1>5. CASE FinishDeleteTarget(h)
  <2>1. /\ job' \in [Job -> Status]
        /\ findings' \in [Job -> Nat]
        /\ summary' \in [Job -> Nat]
    BY <1>5, DeleteRowsType DEF FinishDeleteTarget
  <2>2. QED
    BY <1>5, <2>1, NoRequestType DEF FinishDeleteTarget, Leave, TypeOK, NoRequest
<1>6. CASE HandlerDies(h)
  BY <1>6, NoRequestType DEF HandlerDies, Leave, TypeOK, NoRequest
<1>7. QED
  BY <1>1, <1>2, <1>3, <1>4, <1>5, <1>6 DEF Serve

(* The conjuncts of the type invariant about the worker processes. *)
WorkerTypeOK ==
  /\ pc \in [Worker -> WorkerPC]
  /\ task \in [Worker -> Job \cup {None}]
  /\ \A w \in Worker : pc[w] # "idle" => task[w] \in Job
  /\ try \in [Worker -> Try]

(* ... and about their connections. *)
ConnTypeOK ==
  /\ conn \in [Worker -> {"none", "open"}]
  /\ \A w \in Worker : pc[w] # "idle" => conn[w] = "open"

(* A worker that goes on with its task, or drops it, keeps them. *)
LEMMA GotoType ==
  ASSUME TypeOK, NEW w \in Worker, pc[w] # "idle", NEW l \in WorkerPC, Goto(w, l)
  PROVE  WorkerTypeOK' /\ (UNCHANGED conn => ConnTypeOK')
BY DEF TypeOK, Goto, WorkerTypeOK, ConnTypeOK

LEMMA IdleType ==
  ASSUME TypeOK, NEW w \in Worker, Idle(w)
  PROVE  /\ WorkerTypeOK'
         /\ UNCHANGED conn \/ Disconnect(w) => ConnTypeOK'
<1>1. 0 \in Try
  BY ScanJobsAssumption DEF Try
<1>2. WorkerTypeOK'
  BY <1>1 DEF TypeOK, Idle, WorkerTypeOK, WorkerPC
<1>3. ASSUME UNCHANGED conn \/ Disconnect(w)
      PROVE  ConnTypeOK'
  BY <1>3 DEF TypeOK, Idle, Disconnect, ConnTypeOK
<1>4. QED
  BY <1>2, <1>3

(* One that takes a message holds a job of it. *)
LEMMA HoldType ==
  ASSUME TypeOK, NEW w \in Worker, NEW j \in Job, NEW n \in Try, NEW l \in WorkerPC,
         Hold(w, j, n, l),
         Connect(w) \/ (conn[w] = "open" /\ UNCHANGED conn)
  PROVE  WorkerTypeOK' /\ ConnTypeOK'
BY DEF TypeOK, Hold, Connect, WorkerTypeOK, ConnTypeOK

(* Every step of a worker process keeps the type invariant. *)
LEMMA WorkType ==
  ASSUME TypeOK, NEW w \in Worker, Work(w) \/ Other(w) \/ Break(w)
  PROVE  TypeOK'
<1> USE DEF dbVars, workerVars, Publishing, Fault, Drop, Connect, Disconnect
<1>0. pc[w] # "idle" => task[w] \in Job /\ try[w] \in Try
  BY DEF TypeOK
<1>a. {"loaded", "scanning", "ending", "idle"} \subseteq WorkerPC
  BY DEF WorkerPC
<1>b. {"running", "completed", "failed"} \subseteq Status
  BY DEF Status, Row, Active, Terminal
<1>1. ASSUME NEW j \in Job, NEW n \in Try,
             Start(w, j, n) \/ StartInVain(w, j, n) \/ StartFails(w, j, n)
      PROVE  TypeOK'
  <2>1. queue' \in [Job -> [Try -> Nat]]
    <3>1. queue[j] \in [Try -> Nat] /\ queue[j][n] - 1 \in Nat
      BY <1>1 DEF Start, StartInVain, StartFails, Receive, TypeOK
    <3>2. CASE queue' = [queue EXCEPT ![j][n] = @ - 1]
      BY <3>1, <3>2 DEF TypeOK
    <3>3. CASE /\ n < MaxRetries
               /\ queue' = [queue EXCEPT ![j][n] = @ - 1, ![j][n + 1] = @ + 1]
      <4>1. n + 1 \in Try /\ n + 1 # n
        BY <3>3, ScanJobsAssumption DEF Try
      <4>2. QED
        BY <3>1, <3>3, <4>1 DEF TypeOK
    <3>4. QED
      BY <1>1, <3>2, <3>3 DEF Start, StartInVain, StartFails
  <2>2. WorkerTypeOK' /\ ConnTypeOK'
    <3>1. CASE UNCHANGED <<pc, task, try>> /\ (UNCHANGED conn \/ Connect(w))
      BY <3>1 DEF TypeOK, WorkerTypeOK, ConnTypeOK
    <3>2. CASE Start(w, j, n) /\ job[j] \in Row
      <4>1. PICK l \in WorkerPC : Hold(w, j, n, l)
        BY <1>a, <3>2 DEF Start
      <4>2. Connect(w)
        BY <3>2 DEF Start
      <4>3. QED
        BY <4>1, <4>2, HoldType
    <3>3. CASE StartInVain(w, j, n)
      BY <1>a, <3>3, HoldType DEF StartInVain
    <3>4. QED
      BY <1>1, <3>1, <3>2, <3>3 DEF Start, StartFails
  <2>3. QED
    BY <1>1, <2>1, <2>2
    DEF Start, StartInVain, StartFails, TypeOK, WorkerTypeOK, ConnTypeOK
<1>2. CASE MarkRunning(w)
  <2>1. job' \in [Job -> Status]
    BY <1>0, <1>2, <1>b, SetStatusType DEF MarkRunning
  <2>2. WorkerTypeOK' /\ ConnTypeOK'
    BY <1>2, <1>a, GotoType DEF MarkRunning
  <2>3. QED
    BY <1>2, <2>1, <2>2 DEF MarkRunning, TypeOK, WorkerTypeOK, ConnTypeOK
<1>3. ASSUME NEW k \in {0, 1}, Succeed(w, k)
      PROVE  TypeOK'
  <2>1. job' \in [Job -> Status]
    BY <1>0, <1>3, <1>b, SetStatusType DEF Succeed
  <2>2. WorkerTypeOK' /\ ConnTypeOK'
    BY <1>3, <1>a, GotoType DEF Succeed
  <2>3. findings' \in [Job -> Nat] /\ summary' \in [Job -> Nat]
    BY SMTT(30), <1>3 DEF Succeed, TypeOK
  <2>4. QED
    BY <1>3, <2>1, <2>2, <2>3 DEF Succeed, TypeOK, WorkerTypeOK, ConnTypeOK
<1>4. CASE InsertFails(w)
  <2>1. job' \in [Job -> Status]
    <3>1. CASE SetStatus(task[w], "completed")
      BY <1>0, <1>4, <1>b, <3>1, SetStatusType DEF InsertFails
    <3>2. CASE UNCHANGED job
      BY <3>2 DEF TypeOK
    <3>3. QED
      BY <1>4, <3>1, <3>2 DEF InsertFails
  <2>2. WorkerTypeOK' /\ ConnTypeOK'
    BY <1>4, <1>a, GotoType DEF InsertFails
  <2>3. QED
    BY <1>4, <2>1, <2>2 DEF InsertFails, TypeOK, WorkerTypeOK, ConnTypeOK,
                            CountedAfterInsert
<1>5. CASE Fail(w)
  <2>1. job' \in [Job -> Status]
    BY <1>0, <1>5, <1>b, SetStatusType DEF Fail
  <2>2. WorkerTypeOK' /\ ConnTypeOK'
    BY <1>5, <1>a, GotoType DEF Fail
  <2>3. QED
    BY <1>5, <2>1, <2>2 DEF Fail, TypeOK, WorkerTypeOK, ConnTypeOK
<1>6. ASSUME NEW k \in {0, 1}, NEW retryable \in BOOLEAN, Raise(w, k, retryable)
      PROVE  TypeOK'
  <2>1. job' \in [Job -> Status]
    BY <1>0, <1>6, <1>b, SetStatusType DEF Raise
  <2>2. queue' \in [Job -> [Try -> Nat]]
    <3>1. CASE RetryMessage(task[w], try[w])
      BY <1>0, <1>6, <3>1, RetryType DEF Raise
    <3>2. CASE UNCHANGED queue
      BY <3>2 DEF TypeOK
    <3>3. QED
      BY <1>6, <3>1, <3>2 DEF Raise
  <2>3. WorkerTypeOK' /\ ConnTypeOK'
    BY <1>6, <1>a, GotoType DEF Raise
  <2>4. findings' \in [Job -> Nat]
    BY <1>6 DEF Raise, TypeOK
  <2>5. QED
    BY <1>6, <2>1, <2>2, <2>3, <2>4 DEF Raise, TypeOK, WorkerTypeOK, ConnTypeOK
<1>7. CASE LoseDatabase(w)
  <2>1. queue' \in [Job -> [Try -> Nat]]
    BY <1>0, <1>7, RetryType DEF LoseDatabase, RetryOrDrop
  <2>2. WorkerTypeOK' /\ ConnTypeOK'
    BY <1>7, <1>a, GotoType DEF LoseDatabase
  <2>3. QED
    BY <1>7, <2>1, <2>2 DEF LoseDatabase, RetryOrDrop, TypeOK, WorkerTypeOK, ConnTypeOK
<1>8. CASE Ack(w) \/ KillChild(w)
  <2>1. WorkerTypeOK' /\ ConnTypeOK'
    BY <1>8, IdleType DEF Ack, KillChild
  <2>2. QED
    BY <1>8, <2>1 DEF Ack, KillChild, TypeOK, WorkerTypeOK, ConnTypeOK
<1>9. CASE Other(w)
  BY <1>9 DEF Other, OtherTask, Recycle, TypeOK
<1>10. CASE Crash(w) \/ VisibilityTimeout(w)
  <2>1. queue' \in [Job -> [Try -> Nat]]
    BY <1>0, <1>10, PublishType DEF Crash, VisibilityTimeout, Redeliver
  <2>2. WorkerTypeOK' /\ ConnTypeOK'
    <3>1. CASE Crash(w)
      BY <3>1, IdleType DEF Crash
    <3>2. CASE VisibilityTimeout(w)
      BY <3>2 DEF VisibilityTimeout, TypeOK, WorkerTypeOK, ConnTypeOK
    <3>3. QED
      BY <1>10, <3>1, <3>2
  <2>3. QED
    BY <1>10, <2>1, <2>2 DEF Crash, VisibilityTimeout, TypeOK, WorkerTypeOK, ConnTypeOK
<1>11. QED
  BY <1>1, <1>2, <1>3, <1>4, <1>5, <1>6, <1>7, <1>8, <1>9, <1>10 DEF Work, Break

(* The statuses, counts, messages, worker states and requests always have  *)
(* their types: no handler ever writes a status outside the five the code  *)
(* knows, and no worker runs without a job.                                *)
THEOREM TypeCorrect == Spec => []TypeOK
<1>1. Init => TypeOK
  BY ScanJobsAssumption, NoRequestType
  DEF Init, TypeOK, Status, Row, Active, Terminal, Try, WorkerPC, NoRequest, Publishing
<1>2. TypeOK /\ [Next]_vars => TypeOK'
  <2> SUFFICES ASSUME TypeOK, [Next]_vars PROVE TypeOK'
    OBVIOUS
  <2>1. CASE Next
    BY <2>1, AskType, ServeType, WorkType DEF Next
  <2>2. CASE UNCHANGED vars
    BY <2>2 DEF vars, dbVars, workerVars, TypeOK
  <2>3. QED
    BY <2>1, <2>2
<1>3. QED
  BY <1>1, <1>2, PTL DEF Spec

-----------------------------------------------------------------------------
(* result_summary never counts a finding that is not stored: the count and *)
(* the rows are written by one commit, rows are only added afterwards, and *)
(* a deletion removes both.                                                *)
THEOREM SummaryIsBacked == Spec => []SummaryBacked
<1>1. Init => SummaryBacked
  BY DEF Init, SummaryBacked
<1>2. TypeOK /\ SummaryBacked /\ [Next]_vars => SummaryBacked'
  <2> SUFFICES ASSUME TypeOK, SummaryBacked, [Next]_vars
               PROVE  SummaryBacked'
    OBVIOUS
  <2> USE DEF dbVars
  <2>1. CASE UNCHANGED <<findings, summary>>
    BY <2>1 DEF SummaryBacked
  <2>2. ASSUME NEW S, DeleteRows(S)
        PROVE  SummaryBacked'
    BY <2>2 DEF DeleteRows, SummaryBacked
  <2>3. ASSUME NEW h \in Handler, Ask(h) \/ Serve(h) \/ HandlerDies(h)
        PROVE  SummaryBacked'
    <3>1. CASE FinishDelete(h)
      BY <2>1, <2>2, <3>1 DEF FinishDelete
    <3>2. CASE FinishDeleteTarget(h)
      BY <2>2, <3>2 DEF FinishDeleteTarget
    <3>3. CASE ~(FinishDelete(h) \/ FinishDeleteTarget(h))
      BY <2>1, <2>3, <3>3
      DEF Ask, Serve, BeginCreate, BeginDue, BeginDeleteTarget, BeginRetry, BeginDelete,
          BeginCancel, Enter, InsertJob, Dispatch, DispatchRaises, DueDispatchRaises,
          RecordDispatchFailure, FinishCancel, HandlerDies
    <3>4. QED
      BY <3>1, <3>2, <3>3
  <2>4. ASSUME NEW w \in Worker, Work(w) \/ Other(w) \/ Break(w)
        PROVE  SummaryBacked'
    <3>1. ASSUME NEW k \in {0, 1}, Succeed(w, k)
          PROVE  SummaryBacked'
      BY <3>1 DEF Succeed, SummaryBacked, TypeOK
    <3>2. CASE InsertFails(w)
      BY <3>2 DEF InsertFails, SummaryBacked, TypeOK, CountedAfterInsert
    <3>3. ASSUME NEW k \in {0, 1}, NEW retryable \in BOOLEAN, Raise(w, k, retryable)
          PROVE  SummaryBacked'
      BY <3>3 DEF Raise, SummaryBacked, TypeOK
    <3>4. CASE UNCHANGED <<findings, summary>>
      BY <2>1, <3>4
    <3>5. QED
      BY <2>4, <3>1, <3>2, <3>3, <3>4
      DEF Work, Other, Break, Start, StartInVain, StartFails, MarkRunning, Fail,
          LoseDatabase, Ack, OtherTask, Recycle, Crash, VisibilityTimeout, KillChild
  <2>5. QED
    BY <2>1, <2>3, <2>4 DEF Next, vars
<1>3. QED
  BY <1>1, <1>2, TypeCorrect, PTL DEF Spec

-----------------------------------------------------------------------------
(* A job row has its target row: the foreign key and delete_target keep it *)
(* so.  NoOrphan needs it: MarkRunning ends at once without a target.      *)
RowHasTarget == \A j \in Job : job[j] \in Row => TargetOf[j] \in targets

LEMMA RowHasTargetStep ==
  ASSUME TypeOK, RowHasTarget, [Next]_vars
  PROVE  RowHasTarget'
<1> SUFFICES ASSUME NEW j \in Job, job'[j] \in Row
             PROVE  TargetOf[j] \in targets'
  BY DEF RowHasTarget
<1> USE DEF dbVars, Row, Active, Terminal
<1>1. CASE job[j] \in Row /\ UNCHANGED targets
  BY <1>1 DEF RowHasTarget
<1>2. ASSUME NEW k \in Job, NEW s, SetStatus(k, s)
      PROVE  job[j] \in Row
  BY <1>2 DEF SetStatus, TypeOK
<1>3. ASSUME NEW S, DeleteRows(S)
      PROVE  job[j] \in Row /\ j \notin S
  BY <1>3 DEF DeleteRows, TypeOK
<1>4. ASSUME NEW h \in Handler, Ask(h) \/ Serve(h) \/ HandlerDies(h)
      PROVE  TargetOf[j] \in targets'
  <2>1. ASSUME NEW k \in Job, InsertJob(h, k)
        PROVE  TargetOf[j] \in targets'
    BY <2>1 DEF InsertJob, TypeOK, RowHasTarget
  <2>2. CASE FinishDelete(h)
    BY <1>1, <1>2, <1>3, <2>2 DEF FinishDelete, TypeOK
  <2>3. CASE FinishDeleteTarget(h)
    BY <1>3, <2>3, ScanJobsAssumption DEF FinishDeleteTarget, RowHasTarget
  <2>4. CASE RecordDispatchFailure(h) \/ FinishCancel(h)
    BY <1>1, <1>2, <2>4 DEF RecordDispatchFailure, FinishCancel, TypeOK
  <2>5. CASE UNCHANGED dbVars
    BY <1>1, <2>5
  <2>6. QED
    BY <1>4, <2>1, <2>2, <2>3, <2>4, <2>5
    DEF Ask, Serve, BeginCreate, BeginDue, BeginDeleteTarget, BeginRetry, BeginDelete,
        BeginCancel, Enter, Dispatch, DispatchRaises, DueDispatchRaises, HandlerDies
<1>5. ASSUME NEW w \in Worker, Work(w) \/ Other(w) \/ Break(w)
      PROVE  TargetOf[j] \in targets'
  <2>1. CASE pc[w] \in {"loaded", "scanning"} /\ task[w] \in Job /\ UNCHANGED targets
             /\ \E s \in Row : SetStatus(task[w], s)
    BY <1>1, <1>2, <2>1
  <2>2. CASE UNCHANGED <<job, targets>>
    BY <1>1, <2>2
  <2>3. pc[w] # "idle" => task[w] \in Job
    BY DEF TypeOK
  <2>4. QED
    BY <1>5, <2>1, <2>2, <2>3
    DEF Work, Other, Break, Start, StartInVain, StartFails, MarkRunning, Succeed,
        InsertFails, Fail, Raise, LoseDatabase, Ack, OtherTask, Recycle, Crash,
        VisibilityTimeout, KillChild
<1>6. QED
  BY <1>1, <1>4, <1>5 DEF Next, vars

(* The inductive invariant of the no-orphan proof. *)
IInv == TypeOK /\ RowHasTarget /\ NoOrphan

Kept(j) == Carried(j) \/ j \in dropped

(* A request leaves every job that is still active with someone to carry   *)
(* it: it publishes the job it inserted, or records the failure.           *)
LEMMA RequestKeepsCarrier ==
  ASSUME IInv, NEW h \in Handler, Ask(h) \/ Serve(h) \/ HandlerDies(h),
         NEW j \in Job, job'[j] \in Active
  PROVE  Kept(j)'
<1> USE DEF Kept, Carried, dbVars, workerVars, Publishing
<1>0. /\ TypeOK
      /\ job[j] \in Active => Kept(j)
  BY DEF IInv, NoOrphan
<1>1. ASSUME ~Dispatching(h, j) \/ j \in dropped', job[j] \in Active,
             dropped \subseteq dropped',
             UNCHANGED workerVars, queue' = queue,
             \A g \in Handler : g # h => req'[g] = req[g]
      PROVE  Kept(j)'
  BY <1>0, <1>1 DEF Dispatching, Queued, Executing
<1>2. CASE Ask(h)
  BY <1>0, <1>1, <1>2
  DEF Ask, BeginCreate, BeginDue, BeginDeleteTarget, BeginRetry, BeginDelete,
      BeginCancel, Enter, NoRequest, Dispatching, TypeOK
<1>3. ASSUME NEW k \in Job, InsertJob(h, k)
      PROVE  Kept(j)'
  <2>1. CASE job[j] \in Active
    BY <1>0, <1>1, <1>3, <2>1 DEF InsertJob, Leave, Advance, Dispatching, TypeOK
  <2>2. CASE job[j] \notin Active
    <3>1. k = j /\ (Advance(h, "dispatch", j) \/ Advance(h, "dispatchdue", j))
      BY <1>0, <1>3, <2>2 DEF InsertJob, TypeOK
    <3>2. Dispatching(h, j)'
      BY <1>0, <3>1 DEF Advance, Dispatching, TypeOK
    <3>3. QED
      BY <3>2
  <2>3. QED
    BY <2>1, <2>2
<1>4. CASE Dispatch(h)
  <2>1. CASE req[h].on = j
    <3>1. 0 \in Try
      BY ScanJobsAssumption DEF Try
    <3>2. queue[j][0] \in Nat /\ queue \in [Job -> [Try -> Nat]]
      BY <1>0, <3>1 DEF TypeOK
    <3>3. queue' = [queue EXCEPT ![j][0] = @ + 1]
      BY <1>4, <2>1 DEF Dispatch, Publish
    <3>4. queue'[j][0] > 0
      BY <3>1, <3>2, <3>3
    <3>5. QED
      BY <3>1, <3>4 DEF Queued
  <2>2. CASE req[h].on # j
    <3>1. \A n \in Try : queue'[j][n] = queue[j][n]
      BY <1>0, <1>4, <2>2 DEF Dispatch, Publish, TypeOK
    <3>2. \A g \in Handler : g # h => req'[g] = req[g]
      BY <1>0, <1>4 DEF Dispatch, Leave, TypeOK
    <3>3. QED
      BY <1>0, <1>4, <2>2, <3>1, <3>2 DEF Dispatch, Dispatching, Queued, Executing
  <2>3. QED
    BY <2>1, <2>2
<1>5. CASE DispatchRaises(h)
  <2>0. queue[j] \in [Try -> Nat] /\ req \in [Handler -> Request]
    BY DEF IInv, TypeOK
  <2>1. \A n \in Try : queue[j][n] > 0 => queue'[j][n] > 0
    <3>1. CASE queue' = [queue EXCEPT ![req[h].on][0] = @ + 1]
      BY <1>0, <2>0, <3>1 DEF TypeOK
    <3>2. QED
      BY <1>5, <3>1 DEF DispatchRaises, Publish
  <2>2. \A g \in Handler : Dispatching(g, j) => Dispatching(g, j)'
    BY <1>5, <2>0 DEF DispatchRaises, Advance, Dispatching
  <2>3. QED
    BY <1>0, <1>5, <2>1, <2>2 DEF DispatchRaises, Queued, Executing
<1>6. CASE RecordDispatchFailure(h) \/ FinishCancel(h)
  <2>1. req[h].on # j /\ job[j] \in Active
    BY <1>0, <1>6
    DEF RecordDispatchFailure, FinishCancel, SetStatus, TypeOK, Row, Active, Terminal
  <2>2. QED
    BY <1>0, <1>1, <1>6, <2>1
    DEF RecordDispatchFailure, FinishCancel, Leave, Dispatching, TypeOK
<1>7. CASE FinishDelete(h) \/ FinishDeleteTarget(h)
  <2>1. job[j] \in Active
    BY <1>0, <1>7
    DEF FinishDelete, FinishDeleteTarget, SetStatus, DeleteRows, TypeOK, Row, Active,
        Terminal
  <2>2. QED
    BY <1>0, <1>1, <1>7, <2>1
    DEF FinishDelete, FinishDeleteTarget, Leave, Dispatching, TypeOK
<1>8. CASE HandlerDies(h)
  BY <1>0, <1>1, <1>8 DEF HandlerDies, Leave, Drop, Dispatching, TypeOK
<1>9. CASE DueDispatchRaises(h)
  <2>1. CASE Publish(req[h].on, 0) /\ req[h].on = j
    <3>1. 0 \in Try
      BY ScanJobsAssumption DEF Try
    <3>2. queue'[j][0] > 0
      BY <1>0, <2>1, <3>1 DEF Publish, TypeOK
    <3>3. QED
      BY <3>1, <3>2 DEF Queued
  <2>2. CASE ~(Publish(req[h].on, 0) /\ req[h].on = j)
    <3>1. ~Dispatching(h, j) \/ j \in dropped'
      BY <1>9, <2>2 DEF DueDispatchRaises, Drop, Dispatching
    <3>2. \A n \in Try : queue'[j][n] = queue[j][n]
      BY <1>0, <1>9, <2>2 DEF DueDispatchRaises, Publish, TypeOK
    <3>3. QED
      BY <1>0, <1>9, <3>1, <3>2
      DEF DueDispatchRaises, Drop, Leave, Dispatching, Queued, Executing, TypeOK
  <2>3. QED
    BY <2>1, <2>2
<1>10. QED
  BY <1>2, <1>3, <1>4, <1>5, <1>6, <1>7, <1>8, <1>9 DEF Serve

(* A worker hands the job it executes back to the broker, or writes an     *)
(* outcome that ends it; the job it starts it also executes.               *)
LEMMA WorkerKeepsCarrier ==
  ASSUME IInv, NEW w \in Worker, Work(w) \/ Other(w) \/ Break(w),
         NEW j \in Job, job'[j] \in Active
  PROVE  Kept(j)'
<1> USE DEF Kept, dbVars, workerVars
<1>0. /\ TypeOK
      /\ job[j] \in Active => Kept(j)
      /\ job[j] \in Row => TargetOf[j] \in targets
      /\ pc[w] # "idle" => task[w] \in Job /\ try[w] \in Try
  BY DEF IInv, NoOrphan, RowHasTarget, TypeOK
<1>1. ASSUME ~Executing(w, j) \/ j \in dropped', job[j] \in Active, UNCHANGED req,
             j \in dropped => j \in dropped',
             \A n \in Try : queue[j][n] > 0 => queue'[j][n] > 0,
             \A v \in Worker : v # w => pc'[v] = pc[v] /\ task'[v] = task[v]
      PROVE  Kept(j)'
  BY <1>0, <1>1 DEF Carried, Dispatching, Queued, Executing
<1>2. ASSUME NEW k \in Job, NEW n \in Try, Start(w, k, n)
      PROVE  Kept(j)'
  <2>1. job[j] \in Active
    BY <1>2 DEF Start
  <2>2. CASE k = j
    <3>1. pc'[w] = "loaded" /\ task'[w] = j
      BY <1>0, <1>2, <2>1, <2>2
      DEF Start, Receive, Hold, Runnable, TypeOK, Row, Active
    <3>2. QED
      BY <3>1 DEF Carried, Executing
  <2>3. CASE k # j
    <3>1. \A m \in Try : queue'[j][m] = queue[j][m]
      BY <1>0, <1>2, <2>3 DEF Start, TypeOK
    <3>2. QED
      BY <1>0, <1>1, <1>2, <2>1, <3>1 DEF Start, Receive, Hold, TypeOK, Executing
  <2>4. QED
    BY <2>2, <2>3
<1>a. ASSUME NEW k \in Job, NEW n \in Try, StartInVain(w, k, n)
      PROVE  Kept(j)'
  <2>1. CASE k = j
    BY <1>a, <2>1 DEF StartInVain, Drop
  <2>2. CASE k # j
    <3>1. \A m \in Try : queue'[j][m] = queue[j][m]
      BY <1>0, <1>a, <2>2 DEF StartInVain, TypeOK
    <3>2. QED
      BY <1>0, <1>1, <1>a, <2>2, <3>1
      DEF StartInVain, Receive, Hold, Drop, TypeOK, Executing
  <2>3. QED
    BY <2>1, <2>2
<1>b. ASSUME NEW k \in Job, NEW n \in Try, StartFails(w, k, n)
      PROVE  Kept(j)'
  <2>1. queue[j] \in [Try -> Nat] /\ queue[k] \in [Try -> Nat]
    BY <1>0 DEF TypeOK
  <2>2. CASE k = j /\ n < MaxRetries
    <3>1. n + 1 \in Try
      BY <2>2, ScanJobsAssumption DEF Try
    <3>2. queue' = [queue EXCEPT ![j][n] = @ - 1, ![j][n + 1] = @ + 1]
      BY <1>b, <2>2 DEF StartFails
    <3>3. queue'[j][n + 1] > 0
      BY <1>0, <2>1, <3>1, <3>2 DEF TypeOK
    <3>4. QED
      BY <3>1, <3>3 DEF Carried, Queued
  <2>3. CASE k = j /\ ~(n < MaxRetries)
    BY <1>b, <2>3 DEF StartFails, Drop
  <2>4. CASE k # j
    <3>1. \A m \in Try : queue'[j][m] = queue[j][m]
      BY <1>0, <1>b, <2>4 DEF StartFails, TypeOK
    <3>2. QED
      BY <1>0, <1>1, <1>b, <3>1
      DEF StartFails, Receive, Drop, TypeOK, Executing
  <2>5. QED
    BY <2>2, <2>3, <2>4
<1>3. CASE MarkRunning(w)
  <2>1. CASE task[w] = j
    <3>1. job[j] \in Row
      BY <1>0, <1>3, <2>1 DEF MarkRunning, SetStatus, Row
    <3>2. pc'[w] = "scanning" /\ task'[w] = j
      BY <1>0, <1>3, <2>1, <3>1 DEF MarkRunning, Goto, TypeOK
    <3>3. QED
      BY <3>2 DEF Carried, Executing
  <2>2. CASE task[w] # j
    BY <1>0, <1>1, <1>3, <2>2 DEF MarkRunning, SetStatus, Goto, TypeOK, Executing
  <2>3. QED
    BY <2>1, <2>2
<1>4. ASSUME pc[w] = "scanning", NEW s \in Terminal, SetStatus(task[w], s)
      PROVE  job[j] \in Active /\ task[w] # j
  BY <1>0, <1>4 DEF SetStatus, TypeOK, Row, Active, Terminal
<1>5. ASSUME NEW k \in {0, 1}, Succeed(w, k)
      PROVE  Kept(j)'
  BY <1>0, <1>1, <1>4, <1>5 DEF Succeed, Goto, TypeOK, Executing, Terminal
<1>6. CASE InsertFails(w)
  <2>1. job[j] \in Active /\ (task[w] # j \/ j \in dropped')
    BY <1>4, <1>6 DEF InsertFails, Drop, Terminal
  <2>2. QED
    BY <1>0, <1>1, <1>6, <2>1 DEF InsertFails, Goto, Drop, TypeOK, Executing
<1>7. CASE Fail(w)
  BY <1>0, <1>1, <1>4, <1>7 DEF Fail, Goto, TypeOK, Executing, Terminal
<1>8. ASSUME NEW k \in {0, 1}, NEW retryable \in BOOLEAN, Raise(w, k, retryable)
      PROVE  Kept(j)'
  <2>1. job[j] \in Active /\ task[w] # j
    BY <1>4, <1>8 DEF Raise, Terminal
  <2>2. \A n \in Try : queue'[j][n] = queue[j][n]
    BY <1>0, <1>8, <2>1 DEF Raise, RetryMessage, Publish, TypeOK
  <2>3. QED
    BY <1>0, <1>1, <1>8, <2>1, <2>2 DEF Raise, Goto, TypeOK, Executing
<1>9. CASE Ack(w)
  BY <1>0, <1>1, <1>9 DEF Ack, Idle, TypeOK, Executing
<1>10. CASE Crash(w) \/ VisibilityTimeout(w)
  <2>1. CASE task[w] = j
    <3>1. queue'[j][try[w]] > 0
      BY <1>0, <1>10, <2>1 DEF Crash, VisibilityTimeout, Redeliver, Publish, TypeOK
    <3>2. try[w] \in Try
      BY <1>0, <1>10 DEF Crash, VisibilityTimeout
    <3>3. QED
      BY <3>1, <3>2 DEF Carried, Queued
  <2>2. CASE task[w] # j
    <3>1. \A n \in Try : queue'[j][n] = queue[j][n]
      BY <1>0, <1>10, <2>2 DEF Crash, VisibilityTimeout, Redeliver, Publish, TypeOK
    <3>2. QED
      BY <1>0, <1>1, <1>10, <2>2, <3>1
      DEF Crash, VisibilityTimeout, Idle, TypeOK, Executing
  <2>3. QED
    BY <2>1, <2>2
<1>11. CASE LoseDatabase(w)
  <2>1. CASE task[w] = j /\ try[w] < MaxRetries
    <3>1. try[w] + 1 \in Try
      BY <1>0, <1>11, <2>1, ScanJobsAssumption DEF LoseDatabase, Try
    <3>2. queue'[j][try[w] + 1] > 0
      BY <1>0, <1>11, <2>1, <3>1
      DEF LoseDatabase, RetryOrDrop, RetryMessage, Publish, TypeOK
    <3>3. QED
      BY <3>1, <3>2 DEF Carried, Queued
  <2>2. CASE task[w] = j /\ ~(try[w] < MaxRetries)
    BY <1>11, <2>2 DEF LoseDatabase, RetryOrDrop, Drop
  <2>3. CASE task[w] # j
    <3>1. \A n \in Try : queue'[j][n] = queue[j][n]
      BY <1>0, <1>11, <2>3 DEF LoseDatabase, RetryOrDrop, RetryMessage, Publish, TypeOK
    <3>2. QED
      BY <1>0, <1>1, <1>11, <2>3, <3>1
      DEF LoseDatabase, RetryOrDrop, Drop, Goto, TypeOK, Executing
  <2>4. QED
    BY <2>1, <2>2, <2>3
<1>12. CASE KillChild(w)
  BY <1>0, <1>1, <1>12 DEF KillChild, Drop, Idle, TypeOK, Executing
<1>13. CASE Other(w)
  BY <1>0, <1>1, <1>13 DEF Other, OtherTask, Recycle, Executing
<1>14. QED
  BY <1>2, <1>a, <1>b, <1>3, <1>5, <1>6, <1>7, <1>8, <1>9, <1>10, <1>11, <1>12, <1>13
  DEF Work, Break

(* Whatever fails, a pending or running job has a request or a scheduler   *)
(* run that will publish it, a message or a worker that executes it, or it *)
(* was dropped in one of the ways the model names.                         *)
THEOREM NoJobOrphaned == Spec => []NoOrphan
<1>1. Init => IInv
  <2> SUFFICES ASSUME Init PROVE IInv
    OBVIOUS
  <2>1. TypeOK
    BY ScanJobsAssumption, NoRequestType
    DEF Init, TypeOK, Status, Row, Active, Terminal, Try, WorkerPC, NoRequest, Publishing
  <2>2. QED
    BY <2>1 DEF Init, IInv, RowHasTarget, NoOrphan, Row, Active, Terminal
<1>2. IInv /\ TypeOK' /\ [Next]_vars => IInv'
  <2> SUFFICES ASSUME IInv, TypeOK', [Next]_vars
               PROVE  NoOrphan'
    BY RowHasTargetStep DEF IInv
  <2> SUFFICES ASSUME NEW j \in Job, job'[j] \in Active
               PROVE  Kept(j)'
    BY DEF NoOrphan, Kept
  <2>1. CASE Next
    BY <2>1, RequestKeepsCarrier, WorkerKeepsCarrier DEF Next
  <2>2. CASE UNCHANGED vars
    BY <2>2
    DEF IInv, NoOrphan, Kept, Carried, Dispatching, Queued, Executing, vars, dbVars,
        workerVars
  <2>3. QED
    BY <2>1, <2>2
<1>3. QED
  BY <1>1, <1>2, TypeCorrect, PTL DEF Spec, IInv

-----------------------------------------------------------------------------
(* Outcomes are final *)

(* No step of a worker process touches a request. *)
LEMMA WorkerLeavesRequests ==
  ASSUME NEW w \in Worker, Work(w) \/ Other(w) \/ Break(w)
  PROVE  req' = req
<1>1. CASE Work(w)
  BY <1>1 DEF Work, Start, StartInVain, StartFails, MarkRunning, Succeed, InsertFails,
              Fail, Raise, LoseDatabase, Ack
<1>2. CASE Other(w) \/ Break(w)
  BY <1>2 DEF Other, Break, OtherTask, Recycle, Crash, VisibilityTimeout, KillChild
<1>3. QED
  BY <1>1, <1>2

(* A cancellation in flight saw an active job. *)
CancelSawActive ==
  \A h \in Handler : req[h].op = "cancel" => req[h].seen \in Active

LEMMA CancelSawActiveStep ==
  ASSUME TypeOK, CancelSawActive, [Next]_vars
  PROVE  CancelSawActive'
<1> SUFFICES ASSUME NEW g \in Handler, req'[g].op = "cancel"
             PROVE  req'[g].seen \in Active
  BY DEF CancelSawActive
<1>1. req[g].op = "cancel" => req[g].seen \in Active
  BY DEF CancelSawActive
<1>2. ASSUME NEW h \in Handler, Ask(h) \/ Serve(h) \/ HandlerDies(h)
      PROVE  req'[g].seen \in Active
  <2>0. req \in [Handler -> Request]
    BY DEF TypeOK
  <2>1. CASE Ask(h)
    <3>1. ASSUME NEW op, NEW on, NEW seen, Enter(h, op, on, seen),
                 op = "cancel" => seen \in Active
          PROVE  req'[g].seen \in Active
      BY <1>1, <2>0, <3>1 DEF Enter
    <3>2. ASSUME NEW t, BeginCreate(h, t) \/ BeginDue(h, t) \/ BeginDeleteTarget(h, t)
          PROVE  req'[g].seen \in Active
      BY <3>1, <3>2 DEF BeginCreate, BeginDue, BeginDeleteTarget
    <3>3. ASSUME NEW k, BeginRetry(h, k) \/ BeginDelete(h, k) \/ BeginCancel(h, k)
          PROVE  req'[g].seen \in Active
      BY <3>1, <3>3 DEF BeginRetry, BeginDelete, BeginCancel, Cancellable
    <3>4. QED
      BY <2>1, <3>2, <3>3 DEF Ask
  <2>2. CASE Serve(h) \/ HandlerDies(h)
    <3>1. req'[g] = req[g] \/ req'[g].op # "cancel"
      BY <2>0, <2>2
      DEF Serve, HandlerDies, InsertJob, Dispatch, DispatchRaises, DueDispatchRaises,
          RecordDispatchFailure, FinishDelete, FinishCancel, FinishDeleteTarget,
          Leave, Advance, NoRequest
    <3>2. QED
      BY <1>1, <3>1
  <2>3. QED
    BY <1>2, <2>1, <2>2
<1>3. ASSUME NEW w \in Worker, Work(w) \/ Other(w) \/ Break(w)
      PROVE  req' = req
  BY <1>3, WorkerLeavesRequests
<1>4. QED
  BY <1>1, <1>2, <1>3 DEF Next, vars

(* A request that saw no active status leaves an outcome alone, or deletes *)
(* the job, and publishes nothing for it.                                  *)
LEMMA RequestKeepsOutcome ==
  ASSUME TypeOK, CancelSawActive, NEW j \in Job, job[j] \in Terminal, Undisturbed(j),
         NEW h \in Handler, Ask(h) \/ Serve(h) \/ HandlerDies(h)
  PROVE  /\ job'[j] \in {job[j], "deleted"}
         /\ queue'[j] = queue[j]
         /\ UNCHANGED <<pc, task>>
         /\ Undisturbed(j)'
<1> USE DEF dbVars, workerVars, Publishing
<1>0. /\ \A g \in Handler :
            ~Dispatching(g, j) /\ (req[g].on = j => req[g].seen \notin Active)
      /\ \A w \in Worker : ~Executing(w, j)
      /\ job \in [Job -> Status] /\ queue \in [Job -> [Try -> Nat]]
      /\ req \in [Handler -> Request]
      /\ j # None /\ job[j] # "none" /\ job[j] \notin Active
  BY ScanJobsAssumption DEF Undisturbed, TypeOK, Terminal, Active
<1>1. UNCHANGED <<pc, task>>
  BY DEF Ask, Serve, BeginCreate, BeginDue, BeginDeleteTarget, BeginRetry, BeginDelete,
         BeginCancel, Enter, InsertJob, Dispatch, DispatchRaises, DueDispatchRaises,
         RecordDispatchFailure, FinishDelete, FinishCancel, FinishDeleteTarget,
         HandlerDies
<1>2. ASSUME NEW r, req' = [req EXCEPT ![h] = r],
             r.on = j =>
               r.op \notin Publishing \cup {"dispatchfailed"} /\ r.seen \notin Active
      PROVE  Undisturbed(j)'
  BY <1>0, <1>1, <1>2 DEF Undisturbed, Dispatching, Executing
<1>3. Leave(h) => Undisturbed(j)'
  BY <1>0, <1>2 DEF Leave, NoRequest
<1>4. CASE Ask(h)
  <2>1. UNCHANGED <<job, queue>>
    BY <1>4
    DEF Ask, BeginCreate, BeginDue, BeginDeleteTarget, BeginRetry, BeginDelete,
        BeginCancel, Enter
  <2>2. ASSUME NEW op \in {"insert", "insertdue", "delete", "cancel", "droptarget"},
               NEW on, NEW seen,
               Enter(h, op, on, seen), on = j => seen \notin Active
        PROVE  Undisturbed(j)'
    BY <1>2, <2>2 DEF Enter
  <2>3. ASSUME NEW t, BeginCreate(h, t) \/ BeginDue(h, t) \/ BeginDeleteTarget(h, t)
        PROVE  Undisturbed(j)'
    BY <2>2, <2>3 DEF BeginCreate, BeginDue, BeginDeleteTarget, Active
  <2>4. ASSUME NEW k \in Job, BeginRetry(h, k)
        PROVE  Undisturbed(j)'
    BY <2>2, <2>4 DEF BeginRetry, Active
  <2>5. ASSUME NEW k \in Job, BeginDelete(h, k)
        PROVE  Undisturbed(j)'
    BY <1>0, <2>2, <2>5 DEF BeginDelete
  <2>6. ASSUME NEW k \in Job, BeginCancel(h, k)
        PROVE  Undisturbed(j)'
    BY <1>0, <2>2, <2>6 DEF BeginCancel, Cancellable
  <2>7. QED
    BY <1>1, <1>4, <2>1, <2>3, <2>4, <2>5, <2>6 DEF Ask
<1>5. ASSUME NEW k \in Job, InsertJob(h, k)
      PROVE  /\ job'[j] \in {job[j], "deleted"}
             /\ queue'[j] = queue[j]
             /\ Undisturbed(j)'
  <2>1. k # j /\ queue' = queue /\ job'[j] = job[j]
    BY <1>0, <1>5 DEF InsertJob
  <2>2. Undisturbed(j)'
    BY <1>2, <1>3, <1>5, <2>1 DEF InsertJob, Advance, Active
  <2>3. QED
    BY <2>1, <2>2
<1>6. CASE Dispatch(h) \/ HandlerDies(h) \/ DueDispatchRaises(h)
  <2>1. req[h].on # j
    BY <1>0, <1>6 DEF Dispatch, HandlerDies, DueDispatchRaises, Dispatching
  <2>2. queue'[j] = queue[j] /\ job' = job /\ Leave(h)
    BY <1>0, <1>6, <2>1 DEF Dispatch, HandlerDies, DueDispatchRaises, Publish
  <2>3. QED
    BY <1>1, <1>3, <2>2
<1>7. CASE DispatchRaises(h)
  <2>1. req[h].on # j
    BY <1>0, <1>7 DEF DispatchRaises, DueDispatchRaises, Dispatching
  <2>2. queue'[j] = queue[j] /\ job' = job
    BY <1>0, <1>7, <2>1 DEF DispatchRaises, DueDispatchRaises, Publish
  <2>3. Undisturbed(j)'
    BY <1>2, <1>7, <2>1 DEF DispatchRaises, DueDispatchRaises, Advance
  <2>4. QED
    BY <1>1, <2>2, <2>3
<1>8. CASE RecordDispatchFailure(h) \/ FinishCancel(h)
  <2>1. req[h].on # j
    BY <1>0, <1>8 DEF RecordDispatchFailure, FinishCancel, Dispatching, CancelSawActive
  <2>2. queue' = queue /\ job'[j] = job[j] /\ Leave(h)
    BY <1>0, <1>8, <2>1 DEF RecordDispatchFailure, FinishCancel, SetStatus
  <2>3. QED
    BY <1>1, <1>3, <2>2
<1>9. CASE FinishDelete(h) \/ FinishDeleteTarget(h)
  <2>1. queue' = queue /\ Leave(h)
    BY <1>9 DEF FinishDelete, FinishDeleteTarget
  <2>2. job'[j] \in {job[j], "deleted"}
    BY <1>0, <1>9 DEF FinishDelete, FinishDeleteTarget, SetStatus, DeleteRows
  <2>3. QED
    BY <1>1, <1>3, <2>1, <2>2
<1>10. QED
  BY <1>1, <1>4, <1>5, <1>6, <1>7, <1>8, <1>9 DEF Serve

(* A worker that does not execute a job leaves its outcome alone; it does  *)
(* not start a cancelled one, nor one of which there is no message.        *)
LEMMA WorkerKeepsOutcome ==
  ASSUME TypeOK, NEW j \in Job, job[j] \in Terminal, Undisturbed(j),
         job[j] = "cancelled" \/ ~Queued(j),
         NEW w \in Worker, Work(w) \/ Other(w) \/ Break(w)
  PROVE  /\ job'[j] = job[j]
         /\ Undisturbed(j)'
         /\ Settled(j) => Settled(j)'
<1> USE DEF dbVars, workerVars, Publishing
<1>0. /\ \A v \in Worker : ~Executing(v, j)
      /\ job \in [Job -> Status] /\ queue \in [Job -> [Try -> Nat]]
      /\ pc \in [Worker -> WorkerPC] /\ task \in [Worker -> Job \cup {None}]
      /\ pc[w] # "idle" => task[w] \in Job /\ try[w] \in Try
      /\ j # None
  BY ScanJobsAssumption DEF Undisturbed, TypeOK
<1>1. req' = req
  BY WorkerLeavesRequests
<1>2. ASSUME \A v \in Worker : ~Executing(v, j)'
      PROVE  Undisturbed(j)'
  BY <1>1, <1>2 DEF Undisturbed, Dispatching
<1>3. ASSUME ~Executing(w, j)',
             \A v \in Worker : v # w => pc'[v] = pc[v] /\ task'[v] = task[v]
      PROVE  Undisturbed(j)'
  BY <1>0, <1>2, <1>3 DEF Executing
<1>4. ASSUME Undisturbed(j)', Settled(j), \A n \in Try : queue'[j][n] = queue[j][n],
             \A v \in Worker : task'[v] \in {task[v], None}
      PROVE  Settled(j)'
  BY <1>0, <1>4 DEF Settled, Queued
<1>5. ASSUME NEW k \in Job, NEW n \in Try,
             Start(w, k, n) \/ StartInVain(w, k, n) \/ StartFails(w, k, n)
      PROVE  /\ job'[j] = job[j]
             /\ Undisturbed(j)'
             /\ Settled(j) => Settled(j)'
  <2>1. job' = job /\ queue[k][n] > 0
    BY <1>5 DEF Start, StartInVain, StartFails, Receive
  <2>2. k = j => job[j] = "cancelled"
    BY <2>1 DEF Queued
  <2>3. \/ UNCHANGED <<pc, task>>
        \/ /\ task' = [task EXCEPT ![w] = k]
           /\ \/ pc' = [pc EXCEPT ![w] = "ending"]
              \/ Runnable(k) /\ pc' = [pc EXCEPT ![w] = "loaded"]
    BY <1>5 DEF Start, StartInVain, StartFails, Hold
  <2>4. Undisturbed(j)'
    <3>1. ~Executing(w, j)'
      BY <1>0, <2>2, <2>3 DEF Executing, Runnable
    <3>2. QED
      BY <1>0, <1>3, <2>3, <3>1
  <2>5. ASSUME Settled(j)
        PROVE  Settled(j)'
    <3>1. k # j
      BY <2>1, <2>5 DEF Settled, Queued
    <3>2. queue'[j] = queue[j]
      BY <1>0, <1>5, <3>1 DEF Start, StartInVain, StartFails
    <3>3. \A v \in Worker : task'[v] # j
      BY <1>0, <2>3, <2>5, <3>1 DEF Settled
    <3>4. QED
      BY <2>4, <2>5, <3>2, <3>3 DEF Settled, Queued
  <2>6. QED
    BY <2>1, <2>4, <2>5
<1>6. ASSUME NEW l \in {"scanning", "ending"}, Goto(w, l),
             pc[w] \in {"loaded", "scanning"}
      PROVE  Undisturbed(j)' /\ task' = task /\ task[w] # j
  BY <1>0, <1>3, <1>6 DEF Goto, Executing
<1>7. ASSUME pc[w] \in {"loaded", "scanning"}
      PROVE  task[w] # j
  BY <1>0, <1>7 DEF Executing
<1>8. CASE MarkRunning(w) \/ Fail(w) \/ (\E k \in {0, 1} : Succeed(w, k)) \/ InsertFails(w)
  <2>1. job'[j] = job[j] /\ queue' = queue
    BY <1>0, <1>7, <1>8 DEF MarkRunning, Fail, Succeed, InsertFails, SetStatus
  <2>2. Undisturbed(j)' /\ task' = task
    BY <1>6, <1>8 DEF MarkRunning, Fail, Succeed, InsertFails
  <2>3. QED
    BY <1>4, <2>1, <2>2
<1>9. CASE LoseDatabase(w) \/ \E k \in {0, 1}, b \in BOOLEAN : Raise(w, k, b)
  <2>1. task[w] # j
    BY <1>7, <1>9 DEF LoseDatabase, Raise
  <2>2. job'[j] = job[j]
    BY <1>0, <1>9, <2>1 DEF LoseDatabase, Raise, SetStatus
  <2>3. queue'[j] = queue[j]
    BY <1>0, <1>9, <2>1 DEF LoseDatabase, RetryOrDrop, Raise, RetryMessage, Publish
  <2>4. Undisturbed(j)' /\ task' = task
    BY <1>6, <1>9 DEF LoseDatabase, Raise
  <2>5. QED
    BY <1>4, <2>2, <2>3, <2>4
<1>10. CASE Other(w)
  BY <1>0, <1>2, <1>4, <1>10 DEF Other, OtherTask, Recycle, Executing
<1>11. CASE Ack(w) \/ KillChild(w)
  <2>1. UNCHANGED <<job, queue>> /\ Idle(w)
    BY <1>11 DEF Ack, KillChild
  <2>2. Undisturbed(j)'
    BY <1>0, <1>3, <2>1 DEF Idle, Executing
  <2>3. \A v \in Worker : task'[v] \in {task[v], None}
    BY <1>0, <2>1 DEF Idle
  <2>4. QED
    BY <1>4, <2>1, <2>2, <2>3
<1>12. CASE Crash(w) \/ VisibilityTimeout(w)
  <2>1. job' = job /\ queue' = [queue EXCEPT ![task[w]][try[w]] = @ + 1]
    BY <1>12 DEF Crash, VisibilityTimeout, Redeliver, Publish
  <2>2. Undisturbed(j)'
    BY <1>0, <1>2, <1>3, <1>12 DEF Crash, VisibilityTimeout, Idle, Executing
  <2>3. \A v \in Worker : task'[v] \in {task[v], None}
    BY <1>0, <1>12 DEF Crash, VisibilityTimeout, Idle
  <2>4. Settled(j) => queue'[j] = queue[j]
    BY <1>0, <2>1 DEF Settled
  <2>5. QED
    BY <1>4, <2>1, <2>2, <2>3, <2>4
<1>13. QED
  BY <1>5, <1>8, <1>9, <1>10, <1>11, <1>12 DEF Work, Break

(* A job cancelled before a worker loaded it is never loaded afterwards.   *)
THEOREM CancelledNeverRuns == Spec => CancelledIsNotRun
<1>1. Init => CancelSawActive
  BY DEF Init, CancelSawActive, NoRequest
<1>2. TypeOK /\ CancelSawActive /\ [Next]_vars =>
        [\A j \in Job : job[j] = "cancelled" /\ Undisturbed(j)
          => Undisturbed(j)' /\ job'[j] \in {"cancelled", "deleted"}]_vars
  <2> SUFFICES ASSUME TypeOK, CancelSawActive, Next, NEW j \in Job,
                      job[j] = "cancelled", Undisturbed(j)
               PROVE  Undisturbed(j)' /\ job'[j] \in {"cancelled", "deleted"}
    OBVIOUS
  <2>1. job[j] \in Terminal
    BY DEF Terminal
  <2>2. QED
    BY <2>1, RequestKeepsOutcome, WorkerKeepsOutcome DEF Next
<1>3. QED
  BY <1>1, <1>2, CancelSawActiveStep, TypeCorrect, PTL DEF Spec, CancelledIsNotRun

(* The outcome of a job that has no message, no worker and no request that *)
(* saw it active is final.                                                 *)
THEOREM OutcomesAreFinal == Spec => OutcomeIsFinal
<1>1. Init => CancelSawActive
  BY DEF Init, CancelSawActive, NoRequest
<1>2. TypeOK /\ CancelSawActive /\ [Next]_vars =>
        [\A j \in Job : job[j] \in Terminal /\ Settled(j)
          => Settled(j)' /\ job'[j] \in {job[j], "deleted"}]_vars
  <2> SUFFICES ASSUME TypeOK, CancelSawActive, Next, NEW j \in Job,
                      job[j] \in Terminal, Settled(j)
               PROVE  Settled(j)' /\ job'[j] \in {job[j], "deleted"}
    OBVIOUS
  <2>1. Undisturbed(j) /\ ~Queued(j)
    BY DEF Settled
  <2>2. ASSUME NEW h \in Handler, Ask(h) \/ Serve(h) \/ HandlerDies(h)
        PROVE  Settled(j)' /\ job'[j] \in {job[j], "deleted"}
    BY <2>1, <2>2, RequestKeepsOutcome DEF Settled, Queued
  <2>3. ASSUME NEW w \in Worker, Work(w) \/ Other(w) \/ Break(w)
        PROVE  Settled(j)' /\ job'[j] \in {job[j], "deleted"}
    BY <2>1, <2>3, WorkerKeepsOutcome
  <2>4. QED
    BY <2>2, <2>3 DEF Next
<1>3. QED
  BY <1>1, <1>2, CancelSawActiveStep, TypeCorrect, PTL DEF Spec, OutcomeIsFinal

-----------------------------------------------------------------------------
(* One executor                                                            *)
(*                                                                         *)
(* A job has at most one right to be executed, which a request waiting to  *)
(* publish it, its message in the broker or the worker executing it holds; *)
(* the steps pass it on, and only a redelivery would make a second one.    *)

Awaiting(h, j) == req[h].op \in Publishing /\ req[h].on = j

Sole(j) ==
  /\ \A g, h \in Handler : Awaiting(g, j) /\ Awaiting(h, j) => g = h
  /\ \A v, w \in Worker : Executing(v, j) /\ Executing(w, j) => v = w
  /\ \A m, n \in Try : queue[j][m] > 0 /\ queue[j][n] > 0 => m = n
  /\ \A n \in Try : queue[j][n] <= 1
  /\ \A h \in Handler, n \in Try : ~(Awaiting(h, j) /\ queue[j][n] > 0)
  /\ \A h \in Handler, w \in Worker : ~(Awaiting(h, j) /\ Executing(w, j))
  /\ \A w \in Worker, n \in Try : ~(Executing(w, j) /\ queue[j][n] > 0)

(* Nobody holds a right to a job that was not inserted. *)
Fresh(j) ==
  /\ \A h \in Handler : ~Awaiting(h, j)
  /\ \A w \in Worker : ~Executing(w, j)
  /\ \A n \in Try : queue[j][n] = 0

SoleInv == \A j \in Job : Sole(j) /\ (job[j] = "none" => Fresh(j))

(* Rights are given up ... *)
LEMMA SoleShrinks ==
  ASSUME TypeOK, TypeOK', NEW j \in Job, Sole(j), job[j] = "none" => Fresh(j),
         job'[j] = "none" => job[j] = "none",
         \A h \in Handler : Awaiting(h, j)' => Awaiting(h, j),
         \A w \in Worker : Executing(w, j)' => Executing(w, j),
         \A n \in Try : queue'[j][n] <= queue[j][n]
  PROVE  Sole(j)' /\ (job'[j] = "none" => Fresh(j)')
<1>1. \A n \in Try : queue[j][n] \in Nat /\ queue'[j][n] \in Nat
  BY DEF TypeOK
<1>2. Sole(j)'
  BY <1>1 DEF Sole
<1>3. job'[j] = "none" => Fresh(j)'
  BY <1>1 DEF Fresh
<1>4. QED
  BY <1>2, <1>3

(* ... or passed on by a request ... *)
LEMMA RequestKeepsSole ==
  ASSUME TypeOK, TypeOK', SoleInv, NEW j \in Job, NEW h \in Handler,
         Ask(h) \/ Serve(h) \/ HandlerDies(h)
  PROVE  Sole(j)' /\ (job'[j] = "none" => Fresh(j)')
<1> USE DEF dbVars, workerVars, Publishing
<1>0. /\ Sole(j) /\ (job[j] = "none" => Fresh(j))
      /\ job \in [Job -> Status] /\ queue \in [Job -> [Try -> Nat]]
      /\ req \in [Handler -> Request]
      /\ j # None /\ 0 \in Try
  <2>1. Sole(j) /\ (job[j] = "none" => Fresh(j))
    BY DEF SoleInv
  <2>2. /\ job \in [Job -> Status] /\ queue \in [Job -> [Try -> Nat]]
        /\ req \in [Handler -> Request]
    BY DEF TypeOK
  <2>3. j # None /\ 0 \in Try
    BY ScanJobsAssumption DEF Try
  <2>4. QED
    BY <2>1, <2>2, <2>3
<1>1. \A w \in Worker : Executing(w, j)' <=> Executing(w, j)
  <2>1. ASSUME Ask(h)
        PROVE  UNCHANGED <<pc, task>>
    BY <2>1 DEF Ask, BeginCreate, BeginDue, BeginDeleteTarget, BeginRetry, BeginDelete,
                BeginCancel, Enter
  <2>2. ASSUME Serve(h)
        PROVE  UNCHANGED <<pc, task>>
    BY <2>2 DEF Serve, InsertJob, Dispatch, DispatchRaises, DueDispatchRaises,
                RecordDispatchFailure, FinishDelete, FinishCancel, FinishDeleteTarget
  <2>3. ASSUME HandlerDies(h)
        PROVE  UNCHANGED <<pc, task>>
    BY <2>3 DEF HandlerDies
  <2>4. UNCHANGED <<pc, task>>
    BY <2>1, <2>2, <2>3
  <2>5. QED
    BY <2>4 DEF Executing
<1>2. ASSUME job'[j] = "none" => job[j] = "none",
             \A g \in Handler : Awaiting(g, j)' => Awaiting(g, j),
             queue'[j] = queue[j]
      PROVE  Sole(j)' /\ (job'[j] = "none" => Fresh(j)')
  <2>1. \A n \in Try : queue'[j][n] <= queue[j][n]
    BY <1>0, <1>2
  <2>2. QED
    BY <1>0, <1>1, <1>2, <2>1, SoleShrinks
<1>3. CASE Ask(h)
  <2>1. UNCHANGED <<job, queue>>
    BY <1>3
    DEF Ask, BeginCreate, BeginDue, BeginDeleteTarget, BeginRetry, BeginDelete,
        BeginCancel, Enter
  <2>2. \A g \in Handler : Awaiting(g, j)' => Awaiting(g, j)
    BY <1>0, <1>3
    DEF Ask, BeginCreate, BeginDue, BeginDeleteTarget, BeginRetry, BeginDelete,
        BeginCancel, Enter, Awaiting
  <2>3. QED
    BY <1>2, <2>1, <2>2
<1>4. ASSUME NEW k \in Job, InsertJob(h, k), TargetOf[k] \in targets
      PROVE  Sole(j)' /\ (job'[j] = "none" => Fresh(j)')
  <2>1. /\ job' = [job EXCEPT ![k] = "pending"] /\ queue' = queue /\ job[k] = "none"
        /\ \E op \in Publishing :
             req' = [req EXCEPT ![h] = [op |-> op, on |-> k, seen |-> "none"]]
    BY <1>4 DEF InsertJob, Advance
  <2>2. CASE k = j
    <3>1. Fresh(j) /\ job'[j] # "none"
      BY <1>0, <2>1, <2>2
    <3>2. \A g \in Handler : Awaiting(g, j)' => g = h
      BY <1>0, <2>1, <3>1 DEF Awaiting, Fresh
    <3>3. (\A w \in Worker : ~Executing(w, j)') /\ (\A n \in Try : queue'[j][n] = 0)
      BY <1>1, <2>1, <3>1 DEF Fresh
    <3>4. Sole(j)'
      BY <3>2, <3>3 DEF Sole
    <3>5. QED
      BY <3>1, <3>4
  <2>3. CASE k # j
    <3>1. \A g \in Handler : Awaiting(g, j)' => Awaiting(g, j)
      BY <1>0, <2>1, <2>3 DEF Awaiting
    <3>2. QED
      BY <1>0, <1>2, <2>1, <2>3, <3>1
  <2>4. QED
    BY <2>2, <2>3
<1>5. ASSUME NEW k \in Job, InsertJob(h, k), TargetOf[k] \notin targets
      PROVE  Sole(j)' /\ (job'[j] = "none" => Fresh(j)')
  <2>1. UNCHANGED <<job, queue>> /\ Leave(h)
    BY <1>5 DEF InsertJob
  <2>2. \A g \in Handler : Awaiting(g, j)' => Awaiting(g, j)
    BY <1>0, <2>1 DEF Leave, NoRequest, Awaiting
  <2>3. QED
    BY <1>2, <2>1, <2>2
<1>6. CASE Dispatch(h) \/ DispatchRaises(h) \/ DueDispatchRaises(h)
  <2>1. \A g \in Handler : Awaiting(g, j)' => Awaiting(g, j) /\ g # h
    BY <1>0, <1>6 DEF Dispatch, DispatchRaises, DueDispatchRaises, Leave, Advance,
                      NoRequest, Awaiting
  <2>2. job' = job /\ req[h].op \in Publishing
    BY <1>6 DEF Dispatch, DispatchRaises, DueDispatchRaises
  <2>3. Publish(req[h].on, 0) \/ queue' = queue
    BY <1>6 DEF Dispatch, DispatchRaises, DueDispatchRaises
  <2>4. CASE req[h].on # j \/ queue' = queue
    <3>1. queue'[j] = queue[j]
      BY <1>0, <2>3, <2>4 DEF Publish
    <3>2. QED
      BY <1>2, <2>1, <2>2, <3>1
  <2>5. CASE req[h].on = j /\ Publish(j, 0)
    <3>1. Awaiting(h, j)
      BY <2>2, <2>5 DEF Awaiting
    <3>2. /\ \A n \in Try : queue[j][n] = 0
          /\ \A w \in Worker : ~Executing(w, j)
          /\ \A g \in Handler : Awaiting(g, j) => g = h
      BY <1>0, <3>1 DEF Sole
    <3>3. \A n \in Try : queue'[j][n] = IF n = 0 THEN 1 ELSE 0
      BY <1>0, <2>5, <3>2 DEF Publish
    <3>4. job[j] # "none"
      BY <1>0, <3>1 DEF Fresh
    <3>5. \A g \in Handler : ~Awaiting(g, j)'
      BY <2>1, <3>2
    <3>6. Sole(j)'
      BY <1>1, <3>2, <3>3, <3>5 DEF Sole
    <3>7. QED
      BY <2>2, <3>4, <3>6
  <2>6. QED
    BY <2>3, <2>4, <2>5
<1>7. CASE \/ RecordDispatchFailure(h) \/ FinishDelete(h) \/ FinishCancel(h)
           \/ FinishDeleteTarget(h) \/ HandlerDies(h)
  <2>1. queue' = queue /\ Leave(h)
    BY <1>7
    DEF RecordDispatchFailure, FinishDelete, FinishCancel, FinishDeleteTarget, HandlerDies
  <2>2. job'[j] = "none" => job[j] = "none"
    BY <1>0, <1>7
    DEF RecordDispatchFailure, FinishDelete, FinishCancel, FinishDeleteTarget,
        HandlerDies, SetStatus, DeleteRows
  <2>3. \A g \in Handler : Awaiting(g, j)' => Awaiting(g, j)
    BY <1>0, <2>1 DEF Leave, NoRequest, Awaiting
  <2>4. QED
    BY <1>2, <2>1, <2>2, <2>3
<1>8. QED
  BY <1>3, <1>4, <1>5, <1>6, <1>7 DEF Serve

(* ... or by a worker, as long as the broker redelivers nothing. *)
LEMMA WorkerKeepsSole ==
  ASSUME TypeOK, TypeOK', SoleInv, Faults \cap {"crash", "visibility"} = {},
         NEW j \in Job, NEW w \in Worker, Work(w) \/ Other(w) \/ Break(w)
  PROVE  Sole(j)' /\ (job'[j] = "none" => Fresh(j)')
<1> USE DEF dbVars, workerVars, Publishing
<1>0. /\ Sole(j) /\ (job[j] = "none" => Fresh(j))
      /\ job \in [Job -> Status] /\ queue \in [Job -> [Try -> Nat]]
      /\ pc \in [Worker -> WorkerPC] /\ task \in [Worker -> Job \cup {None}]
      /\ try \in [Worker -> Try] /\ j # None
  BY ScanJobsAssumption DEF SoleInv, TypeOK
<1>1. \A h \in Handler : Awaiting(h, j)' <=> Awaiting(h, j)
  BY WorkerLeavesRequests DEF Awaiting
<1>2. job'[j] = "none" => job[j] = "none"
  BY <1>0
  DEF Work, Other, Break, Start, StartInVain, StartFails, MarkRunning, Succeed,
      InsertFails, Fail, Raise, LoseDatabase, Ack, OtherTask, Recycle, Crash,
      VisibilityTimeout, KillChild, SetStatus, Terminal
<1>3. ASSUME \A v \in Worker : Executing(v, j)' => Executing(v, j),
             queue'[j] = queue[j]
      PROVE  Sole(j)' /\ (job'[j] = "none" => Fresh(j)')
  <2>1. \A n \in Try : queue'[j][n] <= queue[j][n]
    BY <1>0, <1>3
  <2>2. QED
    BY <1>0, <1>1, <1>2, <1>3, <2>1, SoleShrinks
<1>4. ASSUME NEW k \in Job, NEW n \in Try, Start(w, k, n) \/ StartInVain(w, k, n)
      PROVE  Sole(j)' /\ (job'[j] = "none" => Fresh(j)')
  <2>1. /\ pc[w] = "idle" /\ queue[k][n] > 0 /\ job' = job
        /\ queue' = [queue EXCEPT ![k][n] = @ - 1]
    BY <1>4 DEF Start, StartInVain, Receive
  <2>2. \/ UNCHANGED <<pc, task>>
        \/ task' = [task EXCEPT ![w] = k] /\ \A v \in Worker \ {w} : pc'[v] = pc[v]
    BY <1>0, <1>4 DEF Start, StartInVain, Hold
  <2>3. \A v \in Worker \ {w} : Executing(v, j)' <=> Executing(v, j)
    BY <1>0, <2>2 DEF Executing
  <2>4. CASE k # j
    <3>1. \A v \in Worker : Executing(v, j)' => Executing(v, j)
      BY <1>0, <2>1, <2>2, <2>3, <2>4 DEF Executing
    <3>2. queue'[j] = queue[j]
      BY <1>0, <2>1, <2>4
    <3>3. QED
      BY <1>3, <3>1, <3>2
  <2>5. CASE k = j
    <3>1. /\ \A m \in Try : queue[j][m] > 0 => m = n
          /\ queue[j][n] = 1
          /\ \A h \in Handler : ~Awaiting(h, j)
          /\ \A v \in Worker : ~Executing(v, j)
      BY <1>0, <2>1, <2>5 DEF Sole
    <3>2. \A m \in Try : queue'[j][m] = 0
      BY <1>0, <2>1, <2>5, <3>1
    <3>3. \A v \in Worker : Executing(v, j)' => v = w
      BY <2>3, <3>1
    <3>4. job[j] # "none"
      BY <1>0, <3>1 DEF Fresh
    <3>5. Sole(j)'
      BY <1>1, <3>1, <3>2, <3>3 DEF Sole
    <3>6. QED
      BY <2>1, <3>4, <3>5
  <2>6. QED
    BY <2>4, <2>5
<1>5. ASSUME Goto(w, "ending"), pc[w] \in {"loaded", "scanning"}
      PROVE  \A v \in Worker : Executing(v, j)' => Executing(v, j) /\ v # w
  BY <1>0, <1>5 DEF Goto, Executing
<1>6. CASE MarkRunning(w)
  <2>1. \A v \in Worker : Executing(v, j)' => Executing(v, j)
    BY <1>0, <1>6 DEF MarkRunning, Goto, Executing
  <2>2. QED
    BY <1>3, <1>6, <2>1 DEF MarkRunning
<1>7. CASE (\E k \in {0, 1} : Succeed(w, k)) \/ InsertFails(w) \/ Fail(w)
  <2>1. Goto(w, "ending") /\ pc[w] = "scanning" /\ queue' = queue
    BY <1>7 DEF Succeed, InsertFails, Fail
  <2>2. QED
    BY <1>3, <1>5, <2>1
<1>8. CASE (\E k \in {0, 1}, b \in BOOLEAN : Raise(w, k, b)) \/ LoseDatabase(w)
  <2>1. /\ Goto(w, "ending") /\ pc[w] \in {"loaded", "scanning"}
        /\ RetryMessage(task[w], try[w]) \/ queue' = queue
    BY <1>8 DEF Raise, LoseDatabase, RetryOrDrop
  <2>2. CASE queue'[j] = queue[j]
    BY <1>3, <1>5, <2>1, <2>2
  <2>3. CASE queue'[j] # queue[j]
    <3>1. /\ task[w] = j /\ try[w] < MaxRetries
          /\ queue' = [queue EXCEPT ![j][try[w] + 1] = @ + 1]
      BY <1>0, <2>1, <2>3 DEF RetryMessage, Publish
    <3>2. try[w] + 1 \in Try
      BY <1>0, <3>1, ScanJobsAssumption DEF Try
    <3>3. Executing(w, j)
      BY <2>1, <3>1 DEF Executing
    <3>4. /\ \A n \in Try : queue[j][n] = 0
          /\ \A h \in Handler : ~Awaiting(h, j)
          /\ \A v \in Worker : Executing(v, j) => v = w
      BY <1>0, <3>3 DEF Sole
    <3>5. \A n \in Try : queue'[j][n] = IF n = try[w] + 1 THEN 1 ELSE 0
      BY <1>0, <3>1, <3>2, <3>4
    <3>6. \A v \in Worker : ~Executing(v, j)'
      BY <1>5, <2>1, <3>4
    <3>7. Sole(j)'
      BY <1>1, <3>4, <3>5, <3>6 DEF Sole
    <3>8. job[j] # "none"
      BY <1>0, <3>3 DEF Fresh
    <3>9. QED
      BY <1>2, <3>7, <3>8
  <2>4. QED
    BY <2>2, <2>3
<1>9. CASE Ack(w) \/ Other(w) \/ KillChild(w)
  <2>1. queue' = queue
    BY <1>9 DEF Ack, Other, OtherTask, Recycle, KillChild
  <2>2. \A v \in Worker : Executing(v, j)' => Executing(v, j)
    BY <1>0, <1>9 DEF Ack, Other, OtherTask, Recycle, KillChild, Idle, Executing
  <2>3. QED
    BY <1>3, <2>1, <2>2
<1>10. ~(Crash(w) \/ VisibilityTimeout(w))
  BY DEF Crash, VisibilityTimeout, Fault
<1>11. ASSUME NEW k \in Job, NEW n \in Try, StartFails(w, k, n)
       PROVE  Sole(j)' /\ (job'[j] = "none" => Fresh(j)')
  <2>1. queue[k][n] > 0 /\ UNCHANGED <<job, pc, task>>
    BY <1>11 DEF StartFails, Receive
  <2>2. \A v \in Worker : Executing(v, j)' <=> Executing(v, j)
    BY <2>1 DEF Executing
  <2>3. CASE k # j
    <3>1. queue'[j] = queue[j]
      BY <1>0, <1>11, <2>3 DEF StartFails
    <3>2. QED
      BY <1>3, <2>2, <3>1
  <2>4. CASE k = j
    <3>1. /\ \A m \in Try : queue[j][m] = IF m = n THEN 1 ELSE 0
          /\ \A h \in Handler : ~Awaiting(h, j)
          /\ \A v \in Worker : ~Executing(v, j)
      BY <1>0, <2>1, <2>4 DEF Sole
    <3>2. job[j] # "none" /\ job'[j] # "none"
      BY <1>0, <2>1, <3>1 DEF Fresh
    <3>a. /\ \A h \in Handler : ~Awaiting(h, j)'
          /\ \A v \in Worker : ~Executing(v, j)'
      BY <1>1, <2>2, <3>1
    <3>3. CASE n < MaxRetries
      <4>1. n + 1 \in Try /\ n + 1 # n
        BY <3>3, ScanJobsAssumption DEF Try
      <4>2. queue' = [queue EXCEPT ![j][n] = @ - 1, ![j][n + 1] = @ + 1]
        BY <1>11, <2>4, <3>3 DEF StartFails
      <4>3. \A m \in Try : queue'[j][m] = IF m = n + 1 THEN 1 ELSE 0
        BY <1>0, <3>1, <4>1, <4>2
      <4>4. QED
        BY <3>a, <3>2, <4>3 DEF Sole
    <3>4. CASE ~(n < MaxRetries)
      <4>1. queue' = [queue EXCEPT ![j][n] = @ - 1]
        BY <1>11, <2>4, <3>4 DEF StartFails
      <4>2. \A m \in Try : queue'[j][m] = 0
        BY <1>0, <3>1, <4>1
      <4>3. QED
        BY <3>a, <3>2, <4>2 DEF Sole
    <3>5. QED
      BY <3>3, <3>4
  <2>5. QED
    BY <2>3, <2>4
<1>12. QED
  BY <1>4, <1>6, <1>7, <1>8, <1>9, <1>10, <1>11 DEF Work, Break

(* Without redelivery no two workers ever execute the same job, whatever   *)
(* Celery's retries and the users' reschedule.                             *)
THEOREM NoTwoExecutors == Spec => []OneExecutor
<1> DEFINE Inv == Faults \cap {"crash", "visibility"} = {} => SoleInv
<1>1. Init => Inv
  BY DEF Init, SoleInv, Sole, Fresh, Awaiting, Executing, NoRequest, Try, Publishing
<1>2. TypeOK /\ TypeOK' /\ Inv /\ [Next]_vars => Inv'
  <2> SUFFICES ASSUME TypeOK, TypeOK', SoleInv, [Next]_vars,
                      Faults \cap {"crash", "visibility"} = {}
               PROVE  SoleInv'
    OBVIOUS
  <2> SUFFICES ASSUME NEW j \in Job
               PROVE  Sole(j)' /\ (job'[j] = "none" => Fresh(j)')
    BY DEF SoleInv
  <2>1. CASE Next
    BY <2>1, RequestKeepsSole, WorkerKeepsSole DEF Next
  <2>2. CASE UNCHANGED vars
    BY <2>2
    DEF SoleInv, Sole, Fresh, Awaiting, Executing, vars, dbVars, workerVars
  <2>3. QED
    BY <2>1, <2>2
<1>3. Inv => OneExecutor
  BY DEF SoleInv, Sole, OneExecutor
<1> HIDE DEF Inv
<1>4. QED
  BY <1>1, <1>2, <1>3, TypeCorrect, PTL DEF Spec
=============================================================================
