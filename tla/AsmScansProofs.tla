--------------------------- MODULE AsmScansProofs ---------------------------
(* Theorems about AsmScans for any number of scans, targets and workers.   *)
EXTENDS AsmScans, FiniteSetTheorems, TLAPS

-----------------------------------------------------------------------------
(* Types *)

LEMMA SetStatusType ==
  ASSUME TypeOK, NEW s \in Scan, NEW v \in Row, SetStatus(s, v)
  PROVE  scan' \in [Scan -> Status]
BY DEF SetStatus, TypeOK, Status

(* What a worker process is doing, with which scan and connection. *)
Placed ==
  /\ pc \in [Worker -> WorkerPC]
  /\ task \in [Worker -> Scan \cup {NoScan}]
  /\ \A w \in Worker : pc[w] # "idle" => task[w] \in Scan
  /\ conn \in [Worker -> {"none", "open"}]
  /\ \A w \in Worker : pc[w] # "idle" => conn[w] = "open"

LEMMA IdleType ==
  ASSUME TypeOK, NEW w \in Worker, Idle(w), Disconnect(w) \/ UNCHANGED conn
  PROVE  /\ Placed'
         /\ found' \in [Worker -> SUBSET Service]
         /\ left' \in [Worker -> SUBSET Service]
         /\ base' \in [Worker -> Scan \cup {NoScan}]
<1>1. /\ pc' \in [Worker -> WorkerPC]
      /\ task' \in [Worker -> Scan \cup {NoScan}]
      /\ \A v \in Worker : pc'[v] # "idle" => pc'[v] = pc[v] /\ task'[v] = task[v]
  BY DEF Idle, Goto, WorkerPC, TypeOK
<1>2. /\ conn' \in [Worker -> {"none", "open"}]
      /\ \A v \in Worker : pc'[v] # "idle" => conn'[v] = conn[v]
  BY DEF Idle, Goto, Disconnect, TypeOK
<1>3. Placed'
  BY <1>1, <1>2 DEF Placed, TypeOK
<1>4. QED
  BY <1>3 DEF Idle, TypeOK

LEMMA GotoType ==
  ASSUME TypeOK, NEW w \in Worker, NEW l \in WorkerPC, pc[w] # "idle", Goto(w, l),
         UNCHANGED <<task, conn>>
  PROVE  Placed'
BY DEF Goto, Placed, TypeOK

LEMMA PublishType ==
  ASSUME TypeOK, NEW s \in Scan, Publish(s)
  PROVE  queue' \in [Scan -> Nat]
BY DEF Publish, TypeOK

LEMMA RedeliverType ==
  ASSUME TypeOK, NEW w \in Worker, task[w] \in Scan, Redeliver(w)
  PROVE  queue' \in [Scan -> Nat] /\ redelivered' \in [Scan -> Nat]
<1>1. queue' \in [Scan -> Nat]
  BY PublishType DEF Redeliver
<1>2. redelivered' \in [Scan -> Nat]
  BY DEF Redeliver, TypeOK
<1>3. QED
  BY <1>1, <1>2

LEMMA FaultType ==
  ASSUME TypeOK, NEW kind \in FaultKind, Fault(kind)
  PROVE  faults' \in 0 .. MaxFaults
BY AsmScansAssumption DEF Fault, TypeOK

LEMMA RefusedType ==
  ASSUME TypeOK, NEW w \in Worker, pc[w] # "idle", Refused(w), UNCHANGED <<task, conn>>
  PROVE  scan' \in [Scan -> Status] /\ dropped' \subseteq Scan /\ Placed'
<1>1. task[w] \in Scan
  BY DEF TypeOK
<1>2. scan' \in [Scan -> Status]
  BY <1>1, SetStatusType DEF Refused, Row, TypeOK
<1>3. dropped' \subseteq Scan
  BY <1>1 DEF Refused, Drop, TypeOK
<1>4. QED
  BY <1>2, <1>3, GotoType DEF Refused, WorkerPC

LEMMA CompareType ==
  ASSUME NEW S \in SUBSET Service, NEW p \in Scan \cup {NoScan}
  PROVE  Compare(S, p) \in Difference
<1>1. \A T \in SUBSET Service : Addresses(T) \subseteq Address
  BY AsmScansAssumption DEF Addresses
<1>2. Addresses(S) \subseteq Address /\ Addresses(Recorded(p)) \subseteq Address
  BY <1>1 DEF Recorded
<1>3. QED
  BY <1>2 DEF Compare, NoDiff, Difference

(* The requests. *)
LEMMA RequestType ==
  ASSUME TypeOK, NEW s \in Scan,
         CreateScan(s) \/ Dispatch(s) \/ DispatchRaises(s)
           \/ RecordDispatchFailure(s) \/ HandlerDies(s)
  PROVE  TypeOK'
<1>1. CASE CreateScan(s)
  BY <1>1 DEF CreateScan, workerVars, localVars, history, TypeOK, Status, Row, Active
<1>2. CASE Dispatch(s)
  BY <1>2, PublishType DEF Dispatch, dbVars, workerVars, localVars, history, TypeOK
<1>3. CASE DispatchRaises(s)
  <2>1. queue' \in [Scan -> Nat]
    BY <1>3, PublishType DEF DispatchRaises, TypeOK
  <2>2. faults' \in 0 .. MaxFaults
    BY <1>3, FaultType DEF DispatchRaises, FaultKind
  <2>3. QED
    BY <1>3, <2>1, <2>2 DEF DispatchRaises, dbVars, workerVars, localVars, history, TypeOK
<1>4. CASE RecordDispatchFailure(s)
  <2>1. scan' \in [Scan -> Status]
    BY <1>4, SetStatusType DEF RecordDispatchFailure, Row
  <2>2. QED
    BY <1>4, <2>1 DEF RecordDispatchFailure, workerVars, localVars, history, TypeOK
<1>5. CASE HandlerDies(s)
  <2>1. faults' \in 0 .. MaxFaults
    BY <1>5, FaultType DEF HandlerDies, FaultKind
  <2>2. QED
    BY <1>5, <2>1 DEF HandlerDies, Drop, dbVars, workerVars, localVars, TypeOK
<1>6. QED
  BY <1>1, <1>2, <1>3, <1>4, <1>5

LEMMA DeleteTargetType ==
  ASSUME TypeOK, NEW t \in Target, DeleteTarget(t)
  PROVE  TypeOK'
<1>1. scan' \in [Scan -> Status]
  BY DEF DeleteTarget, TypeOK, Status
<1>2. services' \in [Scan -> [Service -> Nat]]
  BY DEF DeleteTarget, TypeOK
<1>3. diff' \in [Scan -> Difference]
  BY DEF DeleteTarget, TypeOK, NoDiff, Difference
<1>4. QED
  BY <1>1, <1>2, <1>3 DEF DeleteTarget, apiVars, workerVars, localVars, history, TypeOK

(* The steps of a task that write no row of the inventory. *)
LEMMA TaskType ==
  ASSUME TypeOK, NEW w \in Worker,
         \/ MarkRunning(w) \/ LoadTarget(w) \/ ScanFails(w)
         \/ (\E S \in SUBSET Service : ScanSucceeds(w, S))
         \/ ChoosePrevious(w) \/ Complete(w) \/ Ack(w)
  PROVE  TypeOK'
<1>1. CASE MarkRunning(w) \/ ScanFails(w) \/ Complete(w)
  <2>1. pc[w] # "idle" /\ task[w] \in Scan
    BY <1>1 DEF MarkRunning, ScanFails, Complete, TypeOK
  <2>2. scan' \in [Scan -> Status]
    BY <1>1, <2>1, SetStatusType DEF MarkRunning, ScanFails, Complete, Row, Active
  <2>3. Placed'
    BY <1>1, <2>1, GotoType DEF MarkRunning, ScanFails, Complete, WorkerPC
  <2>4. dropped' \subseteq Scan /\ redelivered' = redelivered
    BY <1>1 DEF MarkRunning, ScanFails, Complete, history, TypeOK
  <2>5. QED
    BY <1>1, <2>2, <2>3, <2>4
       DEF MarkRunning, ScanFails, Complete, Placed, apiVars, localVars, TypeOK
<1>2. CASE LoadTarget(w)
  <2>1. CASE Goto(w, "scanning") /\ UNCHANGED <<task, localVars>>
    <3>1. Placed'
      BY <1>2, <2>1, GotoType DEF LoadTarget, WorkerPC
    <3>2. QED
      BY <1>2, <2>1, <3>1 DEF LoadTarget, Placed, dbVars, apiVars, localVars, history, TypeOK
  <2>2. CASE Idle(w)
    BY <1>2, <2>2, IdleType DEF LoadTarget, Placed, dbVars, apiVars, history, TypeOK
  <2>3. QED
    BY <1>2, <2>1, <2>2 DEF LoadTarget
<1>3. ASSUME NEW S \in SUBSET Service, ScanSucceeds(w, S)
      PROVE  TypeOK'
  <2>1. Placed'
    BY <1>3, GotoType DEF ScanSucceeds, WorkerPC
  <2>2. QED
    BY <1>3, <2>1 DEF ScanSucceeds, Placed, dbVars, apiVars, history, TypeOK
<1>4. CASE ChoosePrevious(w)
  <2>1. Placed'
    BY <1>4, GotoType DEF ChoosePrevious, WorkerPC
  <2>2. base' \in [Worker -> Scan \cup {NoScan}]
    BY <1>4 DEF ChoosePrevious, Comparable, TypeOK
  <2>3. QED
    BY <1>4, <2>1, <2>2 DEF ChoosePrevious, Placed, dbVars, apiVars, history, TypeOK
<1>5. CASE Ack(w)
  BY <1>5, IdleType DEF Ack, Placed, dbVars, apiVars, history, TypeOK
<1>6. QED
  BY <1>1, <1>2, <1>3, <1>4, <1>5

(* A child of the pool: another task, or its end. *)
LEMMA ChildType ==
  ASSUME TypeOK, NEW w \in Worker, OtherTask(w) \/ Recycle(w)
  PROVE  TypeOK'
<1>1. /\ conn' \in [Worker -> {"none", "open"}]
      /\ \A v \in Worker : pc[v] # "idle" => conn'[v] = "open"
  BY DEF OtherTask, Recycle, Connect, Disconnect, TypeOK
<1>2. QED
  BY <1>1 DEF OtherTask, Recycle, dbVars, apiVars, workerVars, localVars, history, TypeOK

(* A message arrives. *)
LEMMA ReceiveType ==
  ASSUME TypeOK, NEW w \in Worker, NEW s \in Scan, Receive(w, s)
  PROVE  queue' \in [Scan -> Nat]
BY DEF Receive, TypeOK

LEMMA HoldType ==
  ASSUME TypeOK, NEW w \in Worker, NEW s \in Scan, NEW l \in WorkerPC, Hold(w, s, l),
         Connect(w) \/ (conn[w] = "open" /\ UNCHANGED conn)
  PROVE  Placed'
<1>1. /\ pc' \in [Worker -> WorkerPC]
      /\ task' \in [Worker -> Scan \cup {NoScan}]
      /\ \A v \in Worker : v = w \/ (pc'[v] = pc[v] /\ task'[v] = task[v])
      /\ task'[w] = s
  BY DEF Hold, Goto, TypeOK
<1>2. /\ conn' \in [Worker -> {"none", "open"}]
      /\ \A v \in Worker : v = w \/ conn'[v] = conn[v]
      /\ conn'[w] = "open"
  BY DEF Connect, TypeOK
<1>3. QED
  BY <1>1, <1>2 DEF Placed, TypeOK

LEMMA StartType ==
  ASSUME TypeOK, NEW w \in Worker, NEW s \in Scan, Deliver(w, s) \/ StartFails(w, s)
  PROVE  TypeOK'
<1>1. queue' \in [Scan -> Nat]
  BY ReceiveType DEF Deliver, Start, StartInVain, StartFails
<1>2. CASE Start(w, s)
  <2>1. CASE scan[s] \in Row
    <3>1. Placed'
      BY <1>2, <2>1, HoldType DEF Start, WorkerPC
    <3>2. QED
      BY <1>1, <1>2, <3>1 DEF Start, Placed, dbVars, apiVars, localVars, history, TypeOK
  <2>2. CASE scan[s] \notin Row
    <3>1. /\ conn' \in [Worker -> {"none", "open"}]
          /\ \A v \in Worker : pc[v] # "idle" => conn'[v] = "open"
      BY <1>2 DEF Start, Connect, TypeOK
    <3>2. QED
      BY <1>1, <1>2, <2>2, <3>1 DEF Start, dbVars, apiVars, localVars, history, TypeOK
  <2>3. QED
    BY <2>1, <2>2
<1>3. CASE StartInVain(w, s)
  <2>1. Placed'
    BY <1>3, HoldType DEF StartInVain, WorkerPC
  <2>2. QED
    BY <1>1, <1>3, <2>1 DEF StartInVain, Placed, Drop, dbVars, apiVars, localVars, TypeOK
<1>4. CASE StartFails(w, s)
  <2>1. faults' \in 0 .. MaxFaults
    BY <1>4, FaultType DEF StartFails, FaultKind
  <2>2. QED
    BY <1>1, <1>4, <2>1
       DEF StartFails, Drop, dbVars, apiVars, workerVars, localVars, TypeOK
<1>5. QED
  BY <1>2, <1>3, <1>4 DEF Deliver

(* One row more of the service, and nothing else, when it is stored.       *)
LEMMA Stored ==
  ASSUME TypeOK, NEW w \in Worker, NEW x \in Service, SaveService(w, x),
         scan[task[w]] \in Row
  PROVE  /\ task[w] \in Scan
         /\ services' \in [Scan -> [Service -> Nat]]
         /\ \A s \in Scan, y \in Service :
              services'[s][y] = IF s = task[w] /\ y = x
                                THEN services[s][y] + 1 ELSE services[s][y]
<1> DEFINE row == services[task[w]]
<1>1. task[w] \in Scan
  BY DEF SaveService, TypeOK
<1>2. row \in [Service -> Nat] /\ services \in [Scan -> [Service -> Nat]]
  BY <1>1 DEF TypeOK
<1>3. services' = [services EXCEPT ![task[w]] = [row EXCEPT ![x] = row[x] + 1]]
  BY DEF SaveService
<1>4. [row EXCEPT ![x] = row[x] + 1] \in [Service -> Nat]
  BY <1>2
<1> HIDE DEF row
<1>5. services' \in [Scan -> [Service -> Nat]]
  BY <1>1, <1>2, <1>3, <1>4
<1>6. \A s \in Scan, y \in Service :
        services'[s][y] = IF s = task[w] /\ y = x
                          THEN services[s][y] + 1 ELSE services[s][y]
  BY <1>1, <1>2, <1>3 DEF row
<1>7. QED
  BY <1>1, <1>5, <1>6

(* The steps that store a service or a difference. *)
LEMMA StoreType ==
  ASSUME TypeOK, NEW w \in Worker,
         \/ \E x \in Service : SaveService(w, x)
         \/ SaveFails(w)
         \/ \E expired \in BOOLEAN : RecordDiff(w, expired)
  PROVE  TypeOK'
<1>1. ASSUME NEW x \in Service, SaveService(w, x)
      PROVE  TypeOK'
  <2>1. task[w] \in Scan /\ pc[w] # "idle"
    BY <1>1 DEF SaveService, TypeOK
  <2>2. CASE scan[task[w]] \in Row
    <3>1. services' \in [Scan -> [Service -> Nat]]
      BY <1>1, <2>2, Stored
    <3>2. left' \in [Worker -> SUBSET Service]
      BY <1>1, <2>2 DEF SaveService, TypeOK
    <3>3. QED
      BY <1>1, <2>2, <3>1, <3>2 DEF SaveService, apiVars, TypeOK
  <2>3. CASE scan[task[w]] \notin Row
    BY <1>1, <2>1, <2>3, RefusedType DEF SaveService, Placed, apiVars, TypeOK
  <2>4. QED
    BY <2>2, <2>3
<1>2. CASE SaveFails(w)
  <2>1. task[w] \in Scan /\ pc[w] # "idle" /\ UNCHANGED <<task, conn>>
    BY <1>2 DEF SaveFails, localVars, TypeOK
  <2>2. faults' \in 0 .. MaxFaults
    BY <1>2, FaultType DEF SaveFails, FaultKind
  <2>3. CASE Refused(w)
    BY <1>2, <2>1, <2>2, <2>3, RefusedType DEF SaveFails, Placed, apiVars, localVars, TypeOK
  <2>4. CASE SetStatus(task[w], "failed") /\ Goto(w, "ending") /\ UNCHANGED dropped
    <3>1. scan' \in [Scan -> Status]
      BY <2>1, <2>4, SetStatusType DEF Row
    <3>2. Placed'
      BY <2>1, <2>4, GotoType DEF WorkerPC
    <3>3. QED
      BY <1>2, <2>2, <2>4, <3>1, <3>2 DEF SaveFails, Placed, apiVars, localVars, TypeOK
  <2>5. QED
    BY <1>2, <2>3, <2>4 DEF SaveFails
<1>3. ASSUME NEW expired \in BOOLEAN, RecordDiff(w, expired)
      PROVE  TypeOK'
  <2>1. task[w] \in Scan /\ pc[w] # "idle" /\ UNCHANGED <<task, conn>>
    BY <1>3 DEF RecordDiff, TypeOK
  <2>2. CASE Goto(w, "completing") /\ UNCHANGED <<scan, diff, dropped>>
    BY <1>3, <2>1, <2>2, GotoType
       DEF RecordDiff, Placed, apiVars, localVars, WorkerPC, TypeOK
  <2>3. CASE /\ diff' = [diff EXCEPT ![task[w]] = Compare(found[w], base[w])]
             /\ Goto(w, "completing")
             /\ UNCHANGED <<scan, dropped>>
    <3>1. diff' \in [Scan -> Difference]
      BY <2>1, <2>3, CompareType DEF TypeOK
    <3>2. Placed'
      BY <2>1, <2>3, GotoType DEF WorkerPC
    <3>3. QED
      BY <1>3, <2>3, <3>1, <3>2 DEF RecordDiff, Placed, apiVars, localVars, TypeOK
  <2>4. CASE Refused(w) /\ UNCHANGED diff
    BY <1>3, <2>1, <2>4, RefusedType DEF RecordDiff, Placed, apiVars, localVars, TypeOK
  <2>5. QED
    BY <1>3, <2>2, <2>3, <2>4 DEF RecordDiff
<1>4. QED
  BY <1>1, <1>2, <1>3

(* The faults that hit a worker. *)
LEMMA FaultsType ==
  ASSUME TypeOK, NEW w \in Worker,
         LoseDatabase(w) \/ Crash(w) \/ Kill(w) \/ Reappear(w)
  PROVE  TypeOK'
<1>1. faults' \in 0 .. MaxFaults
  BY FaultType DEF LoseDatabase, Crash, Kill, Reappear, FaultKind
<1>2. task[w] \in Scan
  BY DEF LoseDatabase, Crash, Kill, Reappear, TypeOK
<1>3. CASE LoseDatabase(w)
  <2>1. Placed'
    BY <1>3, GotoType DEF LoseDatabase, WorkerPC
  <2>2. QED
    BY <1>1, <1>2, <1>3, <2>1
       DEF LoseDatabase, Placed, Drop, dbVars, apiVars, localVars, TypeOK
<1>4. CASE Crash(w)
  BY <1>1, <1>2, <1>4, IdleType, RedeliverType DEF Crash, Placed, dbVars, apiVars, TypeOK
<1>5. CASE Kill(w)
  BY <1>1, <1>2, <1>5, IdleType DEF Kill, Placed, Drop, dbVars, apiVars, TypeOK
<1>6. CASE Reappear(w)
  BY <1>1, <1>2, <1>6, RedeliverType
     DEF Reappear, dbVars, apiVars, workerVars, localVars, TypeOK
<1>7. QED
  BY <1>3, <1>4, <1>5, <1>6

LEMMA InitType ==
  ASSUME Init
  PROVE  TypeOK
<1>1. diff \in [Scan -> Difference]
  BY DEF Init, NoDiff, Difference
<1>2. scan \in [Scan -> Status] /\ services \in [Scan -> [Service -> Nat]]
  BY DEF Init, Status
<1>3. faults \in 0 .. MaxFaults
  BY AsmScansAssumption DEF Init
<1>4. QED
  BY <1>1, <1>2, <1>3 DEF Init, TypeOK, WorkerPC

LEMMA TypeStep ==
  ASSUME TypeOK, [Next]_vars
  PROVE  TypeOK'
<1>1. CASE UNCHANGED vars
  BY <1>1 DEF vars, dbVars, apiVars, workerVars, localVars, history, TypeOK
<1>2. CASE Next
  BY <1>2, RequestType, DeleteTargetType, TaskType, ChildType, StartType, StoreType,
     FaultsType DEF Next, Request, Work
<1>3. QED
  BY <1>1, <1>2

(* Every reachable state is well typed: statuses, row counts, differences  *)
(* and what each worker holds while it runs execute_asm_scan.              *)
THEOREM TypeCorrect == Spec => []TypeOK
<1>1. QED
  BY InitType, TypeStep, PTL DEF Spec

-----------------------------------------------------------------------------
(* What workers hold and what the differences say.                         *)
(*                                                                         *)
(* The inductive invariant relates a worker's memory to the rows: what it  *)
(* has taken off its list is recorded as long as the scan has a row, and   *)
(* what it compares with is another scan of the same target, so that the   *)
(* rows a difference quotes can only go together with the difference.      *)

Stage == {"loaded", "marked", "scanning", "saving", "comparing", "completing"}

(* A worker past its check of the row works on a row that was there. *)
Held(w) == pc[w] \in Stage => scan[task[w]] # "none"

(* What it has taken off its list is recorded, while the row lives, and    *)
(* nothing is left on the list once it compares.                           *)
Saved(w) ==
  /\ pc[w] \in {"saving", "comparing", "completing"} /\ scan[task[w]] \in Row
       => found[w] \ left[w] \subseteq Recorded(task[w])
  /\ pc[w] \in {"comparing", "completing"} => left[w] = {}

(* What it compares with is another scan of the target. *)
Based(w) ==
  pc[w] = "comparing" /\ base[w] # NoScan
    => base[w] # task[w] /\ TargetOf[base[w]] = TargetOf[task[w]]

WorkInv == \A w \in Worker : Held(w) /\ Saved(w) /\ Based(w)

(* A scan without a row has no difference. *)
RowInv == \A s \in Scan : scan[s] \notin Row => diff[s].prev = NoScan

GroundedInv == TypeOK /\ WorkInv /\ RowInv /\ DiffIsGrounded

(* The steps of worker w. *)
Moves(w) ==
  \/ \E s \in Scan : Deliver(w, s) \/ StartFails(w, s)
  \/ Work(w)
  \/ SaveFails(w)
  \/ LoseDatabase(w)
  \/ OtherTask(w)
  \/ Recycle(w)
  \/ Crash(w)
  \/ Kill(w)
  \/ Reappear(w)

(* The steps of requests that leave the targets alone. *)
Asks(s) == CreateScan(s) \/ Request(s) \/ DispatchRaises(s) \/ HandlerDies(s)

LEMMA StepCases ==
  ASSUME Next
  PROVE  \/ \E s \in Scan : Asks(s)
         \/ \E t \in Target : DeleteTarget(t)
         \/ \E w \in Worker : Moves(w)
BY DEF Next, Asks, Moves

(* Nothing but the deletion of a target takes rows away. *)
LEMMA StatusKeepsRows ==
  ASSUME TypeOK, NEW r \in Scan, NEW v \in Row, SetStatus(r, v), NEW s \in Scan
  PROVE  /\ scan[s] \in Row <=> scan'[s] \in Row
         /\ scan[s] = "none" <=> scan'[s] = "none"
BY DEF SetStatus, TypeOK, Row, Active

LEMMA RefusedKeepsRows ==
  ASSUME TypeOK, NEW w \in Worker, pc[w] # "idle", Refused(w), NEW s \in Scan
  PROVE  /\ scan[s] \in Row <=> scan'[s] \in Row
         /\ scan[s] = "none" <=> scan'[s] = "none"
<1>1. task[w] \in Scan
  BY DEF TypeOK
<1>2. QED
  BY <1>1, StatusKeepsRows DEF Refused, Row

LEMMA AskKeepsRows ==
  ASSUME TypeOK, NEW r \in Scan, Asks(r), NEW s \in Scan
  PROVE  /\ services' = services /\ diff' = diff /\ workerVars' = workerVars
         /\ scan[s] \in Row => scan'[s] \in Row
         /\ scan'[s] \in Row => scan[s] \in Row \cup {"none"}
         /\ scan[s] # "none" => scan'[s] # "none"
<1>1. CASE CreateScan(r)
  BY <1>1 DEF CreateScan, TypeOK, Row, Active
<1>2. CASE Dispatch(r) \/ DispatchRaises(r) \/ HandlerDies(r)
  BY <1>2 DEF Dispatch, DispatchRaises, HandlerDies, dbVars
<1>3. CASE RecordDispatchFailure(r)
  BY <1>3, StatusKeepsRows DEF RecordDispatchFailure, Row
<1>4. QED
  BY <1>1, <1>2, <1>3 DEF Asks, Request

LEMMA MoveKeepsRows ==
  ASSUME TypeOK, NEW w \in Worker, Moves(w), NEW s \in Scan
  PROVE  /\ scan[s] \in Row <=> scan'[s] \in Row
         /\ scan[s] = "none" <=> scan'[s] = "none"
<1>1. pc[w] # "idle" => task[w] \in Scan
  BY DEF TypeOK
<1>2. CASE MarkRunning(w) \/ ScanFails(w) \/ Complete(w)
  BY <1>1, <1>2, StatusKeepsRows DEF MarkRunning, ScanFails, Complete, Row, Active
<1>3. ASSUME NEW x \in Service, SaveService(w, x)
      PROVE  /\ scan[s] \in Row <=> scan'[s] \in Row
             /\ scan[s] = "none" <=> scan'[s] = "none"
  BY <1>3, RefusedKeepsRows DEF SaveService
<1>4. CASE SaveFails(w)
  BY <1>1, <1>4, RefusedKeepsRows, StatusKeepsRows DEF SaveFails, Row
<1>5. ASSUME NEW expired \in BOOLEAN, RecordDiff(w, expired)
      PROVE  /\ scan[s] \in Row <=> scan'[s] \in Row
             /\ scan[s] = "none" <=> scan'[s] = "none"
  BY <1>5, RefusedKeepsRows DEF RecordDiff
<1>6. CASE \/ \E r \in Scan : Deliver(w, r) \/ StartFails(w, r)
           \/ LoadTarget(w)
           \/ \E S \in SUBSET Service : ScanSucceeds(w, S)
           \/ ChoosePrevious(w) \/ Ack(w) \/ OtherTask(w) \/ Recycle(w)
           \/ LoseDatabase(w) \/ Crash(w) \/ Kill(w) \/ Reappear(w)
  BY <1>6 DEF Deliver, Start, StartInVain, StartFails, LoadTarget, ScanSucceeds,
              ChoosePrevious, Ack, OtherTask, Recycle, LoseDatabase, Crash, Kill, Reappear,
              dbVars
<1>7. QED
  BY <1>2, <1>3, <1>4, <1>5, <1>6 DEF Moves, Work

(* A worker's step only adds rows. *)
LEMMA MoveRecords ==
  ASSUME TypeOK, NEW w \in Worker, Moves(w), NEW s \in Scan
  PROVE  Recorded(s) \subseteq Recorded(s)'
<1>1. ASSUME NEW x \in Service, SaveService(w, x)
      PROVE  Recorded(s) \subseteq Recorded(s)'
  <2>1. CASE scan[task[w]] \in Row
    <3>1. ASSUME NEW y \in Service
          PROVE  services[s][y] \in Nat
      BY DEF TypeOK
    <3>2. QED
      BY <1>1, <2>1, <3>1, Stored DEF Recorded
  <2>2. CASE scan[task[w]] \notin Row
    BY <1>1, <2>2 DEF SaveService, Recorded
  <2>3. QED
    BY <2>1, <2>2
<1>2. CASE UNCHANGED services
  BY <1>2 DEF Recorded
<1>3. (\E x \in Service : SaveService(w, x)) \/ UNCHANGED services
  BY DEF Moves, Work, Deliver, Start, StartInVain, StartFails, MarkRunning, LoadTarget,
         ScanSucceeds, ScanFails, SaveFails, ChoosePrevious, RecordDiff, Complete,
         LoseDatabase, Ack, OtherTask, Recycle, Crash, Kill, Reappear, dbVars
<1>4. QED
  BY <1>1, <1>2, <1>3

(* The others' memory is their own. *)
LEMMA OthersKept ==
  ASSUME TypeOK, NEW w \in Worker, Moves(w), NEW v \in Worker, v # w
  PROVE  /\ pc'[v] = pc[v] /\ task'[v] = task[v] /\ found'[v] = found[v]
         /\ left'[v] = left[v] /\ base'[v] = base[v]
<1>1. ASSUME NEW x \in Service, SaveService(w, x)
      PROVE  pc'[v] = pc[v] /\ left'[v] = left[v] /\ UNCHANGED <<task, found, base>>
  BY <1>1 DEF SaveService, Refused, Goto, TypeOK
<1>2. ASSUME NEW expired \in BOOLEAN, RecordDiff(w, expired)
      PROVE  pc'[v] = pc[v] /\ UNCHANGED <<task, localVars>>
  BY <1>2 DEF RecordDiff, Refused, Goto, TypeOK
<1>3. SaveFails(w) => pc'[v] = pc[v] /\ UNCHANGED <<task, localVars>>
  BY DEF SaveFails, Refused, Goto, TypeOK
<1>4. CASE \/ \E r \in Scan : Deliver(w, r) \/ StartFails(w, r)
           \/ MarkRunning(w) \/ LoadTarget(w) \/ ScanFails(w)
           \/ \E S \in SUBSET Service : ScanSucceeds(w, S)
           \/ ChoosePrevious(w) \/ Complete(w) \/ Ack(w) \/ OtherTask(w) \/ Recycle(w)
           \/ LoseDatabase(w) \/ Crash(w) \/ Kill(w) \/ Reappear(w)
  BY <1>4 DEF Deliver, Start, StartInVain, StartFails, Hold, MarkRunning, LoadTarget,
              ScanSucceeds, ScanFails, ChoosePrevious, Complete, LoseDatabase, Ack,
              OtherTask, Recycle, Crash, Kill, Reappear, Idle, Goto, workerVars, localVars,
              TypeOK
<1>5. QED
  BY <1>1, <1>2, <1>3, <1>4 DEF Moves, Work, localVars

(* What the invariant says of a worker outlives the steps of others. *)
LEMMA Carried ==
  ASSUME TypeOK, NEW v \in Worker, Held(v), Saved(v), Based(v),
         pc'[v] = pc[v], task'[v] = task[v], found'[v] = found[v],
         left'[v] = left[v], base'[v] = base[v],
         \A s \in Scan :
           /\ scan[s] # "none" => scan'[s] # "none"
           /\ scan'[s] \in Row => scan[s] \in Row \cup {"none"}
           /\ scan'[s] \in Row /\ scan[s] \in Row => Recorded(s) \subseteq Recorded(s)'
  PROVE  Held(v)' /\ Saved(v)' /\ Based(v)'
<1>1. pc[v] \in Stage => task[v] \in Scan
  BY DEF TypeOK, Stage
<1>2. Held(v)'
  BY <1>1 DEF Held
<1>3. Saved(v)'
  BY <1>1 DEF Saved, Held, Stage
<1>4. Based(v)'
  BY DEF Based
<1>5. QED
  BY <1>2, <1>3, <1>4

(* The worker's own steps. *)
LEMMA OwnStep ==
  ASSUME TypeOK, WorkInv, NEW w \in Worker, Moves(w)
  PROVE  Held(w)' /\ Saved(w)' /\ Based(w)'
<1>1. Held(w) /\ Saved(w) /\ Based(w)
  BY DEF WorkInv
<1>2. ASSUME pc'[w] \in {"idle", "ending"}
      PROVE  Held(w)' /\ Saved(w)' /\ Based(w)'
  BY <1>2 DEF Held, Saved, Based, Stage
<1>3. \A s \in Scan : /\ scan[s] \in Row <=> scan'[s] \in Row
                      /\ scan[s] = "none" <=> scan'[s] = "none"
                      /\ Recorded(s) \subseteq Recorded(s)'
  BY MoveKeepsRows, MoveRecords
<1>4. pc[w] # "idle" => task[w] \in Scan
  BY DEF TypeOK
<1>5. ASSUME NEW s \in Scan, Deliver(w, s) \/ StartFails(w, s)
      PROVE  Held(w)' /\ Saved(w)' /\ Based(w)'
  <2>1. \/ pc'[w] \in {"idle", "ending"}
        \/ pc'[w] = "loaded" /\ task'[w] = s /\ scan[s] \in Row
    BY <1>5 DEF Deliver, Start, StartInVain, StartFails, Receive, Hold, Goto, workerVars,
                TypeOK
  <2>2. QED
    BY <1>2, <1>3, <2>1 DEF Held, Saved, Based, Stage, Row, Active
<1>6. CASE MarkRunning(w) \/ LoadTarget(w)
           \/ \E S \in SUBSET Service : ScanSucceeds(w, S)
  <2>1. \/ pc'[w] \in {"idle", "ending"}
        \/ /\ pc'[w] \in {"marked", "scanning", "saving"}
           /\ pc[w] \in Stage
           /\ task'[w] = task[w]
           /\ pc'[w] = "saving" => found'[w] = left'[w]
    BY <1>6 DEF MarkRunning, LoadTarget, ScanSucceeds, Idle, Goto, Stage, localVars, TypeOK
  <2>2. CASE pc'[w] \notin {"idle", "ending"}
    <3>1. Held(w)'
      BY <1>1, <1>3, <1>4, <2>1, <2>2 DEF Held, Stage
    <3>2. Saved(w)' /\ Based(w)'
      BY <2>1, <2>2 DEF Saved, Based
    <3>3. QED
      BY <3>1, <3>2
  <2>3. QED
    BY <1>2, <2>2
<1>7. ASSUME NEW x \in Service, SaveService(w, x)
      PROVE  Held(w)' /\ Saved(w)' /\ Based(w)'
  <2>1. CASE scan[task[w]] \in Row
    <3>1. /\ pc[w] = "saving" /\ pc'[w] = pc[w] /\ task'[w] = task[w]
          /\ found'[w] = found[w] /\ left'[w] = left[w] \ {x}
      BY <1>7, <2>1 DEF SaveService, TypeOK
    <3>2. x \in Recorded(task[w])'
      <4>1. services'[task[w]][x] = services[task[w]][x] + 1
        BY <1>7, <2>1, Stored
      <4>2. services[task[w]][x] \in Nat
        BY <1>4, <3>1 DEF TypeOK
      <4>3. QED
        BY <3>1, <4>1, <4>2 DEF Recorded
    <3>3. found[w] \ left[w] \subseteq Recorded(task[w])'
      BY <1>1, <1>3, <1>4, <2>1, <3>1 DEF Saved
    <3>4. Saved(w)'
      BY <3>1, <3>2, <3>3 DEF Saved
    <3>5. Held(w)' /\ Based(w)'
      BY <1>1, <1>3, <1>4, <3>1 DEF Held, Based, Stage
    <3>6. QED
      BY <3>4, <3>5
  <2>2. CASE scan[task[w]] \notin Row
    BY <1>2, <1>7, <2>2 DEF SaveService, Refused, Goto, TypeOK
  <2>3. QED
    BY <2>1, <2>2
<1>8. CASE ChoosePrevious(w)
  <2>1. /\ pc[w] = "saving" /\ left[w] = {} /\ pc'[w] = "comparing"
        /\ task'[w] = task[w] /\ found'[w] = found[w] /\ left'[w] = left[w]
    BY <1>8 DEF ChoosePrevious, Goto, TypeOK
  <2>2. base'[w] = NoScan \/ base'[w] \in Comparable(task[w])
    BY <1>8 DEF ChoosePrevious, TypeOK
  <2>3. Based(w)'
    BY <2>1, <2>2 DEF Based, Comparable
  <2>4. Held(w)' /\ Saved(w)'
    BY <1>1, <1>3, <1>4, <2>1 DEF Held, Saved, Stage
  <2>5. QED
    BY <2>3, <2>4
<1>9. ASSUME NEW expired \in BOOLEAN, RecordDiff(w, expired)
      PROVE  Held(w)' /\ Saved(w)' /\ Based(w)'
  <2>1. /\ pc[w] = "comparing" /\ pc'[w] \in {"completing", "ending"}
        /\ task'[w] = task[w] /\ found'[w] = found[w] /\ left'[w] = left[w]
    BY <1>9 DEF RecordDiff, Refused, Goto, localVars, TypeOK
  <2>2. QED
    BY <1>1, <1>2, <1>3, <1>4, <2>1 DEF Held, Saved, Based, Stage
<1>10. CASE Reappear(w) \/ OtherTask(w) \/ Recycle(w)
  BY <1>1, <1>3, <1>10, Carried DEF Reappear, OtherTask, Recycle, workerVars, localVars
<1>11. CASE ScanFails(w) \/ SaveFails(w) \/ Complete(w) \/ LoseDatabase(w) \/ Ack(w)
            \/ Crash(w) \/ Kill(w)
  BY <1>2, <1>11 DEF ScanFails, SaveFails, Refused, Complete, LoseDatabase, Ack, Crash, Kill,
                     Idle, Goto, TypeOK
<1>12. QED
  BY <1>5, <1>6, <1>7, <1>8, <1>9, <1>10, <1>11 DEF Moves, Work

(* The deletion of a target leaves the rows of the others' scans alone. *)
LEMMA DeletionKeeps ==
  ASSUME TypeOK, NEW t \in Target, DeleteTarget(t), NEW s \in Scan
  PROVE  /\ scan[s] = "none" <=> scan'[s] = "none"
         /\ scan'[s] \in Row => scan[s] \in Row
         /\ scan[s] \in Row /\ TargetOf[s] # t => scan'[s] = scan[s]
         /\ scan[s] \in Row /\ TargetOf[s] = t => diff'[s] = NoDiff
         /\ TargetOf[s] # t \/ scan'[s] \in Row => services'[s] = services[s]
         /\ diff'[s] # NoDiff => diff'[s] = diff[s]
BY DEF DeleteTarget, TypeOK, Row, Active

LEMMA WorkStep ==
  ASSUME TypeOK, WorkInv, [Next]_vars
  PROVE  WorkInv'
<1> SUFFICES ASSUME NEW v \in Worker PROVE Held(v)' /\ Saved(v)' /\ Based(v)'
  BY DEF WorkInv
<1>1. Held(v) /\ Saved(v) /\ Based(v)
  BY DEF WorkInv
<1>2. CASE UNCHANGED vars
  BY <1>1, <1>2 DEF vars, dbVars, workerVars, localVars, Held, Saved, Based, Recorded
<1>3. ASSUME NEW s \in Scan, Asks(s)
      PROVE  Held(v)' /\ Saved(v)' /\ Based(v)'
  <2>1. \A r \in Scan : /\ services' = services /\ workerVars' = workerVars
                        /\ scan'[r] \in Row => scan[r] \in Row \cup {"none"}
                        /\ scan[r] # "none" => scan'[r] # "none"
    BY <1>3, AskKeepsRows
  <2>2. QED
    BY <1>1, <1>3, <2>1, Carried DEF workerVars, localVars, Recorded
<1>4. ASSUME NEW t \in Target, DeleteTarget(t)
      PROVE  Held(v)' /\ Saved(v)' /\ Based(v)'
  <2>1. \A r \in Scan :
          /\ scan[r] # "none" => scan'[r] # "none"
          /\ scan'[r] \in Row => scan[r] \in Row
          /\ scan'[r] \in Row => Recorded(r) \subseteq Recorded(r)'
    BY <1>4, DeletionKeeps DEF Recorded
  <2>2. UNCHANGED workerVars
    BY <1>4 DEF DeleteTarget
  <2>3. QED
    BY <1>1, <2>1, <2>2, Carried DEF workerVars, localVars
<1>5. ASSUME NEW w \in Worker, Moves(w)
      PROVE  Held(v)' /\ Saved(v)' /\ Based(v)'
  <2>1. CASE v = w
    BY <1>5, <2>1, OwnStep
  <2>2. CASE v # w
    <3>1. /\ pc'[v] = pc[v] /\ task'[v] = task[v] /\ found'[v] = found[v]
          /\ left'[v] = left[v] /\ base'[v] = base[v]
      BY <1>5, <2>2, OthersKept
    <3>2. \A r \in Scan : /\ scan[r] \in Row <=> scan'[r] \in Row
                          /\ scan[r] = "none" <=> scan'[r] = "none"
                          /\ Recorded(r) \subseteq Recorded(r)'
      BY <1>5, MoveKeepsRows, MoveRecords
    <3>3. QED
      BY <1>1, <3>1, <3>2, Carried
  <2>3. QED
    BY <2>1, <2>2
<1>6. QED
  BY <1>2, <1>3, <1>4, <1>5, StepCases

(* The one step that writes a difference. *)
LEMMA DiffWritten ==
  ASSUME TypeOK, NEW w \in Worker, Moves(w), diff' # diff
  PROVE  /\ pc[w] = "comparing"
         /\ task[w] \in Scan
         /\ scan[task[w]] \in Row
         /\ services' = services
         /\ diff' = [diff EXCEPT ![task[w]] = Compare(found[w], base[w])]
<1>1. PICK expired \in BOOLEAN : RecordDiff(w, expired)
  BY DEF Moves, Work, Deliver, Start, StartInVain, StartFails, MarkRunning, LoadTarget,
         ScanSucceeds, ScanFails, SaveService, SaveFails, ChoosePrevious, Complete,
         LoseDatabase, Ack, OtherTask, Recycle, Crash, Kill, Reappear, dbVars
<1>2. QED
  BY <1>1 DEF RecordDiff, TypeOK

LEMMA RowStep ==
  ASSUME TypeOK, RowInv, [Next]_vars
  PROVE  RowInv'
<1> SUFFICES ASSUME NEW s \in Scan, scan'[s] \notin Row PROVE diff'[s].prev = NoScan
  BY DEF RowInv
<1>1. CASE UNCHANGED vars
  BY <1>1 DEF vars, dbVars, RowInv
<1>2. ASSUME NEW r \in Scan, Asks(r)
      PROVE  diff'[s].prev = NoScan
  BY <1>2, AskKeepsRows DEF RowInv
<1>3. ASSUME NEW t \in Target, DeleteTarget(t)
      PROVE  diff'[s].prev = NoScan
  <2>1. CASE scan[s] \in Row /\ TargetOf[s] = t
    BY <1>3, <2>1, DeletionKeeps DEF NoDiff
  <2>2. CASE scan[s] \in Row /\ TargetOf[s] # t
    BY <1>3, <2>2, DeletionKeeps
  <2>3. CASE scan[s] \notin Row
    BY <1>3, <2>3, DeletionKeeps DEF RowInv, NoDiff
  <2>4. QED
    BY <2>1, <2>2, <2>3
<1>4. ASSUME NEW w \in Worker, Moves(w)
      PROVE  diff'[s].prev = NoScan
  <2>1. scan[s] \notin Row
    BY <1>4, MoveKeepsRows
  <2>2. diff'[s] = diff[s]
    BY <1>4, <2>1, DiffWritten DEF TypeOK
  <2>3. QED
    BY <2>1, <2>2 DEF RowInv
<1>5. QED
  BY <1>1, <1>2, <1>3, <1>4, StepCases

(* DiffIsGrounded, of one scan. *)
Grounded(s) ==
  diff[s].prev # NoScan =>
    /\ diff[s].prev # s
    /\ TargetOf[diff[s].prev] = TargetOf[s]
    /\ diff[s].new \subseteq Addresses(Recorded(s))
    /\ diff[s].removed \subseteq Addresses(Recorded(diff[s].prev))
    /\ diff[s].new \cap diff[s].removed = {}

(* More rows, more addresses. *)
LEMMA AddressesGrow ==
  ASSUME NEW S, NEW T, S \subseteq T
  PROVE  Addresses(S) \subseteq Addresses(T)
BY DEF Addresses

(* A difference stays grounded while the rows it quotes stay. *)
LEMMA GroundedKept ==
  ASSUME TypeOK, NEW s \in Scan, Grounded(s), diff'[s] = diff[s],
         \A r \in Scan : diff[s].prev # NoScan /\ r \in {s, diff[s].prev}
                         => Recorded(r) \subseteq Recorded(r)'
  PROVE  Grounded(s)'
<1>1. diff[s].prev # NoScan => diff[s].prev \in Scan
  BY DEF TypeOK, Difference
<1>2. ASSUME diff[s].prev # NoScan
      PROVE  /\ Addresses(Recorded(s)) \subseteq Addresses(Recorded(s)')
             /\ Addresses(Recorded(diff[s].prev)) \subseteq Addresses(Recorded(diff[s].prev)')
  <2>1. /\ Recorded(s) \subseteq Recorded(s)'
        /\ Recorded(diff[s].prev) \subseteq Recorded(diff[s].prev)'
    BY <1>1, <1>2 DEF Recorded
  <2>2. QED
    BY <2>1, AddressesGrow
<1>3. QED
  BY <1>1, <1>2 DEF Grounded, Addresses, Recorded

LEMMA GroundedStep ==
  ASSUME GroundedInv, [Next]_vars
  PROVE  DiffIsGrounded'
<1> USE DEF GroundedInv
<1> SUFFICES ASSUME NEW s \in Scan PROVE Grounded(s)'
  BY DEF DiffIsGrounded, Grounded
<1>g. Grounded(s)
  BY DEF DiffIsGrounded, Grounded
<1>0. diff[s].prev # NoScan => diff[s].prev \in Scan
  BY DEF TypeOK, Difference
<1>1. CASE UNCHANGED vars
  BY <1>1, <1>g, GroundedKept DEF vars, dbVars, Recorded
<1>2. ASSUME NEW r \in Scan, Asks(r)
      PROVE  Grounded(s)'
  <2>1. services' = services /\ diff' = diff
    BY <1>2, AskKeepsRows
  <2>2. QED
    BY <2>1, <1>g, GroundedKept DEF Recorded
<1>3. ASSUME NEW t \in Target, DeleteTarget(t)
      PROVE  Grounded(s)'
  <2>1. CASE diff'[s] = NoDiff
    BY <2>1 DEF NoDiff, Grounded
  <2>2. CASE diff'[s] # NoDiff /\ diff[s].prev = NoScan
    BY <1>3, <2>2, DeletionKeeps DEF Grounded
  <2>3. CASE diff'[s] # NoDiff /\ diff[s].prev # NoScan
    <3>1. diff'[s] = diff[s] /\ scan[s] \in Row
      BY <1>3, <2>3, DeletionKeeps DEF RowInv
    <3>2. TargetOf[s] # t
      BY <1>3, <2>3, <3>1, DeletionKeeps
    <3>3. TargetOf[diff[s].prev] # t
      BY <2>3, <3>2, <1>g DEF Grounded
    <3>4. services'[s] = services[s] /\ services'[diff[s].prev] = services[diff[s].prev]
      BY <1>0, <1>3, <2>3, <3>2, <3>3, DeletionKeeps
    <3>5. QED
      BY <3>1, <3>4, <1>g, GroundedKept DEF Recorded
  <2>4. QED
    BY <2>1, <2>2, <2>3
<1>4. ASSUME NEW w \in Worker, Moves(w)
      PROVE  Grounded(s)'
  <2>1. CASE diff'[s] = diff[s]
    BY <1>0, <1>4, <2>1, MoveRecords, <1>g, GroundedKept
  <2>2. CASE diff'[s] # diff[s]
    <3>1. /\ pc[w] = "comparing" /\ task[w] = s /\ scan[s] \in Row
          /\ services' = services
          /\ diff'[s] = Compare(found[w], base[w])
      BY <1>4, <2>2, DiffWritten DEF TypeOK
    <3>2. Saved(w) /\ Based(w)
      BY DEF WorkInv
    <3>3. CASE base[w] = NoScan
      BY <3>1, <3>3 DEF Compare, NoDiff, Grounded
    <3>4. CASE base[w] # NoScan
      <4>1. diff'[s] = [prev |-> base[w],
                        new |-> Addresses(found[w]) \ Addresses(Recorded(base[w])),
                        removed |-> Addresses(Recorded(base[w])) \ Addresses(found[w])]
        BY <3>1, <3>4 DEF Compare
      <4>2. base[w] # s /\ TargetOf[base[w]] = TargetOf[s]
        BY <3>1, <3>2, <3>4 DEF Based
      <4>3. found[w] \subseteq Recorded(s)
        BY <3>1, <3>2 DEF Saved
      <4>4. \A r \in Scan : Recorded(r)' = Recorded(r)
        BY <3>1 DEF Recorded
      <4>5. base[w] \in Scan
        BY <3>4 DEF TypeOK
      <4>6. diff'[s].prev \in Scan
        BY <4>1, <4>5
      <4>7. Addresses(Recorded(diff[s].prev))' = Addresses(Recorded(base[w]))
        BY <3>1, <4>1 DEF Recorded, Addresses
      <4>8. /\ diff'[s].new \subseteq Addresses(Recorded(s))'
            /\ diff'[s].removed \subseteq Addresses(Recorded(base[w]))
        <5>1. Addresses(found[w]) \subseteq Addresses(Recorded(s))
          BY <4>3, AddressesGrow
        <5>2. Addresses(Recorded(s))' = Addresses(Recorded(s))
          BY <3>1 DEF Recorded, Addresses
        <5>3. QED
          BY <4>1, <5>1, <5>2
      <4>9. diff'[s].new \cap diff'[s].removed = {}
        BY <4>1
      <4>10. QED
        BY <4>1, <4>2, <4>7, <4>8, <4>9 DEF Grounded
    <3>5. QED
      BY <3>3, <3>4
  <2>3. QED
    BY <2>1, <2>2
<1>5. QED
  BY <1>1, <1>2, <1>3, <1>4, StepCases

LEMMA InitGrounded ==
  ASSUME Init
  PROVE  GroundedInv
<1>1. WorkInv
  BY DEF Init, WorkInv, Held, Saved, Based, Stage
<1>2. RowInv /\ DiffIsGrounded
  BY DEF Init, RowInv, DiffIsGrounded, NoDiff
<1>3. QED
  BY <1>1, <1>2, InitType DEF GroundedInv

LEMMA GroundedInvStep ==
  ASSUME GroundedInv, [Next]_vars
  PROVE  GroundedInv'
BY TypeStep, WorkStep, RowStep, GroundedStep DEF GroundedInv

(* A served difference calls new only what is recorded under its scan, and *)
(* removed only what is recorded under the other scan of the target it     *)
(* names, whatever execute_asm_scan's executions and deletions interleave. *)
THEOREM DifferencesAreGrounded == Spec => []DiffIsGrounded
<1>1. GroundedInv => DiffIsGrounded
  BY DEF GroundedInv
<1>2. QED
  BY <1>1, InitGrounded, GroundedInvStep, PTL DEF Spec

(* The one step that completes a scan. *)
LEMMA CompletedBy ==
  ASSUME GroundedInv, [Next]_vars, NEW s \in Scan,
         scan[s] # "completed", scan'[s] = "completed"
  PROVE  \E w \in Worker : /\ task[w] = s
                           /\ pc[w] = "completing"
                           /\ found[w] \subseteq Recorded(s)
<1> USE DEF GroundedInv
<1>1. ASSUME NEW r \in Scan, NEW v \in Row, SetStatus(r, v)
      PROVE  v = "completed" /\ r = s /\ scan[s] \in Row
  BY <1>1 DEF SetStatus, TypeOK
<1>2. ASSUME NEW w \in Worker, Complete(w)
      PROVE  /\ task[w] = s
             /\ pc[w] = "completing"
             /\ found[w] \subseteq Recorded(s)
  <2>1. pc[w] = "completing" /\ task[w] \in Scan
    BY <1>2 DEF Complete, TypeOK
  <2>2. task[w] = s /\ scan[s] \in Row
    BY <1>1, <1>2, <2>1 DEF Complete, Row
  <2>3. Saved(w)
    BY DEF WorkInv
  <2>4. QED
    BY <2>1, <2>2, <2>3 DEF Saved
<1>3. ASSUME NEW r \in Scan, Asks(r)
      PROVE  FALSE
  <2>1. CASE CreateScan(r)
    BY <1>3, <2>1 DEF CreateScan, TypeOK
  <2>2. CASE RecordDispatchFailure(r)
    BY <1>1, <2>2 DEF RecordDispatchFailure, Row
  <2>3. CASE Dispatch(r) \/ DispatchRaises(r) \/ HandlerDies(r)
    BY <2>3 DEF Dispatch, DispatchRaises, HandlerDies, dbVars
  <2>4. QED
    BY <1>3, <2>1, <2>2, <2>3 DEF Asks, Request
<1>4. ASSUME NEW t \in Target, DeleteTarget(t)
      PROVE  FALSE
  BY <1>4 DEF DeleteTarget, TypeOK
<1>5. ASSUME NEW w \in Worker, Moves(w), ~Complete(w)
      PROVE  FALSE
  <2>1. pc[w] # "idle" => task[w] \in Scan
    BY DEF TypeOK
  <2>2. CASE MarkRunning(w) \/ ScanFails(w)
    BY <1>1, <2>1, <2>2 DEF MarkRunning, ScanFails, Row, Active
  <2>3. ASSUME pc[w] # "idle", Refused(w)
        PROVE  FALSE
    BY <1>1, <2>1, <2>3 DEF Refused, Row
  <2>4. CASE SaveFails(w)
    BY <1>1, <2>1, <2>3, <2>4 DEF SaveFails, Row
  <2>5. ASSUME NEW x \in Service, SaveService(w, x)
        PROVE  FALSE
    BY <2>3, <2>5 DEF SaveService
  <2>6. ASSUME NEW expired \in BOOLEAN, RecordDiff(w, expired)
        PROVE  FALSE
    BY <2>3, <2>6 DEF RecordDiff
  <2>7. CASE UNCHANGED scan
    BY <2>7
  <2>8. QED
    BY <1>5, <2>2, <2>4, <2>5, <2>6, <2>7
       DEF Moves, Work, Deliver, Start, StartInVain, StartFails, LoadTarget, ScanSucceeds,
           ChoosePrevious, LoseDatabase, Ack, OtherTask, Recycle, Crash, Kill, Reappear, dbVars
<1>6. CASE UNCHANGED vars
  BY <1>6 DEF vars, dbVars
<1>7. QED
  BY <1>2, <1>3, <1>4, <1>5, <1>6, StepCases

(* Whatever crashes, is delivered twice or is deleted, a scan completes    *)
(* only with all the services its completing execution found in the rows.  *)
THEOREM CompletedScansAreWhole == Spec => CompletedWhole
<1>1. ASSUME GroundedInv, [Next]_vars
      PROVE  [\A s \in Scan :
                scan[s] # "completed" /\ scan'[s] = "completed" =>
                  \E w \in Worker : /\ task[w] = s
                                    /\ pc[w] = "completing"
                                    /\ found[w] \subseteq Recorded(s)]_vars
  BY <1>1, CompletedBy
<1>2. QED
  BY <1>1, InitGrounded, GroundedInvStep, PTL DEF Spec, CompletedWhole

-----------------------------------------------------------------------------
(* How often a service is recorded.                                        *)
(*                                                                         *)
(* The inductive invariant counts, for a scan and a service, the rows that *)
(* are there and those to come: one for every message waiting or about to  *)
(* be published and one for every worker that may still insert the row.    *)
(* Only a redelivery makes one more.                                       *)

Carries(w, s, x) ==
  /\ task[w] = s
  /\ \/ pc[w] \in {"loaded", "marked", "scanning"}
     \/ pc[w] = "saving" /\ x \in left[w]

Carriers(s, x) == {w \in Worker : Carries(w, s, x)}
ToCome(w, s, x) == IF Carries(w, s, x) THEN 1 ELSE 0
Requested(s) == IF s \in creating THEN 1 ELSE 0

Tokens(s, x) == services[s][x] + queue[s] + Requested(s) + Cardinality(Carriers(s, x))

TokenInv == \A s \in Scan, x \in Service : Tokens(s, x) <= 1 + redelivered[s]

(* A scan that was not created has no message, no worker and no rows. *)
Unborn(s) ==
  /\ queue[s] = 0
  /\ s \notin creating
  /\ \A w \in Worker : pc[w] # "idle" => task[w] # s
  /\ \A x \in Service : services[s][x] = 0

UnbornInv == \A s \in Scan : scan[s] = "none" => Unborn(s)

LEMMA CarriersFinite ==
  ASSUME NEW s, NEW x
  PROVE  IsFiniteSet(Carriers(s, x)) /\ Cardinality(Carriers(s, x)) \in Nat
BY AsmScansAssumption, FS_Subset, FS_CardinalityType DEF Carriers

(* The carriers change by at most the worker that moves. *)
LEMMA CarriersChange ==
  ASSUME NEW w \in Worker, NEW s \in Scan, NEW x \in Service,
         \A v \in Worker \ {w} : Carries(v, s, x)' <=> Carries(v, s, x)
  PROVE  /\ Cardinality(Carriers(s, x))' \in Nat
         /\ Cardinality(Carriers(s, x))'
              = Cardinality(Carriers(s, x)) - ToCome(w, s, x) + ToCome(w, s, x)'
<1> DEFINE A == Carriers(s, x)
           B == {v \in Worker : Carries(v, s, x)'}
           R == A \ {w}
<1>1. Carriers(s, x)' = B
  BY DEF Carriers
<1>2. R = B \ {w}
  BY DEF Carriers
<1>3. IsFiniteSet(A) /\ Cardinality(A) \in Nat
  BY CarriersFinite
<1>4. IsFiniteSet(B) /\ Cardinality(B) \in Nat
  BY AsmScansAssumption, FS_Subset, FS_CardinalityType
<1>5. w \in A <=> Carries(w, s, x)
  BY DEF Carriers
<1>6. w \in B <=> Carries(w, s, x)'
  OBVIOUS
<1> HIDE DEF A, B, R
<1>7. Cardinality(R) = Cardinality(A) - ToCome(w, s, x)
  <2>1. Cardinality(A \ {w}) = IF w \in A THEN Cardinality(A) - 1 ELSE Cardinality(A)
    BY <1>3, FS_RemoveElement
  <2>2. QED
    BY <2>1, <1>3, <1>5 DEF R, ToCome
<1>8. Cardinality(R) = Cardinality(B) - ToCome(w, s, x)'
  <2>1. Cardinality(B \ {w}) = IF w \in B THEN Cardinality(B) - 1 ELSE Cardinality(B)
    BY <1>4, FS_RemoveElement
  <2>2. QED
    BY <2>1, <1>2, <1>4, <1>6 DEF ToCome
<1>9. Cardinality(Carriers(s, x))' = Cardinality(B)
  BY <1>1
<1>10. ToCome(w, s, x) \in Nat /\ ToCome(w, s, x)' \in Nat
  BY DEF ToCome
<1>11. QED
  BY <1>3, <1>4, <1>7, <1>8, <1>9, <1>10 DEF A

(* A redelivery counts one, and the message that came of it. *)
LEMMA RedeliveryCounts ==
  ASSUME TypeOK, NEW w \in Worker, pc[w] # "idle", Redeliver(w), NEW s \in Scan
  PROVE  queue'[s] - redelivered'[s] = queue[s] - redelivered[s]
<1>1. task[w] \in Scan /\ queue \in [Scan -> Nat] /\ redelivered \in [Scan -> Nat]
  BY DEF TypeOK
<1>2. CASE s = task[w]
  <2>1. queue'[s] = queue[s] + 1 /\ redelivered'[s] = redelivered[s] + 1
    BY <1>1, <1>2 DEF Redeliver, Publish
  <2>2. QED
    BY <1>1, <2>1
<1>3. CASE s # task[w]
  BY <1>1, <1>3 DEF Redeliver, Publish
<1>4. QED
  BY <1>2, <1>3

(* The messages, rows and rows to come of a step of worker w do not grow   *)
(* by more than it redelivers.                                             *)
Balanced(w, s, x) ==
  services'[s][x] + queue'[s] + ToCome(w, s, x)' + redelivered[s]
    <= services[s][x] + queue[s] + ToCome(w, s, x) + redelivered'[s]

(* A worker's step turns a message or a row to come into another or into a *)
(* row, and adds one only when it is redelivered.                          *)
LEMMA MoveTokens ==
  ASSUME TypeOK, TypeOK', NEW w \in Worker, Moves(w), NEW s \in Scan, NEW x \in Service
  PROVE  creating' = creating /\ Balanced(w, s, x)
<1>1. /\ services[s][x] \in Nat /\ queue[s] \in Nat /\ redelivered[s] \in Nat
      /\ services'[s][x] \in Nat /\ queue'[s] \in Nat /\ redelivered'[s] \in Nat
  BY DEF TypeOK
<1>2. ToCome(w, s, x) \in {0, 1} /\ ToCome(w, s, x)' \in {0, 1}
  BY DEF ToCome
<1>3. ASSUME NEW r \in Scan, Deliver(w, r) \/ StartFails(w, r)
      PROVE  creating' = creating /\ Balanced(w, s, x)
  <2>1. creating' = creating /\ services' = services /\ redelivered' = redelivered
    BY <1>3 DEF Deliver, Start, StartInVain, StartFails, dbVars, apiVars, history
  <2>2. ToCome(w, s, x) = 0
    BY <1>3 DEF Deliver, Start, StartInVain, StartFails, Receive, ToCome, Carries
  <2>3. queue'[s] = IF s = r THEN queue[s] - 1 ELSE queue[s]
    BY <1>3 DEF Deliver, Start, StartInVain, StartFails, Receive, TypeOK
  <2>4. ToCome(w, s, x)' = 1 => s = r
    BY <1>3 DEF Deliver, Start, StartInVain, StartFails, Receive, Hold, Goto, workerVars,
                ToCome, Carries, TypeOK
  <2>5. QED
    BY <1>1, <1>2, <2>1, <2>2, <2>3, <2>4 DEF Balanced
<1>4. ASSUME UNCHANGED <<services, queue, redelivered>>, Carries(w, s, x)' => Carries(w, s, x)
      PROVE  Balanced(w, s, x)
  BY <1>1, <1>4 DEF Balanced, ToCome
<1>5. CASE \/ MarkRunning(w) \/ LoadTarget(w)
           \/ (\E S \in SUBSET Service : ScanSucceeds(w, S))
           \/ ScanFails(w) \/ ChoosePrevious(w) \/ Complete(w) \/ Ack(w)
           \/ OtherTask(w) \/ Recycle(w)
  <2>1. UNCHANGED <<creating, services, queue, redelivered>>
    BY <1>5 DEF MarkRunning, LoadTarget, ScanSucceeds, ScanFails, ChoosePrevious, Complete,
                Ack, OtherTask, Recycle, dbVars, apiVars, history
  <2>2. Carries(w, s, x)' => Carries(w, s, x)
    BY <1>5 DEF MarkRunning, LoadTarget, ScanSucceeds, ScanFails, ChoosePrevious, Complete,
                Ack, OtherTask, Recycle, Idle, Goto, Carries, workerVars, localVars, TypeOK
  <2>3. QED
    BY <1>4, <2>1, <2>2
<1>6. CASE SaveFails(w) \/ LoseDatabase(w) \/ Kill(w)
  <2>1. UNCHANGED <<creating, services, queue, redelivered>>
    BY <1>6 DEF SaveFails, LoseDatabase, Kill, dbVars, apiVars
  <2>2. ~ Carries(w, s, x)'
    BY <1>6 DEF SaveFails, Refused, LoseDatabase, Kill, Idle, Goto, Carries, TypeOK
  <2>3. QED
    BY <1>4, <2>1, <2>2
<1>7. CASE Crash(w) \/ Reappear(w)
  <2>1. UNCHANGED <<creating, services>>
    BY <1>7 DEF Crash, Reappear, dbVars, apiVars
  <2>2. queue'[s] - redelivered'[s] = queue[s] - redelivered[s]
    BY <1>7, RedeliveryCounts DEF Crash, Reappear
  <2>3. Carries(w, s, x)' => Carries(w, s, x)
    BY <1>7 DEF Crash, Reappear, Idle, Goto, Carries, workerVars, localVars, TypeOK
  <2>4. ToCome(w, s, x)' <= ToCome(w, s, x)
    BY <2>3 DEF ToCome
  <2>5. QED
    BY <1>1, <1>2, <2>1, <2>2, <2>4 DEF Balanced
<1>8. ASSUME NEW expired \in BOOLEAN, RecordDiff(w, expired)
      PROVE  creating' = creating /\ Balanced(w, s, x)
  <2>1. UNCHANGED <<creating, services, queue, redelivered>> /\ ~ Carries(w, s, x)'
    BY <1>8 DEF RecordDiff, Refused, Goto, Carries, apiVars, TypeOK
  <2>2. QED
    BY <1>4, <2>1
<1>9. ASSUME NEW y \in Service, SaveService(w, y)
      PROVE  creating' = creating /\ Balanced(w, s, x)
  <2>1. UNCHANGED <<creating, queue, redelivered, task>>
    BY <1>9 DEF SaveService, apiVars
  <2>2. CASE scan[task[w]] \in Row
    <3>1. services'[s][x] = IF s = task[w] /\ x = y
                            THEN services[s][x] + 1 ELSE services[s][x]
      BY <1>9, <2>2, Stored
    <3>2. pc[w] = "saving" /\ pc' = pc /\ y \in left[w] /\ left'[w] = left[w] \ {y}
      BY <1>9, <2>2 DEF SaveService, TypeOK
    <3>3. Carries(w, s, x)' => Carries(w, s, x) /\ ~ (s = task[w] /\ x = y)
      BY <2>1, <3>2 DEF Carries
    <3>4. s = task[w] /\ x = y => Carries(w, s, x)
      BY <3>2 DEF Carries
    <3>5. QED
      BY <1>1, <2>1, <3>1, <3>3, <3>4 DEF Balanced, ToCome
  <2>3. CASE scan[task[w]] \notin Row
    <3>1. UNCHANGED services /\ ~ Carries(w, s, x)'
      BY <1>9, <2>3 DEF SaveService, Refused, Goto, Carries, TypeOK
    <3>2. QED
      BY <1>4, <2>1, <3>1
  <2>4. QED
    BY <2>2, <2>3
<1>10. QED
  BY <1>3, <1>5, <1>6, <1>7, <1>8, <1>9 DEF Moves, Work

LEMMA UnbornStep ==
  ASSUME TypeOK, UnbornInv, [Next]_vars
  PROVE  UnbornInv'
<1> SUFFICES ASSUME NEW s \in Scan, scan'[s] = "none" PROVE Unborn(s)'
  BY DEF UnbornInv
<1>1. CASE UNCHANGED vars
  BY <1>1 DEF vars, dbVars, apiVars, workerVars, UnbornInv, Unborn
<1>2. ASSUME NEW r \in Scan, Asks(r)
      PROVE  Unborn(s)'
  <2>1. services' = services /\ workerVars' = workerVars /\ scan[s] = "none"
    BY <1>2, AskKeepsRows
  <2>2. Unborn(s)
    BY <2>1 DEF UnbornInv
  <2>3. CASE CreateScan(r)
    <3>1. s # r
      BY <2>3 DEF CreateScan, TypeOK
    <3>2. QED
      BY <2>1, <2>2, <2>3, <3>1 DEF CreateScan, workerVars, Unborn
  <2>4. CASE Dispatch(r) \/ DispatchRaises(r)
    <3>1. s # r
      BY <2>2, <2>4 DEF Dispatch, DispatchRaises, Unborn
    <3>2. queue'[s] = queue[s] /\ s \notin creating'
      BY <2>2, <2>4, <3>1 DEF Dispatch, DispatchRaises, Publish, Unborn, TypeOK
    <3>3. QED
      BY <2>1, <2>2, <3>2 DEF workerVars, Unborn
  <2>5. CASE RecordDispatchFailure(r) \/ HandlerDies(r)
    BY <2>1, <2>2, <2>5 DEF RecordDispatchFailure, HandlerDies, workerVars, Unborn
  <2>6. QED
    BY <1>2, <2>3, <2>4, <2>5 DEF Asks, Request
<1>3. ASSUME NEW t \in Target, DeleteTarget(t)
      PROVE  Unborn(s)'
  <2>1. Unborn(s)
    BY <1>3, DeletionKeeps DEF UnbornInv
  <2>2. services'[s] = services[s]
    BY <1>3 DEF DeleteTarget, TypeOK, Row, Active
  <2>3. QED
    BY <1>3, <2>1, <2>2 DEF DeleteTarget, apiVars, workerVars, Unborn
<1>4. ASSUME NEW w \in Worker, Moves(w)
      PROVE  Unborn(s)'
  <2>1. scan[s] = "none"
    BY <1>4, MoveKeepsRows
  <2>2. Unborn(s)
    BY <2>1 DEF UnbornInv
  <2>3. pc[w] # "idle" => task[w] \in Scan /\ task[w] # s
    BY <2>2 DEF Unborn, TypeOK
  <2>4. creating' = creating
    BY <1>4 DEF Moves, Work, Deliver, Start, StartInVain, StartFails, MarkRunning,
       LoadTarget, ScanSucceeds, ScanFails, SaveService, SaveFails, ChoosePrevious,
       RecordDiff, Complete, LoseDatabase, Ack, OtherTask, Recycle, Crash, Kill, Reappear,
       apiVars
  <2>5. queue'[s] = queue[s]
    <3>1. ASSUME NEW r \in Scan, Deliver(w, r) \/ StartFails(w, r)
          PROVE  queue'[s] = queue[s]
      BY <2>2, <3>1 DEF Deliver, Start, StartInVain, StartFails, Receive, Unborn, TypeOK
    <3>2. CASE Crash(w) \/ Reappear(w)
      BY <2>3, <3>2 DEF Crash, Reappear, Redeliver, Publish, TypeOK
    <3>3. CASE UNCHANGED queue
      BY <3>3
    <3>4. QED
      BY <1>4, <3>1, <3>2, <3>3 DEF Moves, Work, MarkRunning, LoadTarget, ScanSucceeds,
         ScanFails, SaveService, SaveFails, ChoosePrevious, RecordDiff, Complete,
         LoseDatabase, Ack, OtherTask, Recycle, Kill
  <2>6. \A x \in Service : services'[s][x] = 0
    <3>1. ASSUME NEW y \in Service, SaveService(w, y), NEW x \in Service
          PROVE  services'[s][x] = 0
      <4>1. task[w] # s
        BY <2>3, <3>1 DEF SaveService
      <4>2. services'[s][x] = services[s][x]
        BY <3>1, <4>1, Stored DEF SaveService
      <4>3. QED
        BY <2>2, <4>2 DEF Unborn
    <3>2. CASE UNCHANGED services
      BY <2>2, <3>2 DEF Unborn
    <3>3. QED
      BY <1>4, <3>1, <3>2 DEF Moves, Work, Deliver, Start, StartInVain, StartFails,
         MarkRunning, LoadTarget, ScanSucceeds, ScanFails, SaveFails, ChoosePrevious,
         RecordDiff, Complete, LoseDatabase, Ack, OtherTask, Recycle, Crash, Kill, Reappear,
         dbVars
  <2>7. \A v \in Worker : pc'[v] # "idle" => task'[v] # s
    <3>1. \A v \in Worker \ {w} : pc'[v] = pc[v] /\ task'[v] = task[v]
      BY <1>4, OthersKept
    <3>2. pc'[w] # "idle" => task'[w] # s
      <4>1. ASSUME NEW r \in Scan, Deliver(w, r) \/ StartFails(w, r)
            PROVE  pc'[w] # "idle" => task'[w] # s
        <5>1. r # s
          BY <2>2, <4>1 DEF Deliver, Start, StartInVain, StartFails, Receive, Unborn
        <5>2. pc'[w] # "idle" => task'[w] = r
          BY <4>1 DEF Deliver, Start, StartInVain, StartFails, Receive, Hold, Goto,
                      workerVars, TypeOK
        <5>3. QED
          BY <5>1, <5>2
      <4>2. CASE pc'[w] = "idle"
        BY <4>2
      <4>3. CASE task'[w] = task[w] /\ pc[w] # "idle"
        BY <2>3, <4>3
      <4>4. QED
        BY <1>4, <4>1, <4>2, <4>3 DEF Moves, Work, MarkRunning, LoadTarget, ScanSucceeds,
           ScanFails, SaveService, SaveFails, ChoosePrevious, RecordDiff,
           Complete, LoseDatabase, Ack, OtherTask, Recycle, Crash, Kill, Reappear, Idle,
           Goto, workerVars, localVars, TypeOK
    <3>3. QED
      BY <2>2, <3>1, <3>2 DEF Unborn
  <2>8. QED
    BY <2>2, <2>4, <2>5, <2>6, <2>7 DEF Unborn
<1>5. QED
  BY <1>1, <1>2, <1>3, <1>4, StepCases

LEMMA TokenType ==
  ASSUME TypeOK, NEW s \in Scan, NEW x \in Service
  PROVE  /\ services[s][x] \in Nat /\ queue[s] \in Nat /\ redelivered[s] \in Nat
         /\ Requested(s) \in Nat
         /\ Cardinality(Carriers(s, x)) \in Nat
BY CarriersFinite, AsmScansAssumption DEF TypeOK, Requested

LEMMA TokenStep ==
  ASSUME TypeOK, UnbornInv, TokenInv, [Next]_vars
  PROVE  TokenInv'
<1> SUFFICES ASSUME NEW s \in Scan, NEW x \in Service
             PROVE  Tokens(s, x)' <= 1 + redelivered'[s]
  BY DEF TokenInv
<1>1. Tokens(s, x) <= 1 + redelivered[s]
  BY DEF TokenInv
<1>2. CASE UNCHANGED vars
  BY <1>1, <1>2 DEF vars, dbVars, apiVars, workerVars, localVars, history, Tokens,
                    Requested, Carriers, Carries
<1>3. ASSUME UNCHANGED workerVars
      PROVE  Cardinality(Carriers(s, x))' = Cardinality(Carriers(s, x))
  BY <1>3 DEF workerVars, localVars, Carriers, Carries
<1>4. ASSUME NEW r \in Scan, Asks(r)
      PROVE  Tokens(s, x)' <= 1 + redelivered'[s]
  <2>1. /\ services' = services /\ redelivered' = redelivered
        /\ Cardinality(Carriers(s, x))' = Cardinality(Carriers(s, x))
    BY <1>3, <1>4, AskKeepsRows
       DEF Asks, Request, CreateScan, Dispatch, DispatchRaises, RecordDispatchFailure,
           HandlerDies, history
  <2>2. CASE CreateScan(r) /\ s = r
    <3>1. Unborn(s)
      BY <2>2 DEF CreateScan, UnbornInv
    <3>2. Carriers(s, x) = {}
      BY <3>1 DEF Unborn, Carriers, Carries
    <3>3. Cardinality(Carriers(s, x)) = 0
      BY <3>2, FS_EmptySet
    <3>4. queue'[s] = 0 /\ services'[s][x] = 0
      BY <2>2, <3>1 DEF CreateScan, Unborn
    <3>5. Requested(s)' <= 1 /\ Requested(s)' \in Nat
      BY DEF Requested
    <3>6. QED
      BY <2>1, <3>3, <3>4, <3>5, TokenType DEF Tokens
  <2>3. CASE CreateScan(r) /\ s # r
    BY <1>1, <2>1, <2>3 DEF CreateScan, Tokens, Requested
  <2>4. CASE Dispatch(r)
    <3>1. queue'[s] + Requested(s)' = queue[s] + Requested(s)
      BY <2>4, TokenType DEF Dispatch, Publish, Requested, TypeOK
    <3>2. Requested(s)' \in Nat /\ queue'[s] \in Nat
      BY <2>4, PublishType DEF Dispatch, Requested
    <3>3. QED
      BY <1>1, <2>1, <3>1, <3>2, TokenType DEF Tokens
  <2>5. CASE DispatchRaises(r)
    <3>1. CASE Publish(r)
      <4>1. queue'[s] + Requested(s)' = queue[s] + Requested(s)
        BY <2>5, <3>1, TokenType DEF DispatchRaises, Publish, Requested, TypeOK
      <4>2. Requested(s)' \in Nat /\ queue'[s] \in Nat
        BY <3>1, PublishType DEF Requested
      <4>3. QED
        BY <1>1, <2>1, <4>1, <4>2, TokenType DEF Tokens
    <3>2. CASE UNCHANGED queue
      <4>1. Requested(s)' <= Requested(s) /\ Requested(s)' \in Nat
        BY <2>5 DEF DispatchRaises, Requested
      <4>2. QED
        BY <1>1, <2>1, <3>2, <4>1, TokenType DEF Tokens
    <3>3. QED
      BY <2>5, <3>1, <3>2 DEF DispatchRaises
  <2>6. CASE RecordDispatchFailure(r)
    BY <1>1, <2>1, <2>6 DEF RecordDispatchFailure, Tokens, Requested
  <2>7. CASE HandlerDies(r)
    <3>1. queue' = queue
      BY <2>7 DEF HandlerDies
    <3>2. Requested(s)' <= Requested(s) /\ Requested(s)' \in Nat
      BY <2>7 DEF HandlerDies, Requested
    <3>3. QED
      BY <1>1, <2>1, <3>1, <3>2, TokenType DEF Tokens
  <2>8. QED
    BY <1>4, <2>2, <2>3, <2>4, <2>5, <2>6, <2>7 DEF Asks, Request
<1>5. ASSUME NEW t \in Target, DeleteTarget(t)
      PROVE  Tokens(s, x)' <= 1 + redelivered'[s]
  <2>1. services'[s][x] \in Nat /\ services'[s][x] <= services[s][x]
    BY <1>5, TokenType DEF DeleteTarget, TypeOK
  <2>2. UNCHANGED <<queue, creating, redelivered>>
    BY <1>5 DEF DeleteTarget, apiVars, history
  <2>3. Cardinality(Carriers(s, x))' = Cardinality(Carriers(s, x))
    BY <1>3, <1>5 DEF DeleteTarget
  <2>4. QED
    BY <1>1, <2>1, <2>2, <2>3, TokenType DEF Tokens, Requested
<1>6. ASSUME NEW w \in Worker, Moves(w)
      PROVE  Tokens(s, x)' <= 1 + redelivered'[s]
  <2>1. \A v \in Worker \ {w} : Carries(v, s, x)' <=> Carries(v, s, x)
    BY <1>6, OthersKept DEF Carries
  <2>2. /\ Cardinality(Carriers(s, x))' \in Nat
        /\ Cardinality(Carriers(s, x))'
             = Cardinality(Carriers(s, x)) - ToCome(w, s, x) + ToCome(w, s, x)'
    BY <2>1, CarriersChange
  <2>3. creating' = creating /\ Balanced(w, s, x)
    BY <1>6, MoveTokens, TypeStep
  <2>4. services'[s][x] \in Nat /\ queue'[s] \in Nat /\ redelivered'[s] \in Nat
    BY TypeStep DEF TypeOK
  <2>5. ToCome(w, s, x) \in Nat /\ ToCome(w, s, x)' \in Nat
    BY DEF ToCome
  <2>6. Requested(s)' = Requested(s)
    BY <2>3 DEF Requested
  <2>7. QED
    BY <1>1, <2>2, <2>3, <2>4, <2>5, <2>6, TokenType DEF Tokens, Balanced
<1>7. QED
  BY <1>2, <1>4, <1>5, <1>6, StepCases

CountInv == TypeOK /\ UnbornInv /\ TokenInv

LEMMA InitCount ==
  ASSUME Init
  PROVE  CountInv
<1>1. UnbornInv
  BY DEF Init, UnbornInv, Unborn
<1>2. ASSUME NEW s \in Scan, NEW x \in Service
      PROVE  Tokens(s, x) <= 1 + redelivered[s]
  <2>1. Carriers(s, x) = {}
    BY DEF Init, Carriers, Carries, NoScan, Scan
  <2>2. Cardinality(Carriers(s, x)) = 0
    BY <2>1, FS_EmptySet
  <2>3. QED
    BY <2>2 DEF Init, Tokens, Requested
<1>3. QED
  BY <1>1, <1>2, InitType DEF CountInv, TokenInv

LEMMA CountStep ==
  ASSUME CountInv, [Next]_vars
  PROVE  CountInv'
BY TypeStep, UnbornStep, TokenStep DEF CountInv

LEMMA CountBounds ==
  ASSUME CountInv
  PROVE  OncePerDelivery
<1> SUFFICES ASSUME NEW s \in Scan, NEW x \in Service
             PROVE  services[s][x] <= 1 + redelivered[s]
  BY DEF OncePerDelivery
<1>1. Tokens(s, x) <= 1 + redelivered[s]
  BY DEF CountInv, TokenInv
<1>2. QED
  BY <1>1, TokenType DEF CountInv, Tokens

(* An entry of a report has one row under a scan, and one more for every   *)
(* time a held message of that scan was delivered again, at most:          *)
(* execute_asm_scan inserts it again only when it is executed again.       *)
THEOREM ServicesCountDeliveries == Spec => []OncePerDelivery
<1>1. QED
  BY InitCount, CountStep, CountBounds, PTL DEF Spec
-----------------------------------------------------------------------------
(* No scan is lost unseen.  ScansSettle says that a scan ends or is dropped; *)
(* what it needs of every state, for any number of scans, is that an active  *)
(* scan that was not dropped has somebody left who will end it: a request    *)
(* yet to publish or to record that it could not, a message, or a worker     *)
(* that holds the message and is not through.                                *)

Busy(w) == pc[w] \notin {"idle", "ending"}

Awaited(s) ==
  \/ s \in creating \cup unsent
  \/ queue[s] > 0
  \/ \E w \in Worker : task[w] = s /\ Busy(w)

NoScanLost == \A s \in Scan : scan[s] \in Active => Awaited(s) \/ s \in dropped

(* A scan goes with its target and no sooner.                                *)
Standing ==
  \A s \in Scan :
    /\ scan[s] \in Row => TargetOf[s] \in targets
    /\ scan[s] = "deleted" => TargetOf[s] \notin targets

LostInv == TypeOK /\ Standing /\ NoScanLost

LEMMA StandingStep ==
  ASSUME TypeOK, TypeOK', Standing, Next
  PROVE  Standing'
<1> SUFFICES ASSUME NEW s \in Scan
             PROVE  /\ scan'[s] \in Row => TargetOf[s] \in targets'
                    /\ scan'[s] = "deleted" => TargetOf[s] \notin targets'
  BY DEF Standing
<1> DEFINE Stands == /\ scan'[s] \in Row => TargetOf[s] \in targets'
                     /\ scan'[s] = "deleted" => TargetOf[s] \notin targets'
           Kept == targets' = targets /\ \/ scan'[s] = scan[s]
                                         \/ scan[s] \in Row /\ scan'[s] \in Row
<1>1. ASSUME NEW r \in Scan, CreateScan(r)
      PROVE  Stands
  BY <1>1 DEF CreateScan, Standing, TypeOK, Row, Active
<1>2. ASSUME NEW r \in Scan, Asks(r), ~CreateScan(r)
      PROVE  Kept
  BY <1>2 DEF Asks, Request, Dispatch, DispatchRaises, RecordDispatchFailure,
              HandlerDies, dbVars, SetStatus, TypeOK, Row
<1>3. ASSUME NEW w \in Worker, Moves(w)
      PROVE  Kept
  <2>1. /\ scan[s] \in Row <=> scan'[s] \in Row
        /\ scan[s] = "none" <=> scan'[s] = "none"
    BY <1>3, MoveKeepsRows
  <2>2. targets' = targets
    BY <1>3 DEF Moves, Work, Deliver, Start, StartInVain, StartFails, MarkRunning,
       LoadTarget, ScanSucceeds, ScanFails, SaveService, SaveFails, ChoosePrevious,
       RecordDiff, Complete, LoseDatabase, Ack, OtherTask, Recycle, Crash, Kill, Reappear,
       dbVars
  <2>3. QED
    BY <2>1, <2>2 DEF TypeOK, Status
<1>4. ASSUME NEW t \in Target, DeleteTarget(t)
      PROVE  Stands
  BY <1>4 DEF DeleteTarget, Standing, Row, Active
<1>5. Kept => Stands
  BY DEF Standing, Row, Active
<1> HIDE DEF Kept
<1>6. Stands
  BY <1>1, <1>2, <1>3, <1>4, <1>5, StepCases
<1>7. QED
  BY <1>6

(* A worker does not leave its scan active: it stays with it, gives it back  *)
(* to the broker, ends it, or drops it.                                      *)
HandsOver(w, s) ==
  \/ scan'[s] \notin Active
  \/ queue'[s] > 0
  \/ task'[w] = s /\ Busy(w)'
  \/ s \in dropped'

LEMMA ScanEnds ==
  ASSUME TypeOK, NEW s \in Scan, NEW v \in {"completed", "failed"}, SetStatus(s, v)
  PROVE  scan'[s] \notin Active
BY DEF SetStatus, TypeOK, Row, Active

(* A refused statement ends the scan or drops it. *)
LEMMA RefusedEnds ==
  ASSUME TypeOK, NEW w \in Worker, task[w] \in Scan, Refused(w)
  PROVE  HandsOver(w, task[w])
<1>1. CASE AbortsOnError
  BY <1>1 DEF Refused, Drop, HandsOver
<1>2. CASE ~AbortsOnError
  BY <1>2, ScanEnds DEF Refused, HandsOver
<1>3. QED
  BY <1>1, <1>2

LEMMA MoverHandsOver ==
  ASSUME TypeOK, Standing, NEW w \in Worker, Busy(w), Moves(w)
  PROVE  HandsOver(w, task[w])
<1> DEFINE s == task[w]
<1>1. s \in Scan /\ pc[w] \notin {"idle", "ending"}
  BY DEF Busy, TypeOK
<1>2. CASE MarkRunning(w) \/ ChoosePrevious(w) \/ \E S \in SUBSET Service : ScanSucceeds(w, S)
  BY <1>1, <1>2 DEF MarkRunning, ChoosePrevious, ScanSucceeds, Goto, HandsOver, Busy, TypeOK
<1>3. CASE LoadTarget(w)
  <2>1. CASE TargetOf[s] \in targets
    BY <1>1, <1>3, <2>1 DEF LoadTarget, Goto, HandsOver, Busy, TypeOK
  <2>2. CASE TargetOf[s] \notin targets
    BY <1>1, <1>3, <2>2 DEF LoadTarget, Standing, HandsOver, Row, dbVars
  <2>3. QED
    BY <2>1, <2>2
<1>4. CASE ScanFails(w) \/ Complete(w)
  BY <1>1, <1>4, ScanEnds DEF ScanFails, Complete, HandsOver
<1>5. ASSUME NEW x \in Service, SaveService(w, x)
      PROVE  HandsOver(w, s)
  <2>1. CASE scan[s] \in Row
    BY <1>1, <1>5, <2>1 DEF SaveService, HandsOver, Busy
  <2>2. CASE scan[s] \notin Row
    BY <1>1, <1>5, <2>2, RefusedEnds DEF SaveService
  <2>3. QED
    BY <2>1, <2>2
<1>6. ASSUME NEW expired \in BOOLEAN, RecordDiff(w, expired)
      PROVE  HandsOver(w, s)
  <2>1. CASE scan[s] \in Row \/ (base[w] = NoScan /\ ~expired)
    BY <1>1, <1>6, <2>1 DEF RecordDiff, Goto, HandsOver, Busy, TypeOK
  <2>2. CASE scan[s] \notin Row /\ ~(base[w] = NoScan /\ ~expired)
    BY <1>1, <1>6, <2>2, RefusedEnds DEF RecordDiff
  <2>3. QED
    BY <2>1, <2>2
<1>7. CASE SaveFails(w)
  <2>1. CASE Refused(w)
    BY <1>1, <2>1, RefusedEnds
  <2>2. CASE SetStatus(s, "failed")
    BY <1>1, <2>2, ScanEnds DEF HandsOver
  <2>3. QED
    BY <1>7, <2>1, <2>2 DEF SaveFails
<1>8. CASE LoseDatabase(w) \/ Kill(w)
  BY <1>8 DEF LoseDatabase, Kill, Drop, HandsOver
<1>9. CASE Crash(w) \/ Reappear(w)
  BY <1>1, <1>9 DEF Crash, Reappear, Redeliver, Publish, HandsOver, TypeOK
<1>10. QED
  BY <1>1, <1>2, <1>3, <1>4, <1>5, <1>6, <1>7, <1>8, <1>9
     DEF Moves, Work, Deliver, Start, StartInVain, StartFails, Receive, Ack, OtherTask,
         Recycle

(* A scan once dropped is dropped until a worker marks it running. *)
LEMMA StaysDropped ==
  ASSUME NEW w \in Worker, Moves(w), NEW s \in dropped
  PROVE  s \in dropped' \/ (task[w] = s /\ Busy(w))
<1>1. CASE MarkRunning(w)
  BY <1>1 DEF MarkRunning, Busy
<1>2. ASSUME \/ UNCHANGED dropped
             \/ \E r \in Scan \cup {task[w]} : Drop(r)
      PROVE  s \in dropped'
  BY <1>2 DEF Drop
<1>3. CASE ~MarkRunning(w)
  BY <1>2, <1>3
     DEF Moves, Work, Deliver, Start, StartInVain, StartFails, LoadTarget, ScanSucceeds,
         ScanFails, SaveService, SaveFails, Refused, ChoosePrevious, RecordDiff, Complete,
         LoseDatabase, Ack, OtherTask, Recycle, Crash, Kill, Reappear, history
<1>4. QED
  BY <1>1, <1>3

(* What else awaits a scan outlives a step of worker w. *)
LEMMA OthersAwait ==
  ASSUME TypeOK, NEW w \in Worker, Moves(w), NEW s \in Scan, Awaited(s) \/ s \in dropped
  PROVE  \/ Awaited(s)' \/ scan'[s] \notin Active \/ s \in dropped'
         \/ (task[w] = s /\ Busy(w))
<1>1. CASE s \in dropped
  BY <1>1, StaysDropped
<1>2. UNCHANGED apiVars
  BY DEF Moves, Work, Deliver, Start, StartInVain, StartFails, MarkRunning, LoadTarget,
         ScanSucceeds, ScanFails, SaveService, SaveFails, ChoosePrevious, RecordDiff,
         Complete, LoseDatabase, Ack, OtherTask, Recycle, Crash, Kill, Reappear
<1>3. CASE s \in creating \cup unsent
  BY <1>2, <1>3 DEF Awaited, apiVars
<1>4. ASSUME NEW v \in Worker, v # w, task[v] = s, Busy(v)
      PROVE  Awaited(s)'
  BY <1>4, OthersKept DEF Awaited, Busy
<1>5. CASE queue[s] > 0
  <2>1. CASE Start(w, s)
    <3>1. CASE scan[s] \notin Row
      BY <2>1, <3>1 DEF Start, dbVars, Row
    <3>2. CASE scan[s] \in Row
      BY <2>1, <3>2 DEF Start, Hold, Goto, Awaited, Busy, TypeOK
    <3>3. QED
      BY <3>1, <3>2
  <2>2. CASE StartInVain(w, s) \/ StartFails(w, s)
    BY <2>2 DEF StartInVain, StartFails, Drop
  <2>3. CASE ~(Deliver(w, s) \/ StartFails(w, s))
    <3>1. ASSUME NEW r \in Scan, Deliver(w, r) \/ StartFails(w, r)
          PROVE  queue'[s] = queue[s]
      <4>1. r # s /\ Receive(w, r)
        BY <2>3, <3>1 DEF Deliver, Start, StartInVain, StartFails
      <4>2. QED
        BY <4>1 DEF Receive, TypeOK
    <3>2. Crash(w) \/ Reappear(w) => queue'[s] > 0
      <4>1. queue \in [Scan -> Nat]
        BY DEF TypeOK
      <4>2. Redeliver(w) => queue'[s] > 0
        BY <1>5, <4>1 DEF Redeliver, Publish
      <4>3. QED
        BY <4>2 DEF Crash, Reappear
    <3>3. queue'[s] > 0
      BY <1>5, <3>1, <3>2
         DEF Moves, Work, MarkRunning, LoadTarget, ScanSucceeds, ScanFails, SaveService,
             SaveFails, ChoosePrevious, RecordDiff, Complete, LoseDatabase, Ack, OtherTask,
             Recycle, Kill
    <3>4. QED
      BY <3>3 DEF Awaited
  <2>4. QED
    BY <2>1, <2>2, <2>3 DEF Deliver
<1>6. QED
  BY <1>1, <1>3, <1>4, <1>5 DEF Awaited

(* Only the worker that takes a scan up makes it active again. *)
LEMMA Revived ==
  ASSUME TypeOK, NEW w \in Worker, Moves(w), NEW s \in Scan,
         scan[s] \notin Active, scan'[s] \in Active
  PROVE  task[w] = s /\ Busy(w)
<1>1. pc[w] # "idle" => task[w] \in Scan
  BY DEF TypeOK
<1>2. ASSUME NEW v \in {"completed", "failed"}, SetStatus(task[w], v), pc[w] # "idle"
      PROVE  FALSE
  BY <1>1, <1>2 DEF SetStatus, TypeOK, Active
<1>3. Refused(w) /\ pc[w] # "idle" => FALSE
  BY <1>2 DEF Refused
<1>4. CASE MarkRunning(w)
  BY <1>1, <1>4 DEF MarkRunning, SetStatus, Busy, TypeOK
<1>5. scan' # scan
  OBVIOUS
<1>6. QED
  BY <1>2, <1>3, <1>4, <1>5
     DEF Moves, Work, Deliver, Start, StartInVain, StartFails, LoadTarget, ScanSucceeds,
         ScanFails, SaveService, SaveFails, ChoosePrevious, RecordDiff, Complete,
         LoseDatabase, Ack, OtherTask, Recycle, Crash, Kill, Reappear, dbVars

LEMMA AskAwaits ==
  ASSUME TypeOK, NEW r \in Scan, Asks(r), NEW s \in Scan, scan'[s] \in Active,
         scan[s] \in Active => Awaited(s) \/ s \in dropped
  PROVE  Awaited(s)' \/ s \in dropped'
<1>1. CASE CreateScan(r)
  BY <1>1 DEF CreateScan, Awaited, Busy, workerVars, history, TypeOK
<1>2. CASE Dispatch(r)
  BY <1>2 DEF Dispatch, Publish, Awaited, Busy, dbVars, workerVars, history, TypeOK
<1>3. CASE DispatchRaises(r)
  BY <1>3 DEF DispatchRaises, Publish, Awaited, Busy, dbVars, workerVars, history, TypeOK
<1>4. CASE RecordDispatchFailure(r)
  <2>1. s # r
    BY <1>4, ScanEnds DEF RecordDispatchFailure
  <2>2. scan'[s] = scan[s]
    BY <1>4, <2>1 DEF RecordDispatchFailure, SetStatus, TypeOK
  <2>3. QED
    BY <1>4, <2>1, <2>2 DEF RecordDispatchFailure, Awaited, Busy, workerVars, history
<1>5. CASE HandlerDies(r)
  BY <1>5 DEF HandlerDies, Drop, Awaited, Busy, dbVars, workerVars
<1>6. QED
  BY <1>1, <1>2, <1>3, <1>4, <1>5 DEF Asks, Request

LEMMA NotLostStep ==
  ASSUME LostInv, Next
  PROVE  NoScanLost'
<1> SUFFICES ASSUME NEW s \in Scan, scan'[s] \in Active
             PROVE  Awaited(s)' \/ s \in dropped'
  BY DEF NoScanLost
<1>1. TypeOK /\ Standing /\ (scan[s] \in Active => Awaited(s) \/ s \in dropped)
  BY DEF LostInv, NoScanLost
<1>2. ASSUME NEW t \in Target, DeleteTarget(t)
      PROVE  Awaited(s)' \/ s \in dropped'
  <2>1. scan[s] \in Active
    BY <1>2 DEF DeleteTarget, Active
  <2>2. QED
    BY <1>1, <1>2, <2>1 DEF DeleteTarget, Awaited, Busy, apiVars, workerVars, history
<1>3. ASSUME NEW w \in Worker, Moves(w)
      PROVE  Awaited(s)' \/ s \in dropped'
  <2>1. Awaited(s)' \/ s \in dropped' \/ (task[w] = s /\ Busy(w))
    BY <1>1, <1>3, OthersAwait, Revived
  <2>2. CASE task[w] = s /\ Busy(w)
    BY <1>1, <1>3, <2>2, MoverHandsOver DEF HandsOver, Awaited
  <2>3. QED
    BY <2>1, <2>2
<1>4. QED
  BY <1>1, <1>2, <1>3, AskAwaits, StepCases

LEMMA LostStep == LostInv /\ [Next]_vars => LostInv'
<1> SUFFICES ASSUME LostInv, [Next]_vars
             PROVE  LostInv'
  OBVIOUS
<1>1. TypeOK'
  BY TypeStep DEF LostInv
<1>2. CASE Next
  BY <1>1, <1>2, StandingStep, NotLostStep DEF LostInv
<1>3. CASE UNCHANGED vars
  BY <1>1, <1>3 DEF vars, dbVars, apiVars, workerVars, history, LostInv, Standing,
                    NoScanLost, Awaited, Busy
<1>4. QED
  BY <1>2, <1>3

(* Every scan that is pending or running has a request, a message or a       *)
(* worker that will end it, or is one that was dropped and that no execution *)
(* took up since, whatever was deleted, delivered again or refused meanwhile. *)
THEOREM ActiveScansAreAwaited == Spec => []NoScanLost
<1>1. Init => LostInv
  <2> SUFFICES ASSUME Init PROVE LostInv
    OBVIOUS
  <2>1. TypeOK
    BY InitType
  <2>2. Standing
    BY AsmScansAssumption DEF Init, Standing, Row, Active
  <2>3. NoScanLost
    BY DEF Init, NoScanLost, Active
  <2>4. QED
    BY <2>1, <2>2, <2>3 DEF LostInv
<1>2. LostInv /\ [Next]_vars => LostInv'
  BY LostStep
<1>3. LostInv => NoScanLost
  BY DEF LostInv
<1>4. QED
  BY <1>1, <1>2, <1>3, PTL DEF Spec
=============================================================================
