----------------------------- MODULE ScanSchedules -----------------------------
(***************************************************************************)
(* Scan schedules in services/worker-scanner.                              *)
(*                                                                         *)
(* Celery Beat asks every minute for process_due_schedules; any worker     *)
(* process may pick the task up, so several may run at once when one is    *)
(* slow.  A runner reads the clock and the due rows once, then takes the   *)
(* rows one by one: it inserts and commits a job, publishes it, computes   *)
(* the next run from the row it read and writes it back.  Users create,    *)
(* change, disable and delete schedules meanwhile; their requests too      *)
(* compute next_run from what they read, and write it later.               *)
(*                                                                         *)
(* As in ScanJobs, a child process opens its connection in its first task  *)
(* and cannot use it in a second one: get_configured_db raises, and the    *)
(* run does nothing.  Only the run a fresh child takes up has steps here.  *)
(*                                                                         *)
(* A cron expression is its period in minutes: croniter (external) returns *)
(* the first slot strictly after the given time.  What becomes of a job    *)
(* that was published is the subject of ScanJobs.                          *)
(***************************************************************************)
EXTENDS Naturals, FiniteSets

CONSTANTS
  Schedule,      (* ids of scan_schedules rows that may be allocated       *)
  Runner,        (* worker processes that may run process_due_schedules    *)
  Handler,       (* requests that may be in flight at the same time        *)
  None,          (* no schedule                                            *)
  Period,        (* the cron expressions in use, as periods                *)
  MaxTime,       (* bound on the clock                                     *)
  Faults,        (* kinds of fault that may happen                         *)
  MaxFaults      (* bound on the number of faults                          *)

(* "insert" and "record" are database errors at the two writes of a row's  *)
(* turn, "db" is a connection lost for good, "publish" delay() raising and *)
(* "crash" the death of the worker.                                        *)
FaultKind == {"insert", "publish", "record", "db", "crash"}

ASSUME ScanSchedulesAssumption ==
  /\ None \notin Schedule
  /\ Period \subseteq Nat \ {0}
  /\ MaxTime \in Nat \ {0}
  /\ MaxFaults \in Nat
  /\ Faults \subseteq FaultKind

VARIABLES
  now,      (* the clock, in minutes from 1                                *)
  exists,   (* whether each id is not yet used, a row, or deleted          *)
  enabled,  (* enabled of each row                                         *)
  cron,     (* cron_expression of each row                                 *)
  next,     (* next_run of each row                                        *)
  last,     (* last_run of each row, 0 for NULL                            *)
  sent,     (* for each row, the run times whose job was published         *)
  conn,     (* each runner's database connection, open from the first task *)
  stage,    (* what each runner is doing                                   *)
  at,       (* its current_time                                            *)
  todo,     (* copies of the due rows it has not reached                   *)
  cur,      (* the copy it is working on                                   *)
  edit,     (* the requests in flight                                      *)
  faults    (* faults so far                                               *)

rowVars    == <<exists, enabled, cron, next, last>>
runnerVars == <<conn, stage, at, todo, cur>>
vars       == <<now, rowVars, sent, runnerVars, edit, faults>>

Copy   == [id : Schedule, cron : Period]
NoCopy == [id |-> None, cron |-> 0]

(* A request: the columns it will write, "keep" and 0 for those it leaves. *)
Edit ==
  [op : {"idle", "create", "update"}, on : Schedule \cup {None},
   enabled : {"keep", "on", "off"}, cron : Period \cup {0}, next : Nat]
NoEdit == [op |-> "idle", on |-> None, enabled |-> "keep", cron |-> 0, next |-> 0]

TypeOK ==
  /\ now \in Nat \ {0}
  /\ exists \in [Schedule -> {"none", "live", "deleted"}]
  /\ enabled \in [Schedule -> BOOLEAN]
  /\ cron \in [Schedule -> Period \cup {0}]
  /\ \A s \in Schedule : exists[s] = "live" => cron[s] \in Period
  /\ next \in [Schedule -> Nat]
  /\ last \in [Schedule -> Nat]
  /\ sent \in [Schedule -> SUBSET Nat]
  /\ conn \in [Runner -> {"none", "open"}]
  /\ stage \in [Runner -> {"idle", "picking", "dispatch", "record"}]
  /\ at \in [Runner -> Nat]
  /\ todo \in [Runner -> SUBSET Copy]
  /\ cur \in [Runner -> Copy \cup {NoCopy}]
  /\ \A r \in Runner :
       /\ stage[r] # "idle" => conn[r] = "open"
       /\ stage[r] \in {"dispatch", "record"} => cur[r] \in Copy
  /\ edit \in [Handler -> Edit]
  /\ \A h \in Handler :
       /\ edit[h].op = "create" => edit[h].cron \in Period
       /\ edit[h].op = "update" => edit[h].on \in Schedule
  /\ faults \in Nat

Init ==
  /\ now = 1
  /\ exists = [s \in Schedule |-> "none"]
  /\ enabled = [s \in Schedule |-> FALSE]
  /\ cron = [s \in Schedule |-> 0]
  /\ next = [s \in Schedule |-> 0]
  /\ last = [s \in Schedule |-> 0]
  /\ sent = [s \in Schedule |-> {}]
  /\ conn = [r \in Runner |-> "none"]
  /\ stage = [r \in Runner |-> "idle"]
  /\ at = [r \in Runner |-> 0]
  /\ todo = [r \in Runner |-> {}]
  /\ cur = [r \in Runner |-> NoCopy]
  /\ edit = [h \in Handler |-> NoEdit]
  /\ faults = 0

-----------------------------------------------------------------------------
(* Rows, faults and time *)

(* croniter(expression, t).get_next() *)
NextSlot(c, t) == c * (t \div c + 1)

Live(s) == exists[s] = "live"

(* Variant: the enabled column is not in the query. *)
DueIgnoringEnabled(s) == Live(s) /\ next[s] <= now

(* enabled == True and next_run <= current_time *)
Due(s) == Live(s) /\ enabled[s] /\ next[s] <= now

Fault(kind) ==
  /\ kind \in Faults
  /\ faults < MaxFaults
  /\ faults' = faults + 1

Tick ==
  /\ now < MaxTime
  /\ now' = now + 1
  /\ UNCHANGED <<rowVars, sent, runnerVars, edit, faults>>

-----------------------------------------------------------------------------
(* process_due_schedules *)

(* A fresh child connects; the clock and the due rows are read once. *)
Begin(r) ==
  /\ stage[r] = "idle"
  /\ conn[r] = "none"
  /\ \E s \in Schedule : Due(s)
  /\ conn' = [conn EXCEPT ![r] = "open"]
  /\ stage' = [stage EXCEPT ![r] = "picking"]
  /\ at' = [at EXCEPT ![r] = now]
  /\ todo' = [todo EXCEPT ![r] = {[id |-> s, cron |-> cron[s]] : s \in {x \in Schedule : Due(x)}}]
  /\ UNCHANGED <<now, rowVars, sent, cur, edit, faults>>

(* A run that finds no row due or whose query fails (no rollback follows), *)
(* or a task of another kind, takes up a fresh child.                      *)
OtherTask(r) ==
  /\ stage[r] = "idle"
  /\ conn[r] = "none"
  /\ conn' = [conn EXCEPT ![r] = "open"]
  /\ UNCHANGED <<now, rowVars, sent, stage, at, todo, cur, edit, faults>>

(* worker_max_tasks_per_child replaces the child. *)
Recycle(r) ==
  /\ stage[r] = "idle"
  /\ conn[r] = "open"
  /\ conn' = [conn EXCEPT ![r] = "none"]
  /\ UNCHANGED <<now, rowVars, sent, stage, at, todo, cur, edit, faults>>

(* INSERT the job and commit, in the order the query returned the rows.    *)
InsertJob(r, c) ==
  /\ stage[r] = "picking"
  /\ c \in todo[r]
  /\ todo' = [todo EXCEPT ![r] = @ \ {c}]
  /\ cur' = [cur EXCEPT ![r] = c]
  /\ stage' = [stage EXCEPT ![r] = "dispatch"]
  /\ UNCHANGED <<now, rowVars, sent, conn, at, edit, faults>>

(* The insert fails: rollback, and on to the next row. *)
InsertFails(r, c) ==
  /\ stage[r] = "picking"
  /\ c \in todo[r]
  /\ Fault("insert")
  /\ todo' = [todo EXCEPT ![r] = @ \ {c}]
  /\ UNCHANGED <<now, rowVars, sent, conn, stage, at, cur, edit>>

Sent(r) == sent' = [sent EXCEPT ![cur[r].id] = @ \cup {at[r]}]

(* execute_scan.delay(job_id) *)
Dispatch(r) ==
  /\ stage[r] = "dispatch"
  /\ Sent(r)
  /\ stage' = [stage EXCEPT ![r] = "record"]
  /\ UNCHANGED <<now, rowVars, conn, at, todo, cur, edit, faults>>

(* The row's turn is over. *)
NextRow(r) ==
  /\ stage' = [stage EXCEPT ![r] = "picking"]
  /\ cur' = [cur EXCEPT ![r] = NoCopy]
  /\ UNCHANGED <<conn, at, todo>>

(* Variant: the error is logged and the turn goes on. *)
DispatchErrorIgnored(r) ==
  /\ stage[r] = "dispatch"
  /\ Fault("publish")
  /\ stage' = [stage EXCEPT ![r] = "record"]
  /\ UNCHANGED <<now, rowVars, sent, conn, at, todo, cur, edit>>

(* delay() raises, the broker having the message or not: nothing is        *)
(* recorded, so the row stays due.                                         *)
DispatchRaises(r) ==
  /\ stage[r] = "dispatch"
  /\ Fault("publish")
  /\ Sent(r) \/ UNCHANGED sent
  /\ NextRow(r)
  /\ UNCHANGED <<now, rowVars, edit>>

(* Variant: the next run is computed from the clock at the end. *)
RecordFromNow(r) ==
  LET s == cur[r].id IN
  /\ stage[r] = "record"
  /\ IF Live(s)
     THEN /\ last' = [last EXCEPT ![s] = at[r]]
          /\ next' = [next EXCEPT ![s] = NextSlot(cur[r].cron, now)]
     ELSE UNCHANGED <<last, next>>
  /\ NextRow(r)
  /\ UNCHANGED <<now, exists, enabled, cron, sent, edit, faults>>

(* UPDATE last_run, next_run of the row, if it is still there, from the    *)
(* runner's own time and the expression it read.                           *)
Record(r) ==
  LET s == cur[r].id IN
  /\ stage[r] = "record"
  /\ IF Live(s)
     THEN /\ last' = [last EXCEPT ![s] = at[r]]
          /\ next' = [next EXCEPT ![s] = NextSlot(cur[r].cron, at[r])]
     ELSE UNCHANGED <<last, next>>
  /\ NextRow(r)
  /\ UNCHANGED <<now, exists, enabled, cron, sent, edit, faults>>

(* That update fails: rollback, and on to the next row. *)
RecordFails(r) ==
  /\ stage[r] = "record"
  /\ Fault("record")
  /\ NextRow(r)
  /\ UNCHANGED <<now, rowVars, sent, edit>>

Stop(r) ==
  /\ stage' = [stage EXCEPT ![r] = "idle"]
  /\ at' = [at EXCEPT ![r] = 0]
  /\ todo' = [todo EXCEPT ![r] = {}]
  /\ cur' = [cur EXCEPT ![r] = NoCopy]

End(r) ==
  /\ stage[r] = "picking"
  /\ todo[r] = {}
  /\ Stop(r)
  /\ UNCHANGED <<now, rowVars, sent, conn, edit, faults>>

(* A write finds the connection lost: the rollback raises too, outside the *)
(* row's handler, and the run is over.                                     *)
LoseDatabase(r) ==
  /\ stage[r] = "record" \/ (stage[r] = "picking" /\ todo[r] # {})
  /\ Fault("db")
  /\ Stop(r)
  /\ UNCHANGED <<now, rowVars, sent, conn, edit>>

(* The worker dies.  Whether Celery delivers the task again or it has      *)
(* expired, the next run starts from a new query.                          *)
Crash(r) ==
  /\ stage[r] # "idle"
  /\ Fault("crash")
  /\ Stop(r)
  /\ conn' = [conn EXCEPT ![r] = "none"]
  /\ UNCHANGED <<now, rowVars, sent, edit>>

-----------------------------------------------------------------------------
(* create_schedule, update_schedule, delete_schedule *)

Enter(h, op, s, en, c, n) ==
  /\ edit[h] = NoEdit
  /\ edit' = [edit EXCEPT
       ![h] = [op |-> op, on |-> s, enabled |-> en, cron |-> c, next |-> n]]
  /\ UNCHANGED <<now, rowVars, sent, runnerVars, faults>>

BeginCreate(h, en, c) == Enter(h, "create", None, en, c, NextSlot(c, now))

(* INSERT and commit *)
FinishCreate(h, s) ==
  /\ edit[h].op = "create"
  /\ exists[s] = "none"
  /\ exists' = [exists EXCEPT ![s] = "live"]
  /\ enabled' = [enabled EXCEPT ![s] = edit[h].enabled = "on"]
  /\ cron' = [cron EXCEPT ![s] = edit[h].cron]
  /\ next' = [next EXCEPT ![s] = edit[h].next]
  /\ edit' = [edit EXCEPT ![h] = NoEdit]
  /\ UNCHANGED <<now, last, sent, runnerVars, faults>>

(* next_run is recalculated when the expression changes, from the new one, *)
(* and when the schedule is enabled, from the one that was read.           *)
BeginUpdate(h, s, en, c) ==
  /\ Live(s)
  /\ en # "keep" \/ c # 0
  /\ Enter(h, "update", s, en, c,
       CASE c # 0               -> NextSlot(c, now)
         [] c = 0 /\ en = "on"  -> NextSlot(cron[s], now)
         [] c = 0 /\ en # "on"  -> 0)

(* Variant: an expression that the request leaves out is written too. *)
FinishUpdateAll(h) ==
  LET e == edit[h] IN
  /\ e.op = "update"
  /\ IF Live(e.on)
     THEN /\ enabled' = [enabled EXCEPT ![e.on] = e.enabled = "on"]
          /\ cron' = [cron EXCEPT ![e.on] = e.cron]
          /\ next' = IF e.next = 0 THEN next ELSE [next EXCEPT ![e.on] = e.next]
     ELSE UNCHANGED <<enabled, cron, next>>
  /\ edit' = [edit EXCEPT ![h] = NoEdit]
  /\ UNCHANGED <<now, exists, last, sent, runnerVars, faults>>

(* UPDATE the columns in update_data, if the row is still there. *)
FinishUpdate(h) ==
  LET e == edit[h] IN
  /\ e.op = "update"
  /\ IF Live(e.on)
     THEN /\ enabled' = IF e.enabled = "keep" THEN enabled
                        ELSE [enabled EXCEPT ![e.on] = e.enabled = "on"]
          /\ cron' = IF e.cron = 0 THEN cron ELSE [cron EXCEPT ![e.on] = e.cron]
          /\ next' = IF e.next = 0 THEN next ELSE [next EXCEPT ![e.on] = e.next]
     ELSE UNCHANGED <<enabled, cron, next>>
  /\ edit' = [edit EXCEPT ![h] = NoEdit]
  /\ UNCHANGED <<now, exists, last, sent, runnerVars, faults>>

(* The row is read and deleted (delete_target deletes it with its target); *)
(* deleting a row that is gone changes nothing.                            *)
DeleteSchedule(s) ==
  /\ Live(s)
  /\ exists' = [exists EXCEPT ![s] = "deleted"]
  /\ UNCHANGED <<now, enabled, cron, next, last, sent, runnerVars, edit, faults>>

-----------------------------------------------------------------------------
Run(r) ==
  \/ Begin(r)
  \/ \E c \in Copy : InsertJob(r, c)
  \/ Dispatch(r)
  \/ Record(r)
  \/ End(r)
  \/ OtherTask(r)
  \/ Recycle(r)

Break(r) ==
  \/ \E c \in Copy : InsertFails(r, c)
  \/ DispatchRaises(r)
  \/ RecordFails(r)
  \/ LoseDatabase(r)
  \/ Crash(r)

Ask(h) ==
  \/ \E en \in {"on", "off"}, c \in Period : BeginCreate(h, en, c)
  \/ \E s \in Schedule, en \in {"keep", "on", "off"}, c \in Period \cup {0} :
       BeginUpdate(h, s, en, c)

Serve(h) == (\E s \in Schedule : FinishCreate(h, s)) \/ FinishUpdate(h)

Next ==
  \/ Tick
  \/ \E r \in Runner : Run(r) \/ Break(r)
  \/ \E h \in Handler : Ask(h) \/ Serve(h)
  \/ \E s \in Schedule : DeleteSchedule(s)

Spec == Init /\ [][Next]_vars

-----------------------------------------------------------------------------
(* Properties *)

(* A schedule never claims a run that did not happen: whatever fails       *)
(* between the three steps of a row's turn, and however runners overlap,   *)
(* last_run is a time for which a job was published.                       *)
LastRunIsDispatched ==
  \A s \in Schedule : last[s] # 0 => last[s] \in sent[s]

InHand(s) ==
  \E r \in Runner : cur[r].id = s \/ \E c \in todo[r] : c.id = s

(* Disabling or deleting a schedule works: once no runner holds a copy of  *)
(* the row from before, none takes it up and none publishes a job of it    *)
(* until it is enabled again.                                              *)
DisabledStaysQuiet ==
  [][\A s \in Schedule :
       ~(Live(s) /\ enabled[s]) /\ ~InHand(s)
         => ~InHand(s)' /\ sent'[s] = sent[s]]_vars

CopiesAreCurrent(s) == \A r \in Runner : cur[r].id = s => cur[r].cron = cron[s]

(* Slow, overlapping, failing runners do not skip a slot: when one that    *)
(* read the current expression moves a due next_run of that expression on, *)
(* a job was published at the slot or after it.                            *)
NoSlotSkipped ==
  [][\A s \in Schedule :
       Due(s) /\ next[s] % cron[s] = 0 /\ CopiesAreCurrent(s) /\ edit' = edit
         => next'[s] <= next[s] \/ \E t \in sent[s] : t >= next[s]]_vars
=============================================================================
