------------------------- MODULE ScanSchedulesProofs -------------------------
(* Theorems about ScanSchedules for any number of schedules, runners,       *)
(* requests and faults, and any set of cron periods.                        *)
EXTENDS ScanSchedules, TLAPS

(* croniter returns a slot of the expression, strictly after the time.     *)
LEMMA NextSlotIsAfter ==
  ASSUME NEW c \in Nat \ {0}, NEW t \in Nat
  PROVE  /\ NextSlot(c, t) \in Nat
         /\ NextSlot(c, t) > t
<1> DEFINE q == t \div c
<1>1. q \in Nat /\ t < c * (q + 1)
  OBVIOUS
<1>2. c * (q + 1) \in Nat
  BY <1>1
<1>3. QED
  BY <1>1, <1>2 DEF NextSlot

LEMMA InitType == Init => TypeOK
BY ScanSchedulesAssumption DEF Init, TypeOK, NoCopy, NoEdit, Edit

(* A runner's step keeps every variable in its type. *)
LEMMA RunType ==
  ASSUME TypeOK, NEW r \in Runner, Run(r) \/ Break(r)
  PROVE  TypeOK'
<1> USE ScanSchedulesAssumption DEF rowVars, runnerVars
<1>1. CASE Begin(r)
  <2>1. {[id |-> s, cron |-> cron[s]] : s \in {x \in Schedule : Due(x)}} \in SUBSET Copy
    BY DEF TypeOK, Due, Live, Copy
  <2>2. todo' \in [Runner -> SUBSET Copy] /\ at' \in [Runner -> Nat]
    BY <1>1, <2>1 DEF Begin, TypeOK
  <2>3. QED
    BY <1>1, <2>2 DEF Begin, TypeOK
<1>2. ASSUME NEW c \in Copy, InsertJob(r, c) \/ InsertFails(r, c)
      PROVE  TypeOK'
  BY <1>2 DEF InsertJob, InsertFails, Fault, TypeOK
<1>3. CASE Dispatch(r)
  <2>1. cur[r].id \in Schedule /\ at[r] \in Nat
    BY <1>3 DEF Dispatch, TypeOK, Copy
  <2>2. sent' \in [Schedule -> SUBSET Nat]
    BY <1>3, <2>1 DEF Dispatch, Sent, TypeOK
  <2>3. QED
    BY <1>3, <2>2 DEF Dispatch, TypeOK
<1>4. CASE DispatchRaises(r)
  <2>1. cur[r].id \in Schedule /\ at[r] \in Nat
    BY <1>4 DEF DispatchRaises, TypeOK, Copy
  <2>2. sent' \in [Schedule -> SUBSET Nat]
    BY <1>4, <2>1 DEF DispatchRaises, Sent, TypeOK
  <2>3. QED
    BY <1>4, <2>2 DEF DispatchRaises, NextRow, Fault, TypeOK
<1>5. CASE Record(r)
  <2>1. cur[r].id \in Schedule /\ cur[r].cron \in Nat \ {0} /\ at[r] \in Nat
    BY <1>5 DEF Record, TypeOK, Copy
  <2>2. NextSlot(cur[r].cron, at[r]) \in Nat
    BY <2>1, NextSlotIsAfter
  <2>3. next' \in [Schedule -> Nat] /\ last' \in [Schedule -> Nat]
    BY <1>5, <2>1, <2>2 DEF Record, TypeOK
  <2>4. QED
    BY <1>5, <2>3 DEF Record, NextRow, TypeOK
<1>6. CASE RecordFails(r)
  BY <1>6 DEF RecordFails, NextRow, Fault, TypeOK
<1>7. CASE End(r) \/ LoseDatabase(r) \/ Crash(r)
  BY <1>7 DEF End, LoseDatabase, Crash, Stop, Fault, TypeOK
<1>8. CASE OtherTask(r) \/ Recycle(r)
  BY <1>8 DEF OtherTask, Recycle, TypeOK
<1>9. QED
  BY <1>1, <1>2, <1>3, <1>4, <1>5, <1>6, <1>7, <1>8 DEF Run, Break

(* A request's step keeps every variable in its type. *)
LEMMA RequestType ==
  ASSUME TypeOK, NEW h \in Handler, Ask(h) \/ Serve(h)
  PROVE  TypeOK'
<1> USE ScanSchedulesAssumption DEF rowVars, runnerVars
<1>1. ASSUME NEW en \in {"on", "off"}, NEW c \in Period, BeginCreate(h, en, c)
      PROVE  TypeOK'
  <2>1. NextSlot(c, now) \in Nat
    BY NextSlotIsAfter DEF TypeOK
  <2>2. [op |-> "create", on |-> None, enabled |-> en, cron |-> c,
         next |-> NextSlot(c, now)] \in Edit
    BY <2>1 DEF Edit
  <2>3. QED
    BY <1>1, <2>2 DEF BeginCreate, Enter, TypeOK
<1>2. ASSUME NEW s \in Schedule, NEW en \in {"keep", "on", "off"},
             NEW c \in Period \cup {0}, BeginUpdate(h, s, en, c)
      PROVE  TypeOK'
  <2> DEFINE n == CASE c # 0               -> NextSlot(c, now)
                    [] c = 0 /\ en = "on"  -> NextSlot(cron[s], now)
                    [] c = 0 /\ en # "on"  -> 0
  <2>1. cron[s] \in Nat \ {0} /\ now \in Nat
    BY <1>2 DEF BeginUpdate, Live, TypeOK
  <2>2. n \in Nat
    BY <2>1, NextSlotIsAfter
  <2> HIDE DEF n
  <2>3. [op |-> "update", on |-> s, enabled |-> en, cron |-> c, next |-> n] \in Edit
    BY <2>2 DEF Edit
  <2>4. Enter(h, "update", s, en, c, n)
    BY <1>2 DEF BeginUpdate, n
  <2>5. QED
    BY <2>3, <2>4 DEF Enter, TypeOK
<1>3. ASSUME NEW s \in Schedule, FinishCreate(h, s)
      PROVE  TypeOK'
  <2>1. edit[h].cron \in Period /\ edit[h].next \in Nat
    BY <1>3 DEF FinishCreate, TypeOK, Edit
  <2>2. NoEdit \in Edit
    BY DEF NoEdit, Edit
  <2>3. QED
    BY <1>3, <2>1, <2>2 DEF FinishCreate, TypeOK, NoEdit
<1>4. CASE FinishUpdate(h)
  <2>1. edit[h].on \in Schedule /\ edit[h].cron \in Period \cup {0} /\ edit[h].next \in Nat
    BY <1>4 DEF FinishUpdate, TypeOK, Edit
  <2>2. NoEdit \in Edit
    BY DEF NoEdit, Edit
  <2>3. /\ enabled' \in [Schedule -> BOOLEAN]
        /\ cron' \in [Schedule -> Period \cup {0}]
        /\ next' \in [Schedule -> Nat]
    <3>1. /\ enabled \in [Schedule -> BOOLEAN]
          /\ cron \in [Schedule -> Period \cup {0}]
          /\ next \in [Schedule -> Nat]
      BY DEF TypeOK
    <3>2. enabled' \in [Schedule -> BOOLEAN]
      BY <1>4, <2>1, <3>1 DEF FinishUpdate
    <3>3. cron' \in [Schedule -> Period \cup {0}]
      BY <1>4, <2>1, <3>1 DEF FinishUpdate
    <3>4. next' \in [Schedule -> Nat]
      BY <1>4, <2>1, <3>1 DEF FinishUpdate
    <3>5. QED
      BY <3>2, <3>3, <3>4
  <2>4. \A s \in Schedule : exists'[s] = "live" => cron'[s] \in Period
    BY <1>4, <2>1 DEF FinishUpdate, TypeOK
  <2>5. QED
    BY <1>4, <2>2, <2>3, <2>4 DEF FinishUpdate, TypeOK, NoEdit
<1>5. QED
  BY <1>1, <1>2, <1>3, <1>4 DEF Ask, Serve

(* Every variable keeps its type. *)
THEOREM TypeCorrect == Spec => []TypeOK
<1>1. TypeOK /\ [Next]_vars => TypeOK'
  <2> SUFFICES ASSUME TypeOK, [Next]_vars
               PROVE  TypeOK'
    OBVIOUS
  <2>1. CASE Tick
    BY <2>1 DEF Tick, TypeOK, rowVars, runnerVars
  <2>2. ASSUME NEW s \in Schedule, DeleteSchedule(s)
        PROVE  TypeOK'
    BY <2>2 DEF DeleteSchedule, TypeOK, runnerVars
  <2>3. CASE UNCHANGED vars
    BY <2>3 DEF TypeOK, vars, rowVars, runnerVars
  <2>4. QED
    BY <2>1, <2>2, <2>3, RunType, RequestType DEF Next
<1>2. QED
  BY <1>1, InitType, PTL DEF Spec

(* What makes LastRunIsDispatched inductive: a runner that reached the     *)
(* update has published the job of its run time.                           *)
RecordsAfterDispatch ==
  \A r \in Runner : stage[r] = "record" => at[r] \in sent[cur[r].id]

(* Published jobs are not forgotten. *)
LEMMA SentGrows ==
  ASSUME TypeOK, [Next]_vars, NEW s \in Schedule
  PROVE  sent[s] \subseteq sent'[s]
<1> USE DEF rowVars, runnerVars
<1>1. ASSUME NEW r \in Runner, Sent(r)
      PROVE  sent[s] \subseteq sent'[s]
  BY <1>1 DEF Sent, TypeOK
<1>2. ASSUME NEW r \in Runner, Run(r) \/ Break(r)
      PROVE  sent' = sent \/ Sent(r)
  BY <1>2
  DEF Run, Break, Begin, InsertJob, InsertFails, Dispatch, DispatchRaises, Record,
      RecordFails, End, OtherTask, Recycle, LoseDatabase, Crash
<1>3. ASSUME NEW h \in Handler, Ask(h) \/ Serve(h)
      PROVE  sent' = sent
  BY <1>3 DEF Ask, Serve, BeginCreate, BeginUpdate, Enter, FinishCreate, FinishUpdate
<1>4. QED
  BY <1>1, <1>2, <1>3 DEF Next, Tick, DeleteSchedule, vars

LEMMA RecordsAfterDispatchStep ==
  ASSUME TypeOK, RecordsAfterDispatch, [Next]_vars
  PROVE  RecordsAfterDispatch'
<1> SUFFICES ASSUME NEW r \in Runner, stage'[r] = "record"
             PROVE  at'[r] \in sent'[cur'[r].id]
  BY DEF RecordsAfterDispatch
<1>1. CASE Dispatch(r)
  <2>1. cur[r].id \in Schedule /\ at' = at /\ cur' = cur
    BY <1>1 DEF Dispatch, TypeOK, Copy
  <2>2. QED
    BY <1>1, <2>1 DEF Dispatch, Sent, TypeOK
<1>2. CASE ~Dispatch(r)
  <2>1. /\ stage[r] = "record"
        /\ at'[r] = at[r] /\ cur'[r] = cur[r]
    BY <1>2
    DEF Next, Tick, DeleteSchedule, Run, Break, Begin, InsertJob, InsertFails, Dispatch,
        DispatchRaises, Record, RecordFails, End, OtherTask, Recycle, LoseDatabase,
        Crash, Stop, NextRow, Ask, Serve, BeginCreate, BeginUpdate, Enter, FinishCreate,
        FinishUpdate, TypeOK, vars, runnerVars
  <2>2. cur[r].id \in Schedule
    BY <2>1 DEF TypeOK, Copy
  <2>3. QED
    BY <2>1, <2>2, SentGrows DEF RecordsAfterDispatch
<1>3. QED
  BY <1>1, <1>2

(* A step changes last_run only to the time of a job that was published.   *)
LEMMA LastRunStep ==
  ASSUME TypeOK, RecordsAfterDispatch, LastRunIsDispatched, [Next]_vars
  PROVE  LastRunIsDispatched'
<1> SUFFICES ASSUME NEW s \in Schedule, last'[s] # 0
             PROVE  last'[s] \in sent'[s]
  BY DEF LastRunIsDispatched
<1>1. CASE last'[s] = last[s]
  BY <1>1, SentGrows DEF LastRunIsDispatched
<1>2. CASE last'[s] # last[s]
  <2>1. PICK r \in Runner : Record(r)
    BY <1>2
    DEF Next, Tick, DeleteSchedule, Run, Break, Begin, InsertJob, InsertFails, Dispatch,
        DispatchRaises, RecordFails, End, OtherTask, Recycle, LoseDatabase, Crash, Ask,
        Serve, BeginCreate, BeginUpdate, Enter, FinishCreate, FinishUpdate, vars,
        rowVars
  <2>2. cur[r].id = s /\ last'[s] = at[r]
    BY <1>2, <2>1 DEF Record, TypeOK
  <2>3. QED
    BY <2>1, <2>2, SentGrows DEF RecordsAfterDispatch, Record
<1>3. QED
  BY <1>1, <1>2

(* last_run is always a time for which a job was published.                *)
THEOREM LastRunHappened == Spec => []LastRunIsDispatched
<1>1. Init => RecordsAfterDispatch /\ LastRunIsDispatched
  BY DEF Init, RecordsAfterDispatch, LastRunIsDispatched
<1>2. /\ TypeOK /\ RecordsAfterDispatch /\ LastRunIsDispatched
      /\ [Next]_vars
      => RecordsAfterDispatch' /\ LastRunIsDispatched'
  BY RecordsAfterDispatchStep, LastRunStep
<1>3. QED
  BY <1>1, <1>2, TypeCorrect, PTL DEF Spec

(* Once a schedule is disabled or deleted and no runner holds it, none     *)
(* takes it up and none publishes a job of it until it is enabled again.   *)
THEOREM DisabledIsQuiet == Spec => DisabledStaysQuiet
<1> DEFINE Quiet(s) == ~(Live(s) /\ enabled[s]) /\ ~InHand(s)
<1>1. ASSUME TypeOK, [Next]_vars, NEW s \in Schedule, Quiet(s)
      PROVE  ~InHand(s)' /\ sent'[s] = sent[s]
  <2> USE DEF rowVars, runnerVars
  <2>0. cur \in [Runner -> Copy \cup {NoCopy}] /\ todo \in [Runner -> SUBSET Copy]
    BY <1>1 DEF TypeOK
  <2>1. s # None /\ NoCopy.id # s
    BY ScanSchedulesAssumption DEF NoCopy
  <2>2. \A r \in Runner : cur[r].id # s /\ \A c \in todo[r] : c.id # s
    BY <1>1 DEF InHand
  <2>3. ASSUME NEW r \in Runner, NEW q \in Runner, Run(q) \/ Break(q)
        PROVE  /\ cur'[r].id # s
               /\ \A c \in todo'[r] : c.id # s
    <3>1. CASE Begin(q)
      <4>1. /\ cur' = cur
            /\ todo' = [todo EXCEPT ![q] =
                 {[id |-> x, cron |-> cron[x]] : x \in {y \in Schedule : Due(y)}}]
        BY <3>1 DEF Begin
      <4>2. ~Due(s)
        BY <1>1 DEF Due
      <4>3. QED
        BY <2>0, <2>2, <4>1, <4>2
    <3>2. ASSUME NEW c \in Copy, InsertJob(q, c) \/ InsertFails(q, c)
          PROVE  /\ cur'[r].id # s
                 /\ \A d \in todo'[r] : d.id # s
      <4>1. c \in todo[q] /\ c.id # s
        BY <2>2, <3>2 DEF InsertJob, InsertFails
      <4>2. cur'[r] = cur[r] \/ cur'[r] = c
        BY <2>0, <3>2 DEF InsertJob, InsertFails
      <4>3. todo'[r] \subseteq todo[r]
        BY <2>0, <3>2 DEF InsertJob, InsertFails
      <4>4. QED
        BY <2>2, <4>1, <4>2, <4>3
    <3>3. CASE Dispatch(q)
      BY <2>2, <3>3 DEF Dispatch
    <3>4. CASE DispatchRaises(q) \/ Record(q) \/ RecordFails(q)
      <4>1. NextRow(q)
        BY <3>4 DEF DispatchRaises, Record, RecordFails
      <4>2. cur'[r] = cur[r] \/ cur'[r] = NoCopy
        BY <2>0, <4>1 DEF NextRow
      <4>3. QED
        BY <2>1, <2>2, <4>1, <4>2 DEF NextRow
    <3>5. CASE End(q) \/ LoseDatabase(q) \/ Crash(q)
      <4>1. Stop(q)
        BY <3>5 DEF End, LoseDatabase, Crash
      <4>2. cur'[r] = cur[r] \/ cur'[r] = NoCopy
        BY <2>0, <4>1 DEF Stop
      <4>3. todo'[r] \subseteq todo[r]
        BY <2>0, <4>1 DEF Stop
      <4>4. QED
        BY <2>1, <2>2, <4>2, <4>3
    <3>6. CASE OtherTask(q) \/ Recycle(q)
      BY <2>2, <3>6 DEF OtherTask, Recycle
    <3>7. QED
      BY <2>3, <3>1, <3>2, <3>3, <3>4, <3>5, <3>6 DEF Run, Break
  <2>4. ASSUME NEW h \in Handler, Ask(h) \/ Serve(h)
        PROVE  UNCHANGED <<cur, todo, sent>>
    BY <2>4 DEF Ask, Serve, BeginCreate, BeginUpdate, Enter, FinishCreate, FinishUpdate
  <2>5. ~InHand(s)'
    BY <1>1, <2>2, <2>3, <2>4 DEF InHand, Next, Tick, DeleteSchedule, vars
  <2>6. ASSUME NEW r \in Runner, Run(r) \/ Break(r)
        PROVE  sent'[s] = sent[s]
    <3>1. sent' = sent \/ Sent(r)
      BY <2>6
      DEF Run, Break, Begin, InsertJob, InsertFails, Dispatch, DispatchRaises, Record,
          RecordFails, End, OtherTask, Recycle, LoseDatabase, Crash
    <3>2. QED
      BY <1>1, <2>2, <3>1 DEF Sent, TypeOK
  <2>7. sent'[s] = sent[s]
    BY <1>1, <2>4, <2>6 DEF Next, Tick, DeleteSchedule, vars
  <2>8. QED
    BY <2>5, <2>7
<1>2. TypeOK /\ [Next]_vars => [\A s \in Schedule :
         ~(Live(s) /\ enabled[s]) /\ ~InHand(s)
           => ~InHand(s)' /\ sent'[s] = sent[s]]_vars
  BY <1>1
<1>3. QED
  BY <1>2, TypeCorrect, PTL DEF Spec, DisabledStaysQuiet

(* A next run that is after a slot was computed at that slot or later. *)
LEMMA SlotReached ==
  ASSUME NEW c \in Nat \ {0}, NEW t \in Nat, NEW n \in Nat,
         n % c = 0, NextSlot(c, t) > n
  PROVE  t >= n
<1> DEFINE q == t \div c
           m == n \div c
<1>1. q \in Nat /\ c * q <= t
  OBVIOUS
<1>2. m \in Nat /\ n = c * m
  OBVIOUS
<1>3. c * (q + 1) > c * m
  BY <1>2 DEF NextSlot
<1> HIDE DEF q, m
<1>4. q + 1 > m
  <2> SUFFICES ASSUME q + 1 <= m
               PROVE  FALSE
    BY <1>1, <1>2
  <2>1. c * (q + 1) <= c * m
    BY <1>1, <1>2
  <2>2. QED
    BY <1>1, <1>2, <1>3, <2>1
<1>5. c * q >= c * m
  BY <1>1, <1>2, <1>4
<1>6. QED
  BY <1>1, <1>2, <1>5

(* Apart from requests, which answer, only a runner's update moves a       *)
(* schedule's next_run.                                                    *)
LEMMA OnlyRecordMoves ==
  ASSUME TypeOK, [Next]_vars, edit' = edit, NEW s \in Schedule, next'[s] # next[s]
  PROVE  \E r \in Runner : /\ Record(r)
                           /\ cur[r].id = s
                           /\ next'[s] = NextSlot(cur[r].cron, at[r])
<1> USE DEF rowVars, runnerVars
<1>1. ASSUME NEW h \in Handler, Serve(h)
      PROVE  FALSE
  <2>1. edit[h].op # "idle" /\ edit' = [edit EXCEPT ![h] = NoEdit]
    BY <1>1 DEF Serve, FinishCreate, FinishUpdate
  <2>2. edit'[h] = NoEdit
    BY <2>1 DEF TypeOK
  <2>3. QED
    BY <2>1, <2>2 DEF NoEdit
<1>2. ASSUME NEW h \in Handler, Ask(h)
      PROVE  FALSE
  BY <1>2 DEF Ask, BeginCreate, BeginUpdate, Enter
<1>3. PICK r \in Runner : Record(r)
  BY <1>1, <1>2
  DEF Next, Tick, DeleteSchedule, Run, Break, Begin, InsertJob, InsertFails, Dispatch,
      DispatchRaises, RecordFails, End, OtherTask, Recycle, LoseDatabase, Crash, vars
<1>4. cur[r].id = s /\ next'[s] = NextSlot(cur[r].cron, at[r])
  BY <1>3 DEF Record, TypeOK
<1>5. QED
  BY <1>3, <1>4

(* A due next_run is moved past a slot of its expression only by a runner  *)
(* that has published a job at that slot or after it.                      *)
THEOREM SlotsAreRun == Spec => NoSlotSkipped
<1>1. Init => RecordsAfterDispatch
  BY DEF Init, RecordsAfterDispatch
<1>2. ASSUME TypeOK, RecordsAfterDispatch, [Next]_vars, NEW s \in Schedule,
             Due(s), next[s] % cron[s] = 0, CopiesAreCurrent(s), edit' = edit
      PROVE  next'[s] <= next[s] \/ \E t \in sent[s] : t >= next[s]
  <2>1. next[s] \in Nat /\ cron[s] \in Nat \ {0}
    BY <1>2, ScanSchedulesAssumption DEF Due, Live, TypeOK
  <2>2. CASE next'[s] = next[s]
    BY <2>1, <2>2
  <2>3. CASE next'[s] # next[s]
    <3>1. PICK r \in Runner : /\ Record(r) /\ cur[r].id = s
                              /\ next'[s] = NextSlot(cur[r].cron, at[r])
      BY <1>2, <2>3, OnlyRecordMoves
    <3>2. cur[r].cron = cron[s] /\ at[r] \in sent[s] /\ at[r] \in Nat
      BY <1>2, <3>1 DEF CopiesAreCurrent, RecordsAfterDispatch, Record, TypeOK
    <3>3. next'[s] \in Nat
      BY <2>1, <3>1, <3>2, NextSlotIsAfter
    <3>4. next'[s] > next[s] => at[r] >= next[s]
      BY <1>2, <2>1, <3>1, <3>2, SlotReached
    <3>5. QED
      BY <2>1, <3>2, <3>3, <3>4
  <2>4. QED
    BY <2>2, <2>3
<1>3. TypeOK /\ RecordsAfterDispatch /\ [Next]_vars => RecordsAfterDispatch'
  BY RecordsAfterDispatchStep
<1>4. TypeOK /\ RecordsAfterDispatch /\ [Next]_vars => [\A s \in Schedule :
         Due(s) /\ next[s] % cron[s] = 0 /\ CopiesAreCurrent(s) /\ edit' = edit
           => next'[s] <= next[s] \/ \E t \in sent[s] : t >= next[s]]_vars
  BY <1>2
<1>5. QED
  BY <1>1, <1>3, <1>4, TypeCorrect, PTL DEF Spec, NoSlotSkipped
=============================================================================
