----------------------------- MODULE EventBuffer -----------------------------
(***************************************************************************)
(* The event buffer of services/aaa-monitor (buffer_manager.py), a single  *)
(* asyncio process: what happens between two awaits is one step.           *)
(*                                                                         *)
(* An event that is not dropped is put both in the buffer of its key and   *)
(* in a priority buffer.  Critical and high events are then written to     *)
(* Redis, and the key's buffer is flushed at once if it has a batch or is  *)
(* critical.  The flush timer, the back-pressure monitor and shutdown run  *)
(* flush_all, possibly at the same time: one batch of every key, then one  *)
(* of each priority.  After a restart the events that are still in Redis   *)
(* (a key expires after an hour) are added again and their keys deleted.   *)
(*                                                                         *)
(* The processors are external: whether one of them raises is only logged, *)
(* so a batch is handed over when they have all ended.  An event merged    *)
(* with an equal one of its batch is handed over with it.                  *)
(***************************************************************************)
EXTENDS Naturals, Sequences, FiniteSets, SequencesExt

CONSTANTS
  Event,        (* the events that the sources may offer, each once        *)
  Key,          (* the buffer keys "source:type:severity" in use           *)
  Keyings,      (* the ways the events may have keys, functions            *)
  SeverityOf,   (* the severity in each key                                *)
  Flusher,      (* tasks that may run flush_all at the same time           *)
  Recovery,     (* the task of _recover_persistent_buffers                 *)
  None,         (* no entry                                                *)
  MaxBuffer,    (* max_buffer_size                                         *)
  Batch,        (* batch_size                                              *)
  Backpressure, (* backpressure_threshold, in percent: 80 by default       *)
  LowDrop,      (* 85 in the code                                          *)
  InfoDrop,     (* 90 in the code                                          *)
  DropAt,       (* drop_threshold, in percent: 95 by default               *)
  Faults,       (* kinds of fault that may happen                          *)
  MaxFaults     (* bound on the number of faults                           *)

Severity == {"critical", "high", "medium", "low", "info"}
Level    == {"high", "medium", "low"}

(* "exit" is the end of the process, by a crash or by a shutdown; "redis"  *)
(* a Redis call that raises; "expiry" the end of the hour for which Redis  *)
(* keeps a key.                                                            *)
FaultKind == {"exit", "redis", "expiry"}

ASSUME EventBufferAssumption ==
  /\ Keyings \subseteq [Event -> Key]
  /\ SeverityOf \in [Key -> Severity]
  /\ Recovery \notin Event
  /\ Flusher \cap (Event \cup {Recovery}) = {}
  /\ MaxBuffer \in Nat \ {0}
  /\ Batch \in Nat \ {0}
  /\ {Backpressure, LowDrop, InfoDrop, DropAt} \subseteq Nat
  /\ MaxFaults \in Nat
  /\ Faults \subseteq FaultKind

VARIABLES
  keyOf,    (* the key of each event, which nothing changes                *)
  run,      (* how many times it was started                               *)
  offered,  (* events that a source has offered                            *)
  known,    (* the keys of event_buffers                                   *)
  buffer,   (* event_buffers                                               *)
  priority, (* high_, medium_ and low_priority_buffer                      *)
  adding,   (* the calls of add_event in progress, one by source event and *)
            (* one of the recovery                                         *)
  flushing, (* the calls of flush_all in progress                          *)
  batches,  (* batches with the processors                                 *)
  recovery, (* what the recovery does                                      *)
  found,    (* keys it found and has not reached                           *)
  kept,     (* events with a critical_event:<id> key in Redis              *)
  acked,    (* events for which a source's add_event returned True         *)
  handed,   (* pairs of a route and an entry that the processors were given*)
  released, (* pairs of an event whose key the recovery deleted and the run*)
  hurt,     (* events for which a Redis call failed                        *)
  expired,  (* events whose key expired                                    *)
  faults    (* faults so far                                               *)

memory  == <<known, buffer, priority, adding, flushing, batches, recovery, found>>
history == <<acked, handed, released, hurt, expired>>
vars    == <<keyOf, run, offered, memory, kept, history, faults>>

(* An event in memory, offered by a source (run 0) or recovered in a run.  *)
Entry  == [ev : Event, run : 0 .. MaxFaults + 1]
Adder  == Event \cup {Recovery}
Route  == {"key", "priority"}

Add    == [at : {"idle", "persist", "flush", "delete"}, on : Entry \cup {None}]
NoAdd  == [at |-> "idle", on |-> None]
Flush  == [at : {"idle", "keys"} \cup Level, todo : SUBSET Key]
NoFlush == [at |-> "idle", todo |-> {}]
BatchOf == [by : Adder \cup Flusher, route : Route, entries : Seq(Entry)]

TypeOK ==
  /\ keyOf \in Keyings
  /\ run \in 1 .. faults + 1
  /\ offered \subseteq Event
  /\ known \subseteq Key
  /\ buffer \in [Key -> Seq(Entry)]
  /\ priority \in [Level -> Seq(Entry)]
  /\ adding \in [Adder -> Add]
  /\ \A a \in Adder : adding[a].at # "idle" => adding[a].on \in Entry
  /\ flushing \in [Flusher -> Flush]
  /\ batches \subseteq BatchOf
  /\ recovery \in {"starting", "running", "done"}
  /\ found \subseteq Event
  /\ kept \subseteq Event
  /\ acked \subseteq Event
  /\ handed \subseteq Route \X Entry
  /\ released \subseteq Event \X (1 .. run)
  /\ hurt \subseteq Event
  /\ expired \subseteq Event
  /\ faults \in 0 .. MaxFaults

Empty ==
  /\ known' = {}
  /\ buffer' = [k \in Key |-> <<>>]
  /\ priority' = [l \in Level |-> <<>>]
  /\ adding' = [a \in Adder |-> NoAdd]
  /\ flushing' = [f \in Flusher |-> NoFlush]
  /\ batches' = {}
  /\ recovery' = "starting"
  /\ found' = {}

Init ==
  /\ keyOf \in Keyings
  /\ run = 1
  /\ offered = {}
  /\ known = {}
  /\ buffer = [k \in Key |-> <<>>]
  /\ priority = [l \in Level |-> <<>>]
  /\ adding = [a \in Adder |-> NoAdd]
  /\ flushing = [f \in Flusher |-> NoFlush]
  /\ batches = {}
  /\ recovery = "starting"
  /\ found = {}
  /\ kept = {}
  /\ acked = {}
  /\ handed = {}
  /\ released = {}
  /\ hurt = {}
  /\ expired = {}
  /\ faults = 0

Fault(kind) ==
  /\ kind \in Faults
  /\ faults < MaxFaults
  /\ faults' = faults + 1

-----------------------------------------------------------------------------
(* Severities, back-pressure and batches *)

SeverityOfEvent(e) == SeverityOf[keyOf[e]]

LevelOf(e) ==
  CASE SeverityOfEvent(e) \in {"critical", "high"} -> "high"
    [] SeverityOfEvent(e) = "medium"               -> "medium"
    [] OTHER                                       -> "low"

Persisted(e) == SeverityOfEvent(e) \in {"critical", "high"}

(* The places that are taken in the buffers of some keys. *)
Places(keys) == UNION {{k} \X DOMAIN buffer[k] : k \in keys}

Buffered == Cardinality(Places(known))

Capacity == MaxBuffer * (IF known = {} THEN 1 ELSE Cardinality(known))

(* utilization >= p / 100 *)
AtLeast(p) == 100 * Buffered >= p * Capacity
Above(p)   == 100 * Buffered > p * Capacity

(* Variant: the limit itself does not drop, only what is above it. *)
DropsAbove(e) ==
  /\ SeverityOfEvent(e) # "critical"
  /\ Above(DropAt)

(* Variant: critical events are no exception. *)
DropsAny(e) ==
  \/ AtLeast(DropAt)
  \/ /\ AtLeast(Backpressure)
     /\ \/ SeverityOfEvent(e) = "low" /\ Above(LowDrop)
        \/ SeverityOfEvent(e) = "info" /\ Above(InfoDrop)

(* _should_drop_event *)
Drops(e) ==
  /\ SeverityOfEvent(e) # "critical"
  /\ \/ AtLeast(DropAt)
     \/ /\ AtLeast(Backpressure)
        /\ \/ SeverityOfEvent(e) = "low" /\ Above(LowDrop)
           \/ SeverityOfEvent(e) = "info" /\ Above(InfoDrop)

Front1(s) == SubSeq(s, 1, IF Len(s) < Batch THEN Len(s) ELSE Batch)
Rest(s)   == SubSeq(s, (IF Len(s) < Batch THEN Len(s) ELSE Batch) + 1, Len(s))

(* Variant: the batch is removed when the processors have ended. *)
PopKeyLate(by, k, buf) ==
  /\ buffer' = buf
  /\ batches' = batches \cup {[by |-> by, route |-> "key", entries |-> Front1(buf[k])]}

(* A batch leaves the buffer of a key; the processors have it now. *)
PopKey(by, k, buf) ==
  /\ buffer' = [buf EXCEPT ![k] = Rest(@)]
  /\ batches' = batches \cup {[by |-> by, route |-> "key", entries |-> Front1(buf[k])]}

Busy(by) == \E b \in batches : b.by = by

-----------------------------------------------------------------------------
(* add_event *)

(* Variant: the recovery forgets what it has added. *)
ReturnForgets(a, en) ==
  IF a = Recovery
  THEN adding' = [adding EXCEPT ![a] = [at |-> "delete", on |-> None]] /\ UNCHANGED acked
  ELSE adding' = [adding EXCEPT ![a] = NoAdd] /\ acked' = acked \cup {en.ev}

(* add_event returns: its source has its answer, the recovery goes on to   *)
(* delete the key.                                                         *)
Return(a, en) ==
  IF a = Recovery
  THEN adding' = [adding EXCEPT ![a] = [at |-> "delete", on |-> en]] /\ UNCHANGED acked
  ELSE adding' = [adding EXCEPT ![a] = NoAdd] /\ acked' = acked \cup {en.ev}

(* _should_immediate_flush *)
ImmediateFlush(k, buf) ==
  \/ Len(buf[k]) >= Batch
  \/ SeverityOf[k] = "critical" /\ buf[k] # <<>>

(* The end of add_event, from the check for an immediate flush on. *)
FlushOrReturn(a, en, buf) ==
  LET k == keyOf[en.ev] IN
  IF ImmediateFlush(k, buf)
  THEN /\ PopKey(a, k, buf)
       /\ adding' = [adding EXCEPT ![a] = [at |-> "flush", on |-> en]]
       /\ UNCHANGED acked
  ELSE /\ buffer' = buf
       /\ Return(a, en)
       /\ UNCHANGED batches

(* Up to the first await: the event is put in both of its buffers, after   *)
(* which it may have to be written to Redis.                               *)
Append2(a, en) ==
  LET e == en.ev
      buf == [buffer EXCEPT ![keyOf[e]] = Append(@, en)]
  IN
  /\ known' = known \cup {keyOf[e]}
  /\ priority' = [priority EXCEPT ![LevelOf(e)] = Append(@, en)]
  /\ IF Persisted(e)
     THEN /\ buffer' = buf
          /\ adding' = [adding EXCEPT ![a] = [at |-> "persist", on |-> en]]
          /\ UNCHANGED <<batches, acked>>
     ELSE FlushOrReturn(a, en, buf)

Source(e) == [ev |-> e, run |-> 0]

(* A source offers an event. *)
Offer(e) ==
  /\ e \notin offered
  /\ offered' = offered \cup {e}
  /\ IF Drops(e)
     THEN UNCHANGED <<known, buffer, priority, adding, batches, acked>>
     ELSE Append2(e, Source(e))
  /\ UNCHANGED <<keyOf, run, flushing, recovery, found, kept, handed, released, hurt,
                 expired, faults>>

(* setex *)
Persist(a) ==
  LET en == adding[a].on IN
  /\ adding[a].at = "persist"
  /\ kept' = kept \cup {en.ev}
  /\ FlushOrReturn(a, en, buffer)
  /\ UNCHANGED <<keyOf, run, offered, known, priority, flushing, recovery, found,
                 handed, released, hurt, expired, faults>>

(* setex raises; _persist_critical_event logs it and add_event goes on.    *)
PersistFails(a) ==
  LET en == adding[a].on IN
  /\ adding[a].at = "persist"
  /\ Fault("redis")
  /\ hurt' = hurt \cup {en.ev}
  /\ FlushOrReturn(a, en, buffer)
  /\ UNCHANGED <<keyOf, run, offered, known, priority, flushing, recovery, found, kept,
                 handed, released, expired>>

(* The processors have ended, raising or not. *)
EndBatch(b) ==
  /\ b \in batches
  /\ batches' = batches \ {b}
  /\ handed' = handed \cup {b.route} \X ToSet(b.entries)
  /\ IF b.by \in Adder
     THEN Return(b.by, adding[b.by].on)
     ELSE UNCHANGED <<adding, acked>>
  /\ UNCHANGED <<keyOf, run, offered, known, buffer, priority, flushing, recovery, found,
                 kept, released, hurt, expired, faults>>

-----------------------------------------------------------------------------
(* flush_all: the flush timer, the monitor, shutdown *)

(* Variant: only a full batch is worth a flush. *)
BeginFlushFull(f) ==
  /\ flushing[f].at = "idle"
  /\ \E k \in known : Len(buffer[k]) >= Batch
  /\ flushing' = [flushing EXCEPT
       ![f] = [at |-> "keys", todo |-> {k \in known : buffer[k] # <<>>}]]
  /\ UNCHANGED <<keyOf, run, offered, known, buffer, priority, adding, batches, recovery,
                 found, kept, history, faults>>

(* A flush task for each buffer that has something; with nothing to flush  *)
(* nothing happens.                                                        *)
BeginFlush(f) ==
  /\ flushing[f].at = "idle"
  /\ (\E k \in known : buffer[k] # <<>>) \/ (\E l \in Level : priority[l] # <<>>)
  /\ flushing' = [flushing EXCEPT
       ![f] = [at |-> "keys", todo |-> {k \in known : buffer[k] # <<>>}]]
  /\ UNCHANGED <<keyOf, run, offered, known, buffer, priority, adding, batches, recovery,
                 found, kept, history, faults>>

(* One of them runs: the buffer may have been emptied meanwhile. *)
FlushKey(f, k) ==
  /\ k \in flushing[f].todo
  /\ flushing' = [flushing EXCEPT ![f].todo = @ \ {k}]
  /\ IF buffer[k] = <<>> THEN UNCHANGED <<buffer, batches>> ELSE PopKey(f, k, buffer)
  /\ UNCHANGED <<keyOf, run, offered, known, priority, adding, recovery, found, kept,
                 history, faults>>

Order == [keys |-> 0, high |-> 1, medium |-> 2, low |-> 3]

(* The priority buffers that _flush_priority_buffers has still to visit.   *)
Ahead(f) == {l \in Level : Order[l] > Order[flushing[f].at] /\ priority[l] # <<>>}

FlushDone(f) == flushing[f].at # "idle" /\ flushing[f].todo = {} /\ ~Busy(f)

(* The next priority buffer that has something: one batch of it. *)
FlushPriority(f, l) ==
  /\ FlushDone(f)
  /\ l \in Ahead(f)
  /\ \A other \in Ahead(f) : Order[l] <= Order[other]
  /\ flushing' = [flushing EXCEPT ![f].at = l]
  /\ priority' = [priority EXCEPT ![l] = Rest(@)]
  /\ batches' = batches \cup
       {[by |-> f, route |-> "priority", entries |-> Front1(priority[l])]}
  /\ UNCHANGED <<keyOf, run, offered, known, buffer, adding, recovery, found, kept,
                 history, faults>>

EndFlush(f) ==
  /\ FlushDone(f)
  /\ Ahead(f) = {}
  /\ flushing' = [flushing EXCEPT ![f] = NoFlush]
  /\ UNCHANGED <<keyOf, run, offered, known, buffer, priority, adding, batches, recovery,
                 found, kept, history, faults>>

-----------------------------------------------------------------------------
(* The end of the process, its restart, and recovery *)

(* The process crashes, or shutdown has run its flush_all; it is started   *)
(* again.  A source whose call is cut off has no answer.                   *)
Restart ==
  /\ Fault("exit")
  /\ run' = run + 1
  /\ Empty
  /\ UNCHANGED <<keyOf, offered, kept, history>>

(* keys("critical_event:*") *)
FindKeys ==
  /\ recovery = "starting"
  /\ recovery' = "running"
  /\ found' = kept
  /\ UNCHANGED <<keyOf, run, offered, known, buffer, priority, adding, flushing, batches,
                 kept, history, faults>>

(* keys raises: nothing is recovered before the next start. *)
FindKeysFails ==
  /\ recovery = "starting"
  /\ Fault("redis")
  /\ recovery' = "done"
  /\ hurt' = hurt \cup kept
  /\ UNCHANGED <<keyOf, run, offered, known, buffer, priority, adding, flushing, batches,
                 found, kept, acked, handed, released, expired>>

Recovered(e) == [ev |-> e, run |-> run]

(* get: the event is added as a source would, and if it is dropped the key *)
(* is deleted all the same.                                                *)
RecoverKey(e) ==
  /\ recovery = "running"
  /\ adding[Recovery] = NoAdd
  /\ e \in found
  /\ found' = found \ {e}
  /\ CASE e \notin kept ->
            UNCHANGED <<known, buffer, priority, adding, batches, acked>>
       [] e \in kept /\ Drops(e) ->
            /\ adding' = [adding EXCEPT ![Recovery] = [at |-> "delete", on |-> Recovered(e)]]
            /\ UNCHANGED <<known, buffer, priority, batches, acked>>
       [] e \in kept /\ ~Drops(e) -> Append2(Recovery, Recovered(e))
  /\ UNCHANGED <<keyOf, run, offered, flushing, recovery, kept, handed, released, hurt,
                 expired, faults>>

(* get raises: this key is left for the next start. *)
RecoverFails(e) ==
  /\ recovery = "running"
  /\ adding[Recovery] = NoAdd
  /\ e \in found
  /\ Fault("redis")
  /\ found' = found \ {e}
  /\ hurt' = hurt \cup {e}
  /\ UNCHANGED <<keyOf, run, offered, known, buffer, priority, adding, flushing, batches,
                 recovery, kept, acked, handed, released, expired>>

(* delete *)
DeleteKey ==
  LET e == adding[Recovery].on.ev IN
  /\ adding[Recovery].at = "delete"
  /\ adding' = [adding EXCEPT ![Recovery] = NoAdd]
  /\ kept' = kept \ {e}
  /\ released' = released \cup {<<e, run>>}
  /\ UNCHANGED <<keyOf, run, offered, known, buffer, priority, flushing, batches, recovery,
                 found, acked, handed, hurt, expired, faults>>

(* delete raises: the event will be recovered once more. *)
DeleteFails ==
  /\ adding[Recovery].at = "delete"
  /\ Fault("redis")
  /\ adding' = [adding EXCEPT ![Recovery] = NoAdd]
  /\ hurt' = hurt \cup {adding[Recovery].on.ev}
  /\ UNCHANGED <<keyOf, run, offered, known, buffer, priority, flushing, batches, recovery,
                 found, kept, acked, handed, released, expired>>

EndRecovery ==
  /\ recovery = "running"
  /\ adding[Recovery] = NoAdd
  /\ found = {}
  /\ recovery' = "done"
  /\ UNCHANGED <<keyOf, run, offered, known, buffer, priority, adding, flushing, batches,
                 found, kept, history, faults>>

(* The key of an event that was written an hour ago is gone. *)
Expire(e) ==
  /\ e \in kept
  /\ Fault("expiry")
  /\ kept' = kept \ {e}
  /\ expired' = expired \cup {e}
  /\ UNCHANGED <<keyOf, run, offered, memory, acked, handed, released, hurt>>

-----------------------------------------------------------------------------
AddStep == (\E a \in Adder : Persist(a)) \/ (\E b \in batches : EndBatch(b))

FlushStep(f) ==
  \/ BeginFlush(f)
  \/ \E k \in Key : FlushKey(f, k)
  \/ \E l \in Level : FlushPriority(f, l)
  \/ EndFlush(f)

RecoveryStep ==
  \/ FindKeys
  \/ \E e \in Event : RecoverKey(e)
  \/ DeleteKey
  \/ EndRecovery

Break ==
  \/ Restart
  \/ \E a \in Adder : PersistFails(a)
  \/ \E e \in Event : RecoverFails(e) \/ Expire(e)
  \/ FindKeysFails
  \/ DeleteFails

Next ==
  \/ \E e \in Event : Offer(e)
  \/ AddStep
  \/ \E f \in Flusher : FlushStep(f)
  \/ RecoveryStep
  \/ Break

Spec == Init /\ [][Next]_vars

(* The event loop runs every task that can go on, and the flush timer does *)
(* not end.                                                                *)
FairSpec ==
  /\ Spec
  /\ WF_vars(AddStep)
  /\ \A f \in Flusher : WF_vars(FlushStep(f))
  /\ WF_vars(RecoveryStep)

-----------------------------------------------------------------------------
(* Properties *)

Waiting(r) ==
  LET seqs == IF r = "key" THEN {buffer[k] : k \in Key} ELSE {priority[l] : l \in Level}
  IN UNION {ToSet(s) : s \in seqs \cup {b.entries : b \in {x \in batches : x.route = r}}}

Pending == UNION {{r} \X Waiting(r) : r \in Route}

(* Sources, flush_all twice at once, immediate flushes and the recovery    *)
(* share the buffers, and still each event that is taken in goes to the    *)
(* processors at most once by each of its routes and is forgotten only     *)
(* when the process ends: the buffer implements EventDelivery.             *)
Delivery == INSTANCE EventDelivery WITH pending <- Pending, handed <- handed
DeliverySpec == Delivery!Spec

Handed(e)   == \E p \in handed : p[2].ev = e
InMemory(e) == \E p \in Pending : p[2].ev = e
Secured(e)  == e \in kept \/ InMemory(e)

(* The recovery let e go: deleted its key on the word of add_event.  What  *)
(* it had added may since have been lost with the process; a high event    *)
(* may also have been dropped, a critical one never is.                    *)
LetGo(e) ==
  \E p \in released :
    p[1] = e /\ (SeverityOfEvent(e) = "critical" => p[2] < run)

(* Wherever the process crashes, and whatever runs at the same time, an    *)
(* event of critical or high severity for which add_event returned True is *)
(* in Redis, in memory or with the processors, unless Redis failed for it, *)
(* its hour is over or the recovery let it go.                             *)
OnlyRecoveryForgets ==
  \A e \in acked : Persisted(e) =>
    Secured(e) \/ Handed(e) \/ e \in hurt \cup expired \/ LetGo(e)

(* Back-pressure works though several calls run at once and batches leave  *)
(* and arrive: what can be dropped never exceeds the drop threshold by     *)
(* more than the one event that reached it.                                *)
BackpressureBounds ==
  100 * Cardinality(Places({k \in known : SeverityOf[k] # "critical"}))
    < DropAt * Capacity + 100

(* What is in memory or in Redis gets to the processors in the end, across *)
(* restarts too, or is lost as OnlyRecoveryForgets allows.                 *)
SecuredIsHanded ==
  \A e \in Event : Secured(e) ~> Handed(e) \/ ~Secured(e) \/ e \in hurt
=============================================================================
