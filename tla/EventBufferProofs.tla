-------------------------- MODULE EventBufferProofs --------------------------
(* Theorems about EventBuffer for any events, keys, severities, batch size, *)
(* number of flush_all calls and number of faults.                          *)
EXTENDS EventBuffer, SequenceTheorems, FiniteSetTheorems, TLAPS

(* What else is needed: a batch that a call of add_event waits for is the  *)
(* only one of that call, and an event that was not offered has no call.   *)
Owned ==
  /\ \A b \in batches : b.by \in Adder => adding[b.by].at = "flush"
  /\ \A b, c \in batches : b.by \in Adder /\ b.by = c.by => b = c
  /\ \A e \in Event : e \notin offered => adding[e].at = "idle"

(* Taking a batch from a buffer leaves two sequences of its entries. *)
LEMMA SplitType ==
  ASSUME NEW s \in Seq(Entry)
  PROVE  Front1(s) \in Seq(Entry) /\ Rest(s) \in Seq(Entry)
<1> DEFINE n == IF Len(s) < Batch THEN Len(s) ELSE Batch
<1>1. n \in Nat /\ n <= Len(s) /\ Len(s) \in Nat
  BY EventBufferAssumption
<1>2. SubSeq(s, 1, n) \in Seq(Entry)
  BY <1>1, SubSeqProperties
<1>3. SubSeq(s, n + 1, Len(s)) \in Seq(Entry)
  BY <1>1, SubSeqProperties
<1>4. QED
  BY <1>2, <1>3 DEF Front1, Rest

LEMMA PopKeyType ==
  ASSUME batches \subseteq BatchOf, NEW by \in Adder \cup Flusher, NEW k \in Key,
         NEW buf \in [Key -> Seq(Entry)], PopKey(by, k, buf)
  PROVE  buffer' \in [Key -> Seq(Entry)] /\ batches' \subseteq BatchOf
<1>1. Front1(buf[k]) \in Seq(Entry) /\ Rest(buf[k]) \in Seq(Entry)
  BY SplitType
<1>2. QED
  BY <1>1 DEF PopKey, BatchOf, Route

(* The parts of the type that add_event's operators write. *)
CallsOK ==
  /\ buffer \in [Key -> Seq(Entry)]
  /\ batches \subseteq BatchOf
  /\ adding \in [Adder -> Add]
  /\ \A a \in Adder : adding[a].at # "idle" => adding[a].on \in Entry
  /\ acked \subseteq Event

(* A call of add_event that moves on keeps the calls in their type. *)
LEMMA CallType ==
  ASSUME CallsOK, NEW a \in Adder, NEW c \in Add, c.at # "idle" => c.on \in Entry,
         adding' = [adding EXCEPT ![a] = c]
  PROVE  /\ adding' \in [Adder -> Add]
         /\ \A x \in Adder : adding'[x].at # "idle" => adding'[x].on \in Entry
<1>1. adding' \in [Adder -> Add]
  BY DEF CallsOK
<1>2. ASSUME NEW x \in Adder, adding'[x].at # "idle"
      PROVE  adding'[x].on \in Entry
  <2>1. CASE x = a
    <3>1. adding'[x] = c
      BY <2>1 DEF CallsOK
    <3>2. QED
      BY <1>2, <3>1
  <2>2. CASE x # a
    <3>1. adding'[x] = adding[x]
      BY <2>2 DEF CallsOK
    <3>2. QED
      BY <1>2, <3>1 DEF CallsOK
  <2>3. QED
    BY <2>1, <2>2
<1>3. QED
  BY <1>1, <1>2

LEMMA ReturnType ==
  ASSUME CallsOK, NEW a \in Adder, NEW en \in Entry, Return(a, en)
  PROVE  /\ adding' \in [Adder -> Add]
         /\ \A x \in Adder : adding'[x].at # "idle" => adding'[x].on \in Entry
         /\ acked' \subseteq Event
<1> DEFINE c == [at |-> "delete", on |-> en]
<1>1. NoAdd \in Add /\ NoAdd.at = "idle" /\ c \in Add /\ c.on \in Entry
  BY DEF NoAdd, Add
<1>2. acked' \subseteq Event
  BY DEF CallsOK, Return, Entry
<1>3. adding' = [adding EXCEPT ![a] = c] \/ adding' = [adding EXCEPT ![a] = NoAdd]
  BY DEF Return
<1> HIDE DEF c
<1>4. QED
  BY <1>1, <1>2, <1>3, CallType

LEMMA KeyType ==
  ASSUME TypeOK, NEW en \in Entry
  PROVE  en.ev \in Event /\ keyOf[en.ev] \in Key /\ LevelOf(en.ev) \in Level
BY EventBufferAssumption DEF TypeOK, Entry, LevelOf, Level

LEMMA FlushOrReturnType ==
  ASSUME TypeOK, NEW a \in Adder, NEW en \in Entry,
         NEW buf \in [Key -> Seq(Entry)], FlushOrReturn(a, en, buf)
  PROVE  CallsOK'
<1>1. CallsOK /\ keyOf[en.ev] \in Key
  BY KeyType DEF TypeOK, CallsOK
<1>2. CASE ImmediateFlush(keyOf[en.ev], buf)
  <2>1. buffer' \in [Key -> Seq(Entry)] /\ batches' \subseteq BatchOf
    BY <1>1, <1>2, PopKeyType DEF FlushOrReturn, CallsOK
  <2> DEFINE c == [at |-> "flush", on |-> en]
  <2>2. c \in Add /\ c.on \in Entry
    BY DEF Add
  <2>3. adding' = [adding EXCEPT ![a] = c] /\ acked' = acked
    BY <1>2 DEF FlushOrReturn
  <2> HIDE DEF c
  <2>4. QED
    BY <1>1, <2>1, <2>2, <2>3, CallType DEF CallsOK
<1>3. CASE ~ImmediateFlush(keyOf[en.ev], buf)
  <2>1. buffer' = buf /\ batches' = batches /\ Return(a, en)
    BY <1>3 DEF FlushOrReturn
  <2>2. QED
    BY <1>1, <2>1, ReturnType DEF CallsOK
<1>4. QED
  BY <1>2, <1>3

LEMMA Append2Type ==
  ASSUME TypeOK, NEW a \in Adder, NEW en \in Entry, Append2(a, en)
  PROVE  CallsOK' /\ known' \subseteq Key /\ priority' \in [Level -> Seq(Entry)]
<1> DEFINE buf == [buffer EXCEPT ![keyOf[en.ev]] = Append(@, en)]
<1>1. keyOf[en.ev] \in Key /\ LevelOf(en.ev) \in Level
  BY KeyType
<1>2. buf \in [Key -> Seq(Entry)]
  BY <1>1 DEF TypeOK
<1>3. known' \subseteq Key /\ priority' \in [Level -> Seq(Entry)]
  BY <1>1 DEF Append2, TypeOK
<1>4. CASE Persisted(en.ev)
  <2> DEFINE c == [at |-> "persist", on |-> en]
  <2>1. c \in Add /\ c.on \in Entry
    BY DEF Add
  <2>2. /\ buffer' = buf /\ adding' = [adding EXCEPT ![a] = c]
        /\ batches' = batches /\ acked' = acked
    BY <1>4 DEF Append2
  <2> HIDE DEF c, buf
  <2>3. CallsOK
    BY DEF TypeOK, CallsOK
  <2>4. QED
    BY <1>2, <1>3, <2>1, <2>2, <2>3, CallType DEF CallsOK
<1>5. CASE ~Persisted(en.ev)
  <2>1. FlushOrReturn(a, en, buf)
    BY <1>5 DEF Append2
  <2> HIDE DEF buf
  <2>2. QED
    BY <1>2, <1>3, <2>1, FlushOrReturnType
<1>6. QED
  BY <1>4, <1>5

LEMMA InitType == Init => TypeOK
BY EventBufferAssumption DEF Init, TypeOK, NoAdd, NoFlush, Add, Flush

(* add_event's steps keep every variable in its type. *)
LEMMA AddType ==
  ASSUME TypeOK, Owned,
         \/ \E e \in Event : Offer(e)
         \/ \E a \in Adder : Persist(a) \/ PersistFails(a)
         \/ \E b \in batches : EndBatch(b)
  PROVE  TypeOK'
<1> USE DEF memory, history
<1>1. ASSUME NEW e \in Event, Offer(e)
      PROVE  TypeOK'
  <2>1. Source(e) \in Entry /\ e \in Adder
    BY EventBufferAssumption DEF Source, Entry, Adder
  <2>2. CASE Drops(e)
    BY <1>1, <2>2 DEF Offer, TypeOK
  <2>3. CASE ~Drops(e)
    <3>1. Append2(e, Source(e))
      BY <1>1, <2>3 DEF Offer
    <3>2. CallsOK' /\ known' \subseteq Key /\ priority' \in [Level -> Seq(Entry)]
      BY <2>1, <3>1, Append2Type
    <3>3. QED
      BY <1>1, <3>2 DEF Offer, TypeOK, CallsOK
  <2>4. QED
    BY <2>2, <2>3
<1>2. ASSUME NEW a \in Adder, Persist(a) \/ PersistFails(a)
      PROVE  TypeOK'
  <2>1. adding[a].on \in Entry /\ adding[a].on.ev \in Event
    BY <1>2 DEF Persist, PersistFails, TypeOK, Entry
  <2>2. FlushOrReturn(a, adding[a].on, buffer)
    BY <1>2 DEF Persist, PersistFails
  <2>3. CallsOK'
    BY <2>1, <2>2, FlushOrReturnType DEF TypeOK
  <2>4. CASE Persist(a)
    BY SMTT(30), <2>1, <2>3, <2>4 DEF Persist, TypeOK, CallsOK
  <2>5. CASE PersistFails(a)
    BY SMTT(30), <2>1, <2>3, <2>5, EventBufferAssumption
    DEF PersistFails, Fault, TypeOK, CallsOK
  <2>6. QED
    BY <1>2, <2>4, <2>5
<1>3. ASSUME NEW b \in batches, EndBatch(b)
      PROVE  TypeOK'
  <2>1. b.by \in Adder \cup Flusher /\ b.route \in Route /\ b.entries \in Seq(Entry)
    BY DEF TypeOK, BatchOf
  <2>2. handed' \subseteq Route \X Entry
    BY <1>3, <2>1 DEF EndBatch, TypeOK, ToSet
  <2>3. batches' \subseteq BatchOf
    BY <1>3 DEF EndBatch, TypeOK
  <2>4. CASE b.by \in Adder
    <3>1. adding[b.by].on \in Entry /\ Return(b.by, adding[b.by].on) /\ CallsOK
      BY <1>3, <2>4 DEF EndBatch, TypeOK, CallsOK, Owned
    <3>2. /\ adding' \in [Adder -> Add]
          /\ \A x \in Adder : adding'[x].at # "idle" => adding'[x].on \in Entry
          /\ acked' \subseteq Event
      BY <2>4, <3>1, ReturnType
    <3>3. QED
      BY <1>3, <2>2, <2>3, <3>2 DEF EndBatch, TypeOK
  <2>5. CASE b.by \notin Adder
    BY <1>3, <2>2, <2>3, <2>5 DEF EndBatch, TypeOK
  <2>6. QED
    BY <2>4, <2>5
<1>4. QED
  BY <1>1, <1>2, <1>3

(* flush_all, the recovery and a restart keep every variable in its type. *)
LEMMA FlushType ==
  ASSUME TypeOK, NEW f \in Flusher, FlushStep(f)
  PROVE  TypeOK'
<1> USE DEF memory, history
<1>1. CASE BeginFlush(f)
  <2>1. [at |-> "keys", todo |-> {k \in known : buffer[k] # <<>>}] \in Flush
    BY DEF Flush, TypeOK
  <2>2. QED
    BY <1>1, <2>1 DEF BeginFlush, TypeOK
<1>2. ASSUME NEW k \in Key, FlushKey(f, k)
      PROVE  TypeOK'
  <2>1. flushing' \in [Flusher -> Flush]
    BY <1>2 DEF FlushKey, TypeOK, Flush
  <2>2. buffer' \in [Key -> Seq(Entry)] /\ batches' \subseteq BatchOf
    BY <1>2, PopKeyType DEF FlushKey, TypeOK
  <2>3. QED
    BY <1>2, <2>1, <2>2 DEF FlushKey, TypeOK
<1>3. ASSUME NEW l \in Level, FlushPriority(f, l)
      PROVE  TypeOK'
  <2>1. flushing' \in [Flusher -> Flush]
    BY <1>3 DEF FlushPriority, TypeOK, Flush
  <2>2. Front1(priority[l]) \in Seq(Entry) /\ Rest(priority[l]) \in Seq(Entry)
    BY SplitType DEF TypeOK
  <2>3. [by |-> f, route |-> "priority", entries |-> Front1(priority[l])] \in BatchOf
    BY <2>2 DEF BatchOf, Route
  <2>4. priority' \in [Level -> Seq(Entry)] /\ batches' \subseteq BatchOf
    BY <1>3, <2>2, <2>3 DEF FlushPriority, TypeOK
  <2>5. QED
    BY <1>3, <2>1, <2>4 DEF FlushPriority, TypeOK
<1>4. CASE EndFlush(f)
  <2>1. NoFlush \in Flush
    BY DEF NoFlush, Flush
  <2>2. QED
    BY <1>4, <2>1 DEF EndFlush, TypeOK
<1>5. QED
  BY <1>1, <1>2, <1>3, <1>4 DEF FlushStep

LEMMA RecoverKeyType ==
  ASSUME TypeOK, NEW e \in Event, RecoverKey(e)
  PROVE  TypeOK'
<1> DEFINE c == [at |-> "delete", on |-> Recovered(e)]
<1>1. Recovered(e) \in Entry /\ Recovery \in Adder /\ CallsOK
  <2>1. run \in 0 .. MaxFaults + 1
    BY EventBufferAssumption DEF TypeOK
  <2>2. QED
    BY <2>1 DEF TypeOK, Recovered, Entry, Adder, CallsOK
<1>2. c \in Add /\ c.on \in Entry
  BY <1>1 DEF Add
<1>3. CASE e \notin kept
  BY <1>3 DEF RecoverKey, TypeOK
<1>4. CASE e \in kept /\ Drops(e)
  <2>1. adding' = [adding EXCEPT ![Recovery] = c]
    BY <1>4 DEF RecoverKey
  <2> HIDE DEF c
  <2>2. /\ adding' \in [Adder -> Add]
        /\ \A x \in Adder : adding'[x].at # "idle" => adding'[x].on \in Entry
    BY <1>1, <1>2, <2>1, CallType
  <2>3. QED
    BY <1>4, <2>2 DEF RecoverKey, TypeOK
<1>5. CASE e \in kept /\ ~Drops(e)
  <2>1. Append2(Recovery, Recovered(e))
    BY <1>5 DEF RecoverKey
  <2>2. CallsOK' /\ known' \subseteq Key /\ priority' \in [Level -> Seq(Entry)]
    BY <1>1, <2>1, Append2Type
  <2>3. QED
    BY <2>2 DEF RecoverKey, TypeOK, CallsOK
<1>6. QED
  BY <1>3, <1>4, <1>5

LEMMA RecoveryType ==
  ASSUME TypeOK,
         RecoveryStep \/ Restart \/ DeleteFails \/ FindKeysFails
           \/ \E e \in Event : RecoverFails(e) \/ Expire(e)
  PROVE  TypeOK'
<1> USE DEF memory, history
<1>1. CASE FindKeys \/ FindKeysFails \/ EndRecovery
  BY <1>1, EventBufferAssumption DEF FindKeys, FindKeysFails, EndRecovery, Fault, TypeOK
<1>2. ASSUME NEW e \in Event, RecoverFails(e) \/ Expire(e)
      PROVE  TypeOK'
  BY <1>2, EventBufferAssumption DEF RecoverFails, Expire, Fault, TypeOK
<1>3. CASE DeleteKey \/ DeleteFails
  <2>1. adding[Recovery].on.ev \in Event /\ NoAdd \in Add /\ NoAdd.at = "idle" /\ CallsOK
    BY <1>3 DEF DeleteKey, DeleteFails, TypeOK, Adder, Entry, NoAdd, Add, CallsOK
  <2>2. adding' = [adding EXCEPT ![Recovery] = NoAdd] /\ Recovery \in Adder
    BY <1>3 DEF DeleteKey, DeleteFails, Adder
  <2>3. /\ adding' \in [Adder -> Add]
        /\ \A x \in Adder : adding'[x].at # "idle" => adding'[x].on \in Entry
    BY <2>1, <2>2, CallType
  <2>4. CASE DeleteKey
    <3>1. run \in 1 .. run
      BY EventBufferAssumption DEF TypeOK
    <3>2. released' \subseteq Event \X (1 .. run)
      BY <2>1, <2>4, <3>1 DEF DeleteKey, TypeOK
    <3>3. QED
      BY SMTT(30), <2>1, <2>3, <2>4, <3>2 DEF DeleteKey, TypeOK
  <2>5. CASE DeleteFails
    BY SMTT(30), <2>1, <2>3, <2>5, EventBufferAssumption DEF DeleteFails, Fault, TypeOK
  <2>6. QED
    BY <1>3, <2>4, <2>5
<1>4. CASE Restart
  <2>1. Empty /\ run' = run + 1 /\ Fault("exit")
        /\ UNCHANGED <<keyOf, offered, kept, acked, handed, released, hurt, expired>>
    BY <1>4 DEF Restart
  <2>2. known' \subseteq Key /\ buffer' \in [Key -> Seq(Entry)]
        /\ priority' \in [Level -> Seq(Entry)]
    <3>1. <<>> \in Seq(Entry)
      OBVIOUS
    <3>2. QED
      BY <2>1, <3>1 DEF Empty
  <2>3. adding' \in [Adder -> Add]
        /\ \A a \in Adder : adding'[a].at # "idle" => adding'[a].on \in Entry
    <3>1. NoAdd \in Add /\ NoAdd.at = "idle"
      BY DEF NoAdd, Add
    <3>2. QED
      BY <2>1, <3>1 DEF Empty
  <2>4. flushing' \in [Flusher -> Flush]
    <3>1. NoFlush \in Flush
      BY DEF NoFlush, Flush
    <3>2. QED
      BY <2>1, <3>1 DEF Empty
  <2>5. batches' \subseteq BatchOf /\ found' \subseteq Event
        /\ recovery' \in {"starting", "running", "done"}
    BY <2>1 DEF Empty
  <2>6. /\ run' \in 1 .. faults' + 1 /\ faults' \in 0 .. MaxFaults
        /\ 1 .. run \subseteq 1 .. run'
    BY <2>1, EventBufferAssumption DEF Fault, TypeOK
  <2>7. QED
    BY <2>1, <2>2, <2>3, <2>4, <2>5, <2>6 DEF TypeOK
<1>5. QED
  BY <1>1, <1>2, <1>3, <1>4, RecoverKeyType DEF RecoveryStep

-----------------------------------------------------------------------------
(* Every step preserves Owned. *)

(* A call of add_event that has no batch gets one, or goes on without.     *)
LEMMA FlushOrReturnOwned ==
  ASSUME TypeOK, Owned, NEW a \in Adder, NEW en \in Entry, NEW buf,
         FlushOrReturn(a, en, buf), adding[a].at # "flush",
         a \in Event => a \in offered', offered \subseteq offered'
  PROVE  Owned'
<1>1. adding \in [Adder -> Add] /\ \A b \in batches : b.by # a
  BY DEF TypeOK, Owned
<1>2. CASE ImmediateFlush(keyOf[en.ev], buf)
  <2>1. \E b : b.by = a /\ batches' = batches \cup {b}
    BY <1>2 DEF FlushOrReturn, PopKey
  <2>2. adding' = [adding EXCEPT ![a] = [at |-> "flush", on |-> en]]
    BY <1>2 DEF FlushOrReturn
  <2>3. /\ \A x \in Adder : x # a => adding'[x] = adding[x]
        /\ adding'[a].at = "flush"
    BY <1>1, <2>2
  <2>4. QED
    BY <1>1, <2>1, <2>3 DEF Owned, Adder
<1>3. CASE ~ImmediateFlush(keyOf[en.ev], buf)
  <2>1. batches' = batches /\ Return(a, en)
    BY <1>3 DEF FlushOrReturn
  <2>2. \A x \in Adder : x # a => adding'[x] = adding[x]
    BY <1>1, <2>1 DEF Return
  <2>3. QED
    BY <1>1, <2>1, <2>2 DEF Owned, Adder
<1>4. QED
  BY <1>2, <1>3

LEMMA Append2Owned ==
  ASSUME TypeOK, Owned, NEW a \in Adder, NEW en \in Entry, Append2(a, en),
         adding[a].at = "idle", a \in Event => a \in offered', offered \subseteq offered'
  PROVE  Owned'
<1> DEFINE buf == [buffer EXCEPT ![keyOf[en.ev]] = Append(@, en)]
<1>1. CASE Persisted(en.ev)
  <2>1. /\ batches' = batches
        /\ adding' = [adding EXCEPT ![a] = [at |-> "persist", on |-> en]]
    BY <1>1 DEF Append2
  <2>2. adding \in [Adder -> Add] /\ \A b \in batches : b.by # a
    BY DEF TypeOK, Owned
  <2>3. \A x \in Adder : x # a => adding'[x] = adding[x]
    BY <2>1, <2>2
  <2>4. QED
    BY <2>1, <2>2, <2>3 DEF Owned, Adder
<1>2. CASE ~Persisted(en.ev)
  <2>1. FlushOrReturn(a, en, buf)
    BY <1>2 DEF Append2
  <2> HIDE DEF buf
  <2>2. QED
    BY <2>1, FlushOrReturnOwned
<1>3. QED
  BY <1>1, <1>2

LEMMA OwnedStep ==
  ASSUME TypeOK, Owned, [Next]_vars
  PROVE  Owned'
<1> USE DEF memory, history
<1>1. ASSUME NEW e \in Event, Offer(e)
      PROVE  Owned'
  <2>1. e \in Adder /\ Source(e) \in Entry /\ adding[e].at = "idle"
    BY <1>1, EventBufferAssumption DEF Offer, Owned, Adder, Source, Entry
  <2>2. offered' = offered \cup {e}
    BY <1>1 DEF Offer
  <2>3. CASE Drops(e)
    BY <1>1, <2>2, <2>3 DEF Offer, Owned
  <2>4. CASE ~Drops(e)
    BY <1>1, <2>1, <2>2, <2>4, Append2Owned DEF Offer
  <2>5. QED
    BY <2>3, <2>4
<1>2. ASSUME NEW a \in Adder, Persist(a) \/ PersistFails(a)
      PROVE  Owned'
  <2>1. /\ adding[a].at = "persist" /\ adding[a].on \in Entry
        /\ FlushOrReturn(a, adding[a].on, buffer) /\ offered' = offered
    BY <1>2 DEF Persist, PersistFails, TypeOK
  <2>2. a \in Event => a \in offered
    BY <2>1 DEF Owned
  <2>3. QED
    BY <2>1, <2>2, FlushOrReturnOwned
<1>3. ASSUME NEW b \in batches, EndBatch(b)
      PROVE  Owned'
  <2>1. batches' = batches \ {b} /\ offered' = offered /\ adding \in [Adder -> Add]
    BY <1>3 DEF EndBatch, TypeOK
  <2>2. CASE b.by \in Adder
    <3>1. \A x \in Adder : x # b.by => adding'[x] = adding[x]
      BY <1>3, <2>1, <2>2 DEF EndBatch, Return
    <3>2. b.by \in Event => b.by \in offered
      BY <2>2 DEF Owned
    <3>3. QED
      BY <2>1, <2>2, <3>1, <3>2 DEF Owned, Adder
  <2>3. CASE b.by \notin Adder
    BY <1>3, <2>1, <2>3 DEF EndBatch, Owned
  <2>4. QED
    BY <2>2, <2>3
<1>4. ASSUME NEW f \in Flusher, FlushStep(f)
      PROVE  Owned'
  <2>1. f \notin Adder /\ adding' = adding /\ offered' = offered
    BY <1>4, EventBufferAssumption
    DEF Adder, FlushStep, BeginFlush, FlushKey, FlushPriority, EndFlush
  <2>2. batches' = batches \/ \E b : b.by = f /\ batches' = batches \cup {b}
    BY <1>4 DEF FlushStep, BeginFlush, FlushKey, FlushPriority, EndFlush, PopKey
  <2>3. QED
    BY <2>1, <2>2 DEF Owned
<1>5. ASSUME NEW e \in Event, RecoverKey(e)
      PROVE  Owned'
  <2>1. /\ adding[Recovery].at = "idle" /\ Recovery \in Adder /\ Recovery \notin Event
        /\ offered' = offered
    BY <1>5, EventBufferAssumption DEF RecoverKey, NoAdd, Adder
  <2>2. Recovered(e) \in Entry
    <3>1. run \in 0 .. MaxFaults + 1
      BY EventBufferAssumption DEF TypeOK
    <3>2. QED
      BY <3>1 DEF Recovered, Entry
  <2>3. CASE e \in kept /\ ~Drops(e)
    BY <1>5, <2>1, <2>2, <2>3, Append2Owned DEF RecoverKey
  <2>4. CASE ~(e \in kept /\ ~Drops(e))
    <3>1. /\ batches' = batches
          /\ \/ adding' = adding
             \/ adding' = [adding EXCEPT ![Recovery] =
                             [at |-> "delete", on |-> Recovered(e)]]
      BY <1>5, <2>4 DEF RecoverKey
    <3>2. \A x \in Event : adding'[x] = adding[x]
      BY <2>1, <3>1 DEF TypeOK, Adder
    <3>3. \A b \in batches : b.by # Recovery
      BY <2>1 DEF Owned
    <3>4. QED
      BY <2>1, <3>1, <3>2, <3>3 DEF Owned, Adder
  <2>5. QED
    BY <2>3, <2>4
<1>6. CASE DeleteKey \/ DeleteFails
  <2>1. /\ adding[Recovery].at = "delete" /\ Recovery \in Adder /\ Recovery \notin Event
        /\ batches' = batches /\ offered' = offered
    BY <1>6, EventBufferAssumption DEF DeleteKey, DeleteFails, Adder
  <2>2. \A x \in Event : adding'[x] = adding[x]
    BY <1>6, <2>1 DEF DeleteKey, DeleteFails, TypeOK, Adder
  <2>3. \A b \in batches : b.by # Recovery
    BY <2>1 DEF Owned
  <2>4. QED
    BY <2>1, <2>2, <2>3 DEF Owned, Adder
<1>7. CASE \/ FindKeys \/ FindKeysFails \/ EndRecovery
           \/ \E e \in Event : RecoverFails(e) \/ Expire(e)
           \/ UNCHANGED vars
  BY <1>7 DEF FindKeys, FindKeysFails, EndRecovery, RecoverFails, Expire, vars, Owned
<1>8. CASE Restart
  BY <1>8 DEF Restart, Empty, NoAdd, Owned, Adder
<1>9. QED
  BY <1>1, <1>2, <1>3, <1>4, <1>5, <1>6, <1>7, <1>8
  DEF Next, AddStep, RecoveryStep, Break

LEMMA TypeStep ==
  ASSUME TypeOK, Owned, [Next]_vars
  PROVE  TypeOK'
<1>1. CASE UNCHANGED vars
  BY <1>1 DEF vars, memory, history, TypeOK
<1>2. QED
  BY <1>1, AddType, FlushType, RecoveryType DEF Next, AddStep, Break

LEMMA InitOwned == Init => Owned
BY DEF Init, Owned, NoAdd, Adder

(* Every variable keeps its type. *)
THEOREM TypeCorrect == Spec => []TypeOK
<1>1. TypeOK /\ Owned /\ [Next]_vars => (TypeOK /\ Owned)'
  BY TypeStep, OwnedStep
<1>2. QED
  BY <1>1, InitType, InitOwned, PTL DEF Spec

-----------------------------------------------------------------------------
(* The keys in Redis *)

Safe(e) ==
  Persisted(e) => e \in kept \cup hurt \cup expired \/ \E p \in released : p[1] = e

AckedIsSafe == \A e \in acked : Safe(e)

(* What makes AckedIsSafe inductive: a source's call works on its own      *)
(* event, and when it waits for its flush the event is in Redis.           *)
FlushedIsSafe ==
  \A e \in Event :
    /\ adding[e].at # "idle" => adding[e].on.ev = e
    /\ adding[e].at = "flush" => Safe(e)

KeptInv == AckedIsSafe /\ FlushedIsSafe

(* What is safe remains so. *)
LEMMA SafeStays ==
  ASSUME TypeOK, [Next]_vars
  PROVE  \A e \in Event : Safe(e) => Safe(e)'
<1> USE DEF memory, history
<1> DEFINE Grows == /\ keyOf' = keyOf
                    /\ hurt \subseteq hurt' /\ expired \subseteq expired'
                    /\ released \subseteq released'
                    /\ \A e \in kept : e \in kept' \cup expired' \/ \E p \in released' : p[1] = e
<1>1. ASSUME NEW x \in Event, Offer(x) \/ RecoverKey(x) \/ RecoverFails(x) \/ Expire(x)
      PROVE  Grows
  BY <1>1 DEF Offer, RecoverKey, RecoverFails, Expire
<1>2. ASSUME NEW a \in Adder, Persist(a) \/ PersistFails(a)
      PROVE  Grows
  BY <1>2 DEF Persist, PersistFails
<1>3. ASSUME NEW b \in batches, EndBatch(b)
      PROVE  Grows
  BY <1>3 DEF EndBatch
<1>4. ASSUME NEW f \in Flusher, FlushStep(f)
      PROVE  Grows
  BY <1>4 DEF FlushStep, BeginFlush, FlushKey, FlushPriority, EndFlush
<1>5. ASSUME FindKeys \/ FindKeysFails \/ EndRecovery \/ Restart
      PROVE  Grows
  BY <1>5 DEF FindKeys, FindKeysFails, EndRecovery, Restart
<1>6. ASSUME DeleteKey \/ DeleteFails
      PROVE  Grows
  <2>1. CASE DeleteKey
    <3>1. PICK x : x = adding[Recovery].on.ev
      OBVIOUS
    <3>2. /\ kept' = kept \ {x} /\ released' = released \cup {<<x, run>>}
          /\ UNCHANGED <<keyOf, hurt, expired>>
      BY <2>1, <3>1 DEF DeleteKey
    <3>3. <<x, run>> \in released' /\ <<x, run>>[1] = x
      BY <3>2
    <3>4. QED
      BY <3>2, <3>3
  <2>2. CASE DeleteFails
    BY <2>2 DEF DeleteFails
  <2>3. QED
    BY <1>6, <2>1, <2>2
<1>7. ASSUME UNCHANGED vars
      PROVE  Grows
  BY <1>7 DEF vars
<1>8. Grows
  BY <1>1, <1>2, <1>3, <1>4, <1>5, <1>6, <1>7 DEF Next, AddStep, RecoveryStep, Break
<1>9. QED
  BY <1>8 DEF Safe, Persisted, SeverityOfEvent

(* A call that goes on keeps KeptInv, if its event is safe. *)
LEMMA FlushOrReturnKept ==
  ASSUME TypeOK, KeptInv, NEW a \in Adder, NEW en \in Entry, NEW buf,
         FlushOrReturn(a, en, buf),
         a \in Event => en.ev = a /\ Safe(a)',
         \A e \in Event : Safe(e) => Safe(e)'
  PROVE  KeptInv'
<1>1. adding \in [Adder -> Add] /\ acked \subseteq Event /\ Event \subseteq Adder
  BY DEF TypeOK, Adder
<1>2. \A e \in acked : Safe(e)'
  BY <1>1 DEF KeptInv, AckedIsSafe, Safe
<1>3. acked' \subseteq acked \cup (Event \cap {a})
  BY DEF FlushOrReturn, Return, Adder
<1>4. \A e \in acked' : Safe(e)'
  BY <1>2, <1>3
<1>5. \A x \in Adder : x # a => adding'[x] = adding[x]
  BY <1>1 DEF FlushOrReturn, Return
<1>6. a \in Event => adding'[a] = NoAdd \/ adding'[a] = [at |-> "flush", on |-> en]
  BY <1>1, EventBufferAssumption DEF FlushOrReturn, Return
<1>7. ASSUME NEW e \in Event
      PROVE  /\ adding'[e].at # "idle" => adding'[e].on.ev = e
             /\ adding'[e].at = "flush" => Safe(e)'
  <2>1. CASE e = a
    BY <1>6, <2>1 DEF NoAdd
  <2>2. CASE e # a
    BY <1>1, <1>5, <2>2 DEF KeptInv, FlushedIsSafe
  <2>3. QED
    BY <2>1, <2>2
<1>8. QED
  BY <1>4, <1>7 DEF KeptInv, AckedIsSafe, FlushedIsSafe, Safe

(* Steps that leave the sources' calls and their answers alone. *)
LEMMA OthersKept ==
  ASSUME KeptInv, TypeOK, acked' = acked, \A e \in Event : adding'[e] = adding[e],
         \A e \in Event : Safe(e) => Safe(e)'
  PROVE  KeptInv'
BY DEF KeptInv, AckedIsSafe, FlushedIsSafe, Safe, TypeOK

LEMMA KeptStep ==
  ASSUME TypeOK, Owned, KeptInv, [Next]_vars
  PROVE  KeptInv'
<1> USE DEF memory, history
<1>0. \A e \in Event : Safe(e) => Safe(e)'
  BY SafeStays
<1>1. ASSUME NEW e \in Event, Offer(e)
      PROVE  KeptInv'
  <2>1. e \in Adder /\ Source(e) \in Entry /\ Source(e).ev = e
    BY EventBufferAssumption DEF Adder, Source, Entry
  <2>2. CASE Drops(e)
    BY <1>0, <1>1, <2>2, OthersKept DEF Offer
  <2>3. CASE ~Drops(e) /\ Persisted(e)
    <3>1. /\ adding' = [adding EXCEPT ![e] = [at |-> "persist", on |-> Source(e)]]
          /\ acked' = acked
      BY <1>1, <2>1, <2>3 DEF Offer, Append2
    <3>2. /\ adding'[e] = [at |-> "persist", on |-> Source(e)]
          /\ \A x \in Event : x # e => adding'[x] = adding[x]
      BY <2>1, <3>1 DEF TypeOK, Adder
    <3>3. \A x \in acked' : Safe(x)'
      BY <1>0, <3>1 DEF TypeOK, KeptInv, AckedIsSafe, Safe
    <3>4. ASSUME NEW x \in Event
          PROVE  /\ adding'[x].at # "idle" => adding'[x].on.ev = x
                 /\ adding'[x].at = "flush" => Safe(x)'
      BY <1>0, <2>1, <3>2 DEF KeptInv, FlushedIsSafe
    <3>5. QED
      BY <3>3, <3>4 DEF KeptInv, AckedIsSafe, FlushedIsSafe, Safe
  <2>4. CASE ~Drops(e) /\ ~Persisted(e)
    <3> DEFINE buf == [buffer EXCEPT ![keyOf[e]] = Append(@, Source(e))]
    <3>1. FlushOrReturn(e, Source(e), buf)
      BY <1>1, <2>1, <2>4 DEF Offer, Append2
    <3>2. Safe(e)
      BY <2>4 DEF Safe
    <3> HIDE DEF buf
    <3>3. QED
      BY <1>0, <2>1, <3>1, <3>2, FlushOrReturnKept
  <2>5. QED
    BY <2>2, <2>3, <2>4
<1>2. ASSUME NEW a \in Adder, Persist(a) \/ PersistFails(a)
      PROVE  KeptInv'
  <2>1. adding[a].on \in Entry /\ FlushOrReturn(a, adding[a].on, buffer)
    BY <1>2 DEF Persist, PersistFails, TypeOK
  <2>2. a \in Event => adding[a].on.ev = a
    BY <1>2 DEF Persist, PersistFails, KeptInv, FlushedIsSafe
  <2>3. a \in Event => a \in kept' \cup hurt'
    BY <1>2, <2>2 DEF Persist, PersistFails
  <2>4. QED
    BY <1>0, <2>1, <2>2, <2>3, FlushOrReturnKept DEF Safe
<1>3. ASSUME NEW b \in batches, EndBatch(b)
      PROVE  KeptInv'
  <2>1. CASE b.by \in Event
    <3>1. adding[b.by].at = "flush" /\ adding[b.by].on.ev = b.by /\ Safe(b.by)'
      BY <1>0, <2>1 DEF Owned, KeptInv, FlushedIsSafe, Adder
    <3>2. adding' = [adding EXCEPT ![b.by] = NoAdd] /\ acked' = acked \cup {b.by}
      BY <1>3, <2>1, <3>1, EventBufferAssumption DEF EndBatch, Return, Adder
    <3>3. \A x \in Event : adding'[x] = IF x = b.by THEN NoAdd ELSE adding[x]
      BY <3>2 DEF TypeOK, Adder
    <3>4. \A x \in acked' : Safe(x)'
      BY <1>0, <3>1, <3>2 DEF TypeOK, KeptInv, AckedIsSafe, Safe
    <3>5. ASSUME NEW x \in Event
          PROVE  /\ adding'[x].at # "idle" => adding'[x].on.ev = x
                 /\ adding'[x].at = "flush" => Safe(x)'
      BY <1>0, <3>3 DEF KeptInv, FlushedIsSafe, NoAdd
    <3>6. QED
      BY <3>4, <3>5 DEF KeptInv, AckedIsSafe, FlushedIsSafe, Safe
  <2>2. CASE b.by \notin Event
    <3>1. acked' = acked /\ \A x \in Event : adding'[x] = adding[x]
      BY <1>3, <2>2, EventBufferAssumption DEF EndBatch, Return, Adder, TypeOK
    <3>2. QED
      BY <1>0, <3>1, OthersKept
  <2>3. QED
    BY <2>1, <2>2
<1>4. ASSUME NEW f \in Flusher, FlushStep(f)
      PROVE  KeptInv'
  <2>1. acked' = acked /\ adding' = adding
    BY <1>4 DEF FlushStep, BeginFlush, FlushKey, FlushPriority, EndFlush
  <2>2. QED
    BY <1>0, <2>1, OthersKept
<1>5. ASSUME NEW e \in Event, RecoverKey(e)
      PROVE  KeptInv'
  <2>1. Recovery \in Adder /\ Recovery \notin Event
    BY EventBufferAssumption DEF Adder
  <2>2. CASE e \in kept /\ ~Drops(e) /\ ~Persisted(e)
    <3> DEFINE buf == [buffer EXCEPT ![keyOf[e]] = Append(@, Recovered(e))]
    <3>1. FlushOrReturn(Recovery, Recovered(e), buf)
      BY <1>5, <2>2 DEF RecoverKey, Append2, Recovered
    <3>2. acked' = acked /\ \A x \in Event : adding'[x] = adding[x]
      BY <2>1, <3>1 DEF FlushOrReturn, Return, TypeOK, Adder
    <3>3. QED
      BY <1>0, <3>2, OthersKept
  <2>3. CASE ~(e \in kept /\ ~Drops(e) /\ ~Persisted(e))
    <3>1. /\ acked' = acked
          /\ \/ adding' = adding
             \/ \E c : adding' = [adding EXCEPT ![Recovery] = c]
      BY <1>5, <2>3 DEF RecoverKey, Append2, Recovered
    <3>2. \A x \in Event : adding'[x] = adding[x]
      BY <2>1, <3>1 DEF TypeOK, Adder
    <3>3. QED
      BY <1>0, <3>1, <3>2, OthersKept
  <2>4. QED
    BY <2>2, <2>3
<1>6. CASE DeleteKey \/ DeleteFails
  <2>1. acked' = acked /\ adding' = [adding EXCEPT ![Recovery] = NoAdd]
    BY <1>6 DEF DeleteKey, DeleteFails
  <2>2. \A x \in Event : adding'[x] = adding[x]
    BY <2>1, EventBufferAssumption DEF TypeOK, Adder
  <2>3. QED
    BY <1>0, <2>1, <2>2, OthersKept
<1>7. CASE \/ FindKeys \/ FindKeysFails \/ EndRecovery
           \/ \E e \in Event : RecoverFails(e) \/ Expire(e)
           \/ UNCHANGED vars
  <2>1. acked' = acked /\ adding' = adding
    BY <1>7 DEF FindKeys, FindKeysFails, EndRecovery, RecoverFails, Expire, vars
  <2>2. QED
    BY <1>0, <2>1, OthersKept
<1>8. CASE Restart
  <2>1. acked' = acked /\ \A x \in Event : adding'[x] = NoAdd
    BY <1>8 DEF Restart, Empty, Adder
  <2>2. QED
    BY <1>0, <2>1 DEF KeptInv, AckedIsSafe, FlushedIsSafe, Safe, TypeOK, NoAdd
<1>9. QED
  BY <1>1, <1>2, <1>3, <1>4, <1>5, <1>6, <1>7, <1>8
  DEF Next, AddStep, RecoveryStep, Break

LEMMA InitKept == Init => KeptInv
BY DEF Init, KeptInv, AckedIsSafe, FlushedIsSafe, NoAdd, Adder

-----------------------------------------------------------------------------
(* Back-pressure *)

Droppable == {k \in known : SeverityOf[k] # "critical"}

(* What makes BackpressureBounds inductive: a process has started finitely *)
(* many buffers, and a key that has none holds nothing.                    *)
KnownInv ==
  /\ IsFiniteSet(known)
  /\ \A k \in Key \ known : buffer[k] = <<>>

BoundInv == KnownInv /\ BackpressureBounds

LEMMA PlacesMember ==
  ASSUME NEW f \in [Key -> Seq(Entry)], NEW K \in SUBSET Key, NEW p
  PROVE  p \in UNION {{k} \X DOMAIN f[k] : k \in K}
           <=> \E k \in K : \E i \in 1 .. Len(f[k]) : p = <<k, i>>
<1>1. \A k \in K : DOMAIN f[k] = 1 .. Len(f[k])
  BY LenProperties
<1>2. QED
  BY <1>1

(* Finitely many buffers have finitely many places. *)
LEMMA PlacesFinite ==
  ASSUME buffer \in [Key -> Seq(Entry)], NEW K \in SUBSET Key, IsFiniteSet(K)
  PROVE  IsFiniteSet(Places(K)) /\ Cardinality(Places(K)) \in Nat
<1> DEFINE f == [k \in K |-> {k} \X DOMAIN buffer[k]]
           S == {{k} \X DOMAIN buffer[k] : k \in K}
<1>1. f \in Surjection(K, S)
  BY DEF Surjection
<1>2. IsFiniteSet(S)
  BY <1>1, FS_Surjection
<1>3. ASSUME NEW T \in S
      PROVE  IsFiniteSet(T)
  <2>1. PICK k \in K : T = {k} \X DOMAIN buffer[k]
    OBVIOUS
  <2>2. DOMAIN buffer[k] = 1 .. Len(buffer[k]) /\ Len(buffer[k]) \in Nat
    BY LenProperties
  <2>3. IsFiniteSet(DOMAIN buffer[k])
    BY <2>2, FS_Interval
  <2>4. IsFiniteSet({k})
    BY FS_Singleton
  <2>5. QED
    BY <2>1, <2>3, <2>4, FS_Product
<1>4. IsFiniteSet(UNION S)
  BY <1>2, <1>3, FS_UNION
<1>5. QED
  BY <1>4, FS_CardinalityType DEF Places

LEMMA CapacityGrows ==
  ASSUME KnownInv, known \subseteq known', IsFiniteSet(known')
  PROVE  /\ Capacity \in Nat /\ Capacity' \in Nat
         /\ DropAt * Capacity \in Nat /\ DropAt * Capacity' \in Nat
         /\ DropAt * Capacity <= DropAt * Capacity'
<1> DEFINE m == IF known = {} THEN 1 ELSE Cardinality(known)
           n == IF known' = {} THEN 1 ELSE Cardinality(known')
<1>1. Cardinality(known) \in Nat /\ Cardinality(known') \in Nat
  BY FS_CardinalityType DEF KnownInv
<1>2. Cardinality(known) <= Cardinality(known')
  BY FS_Subset
<1>3. known # {} => Cardinality(known) # 0
  BY FS_EmptySet DEF KnownInv
<1>4. known' # {} => Cardinality(known') # 0
  BY FS_EmptySet
<1>5. m \in Nat /\ n \in Nat /\ m <= n
  BY <1>1, <1>2, <1>3, <1>4
<1>6. Capacity = MaxBuffer * m /\ Capacity' = MaxBuffer * n
  BY DEF Capacity
<1> HIDE DEF m, n
<1>7. MaxBuffer \in Nat /\ DropAt \in Nat
  BY EventBufferAssumption
<1>8. /\ MaxBuffer * m \in Nat /\ MaxBuffer * n \in Nat
      /\ MaxBuffer * m <= MaxBuffer * n
  BY <1>5, <1>7
<1>9. QED
  BY <1>6, <1>7, <1>8

(* Buffers that only give up entries keep the bound. *)
LEMMA BoundShrinks ==
  ASSUME TypeOK, BoundInv, buffer' \in [Key -> Seq(Entry)], known' = known,
         \A k \in Key : Len(buffer'[k]) <= Len(buffer[k])
  PROVE  BoundInv'
<1>1. Droppable \subseteq Key /\ Droppable' = Droppable /\ IsFiniteSet(Droppable)
  BY FS_Subset DEF Droppable, TypeOK, BoundInv, KnownInv
<1>2. \A k \in Key : Len(buffer[k]) \in Nat /\ Len(buffer'[k]) \in Nat
  BY LenProperties DEF TypeOK
<1>3. Places(Droppable)' \subseteq Places(Droppable)
  <2> SUFFICES ASSUME NEW p \in Places(Droppable)'
               PROVE  p \in Places(Droppable)
    OBVIOUS
  <2>1. PICK k \in Droppable : \E i \in 1 .. Len(buffer'[k]) : p = <<k, i>>
    BY <1>1, PlacesMember DEF Places
  <2>2. k \in Key /\ 1 .. Len(buffer'[k]) \subseteq 1 .. Len(buffer[k])
    BY <1>1, <1>2
  <2>3. QED
    BY <1>1, <2>1, <2>2, PlacesMember DEF TypeOK, Places
<1>4. IsFiniteSet(Places(Droppable)) /\ Cardinality(Places(Droppable)) \in Nat
  BY <1>1, PlacesFinite DEF TypeOK
<1>5. /\ Cardinality(Places(Droppable)') \in Nat
      /\ Cardinality(Places(Droppable)') <= Cardinality(Places(Droppable))
  BY <1>3, <1>4, FS_Subset, FS_CardinalityType
<1>6. 100 * Cardinality(Places(Droppable)') < DropAt * Capacity + 100
  <2>1. DropAt * Capacity \in Nat
    BY CapacityGrows DEF BoundInv, KnownInv
  <2>2. QED
    BY <1>4, <1>5, <2>1 DEF BoundInv, BackpressureBounds, Droppable
<1>7. Capacity' = Capacity
  BY DEF Capacity
<1>8. KnownInv'
  <2>1. ASSUME NEW k \in Key \ known
        PROVE  buffer'[k] = <<>>
    <3>1. buffer[k] = <<>> /\ Len(buffer[k]) = 0
      BY DEF BoundInv, KnownInv
    <3>2. buffer'[k] \in Seq(Entry) /\ Len(buffer'[k]) = 0
      BY <1>2, <3>1
    <3>3. QED
      BY <3>2, EmptySeq
  <2>2. QED
    BY <2>1 DEF BoundInv, KnownInv
<1>9. QED
  BY <1>6, <1>7, <1>8 DEF BoundInv, BackpressureBounds, Droppable

(* What is left of a buffer is no longer than it was. *)
LEMMA RestShorter ==
  ASSUME NEW s \in Seq(Entry)
  PROVE  Rest(s) \in Seq(Entry) /\ Len(Rest(s)) <= Len(s)
<1> DEFINE n == IF Len(s) < Batch THEN Len(s) ELSE Batch
<1>1. n \in Nat /\ n <= Len(s) /\ Len(s) \in Nat
  BY EventBufferAssumption
<1>2. \A i \in n + 1 .. Len(s) : s[i] \in Entry
  BY <1>1
<1>3. Len(SubSeq(s, n + 1, Len(s))) = IF n + 1 <= Len(s) THEN Len(s) - (n + 1) + 1 ELSE 0
  BY <1>1, <1>2, SubSeqProperties
<1>4. QED
  BY <1>1, <1>3, SplitType DEF Rest

LEMMA FlushOrReturnShorter ==
  ASSUME NEW a, NEW en \in Entry, NEW buf \in [Key -> Seq(Entry)], keyOf[en.ev] \in Key,
         FlushOrReturn(a, en, buf)
  PROVE  /\ buffer' \in [Key -> Seq(Entry)]
         /\ \A k \in Key : Len(buffer'[k]) <= Len(buf[k])
<1>1. \A k \in Key : Len(buf[k]) \in Nat
  BY LenProperties
<1>2. CASE buffer' = buf
  BY <1>1, <1>2
<1>3. CASE PopKey(a, keyOf[en.ev], buf)
  <2>1. buffer' = [buf EXCEPT ![keyOf[en.ev]] = Rest(buf[keyOf[en.ev]])]
    BY <1>3 DEF PopKey
  <2>2. QED
    BY <1>1, <2>1, RestShorter
<1>4. QED
  BY <1>2, <1>3 DEF FlushOrReturn

(* Nor does an entry that is added to one buffer break the bound, if it    *)
(* could not have been dropped, or the threshold was not reached.          *)
LEMMA BoundAdds ==
  ASSUME TypeOK, BoundInv, NEW k0 \in Key,
         SeverityOf[k0] # "critical" => ~AtLeast(DropAt),
         known' = known \cup {k0}, buffer' \in [Key -> Seq(Entry)],
         \A k \in Key : k # k0 => Len(buffer'[k]) <= Len(buffer[k]),
         Len(buffer'[k0]) <= Len(buffer[k0]) + 1
  PROVE  BoundInv'
<1>0. /\ buffer \in [Key -> Seq(Entry)] /\ known \subseteq Key /\ known' \subseteq Key
      /\ IsFiniteSet(known) /\ IsFiniteSet(known') /\ known \subseteq known'
  BY FS_AddElement DEF TypeOK, BoundInv, KnownInv
<1>1. \A k \in Key : Len(buffer[k]) \in Nat /\ Len(buffer'[k]) \in Nat
  BY <1>0, LenProperties
<1>2. /\ Droppable \subseteq known /\ Droppable' \subseteq Key
      /\ IsFiniteSet(Droppable) /\ Droppable \in SUBSET Key
  BY <1>0, FS_Subset DEF Droppable
<1>3. /\ Capacity \in Nat /\ Capacity' \in Nat
      /\ DropAt * Capacity \in Nat /\ DropAt * Capacity' \in Nat
      /\ DropAt * Capacity <= DropAt * Capacity'
  BY <1>0, CapacityGrows DEF BoundInv
<1>4. /\ IsFiniteSet(Places(Droppable)) /\ Cardinality(Places(Droppable)) \in Nat
      /\ IsFiniteSet(Places(known)) /\ Cardinality(Places(known)) \in Nat
  BY <1>0, <1>2, PlacesFinite
<1>5. 100 * Cardinality(Places(Droppable)') < DropAt * Capacity' + 100
  <2>1. CASE SeverityOf[k0] = "critical"
    <3>1. Droppable' = Droppable /\ k0 \notin Droppable
      BY <2>1 DEF Droppable
    <3>2. Places(Droppable)' \subseteq Places(Droppable)
      <4> SUFFICES ASSUME NEW p \in Places(Droppable)'
                   PROVE  p \in Places(Droppable)
        OBVIOUS
      <4>1. PICK k \in Droppable : \E i \in 1 .. Len(buffer'[k]) : p = <<k, i>>
        BY <1>2, <3>1, PlacesMember DEF Places
      <4>2. k \in Key /\ 1 .. Len(buffer'[k]) \subseteq 1 .. Len(buffer[k])
        BY <1>1, <1>2, <3>1
      <4>3. \E i \in 1 .. Len(buffer[k]) : p = <<k, i>>
        BY <4>1, <4>2
      <4>4. QED
        BY <1>0, <1>2, <4>3, PlacesMember DEF Places
    <3>3. /\ Cardinality(Places(Droppable)') \in Nat
          /\ Cardinality(Places(Droppable)') <= Cardinality(Places(Droppable))
      BY <1>4, <3>2, FS_Subset, FS_CardinalityType
    <3>4. QED
      BY <1>3, <1>4, <3>3 DEF BoundInv, BackpressureBounds, Droppable
  <2>2. CASE SeverityOf[k0] # "critical"
    <3> DEFINE new == <<k0, Len(buffer[k0]) + 1>>
    <3>1. Places(Droppable)' \subseteq Places(known) \cup {new}
      <4> SUFFICES ASSUME NEW p \in Places(Droppable)', p # new
                   PROVE  p \in Places(known)
        OBVIOUS
      <4>1. PICK k \in Droppable' : \E i \in 1 .. Len(buffer'[k]) : p = <<k, i>>
        BY <1>2, PlacesMember DEF Places
      <4>2. PICK i \in 1 .. Len(buffer'[k]) : p = <<k, i>>
        BY <4>1
      <4>3. k \in Key /\ k \in known \cup {k0}
        BY <1>2 DEF Droppable
      <4>4. i \in 1 .. Len(buffer[k])
        <5>1. CASE k = k0
          BY <1>1, <4>2, <4>3, <5>1
        <5>2. CASE k # k0
          BY <1>1, <4>2, <4>3, <5>2
        <5>3. QED
          BY <5>1, <5>2
      <4>5. k \in known
        <5> SUFFICES ASSUME k \notin known
                     PROVE  FALSE
          OBVIOUS
        <5>1. Len(buffer[k]) = 0
          BY <4>3 DEF BoundInv, KnownInv
        <5>2. QED
          BY <4>4, <5>1
      <4>6. QED
        BY <1>0, <4>2, <4>4, <4>5, PlacesMember DEF Places
    <3> HIDE DEF new
    <3>2. /\ IsFiniteSet(Places(known) \cup {new})
          /\ Cardinality(Places(known) \cup {new}) \in Nat
          /\ Cardinality(Places(known) \cup {new}) <= Cardinality(Places(known)) + 1
      <4>1. /\ IsFiniteSet(Places(known) \cup {new})
            /\ Cardinality(Places(known) \cup {new})
                 = IF new \in Places(known) THEN Cardinality(Places(known))
                   ELSE Cardinality(Places(known)) + 1
        BY <1>4, FS_AddElement
      <4>2. QED
        BY <1>4, <4>1
    <3>3. /\ Cardinality(Places(Droppable)') \in Nat
          /\ Cardinality(Places(Droppable)') <= Cardinality(Places(known)) + 1
      BY <1>4, <3>1, <3>2, FS_Subset, FS_CardinalityType
    <3>4. 100 * Cardinality(Places(known)) < DropAt * Capacity
      BY <1>3, <1>4, <2>2 DEF AtLeast, Buffered
    <3>5. QED
      BY <1>3, <1>4, <3>3, <3>4
  <2>3. QED
    BY <2>1, <2>2
<1>6. KnownInv'
  <2>1. ASSUME NEW k \in Key \ known'
        PROVE  buffer'[k] = <<>>
    <3>1. k # k0 /\ buffer[k] = <<>> /\ Len(buffer[k]) = 0
      BY DEF BoundInv, KnownInv
    <3>2. buffer'[k] \in Seq(Entry) /\ Len(buffer'[k]) = 0
      BY <1>1, <3>1
    <3>3. QED
      BY <3>2, EmptySeq
  <2>2. QED
    BY <1>0, <2>1 DEF KnownInv
<1>7. QED
  BY <1>5, <1>6 DEF BoundInv, BackpressureBounds, Droppable

(* An event is added when add_event has not dropped it. *)
LEMMA Append2Bound ==
  ASSUME TypeOK, BoundInv, NEW a \in Adder, NEW en \in Entry, ~Drops(en.ev),
         Append2(a, en)
  PROVE  BoundInv'
<1> DEFINE k0 == keyOf[en.ev]
           buf == [buffer EXCEPT ![k0] = Append(buffer[k0], en)]
<1>1. k0 \in Key
  BY KeyType
<1>2. buf \in [Key -> Seq(Entry)] /\ \A k \in Key : Len(buffer[k]) \in Nat
  BY <1>1, LenProperties DEF TypeOK
<1>3. /\ \A k \in Key : k # k0 => buf[k] = buffer[k]
      /\ Len(buf[k0]) = Len(buffer[k0]) + 1
  BY <1>1, AppendProperties DEF TypeOK
<1>4. known' = known \cup {k0} /\ (buffer' = buf \/ FlushOrReturn(a, en, buf))
  BY DEF Append2
<1>5. SeverityOf[k0] # "critical" => ~AtLeast(DropAt)
  BY DEF Drops, SeverityOfEvent
<1> HIDE DEF k0, buf
<1>6. /\ buffer' \in [Key -> Seq(Entry)]
      /\ \A k \in Key : Len(buffer'[k]) <= Len(buf[k])
  <2>1. CASE buffer' = buf
    BY <1>2, <2>1, LenProperties
  <2>2. CASE FlushOrReturn(a, en, buf)
    BY <1>1, <1>2, <2>2, FlushOrReturnShorter DEF k0
  <2>3. QED
    BY <1>4, <2>1, <2>2
<1>7. /\ \A k \in Key : k # k0 => Len(buffer'[k]) <= Len(buffer[k])
      /\ Len(buffer'[k0]) <= Len(buffer[k0]) + 1
  BY <1>1, <1>3, <1>6
<1>8. QED
  BY <1>1, <1>4, <1>5, <1>6, <1>7, BoundAdds

LEMMA BoundStep ==
  ASSUME TypeOK, BoundInv, [Next]_vars
  PROVE  BoundInv'
<1> USE DEF memory, history
<1>0. buffer \in [Key -> Seq(Entry)] /\ \A k \in Key : Len(buffer[k]) \in Nat
  BY LenProperties DEF TypeOK
<1>1. CASE known' = known /\ buffer' = buffer
  BY <1>0, <1>1, BoundShrinks
<1>2. ASSUME NEW e \in Event, Offer(e)
      PROVE  BoundInv'
  <2>1. e \in Adder /\ Source(e) \in Entry /\ Source(e).ev = e
    BY EventBufferAssumption DEF Adder, Source, Entry
  <2>2. CASE Drops(e)
    BY <1>1, <1>2, <2>2 DEF Offer
  <2>3. CASE ~Drops(e)
    BY <1>2, <2>1, <2>3, Append2Bound DEF Offer
  <2>4. QED
    BY <2>2, <2>3
<1>3. ASSUME NEW a \in Adder, Persist(a) \/ PersistFails(a)
      PROVE  BoundInv'
  <2>1. /\ adding[a].on \in Entry /\ FlushOrReturn(a, adding[a].on, buffer)
        /\ known' = known
    BY <1>3 DEF Persist, PersistFails, TypeOK
  <2>2. keyOf[adding[a].on.ev] \in Key
    BY <2>1, KeyType
  <2>3. QED
    BY <1>0, <2>1, <2>2, FlushOrReturnShorter, BoundShrinks
<1>4. ASSUME NEW f \in Flusher, NEW k \in Key, FlushKey(f, k)
      PROVE  BoundInv'
  <2>1. CASE PopKey(f, k, buffer)
    <3>1. buffer' = [buffer EXCEPT ![k] = Rest(buffer[k])] /\ known' = known
      BY <1>4, <2>1 DEF PopKey, FlushKey
    <3>2. Rest(buffer[k]) \in Seq(Entry) /\ Len(Rest(buffer[k])) <= Len(buffer[k])
      BY <1>0, RestShorter
    <3>3. /\ buffer' \in [Key -> Seq(Entry)]
          /\ \A x \in Key : Len(buffer'[x]) <= Len(buffer[x])
      BY <1>0, <3>1, <3>2
    <3>4. QED
      BY <3>1, <3>3, BoundShrinks
  <2>2. CASE ~PopKey(f, k, buffer)
    BY <1>1, <1>4, <2>2 DEF FlushKey
  <2>3. QED
    BY <2>1, <2>2
<1>5. ASSUME NEW e \in Event, RecoverKey(e)
      PROVE  BoundInv'
  <2>1. Recovered(e) \in Entry /\ Recovered(e).ev = e /\ Recovery \in Adder
    <3>1. run \in 0 .. MaxFaults + 1
      BY EventBufferAssumption DEF TypeOK
    <3>2. QED
      BY <3>1 DEF Recovered, Entry, Adder
  <2>2. CASE e \in kept /\ ~Drops(e)
    BY <1>5, <2>1, <2>2, Append2Bound DEF RecoverKey
  <2>3. CASE ~(e \in kept /\ ~Drops(e))
    BY <1>1, <1>5, <2>3 DEF RecoverKey
  <2>4. QED
    BY <2>2, <2>3
<1>6. CASE Restart
  <2>1. known' = {} /\ \A k \in Key : buffer'[k] = <<>>
    BY <1>6 DEF Restart, Empty
  <2>2. KnownInv'
    BY <2>1, FS_EmptySet DEF KnownInv
  <2>3. BackpressureBounds'
    <3>1. Places({k \in known : SeverityOf[k] # "critical"})' = {}
      BY <2>1 DEF Places
    <3>2. Capacity' = MaxBuffer
      BY <2>1, EventBufferAssumption DEF Capacity
    <3>3. DropAt * MaxBuffer \in Nat
      BY EventBufferAssumption
    <3>4. QED
      BY <3>1, <3>2, <3>3, FS_EmptySet DEF BackpressureBounds
  <2>4. QED
    BY <2>2, <2>3 DEF BoundInv
<1>7. ASSUME NEW b \in batches, EndBatch(b)
      PROVE  BoundInv'
  BY <1>1, <1>7 DEF EndBatch
<1>8. ASSUME NEW f \in Flusher, \/ BeginFlush(f) \/ EndFlush(f)
                               \/ \E l \in Level : FlushPriority(f, l)
      PROVE  BoundInv'
  BY <1>1, <1>8 DEF BeginFlush, EndFlush, FlushPriority
<1>9. CASE \/ FindKeys \/ FindKeysFails \/ DeleteKey \/ DeleteFails \/ EndRecovery
           \/ \E e \in Event : RecoverFails(e) \/ Expire(e)
           \/ UNCHANGED vars
  BY <1>1, <1>9
  DEF FindKeys, FindKeysFails, DeleteKey, DeleteFails, EndRecovery, RecoverFails, Expire, vars
<1>10. QED
  BY <1>2, <1>3, <1>4, <1>5, <1>6, <1>7, <1>8, <1>9
  DEF Next, AddStep, FlushStep, RecoveryStep, Break

(* Whatever calls overlap, the entries that can be dropped exceed the drop *)
(* threshold by no more than the one that reached it.                      *)
THEOREM BackpressureHolds == Spec => []BackpressureBounds
<1>1. Init => TypeOK /\ Owned /\ BoundInv
  <2>1. Init => BoundInv
    <3> SUFFICES ASSUME Init
                 PROVE  BoundInv
      OBVIOUS
    <3>1. known = {} /\ \A k \in Key : buffer[k] = <<>>
      BY DEF Init
    <3>2. Places({k \in known : SeverityOf[k] # "critical"}) = {} /\ Capacity = MaxBuffer
      BY <3>1, EventBufferAssumption DEF Places, Capacity
    <3>3. DropAt * MaxBuffer \in Nat
      BY EventBufferAssumption
    <3>4. BackpressureBounds
      BY <3>2, <3>3, FS_EmptySet DEF BackpressureBounds
    <3>5. KnownInv
      BY <3>1, FS_EmptySet DEF KnownInv
    <3>6. QED
      BY <3>4, <3>5 DEF BoundInv
  <2>2. QED
    BY <2>1, InitType, InitOwned
<1>2. TypeOK /\ Owned /\ BoundInv /\ [Next]_vars => (TypeOK /\ Owned /\ BoundInv)'
  BY TypeStep, OwnedStep, BoundStep
<1>3. BoundInv => BackpressureBounds
  BY DEF BoundInv
<1>4. QED
  BY <1>1, <1>2, <1>3, PTL DEF Spec

-----------------------------------------------------------------------------
(* The entries of the buffers and batches of one route: what a family of   *)
(* sequences f and a set of batches B hold, and that it is held once.      *)

Holds(f, B, en) ==
  (\E x \in DOMAIN f : en \in ToSet(f[x])) \/ (\E b \in B : en \in ToSet(b.entries))

Apart(s, t) == \A en \in ToSet(s) : en \notin ToSet(t)

HeldOnce(f, B) ==
  /\ \A x \in DOMAIN f : IsInjective(f[x])
  /\ \A x, y \in DOMAIN f : x # y => Apart(f[x], f[y])
  /\ \A x \in DOMAIN f, b \in B : Apart(f[x], b.entries)
  /\ \A b, c \in B : b # c => Apart(b.entries, c.entries)

(* From f and B to g and C: the same entries are held, once, or one more. *)
Moves(f, B, g, C)      == HeldOnce(g, C) /\ \A z : Holds(g, C, z) <=> Holds(f, B, z)
Adds1(f, B, g, C, en)  == HeldOnce(g, C) /\ \A z : Holds(g, C, z) <=> Holds(f, B, z) \/ z = en

LEMMA ToSetMember ==
  ASSUME NEW s \in Seq(Entry), NEW x
  PROVE  x \in ToSet(s) <=> \E i \in 1 .. Len(s) : x = s[i]
<1>1. DOMAIN s = 1 .. Len(s)
  BY LenProperties
<1>2. QED
  BY <1>1 DEF ToSet

LEMMA AppendContent ==
  ASSUME NEW s \in Seq(Entry), NEW en \in Entry
  PROVE  /\ ToSet(Append(s, en)) = ToSet(s) \cup {en}
         /\ IsInjective(s) /\ en \notin ToSet(s) => IsInjective(Append(s, en))
<1> DEFINE t == Append(s, en)
<1>1. /\ Len(s) \in Nat /\ t \in Seq(Entry) /\ Len(t) = Len(s) + 1
      /\ \A i \in 1 .. Len(s) : t[i] = s[i]
      /\ t[Len(s) + 1] = en
  BY AppendProperties
<1>2. DOMAIN s = 1 .. Len(s) /\ DOMAIN t = 1 .. Len(t)
  BY <1>1, LenProperties
<1> HIDE DEF t
<1>3. ASSUME NEW x
      PROVE  x \in ToSet(t) <=> x \in ToSet(s) \cup {en}
  <2>1. (\E i \in 1 .. Len(t) : x = t[i]) <=> (\E i \in 1 .. Len(s) : x = s[i]) \/ x = en
    BY <1>1
  <2>2. QED
    BY <1>1, <2>1, ToSetMember
<1>4. ASSUME IsInjective(s), en \notin ToSet(s)
      PROVE  IsInjective(t)
  <2>1. \A i \in 1 .. Len(s) : s[i] # en
    BY <1>4, ToSetMember
  <2>2. QED
    BY <1>1, <1>2, <1>4, <2>1 DEF IsInjective
<1>5. QED
  BY <1>3, <1>4 DEF t

LEMMA SplitContent ==
  ASSUME NEW s \in Seq(Entry)
  PROVE  /\ ToSet(s) = ToSet(Front1(s)) \cup ToSet(Rest(s))
         /\ IsInjective(s) => Apart(Front1(s), Rest(s)) /\ IsInjective(Rest(s))
<1> DEFINE n == IF Len(s) < Batch THEN Len(s) ELSE Batch
           u == SubSeq(s, 1, n)
           v == SubSeq(s, n + 1, Len(s))
<1>1. /\ n \in Nat /\ n <= Len(s) /\ Len(s) \in Nat
      /\ \A i \in 1 .. Len(s) : s[i] \in Entry
  BY EventBufferAssumption
<1>2. u = Front1(s) /\ v = Rest(s) /\ u \in Seq(Entry) /\ v \in Seq(Entry)
  BY SplitType DEF Front1, Rest
<1> HIDE DEF n
<1>3. Len(u) = n /\ \A i \in 1 .. n : u[i] = s[i]
  <2>1. \A i \in 1 .. n : s[i] \in Entry
    BY <1>1
  <2>2. /\ Len(u) = IF 1 <= n THEN n - 1 + 1 ELSE 0
        /\ \A i \in 1 .. n - 1 + 1 : u[i] = s[1 + i - 1]
    BY <1>1, <2>1, SubSeqProperties
  <2> HIDE DEF u
  <2>3. QED
    BY <1>1, <2>2
<1>4. Len(v) = Len(s) - n /\ \A i \in 1 .. Len(s) - n : v[i] = s[n + i]
  <2>1. \A i \in n + 1 .. Len(s) : s[i] \in Entry
    BY <1>1
  <2>2. /\ Len(v) = IF n + 1 <= Len(s) THEN Len(s) - (n + 1) + 1 ELSE 0
        /\ \A i \in 1 .. Len(s) - (n + 1) + 1 : v[i] = s[n + 1 + i - 1]
    BY <1>1, <2>1, SubSeqProperties
  <2> HIDE DEF v
  <2>3. QED
    BY <1>1, <2>2
<1> HIDE DEF u, v
<1>5. ASSUME NEW x
      PROVE  x \in ToSet(s) <=> x \in ToSet(u) \cup ToSet(v)
  <2>1. (\E i \in 1 .. Len(s) : x = s[i])
          => (\E i \in 1 .. Len(u) : x = u[i]) \/ (\E i \in 1 .. Len(v) : x = v[i])
    <3> SUFFICES ASSUME NEW i \in 1 .. Len(s), x = s[i]
                 PROVE  \/ \E j \in 1 .. Len(u) : x = u[j]
                        \/ \E j \in 1 .. Len(v) : x = v[j]
      OBVIOUS
    <3>1. CASE i <= n
      BY <1>1, <1>3, <3>1
    <3>2. CASE i > n
      <4>1. i - n \in 1 .. Len(s) - n /\ n + (i - n) = i
        BY <1>1, <3>2
      <4>2. QED
        BY <1>4, <4>1
    <3>3. QED
      BY <1>1, <3>1, <3>2
  <2>2. (\E i \in 1 .. Len(u) : x = u[i]) \/ (\E i \in 1 .. Len(v) : x = v[i])
          => \E i \in 1 .. Len(s) : x = s[i]
    BY <1>1, <1>3, <1>4
  <2>3. /\ x \in ToSet(s) <=> \E i \in 1 .. Len(s) : x = s[i]
        /\ x \in ToSet(u) <=> \E i \in 1 .. Len(u) : x = u[i]
        /\ x \in ToSet(v) <=> \E i \in 1 .. Len(v) : x = v[i]
    BY <1>2, ToSetMember
  <2>4. QED
    BY <2>1, <2>2, <2>3
<1>6. ASSUME IsInjective(s)
      PROVE  Apart(u, v) /\ IsInjective(v)
  <2>1. DOMAIN s = 1 .. Len(s) /\ DOMAIN v = 1 .. Len(v)
    BY <1>2, LenProperties
  <2>2. \A i \in 1 .. n, j \in 1 .. Len(s) - n : s[i] # s[n + j]
    BY <1>1, <1>6, <2>1 DEF IsInjective
  <2>3. Apart(u, v)
    <3> SUFFICES ASSUME NEW x \in ToSet(u), x \in ToSet(v)
                 PROVE  FALSE
      BY DEF Apart
    <3>1. PICK i \in 1 .. Len(u) : x = u[i]
      BY <1>2, ToSetMember
    <3>2. PICK j \in 1 .. Len(v) : x = v[j]
      BY <1>2, ToSetMember
    <3>3. i \in 1 .. n /\ u[i] = s[i]
      BY <1>3
    <3>4. j \in 1 .. Len(s) - n /\ v[j] = s[n + j]
      BY <1>4
    <3>5. QED
      BY <2>2, <3>1, <3>2, <3>3, <3>4
  <2>4. IsInjective(v)
    <3> SUFFICES ASSUME NEW i \in 1 .. Len(v), NEW j \in 1 .. Len(v), v[i] = v[j]
                 PROVE  i = j
      BY <2>1 DEF IsInjective
    <3>1. n + i \in DOMAIN s /\ n + j \in DOMAIN s /\ s[n + i] = s[n + j]
      BY <1>1, <1>4, <2>1
    <3>2. n + i = n + j
      BY <1>6, <3>1 DEF IsInjective
    <3>3. QED
      BY <1>1, <3>2
  <2>5. QED
    BY <2>3, <2>4
<1>7. QED
  BY <1>2, <1>5, <1>6

LEMMA AppendOnce ==
  ASSUME NEW D, NEW f \in [D -> Seq(Entry)], NEW B, HeldOnce(f, B),
         NEW en \in Entry, ~Holds(f, B, en), NEW x \in D, NEW g,
         g = [f EXCEPT ![x] = Append(f[x], en)]
  PROVE  Adds1(f, B, g, B, en)
<1>1. DOMAIN g = D /\ DOMAIN f = D
  OBVIOUS
<1>2. \A y \in D : y # x => g[y] = f[y]
  OBVIOUS
<1>3. /\ \A z : z \in ToSet(g[x]) <=> z \in ToSet(f[x]) \/ z = en
      /\ IsInjective(f[x]) => IsInjective(g[x])
  <2>1. g[x] = Append(f[x], en) /\ f[x] \in Seq(Entry)
    OBVIOUS
  <2>2. en \notin ToSet(f[x])
    BY <1>1 DEF Holds
  <2>3. QED
    BY <2>1, <2>2, AppendContent
<1>4. /\ \A y \in D : en \notin ToSet(f[y])
      /\ \A b \in B : en \notin ToSet(b.entries)
  BY <1>1 DEF Holds
<1>5. \A y \in D : \A z : /\ z \in ToSet(f[y]) => z \in ToSet(g[y])
                         /\ z \in ToSet(g[y]) => z \in ToSet(f[y]) \/ (y = x /\ z = en)
  BY <1>2, <1>3
<1>6. HeldOnce(g, B)
  <2>1. \A y \in D : IsInjective(g[y])
    BY <1>1, <1>2, <1>3 DEF HeldOnce
  <2>2. \A y, y1 \in D : y # y1 => Apart(f[y], f[y1])
    BY <1>1 DEF HeldOnce
  <2>3. \A y, y1 \in D : y # y1 => Apart(g[y], g[y1])
    BY <1>4, <1>5, <2>2 DEF Apart
  <2>4. \A y \in D, b \in B : Apart(f[y], b.entries)
    BY <1>1 DEF HeldOnce
  <2>5. ASSUME NEW y \in D, NEW b \in B, NEW z \in ToSet(g[y])
        PROVE  z \notin ToSet(b.entries)
    <3>1. z \in ToSet(f[y]) \/ z = en
      BY <1>5
    <3>2. QED
      BY <1>4, <2>4, <3>1 DEF Apart
  <2>6. \A y \in D, b \in B : Apart(g[y], b.entries)
    BY <2>5 DEF Apart
  <2>7. QED
    BY <1>1, <2>1, <2>3, <2>6 DEF HeldOnce
<1>7. \A z : Holds(g, B, z) <=> Holds(f, B, z) \/ z = en
  BY <1>1, <1>3, <1>5 DEF Holds
<1>8. QED
  BY <1>6, <1>7 DEF Adds1

LEMMA PopOnce ==
  ASSUME NEW D, NEW f \in [D -> Seq(Entry)], NEW B, HeldOnce(f, B), NEW x \in D,
         NEW g, g = [f EXCEPT ![x] = Rest(f[x])],
         NEW b, b.entries = Front1(f[x])
  PROVE  Moves(f, B, g, B \cup {b})
<1>1. DOMAIN g = D /\ DOMAIN f = D
  OBVIOUS
<1>2. \A y \in D : y # x => g[y] = f[y]
  OBVIOUS
<1>3. /\ \A z : z \in ToSet(f[x]) <=> z \in ToSet(b.entries) \/ z \in ToSet(g[x])
      /\ Apart(b.entries, g[x])
      /\ IsInjective(g[x])
  <2>1. g[x] = Rest(f[x]) /\ f[x] \in Seq(Entry) /\ IsInjective(f[x])
    BY <1>1 DEF HeldOnce
  <2>2. QED
    BY <2>1, SplitContent
<1>4. \A y \in D : \A z : z \in ToSet(g[y]) => z \in ToSet(f[y])
  BY <1>2, <1>3
<1>5. \A y, y1 \in D : y # y1 => Apart(f[y], f[y1])
  BY <1>1 DEF HeldOnce
<1>6. \A y \in D, c \in B : Apart(f[y], c.entries)
  BY <1>1 DEF HeldOnce
<1>7. HeldOnce(g, B \cup {b})
  <2>1. \A y \in D : IsInjective(g[y])
    BY <1>1, <1>2, <1>3 DEF HeldOnce
  <2>2. \A y, y1 \in D : y # y1 => Apart(g[y], g[y1])
    BY <1>4, <1>5 DEF Apart
  <2>3. \A y \in D, c \in B : Apart(g[y], c.entries)
    BY <1>4, <1>6 DEF Apart
  <2>4. \A y \in D : Apart(g[y], b.entries)
    <3>1. \A y \in D : y # x => Apart(g[y], b.entries)
      BY <1>2, <1>3, <1>5 DEF Apart
    <3>2. Apart(g[x], b.entries)
      BY <1>3 DEF Apart
    <3>3. QED
      BY <3>1, <3>2
  <2>5. \A c \in B : Apart(b.entries, c.entries) /\ Apart(c.entries, b.entries)
    BY <1>3, <1>6 DEF Apart
  <2>6. \A c, d \in B \cup {b} : c # d => Apart(c.entries, d.entries)
    BY <2>5 DEF HeldOnce
  <2>7. QED
    BY <1>1, <2>1, <2>2, <2>3, <2>4, <2>6 DEF HeldOnce
<1>8. ASSUME NEW z
      PROVE  Holds(g, B \cup {b}, z) <=> Holds(f, B, z)
  <2>1. (\E y \in D : z \in ToSet(f[y]))
          <=> (\E y \in D : z \in ToSet(g[y])) \/ z \in ToSet(b.entries)
    BY <1>2, <1>3, <1>4
  <2>2. QED
    BY <1>1, <2>1 DEF Holds
<1>9. QED
  BY <1>7, <1>8 DEF Moves

LEMMA EndOnce ==
  ASSUME NEW f, NEW B, HeldOnce(f, B), NEW b \in B
  PROVE  /\ HeldOnce(f, B \ {b})
         /\ \A z : Holds(f, B \ {b}, z) <=> Holds(f, B, z) /\ z \notin ToSet(b.entries)
         /\ \A z \in ToSet(b.entries) : Holds(f, B, z)
<1>1. HeldOnce(f, B \ {b})
  BY DEF HeldOnce
<1>2. /\ \A x \in DOMAIN f : Apart(f[x], b.entries)
      /\ \A c \in B \ {b} : Apart(c.entries, b.entries)
  BY DEF HeldOnce
<1>3. QED
  BY <1>1, <1>2 DEF Holds, Apart

-----------------------------------------------------------------------------
(* The buffer implements EventDelivery. *)

OnRoute(r) == {b \in batches : b.route = r}

HeldOn(r, en) ==
  \/ r = "key" /\ Holds(buffer, OnRoute("key"), en)
  \/ r = "priority" /\ Holds(priority, OnRoute("priority"), en)

(* What was in memory at some time: no event is taken in twice by a source *)
(* or twice by the recovery of one run of the process.                     *)
Seen(en) ==
  /\ en.run = 0 => en.ev \in offered
  /\ en.run <= run
  /\ en.run = run => recovery # "starting" /\ en.ev \notin found

(* What makes the refinement go through: nothing is held in two places of  *)
(* a route, nothing that was handed over is still held.                    *)
OnceInv ==
  /\ HeldOnce(buffer, OnRoute("key"))
  /\ HeldOnce(priority, OnRoute("priority"))
  /\ \A r \in Route, en \in Entry : HeldOn(r, en) => <<r, en>> \notin handed /\ Seen(en)
  /\ \A r \in Route, en \in Entry : <<r, en>> \in handed => Seen(en)

(* Pending, entry by entry. *)
PendingHeld ==
  /\ Pending \subseteq Route \X Entry
  /\ \A r \in Route, en \in Entry : <<r, en>> \in Pending <=> HeldOn(r, en)

LEMMA PendingMember == TypeOK => PendingHeld
<1> SUFFICES ASSUME TypeOK
             PROVE  PendingHeld
  OBVIOUS
<1>1. DOMAIN buffer = Key /\ DOMAIN priority = Level
  BY DEF TypeOK
<1>2. \A en : en \in Waiting("key") <=> HeldOn("key", en)
  <2> DEFINE S == {buffer[k] : k \in Key} \cup {b.entries : b \in OnRoute("key")}
  <2>1. Waiting("key") = UNION {ToSet(s) : s \in S}
    BY DEF Waiting, OnRoute
  <2>2. \A en : en \in UNION {ToSet(s) : s \in S} <=> \E s \in S : en \in ToSet(s)
    <3> HIDE DEF S
    <3> QED
      OBVIOUS
  <2>3. \A en : (\E s \in S : en \in ToSet(s))
          <=> (\E k \in Key : en \in ToSet(buffer[k]))
              \/ (\E b \in OnRoute("key") : en \in ToSet(b.entries))
    OBVIOUS
  <2>4. QED
    BY <1>1, <2>1, <2>2, <2>3 DEF HeldOn, Holds
<1>3. \A en : en \in Waiting("priority") <=> HeldOn("priority", en)
  <2> DEFINE S == {priority[l] : l \in Level} \cup {b.entries : b \in OnRoute("priority")}
  <2>1. Waiting("priority") = UNION {ToSet(s) : s \in S}
    BY DEF Waiting, OnRoute
  <2>2. \A en : en \in UNION {ToSet(s) : s \in S} <=> \E s \in S : en \in ToSet(s)
    <3> HIDE DEF S
    <3> QED
      OBVIOUS
  <2>3. \A en : (\E s \in S : en \in ToSet(s))
          <=> (\E l \in Level : en \in ToSet(priority[l]))
              \/ (\E b \in OnRoute("priority") : en \in ToSet(b.entries))
    OBVIOUS
  <2>4. QED
    BY <1>1, <2>1, <2>2, <2>3 DEF HeldOn, Holds
<1>4. \A r \in Route : \A en : en \in Waiting(r) <=> HeldOn(r, en)
  BY <1>2, <1>3 DEF Route
<1>5. \A en, r : r \in Route /\ HeldOn(r, en) => en \in Entry
  <2>1. \A k \in Key : \A en : en \in ToSet(buffer[k]) => en \in Entry
    BY ToSetMember DEF TypeOK
  <2>2. \A l \in Level : \A en : en \in ToSet(priority[l]) => en \in Entry
    BY ToSetMember DEF TypeOK
  <2>3. \A b \in batches : \A en : en \in ToSet(b.entries) => en \in Entry
    BY ToSetMember DEF TypeOK, BatchOf
  <2>4. QED
    BY <1>1, <2>1, <2>2, <2>3 DEF HeldOn, Holds, OnRoute
<1>6. \A p : p \in Pending <=> \E r \in Route : p \in {r} \X Waiting(r)
  BY DEF Pending
<1>7. QED
  <2>1. Pending \subseteq Route \X Entry
    BY <1>4, <1>5, <1>6
  <2>2. ASSUME NEW r \in Route, NEW en \in Entry
        PROVE  <<r, en>> \in Pending <=> HeldOn(r, en)
    BY <1>4, <1>6
  <2>3. QED
    BY <2>1, <2>2 DEF PendingHeld

(* What is held after a pop: the same entries, the other route as before. *)
LEMMA PopKeyHolds ==
  ASSUME NEW by, NEW k \in Key, NEW buf \in [Key -> Seq(Entry)],
         HeldOnce(buf, OnRoute("key")), PopKey(by, k, buf)
  PROVE  /\ HeldOnce(buffer, OnRoute("key"))'
         /\ OnRoute("priority")' = OnRoute("priority")
         /\ \A z : Holds(buffer, OnRoute("key"), z)' <=> Holds(buf, OnRoute("key"), z)
<1> DEFINE b == [by |-> by, route |-> "key", entries |-> Front1(buf[k])]
<1>1. b.route = "key" /\ b.entries = Front1(buf[k])
  OBVIOUS
<1>2. buffer' = [buf EXCEPT ![k] = Rest(buf[k])] /\ batches' = batches \cup {b}
  BY DEF PopKey
<1> HIDE DEF b
<1>3. OnRoute("key")' = OnRoute("key") \cup {b} /\ OnRoute("priority")' = OnRoute("priority")
  BY <1>1, <1>2 DEF OnRoute
<1>4. Moves(buf, OnRoute("key"), buffer', OnRoute("key") \cup {b})
  <2>1. b.entries = Front1(buf[k])
    BY <1>1
  <2>2. buffer' = [buf EXCEPT ![k] = Rest(buf[k])]
    BY <1>2
  <2>3. QED
    BY <2>1, <2>2, PopOnce
<1>5. QED
  BY <1>3, <1>4 DEF Moves

LEMMA FlushOrReturnHolds ==
  ASSUME TypeOK, NEW a \in Adder, NEW en \in Entry, NEW buf \in [Key -> Seq(Entry)],
         HeldOnce(buf, OnRoute("key")), FlushOrReturn(a, en, buf)
  PROVE  /\ HeldOnce(buffer, OnRoute("key"))'
         /\ OnRoute("priority")' = OnRoute("priority")
         /\ \A z : Holds(buffer, OnRoute("key"), z)' <=> Holds(buf, OnRoute("key"), z)
<1>1. keyOf[en.ev] \in Key
  BY KeyType
<1>2. CASE ImmediateFlush(keyOf[en.ev], buf)
  <2>1. PopKey(a, keyOf[en.ev], buf)
    BY <1>2 DEF FlushOrReturn
  <2>2. QED
    BY <1>1, <2>1, PopKeyHolds
<1>3. CASE ~ImmediateFlush(keyOf[en.ev], buf)
  <2>1. buffer' = buf /\ batches' = batches
    BY <1>3 DEF FlushOrReturn
  <2>2. OnRoute("key")' = OnRoute("key") /\ OnRoute("priority")' = OnRoute("priority")
    BY <2>1 DEF OnRoute
  <2>3. QED
    BY <2>1, <2>2
<1>4. QED
  BY <1>2, <1>3

LEMMA Append2Holds ==
  ASSUME TypeOK, OnceInv, NEW a \in Adder, NEW en \in Entry, Append2(a, en),
         \A r \in Route : ~HeldOn(r, en)
  PROVE  /\ HeldOnce(buffer, OnRoute("key"))'
         /\ HeldOnce(priority, OnRoute("priority"))'
         /\ \A r \in Route, z \in Entry : HeldOn(r, z)' <=> HeldOn(r, z) \/ z = en
<1> DEFINE k   == keyOf[en.ev]
           l   == LevelOf(en.ev)
           buf == [buffer EXCEPT ![k] = Append(buffer[k], en)]
<1>1. k \in Key /\ l \in Level
  BY KeyType
<1>2. /\ buffer \in [Key -> Seq(Entry)] /\ priority \in [Level -> Seq(Entry)]
      /\ buf \in [Key -> Seq(Entry)]
  BY <1>1 DEF TypeOK
<1>3. /\ ~Holds(buffer, OnRoute("key"), en) /\ ~Holds(priority, OnRoute("priority"), en)
      /\ HeldOnce(buffer, OnRoute("key")) /\ HeldOnce(priority, OnRoute("priority"))
  BY DEF HeldOn, Route, OnceInv
<1>4. /\ priority' = [priority EXCEPT ![l] = Append(priority[l], en)]
      /\ \/ buffer' = buf /\ batches' = batches
         \/ FlushOrReturn(a, en, buf)
  BY DEF Append2
<1> HIDE DEF k, l
<1>5. Adds1(buffer, OnRoute("key"), buf, OnRoute("key"), en)
  <2>1. buf = [buffer EXCEPT ![k] = Append(buffer[k], en)]
    OBVIOUS
  <2> HIDE DEF buf
  <2>2. buffer \in [Key -> Seq(Entry)]
    BY <1>2
  <2>3. k \in Key
    BY <1>1
  <2>4. HeldOnce(buffer, OnRoute("key"))
    BY <1>3
  <2>5. ~Holds(buffer, OnRoute("key"), en)
    BY <1>3
  <2>6. QED
    BY <2>1, <2>2, <2>3, <2>4, <2>5, AppendOnce
<1>6. Adds1(priority, OnRoute("priority"), priority', OnRoute("priority"), en)
  <2>1. priority' = [priority EXCEPT ![l] = Append(priority[l], en)]
    BY <1>4
  <2>2. priority \in [Level -> Seq(Entry)]
    BY <1>2
  <2>3. l \in Level
    BY <1>1
  <2>4. HeldOnce(priority, OnRoute("priority"))
    BY <1>3
  <2>5. ~Holds(priority, OnRoute("priority"), en)
    BY <1>3
  <2>6. QED
    BY <2>1, <2>2, <2>3, <2>4, <2>5, AppendOnce
<1> HIDE DEF buf
<1>7. /\ HeldOnce(buffer, OnRoute("key"))'
      /\ OnRoute("priority")' = OnRoute("priority")
      /\ \A z : Holds(buffer, OnRoute("key"), z)' <=> Holds(buf, OnRoute("key"), z)
  <2>1. CASE buffer' = buf /\ batches' = batches
    BY <1>5, <2>1 DEF OnRoute, Adds1
  <2>2. CASE FlushOrReturn(a, en, buf)
    BY <1>2, <1>5, <2>2, FlushOrReturnHolds DEF Adds1
  <2>3. QED
    BY <1>4, <2>1, <2>2
<1>8. \A z : /\ HeldOn("key", z)' <=> HeldOn("key", z) \/ z = en
             /\ HeldOn("priority", z)' <=> HeldOn("priority", z) \/ z = en
  BY <1>5, <1>6, <1>7 DEF HeldOn, Adds1
<1>9. QED
  BY <1>6, <1>7, <1>8 DEF Route, Adds1

(* Three shapes of a step.  First, what is held stays as it was. *)
LEMMA HeldStays ==
  ASSUME TypeOK, TypeOK', OnceInv, handed' = handed,
         HeldOnce(buffer, OnRoute("key"))', HeldOnce(priority, OnRoute("priority"))',
         \A r \in Route, z \in Entry : HeldOn(r, z)' <=> HeldOn(r, z),
         \A z \in Entry : Seen(z) => Seen(z)'
  PROVE  OnceInv' /\ Pending' = Pending
<1>1. OnceInv'
  BY DEF OnceInv
<1>2. PendingHeld /\ PendingHeld'
  BY PendingMember, PTL
<1>3. \A r \in Route, z \in Entry : <<r, z>> \in Pending' <=> <<r, z>> \in Pending
  <2>1. \A r \in Route, z \in Entry : <<r, z>> \in Pending' <=> HeldOn(r, z)'
    BY <1>2 DEF PendingHeld
  <2>2. \A r \in Route, z \in Entry : <<r, z>> \in Pending <=> HeldOn(r, z)
    BY <1>2 DEF PendingHeld
  <2>3. QED
    BY <2>1, <2>2
<1>4. Pending \subseteq Route \X Entry /\ Pending' \subseteq Route \X Entry
  BY <1>2 DEF PendingHeld
<1>5. QED
  BY <1>1, <1>3, <1>4

(* Second, an entry is taken in: it was neither held nor handed over. *)
LEMMA HeldTaken ==
  ASSUME TypeOK, TypeOK', OnceInv, NEW en \in Entry, handed' = handed,
         HeldOnce(buffer, OnRoute("key"))', HeldOnce(priority, OnRoute("priority"))',
         \A r \in Route, z \in Entry : HeldOn(r, z)' <=> HeldOn(r, z) \/ z = en,
         \A z \in Entry : Seen(z) => Seen(z)', ~Seen(en), Seen(en)'
  PROVE  OnceInv' /\ Delivery!Take(en)
<1>1. \A r \in Route : ~HeldOn(r, en) /\ <<r, en>> \notin handed
  BY DEF OnceInv
<1>2. OnceInv'
  BY <1>1 DEF OnceInv
<1>3. PendingHeld /\ PendingHeld'
  BY PendingMember, PTL
<1>4. \A r \in Route, z \in Entry : <<r, z>> \in Pending' <=> <<r, z>> \in Pending \/ z = en
  <2>1. \A r \in Route, z \in Entry : <<r, z>> \in Pending' <=> HeldOn(r, z)'
    BY <1>3 DEF PendingHeld
  <2>2. \A r \in Route, z \in Entry : <<r, z>> \in Pending <=> HeldOn(r, z)
    BY <1>3 DEF PendingHeld
  <2>3. QED
    BY <2>1, <2>2
<1>5. Pending \subseteq Route \X Entry /\ Pending' \subseteq Route \X Entry
  BY <1>3 DEF PendingHeld
<1>6. Pending' = Pending \cup Route \X {en}
  BY <1>4, <1>5
<1>7. \A p \in Route \X {en} : p \notin Pending \cup handed
  <2>1. \A r \in Route : <<r, en>> \notin Pending
    BY <1>1, <1>3 DEF PendingHeld
  <2>2. QED
    BY <1>1, <2>1
<1>8. QED
  BY <1>2, <1>6, <1>7 DEF Delivery!Take

(* Third, the processors have ended with a batch. *)
LEMMA HeldHanded ==
  ASSUME TypeOK, TypeOK', OnceInv, NEW b \in batches, EndBatch(b)
  PROVE  OnceInv' /\ Delivery!Hand
<1> DEFINE r0 == b.route
           E0 == ToSet(b.entries)
<1>1. /\ r0 \in Route /\ b.entries \in Seq(Entry)
      /\ \A z \in E0 : z \in Entry
  BY ToSetMember DEF TypeOK, BatchOf
<1>2. /\ buffer' = buffer /\ priority' = priority /\ batches' = batches \ {b}
      /\ handed' = handed \cup {r0} \X E0
      /\ offered' = offered /\ run' = run /\ recovery' = recovery /\ found' = found
  BY DEF EndBatch
<1>3. \A z \in Entry : Seen(z)' <=> Seen(z)
  BY <1>2 DEF Seen
<1>4. \A r : OnRoute(r)' = IF r = r0 THEN OnRoute(r) \ {b} ELSE OnRoute(r)
  BY <1>2 DEF OnRoute
<1>5. b \in OnRoute(r0)
  BY DEF OnRoute
<1> HIDE DEF r0, E0
<1>6. /\ HeldOnce(buffer, OnRoute("key"))'
      /\ HeldOnce(priority, OnRoute("priority"))'
      /\ \A r \in Route : \A z : HeldOn(r, z)' <=> HeldOn(r, z) /\ ~(r = r0 /\ z \in E0)
      /\ \A z \in E0 : HeldOn(r0, z)
  <2>1. CASE r0 = "key"
    <3>1. /\ OnRoute("key")' = OnRoute("key") \ {b}
          /\ OnRoute("priority")' = OnRoute("priority")
      BY <1>4, <2>1
    <3>2. HeldOnce(buffer, OnRoute("key")) /\ b \in OnRoute("key")
      BY <1>5, <2>1 DEF OnceInv
    <3>3. /\ HeldOnce(buffer, OnRoute("key") \ {b})
          /\ \A z : Holds(buffer, OnRoute("key") \ {b}, z)
                      <=> Holds(buffer, OnRoute("key"), z) /\ z \notin E0
          /\ \A z \in E0 : Holds(buffer, OnRoute("key"), z)
      BY <3>2, EndOnce DEF E0
    <3>4. HeldOnce(buffer, OnRoute("key"))' /\ HeldOnce(priority, OnRoute("priority"))'
      BY <1>2, <3>1, <3>3 DEF OnceInv
    <3>5. \A z : /\ HeldOn("key", z)' <=> HeldOn("key", z) /\ z \notin E0
                 /\ HeldOn("priority", z)' <=> HeldOn("priority", z)
      BY <1>2, <3>1, <3>3 DEF HeldOn
    <3>6. \A z \in E0 : HeldOn(r0, z)
      BY <2>1, <3>3 DEF HeldOn
    <3>7. QED
      BY <2>1, <3>4, <3>5, <3>6 DEF Route
  <2>2. CASE r0 = "priority"
    <3>1. /\ OnRoute("priority")' = OnRoute("priority") \ {b}
          /\ OnRoute("key")' = OnRoute("key")
      BY <1>4, <2>2
    <3>2. HeldOnce(priority, OnRoute("priority")) /\ b \in OnRoute("priority")
      BY <1>5, <2>2 DEF OnceInv
    <3>3. /\ HeldOnce(priority, OnRoute("priority") \ {b})
          /\ \A z : Holds(priority, OnRoute("priority") \ {b}, z)
                      <=> Holds(priority, OnRoute("priority"), z) /\ z \notin E0
          /\ \A z \in E0 : Holds(priority, OnRoute("priority"), z)
      BY <3>2, EndOnce DEF E0
    <3>4. HeldOnce(buffer, OnRoute("key"))' /\ HeldOnce(priority, OnRoute("priority"))'
      BY <1>2, <3>1, <3>3 DEF OnceInv
    <3>5. \A z : /\ HeldOn("priority", z)' <=> HeldOn("priority", z) /\ z \notin E0
                 /\ HeldOn("key", z)' <=> HeldOn("key", z)
      BY <1>2, <3>1, <3>3 DEF HeldOn
    <3>6. \A z \in E0 : HeldOn(r0, z)
      BY <2>2, <3>3 DEF HeldOn
    <3>7. QED
      BY <2>2, <3>4, <3>5, <3>6 DEF Route
  <2>3. QED
    BY <1>1, <2>1, <2>2 DEF Route
<1>7. \A r, z : <<r, z>> \in handed' <=> <<r, z>> \in handed \/ (r = r0 /\ z \in E0)
  BY <1>2
<1>8. OnceInv'
  BY <1>1, <1>3, <1>6, <1>7 DEF OnceInv
<1>9. PendingHeld /\ PendingHeld'
  BY PendingMember, PTL
<1>10. \A r \in Route, z \in Entry :
         <<r, z>> \in Pending' <=> <<r, z>> \in Pending /\ ~(r = r0 /\ z \in E0)
  <2>1. \A r \in Route, z \in Entry : <<r, z>> \in Pending' <=> HeldOn(r, z)'
    BY <1>9 DEF PendingHeld
  <2>2. \A r \in Route, z \in Entry : <<r, z>> \in Pending <=> HeldOn(r, z)
    BY <1>9 DEF PendingHeld
  <2>3. QED
    BY <1>6, <2>1, <2>2
<1>11. Pending \subseteq Route \X Entry /\ Pending' \subseteq Route \X Entry
  BY <1>9 DEF PendingHeld
<1>12. \A z \in E0 : <<r0, z>> \in Pending
  BY <1>1, <1>6, <1>9 DEF PendingHeld
<1>13. Pending' \subseteq Pending
  BY <1>10, <1>11
<1>14. Pending \ Pending' = {r0} \X E0
  <2>1. \A r \in Route, z \in Entry :
          <<r, z>> \in Pending \ Pending' <=> r = r0 /\ z \in E0
    BY <1>10, <1>12
  <2>2. QED
    BY <1>1, <1>11, <2>1
<1>15. QED
  BY <1>2, <1>8, <1>13, <1>14 DEF Delivery!Hand

(* An entry of a source, or of the recovery of this run, is a new one. *)
LEMMA SourceIsNew ==
  ASSUME TypeOK, NEW e \in Event, e \notin offered, offered' = offered \cup {e},
         run' = run, recovery' = recovery, found' = found,
         NEW en, en = Source(e)
  PROVE  /\ en \in Entry /\ ~Seen(en) /\ Seen(en)'
         /\ \A z \in Entry : Seen(z) => Seen(z)'
<1>1. run \in Nat /\ run >= 1
  BY EventBufferAssumption DEF TypeOK
<1>2. en = [ev |-> e, run |-> 0]
  BY DEF Source
<1>3. en \in Entry
  BY <1>2, EventBufferAssumption DEF Entry
<1>4. en.ev = e /\ en.run = 0
  BY <1>2
<1>5. ~Seen(en)
  BY <1>4 DEF Seen
<1>6. \A z \in Entry : Seen(z) => Seen(z)'
  BY DEF Seen
<1>7. Seen(en)'
  BY <1>1, <1>4 DEF Seen
<1>8. QED
  BY <1>3, <1>5, <1>6, <1>7

LEMMA RecoveredIsNew ==
  ASSUME TypeOK, NEW e \in Event, e \in found, found' = found \ {e},
         recovery = "running", recovery' = recovery, run' = run, offered' = offered,
         NEW en, en = Recovered(e)
  PROVE  /\ en \in Entry /\ ~Seen(en) /\ Seen(en)'
         /\ \A z \in Entry : Seen(z) => Seen(z)'
<1>1. run \in Nat /\ run >= 1 /\ run <= MaxFaults + 1
  BY EventBufferAssumption DEF TypeOK
<1>2. en = [ev |-> e, run |-> run]
  BY DEF Recovered
<1>3. en \in Entry
  BY <1>1, <1>2, EventBufferAssumption DEF Entry
<1>4. en.ev = e /\ en.run = run
  BY <1>2
<1>5. ~Seen(en)
  BY <1>4 DEF Seen
<1>6. \A z \in Entry : Seen(z) => Seen(z)'
  BY DEF Seen
<1>7. Seen(en)'
  BY <1>1, <1>4 DEF Seen
<1>8. QED
  BY <1>3, <1>5, <1>6, <1>7

(* What neither touches the buffers nor the batches is a stutter. *)
LEMMA ElsewhereStays ==
  ASSUME TypeOK, TypeOK', OnceInv, handed' = handed,
         buffer' = buffer, priority' = priority, batches' = batches,
         \A z \in Entry : Seen(z) => Seen(z)'
  PROVE  OnceInv' /\ Pending' = Pending
<1>1. \A r : OnRoute(r)' = OnRoute(r)
  BY DEF OnRoute
<1>2. HeldOnce(buffer, OnRoute("key"))' /\ HeldOnce(priority, OnRoute("priority"))'
  BY <1>1 DEF OnceInv
<1>3. \A r \in Route, z \in Entry : HeldOn(r, z)' <=> HeldOn(r, z)
  BY <1>1 DEF HeldOn
<1>4. QED
  BY <1>2, <1>3, HeldStays

(* What the buffer does without ending.                                      *)
Delivers ==
  \/ \E en \in Entry : Delivery!Take(en)
  \/ Delivery!Hand
  \/ UNCHANGED <<Pending, handed>>

LEMMA OfferOnce ==
  ASSUME TypeOK, TypeOK', OnceInv, NEW e \in Event, Offer(e)
  PROVE  /\ OnceInv'
         /\ Drops(e) => UNCHANGED <<Pending, handed>>
         /\ ~Drops(e) => Delivery!Take(Source(e)) /\ Source(e) \in Entry
<1>1. /\ e \notin offered /\ offered' = offered \cup {e} /\ e \in Adder
      /\ run' = run /\ recovery' = recovery /\ found' = found /\ handed' = handed
  BY DEF Offer, Adder
<1>2. PICK x : x = Source(e)
  OBVIOUS
<1>3. /\ x \in Entry /\ ~Seen(x) /\ Seen(x)'
      /\ \A z \in Entry : Seen(z) => Seen(z)'
  BY <1>1, <1>2, SourceIsNew
<1>4. CASE Drops(e)
  <2>1. buffer' = buffer /\ priority' = priority /\ batches' = batches
    BY <1>4 DEF Offer
  <2>2. QED
    BY <1>1, <1>3, <1>4, <2>1, ElsewhereStays
<1>5. CASE ~Drops(e)
  <2>1. Append2(e, x)
    BY <1>2, <1>5 DEF Offer
  <2>2. \A r \in Route : ~HeldOn(r, x)
    BY <1>3 DEF OnceInv
  <2>3. /\ HeldOnce(buffer, OnRoute("key"))'
        /\ HeldOnce(priority, OnRoute("priority"))'
        /\ \A r \in Route, z \in Entry : HeldOn(r, z)' <=> HeldOn(r, z) \/ z = x
    BY <1>1, <1>3, <2>1, <2>2, Append2Holds
  <2>4. OnceInv' /\ Delivery!Take(x)
    BY <1>1, <1>3, <2>3, HeldTaken
  <2>5. QED
    BY <1>2, <1>3, <1>5, <2>4
<1>6. QED
  BY <1>4, <1>5

LEMMA RecoverOnce ==
  ASSUME TypeOK, TypeOK', OnceInv, NEW e \in Event, RecoverKey(e)
  PROVE  /\ OnceInv' /\ Delivers
         /\ e \in kept /\ ~Drops(e) => Delivery!Take(Recovered(e))
<1>1. /\ e \in found /\ found' = found \ {e} /\ recovery = "running"
      /\ recovery' = recovery /\ run' = run /\ offered' = offered /\ handed' = handed
  BY DEF RecoverKey
<1>2. PICK x : x = Recovered(e)
  OBVIOUS
<1>3. /\ x \in Entry /\ ~Seen(x) /\ Seen(x)'
      /\ \A z \in Entry : Seen(z) => Seen(z)'
  BY <1>1, <1>2, RecoveredIsNew
<1>4. CASE e \notin kept \/ Drops(e)
  <2>1. buffer' = buffer /\ priority' = priority /\ batches' = batches
    BY <1>4 DEF RecoverKey
  <2>2. QED
    BY <1>1, <1>3, <1>4, <2>1, ElsewhereStays DEF Delivers
<1>5. CASE e \in kept /\ ~Drops(e)
  <2>1. Append2(Recovery, x) /\ Recovery \in Adder
    BY <1>2, <1>5 DEF RecoverKey, Adder
  <2>2. \A r \in Route : ~HeldOn(r, x)
    BY <1>3 DEF OnceInv
  <2>3. /\ HeldOnce(buffer, OnRoute("key"))'
        /\ HeldOnce(priority, OnRoute("priority"))'
        /\ \A r \in Route, z \in Entry : HeldOn(r, z)' <=> HeldOn(r, z) \/ z = x
    BY <1>3, <2>1, <2>2, Append2Holds
  <2>4. OnceInv' /\ Delivery!Take(x)
    BY <1>1, <1>3, <2>3, HeldTaken
  <2>5. QED
    BY <1>2, <1>3, <2>4 DEF Delivers
<1>6. QED
  BY <1>4, <1>5

(* A batch leaves a buffer: what is held stays held. *)
LEMMA PopOnceStays ==
  ASSUME TypeOK, TypeOK', OnceInv, handed' = handed,
         run' = run, offered' = offered, recovery' = recovery, found' = found,
         \/ \E a \in Adder : adding[a].at = "persist" /\ priority' = priority
                             /\ FlushOrReturn(a, adding[a].on, buffer)
         \/ \E f \in Flusher, k \in Key : FlushKey(f, k)
         \/ \E f \in Flusher, l \in Level : FlushPriority(f, l)
  PROVE  OnceInv' /\ Pending' = Pending
<1>1. \A z \in Entry : Seen(z) => Seen(z)'
  BY DEF Seen
<1>2. /\ buffer \in [Key -> Seq(Entry)] /\ priority \in [Level -> Seq(Entry)]
      /\ HeldOnce(buffer, OnRoute("key")) /\ HeldOnce(priority, OnRoute("priority"))
  BY DEF TypeOK, OnceInv
<1>3. ASSUME priority' = priority, OnRoute("priority")' = OnRoute("priority"),
             HeldOnce(buffer, OnRoute("key"))',
             \A z : Holds(buffer, OnRoute("key"), z)' <=> Holds(buffer, OnRoute("key"), z)
      PROVE  OnceInv' /\ Pending' = Pending
  <2>1. HeldOnce(priority, OnRoute("priority"))'
    BY <1>2, <1>3
  <2>2. \A r \in Route, z \in Entry : HeldOn(r, z)' <=> HeldOn(r, z)
    BY <1>3 DEF HeldOn
  <2>3. QED
    BY <1>1, <1>3, <2>1, <2>2, HeldStays
<1>4. ASSUME NEW a \in Adder, adding[a].at = "persist", priority' = priority,
             FlushOrReturn(a, adding[a].on, buffer)
      PROVE  OnceInv' /\ Pending' = Pending
  <2>1. PICK en : en = adding[a].on
    OBVIOUS
  <2>2. en \in Entry /\ FlushOrReturn(a, en, buffer)
    BY <1>4, <2>1 DEF TypeOK
  <2>3. QED
    BY <1>2, <1>3, <1>4, <2>2, FlushOrReturnHolds
<1>5. ASSUME NEW f \in Flusher, NEW k \in Key, FlushKey(f, k)
      PROVE  OnceInv' /\ Pending' = Pending
  <2>1. priority' = priority
    BY <1>5 DEF FlushKey
  <2>2. CASE buffer[k] = <<>>
    <3>1. buffer' = buffer /\ batches' = batches
      BY <1>5, <2>2 DEF FlushKey
    <3>2. QED
      BY <1>1, <2>1, <3>1, ElsewhereStays
  <2>3. CASE buffer[k] # <<>>
    <3>1. PopKey(f, k, buffer)
      BY <1>5, <2>3 DEF FlushKey
    <3>2. QED
      BY <1>2, <1>3, <2>1, <3>1, PopKeyHolds
  <2>4. QED
    BY <2>2, <2>3
<1>6. ASSUME NEW f \in Flusher, NEW l \in Level, FlushPriority(f, l)
      PROVE  OnceInv' /\ Pending' = Pending
  <2> DEFINE b == [by |-> f, route |-> "priority", entries |-> Front1(priority[l])]
  <2>1. b.route = "priority" /\ b.entries = Front1(priority[l])
    OBVIOUS
  <2>2. /\ buffer' = buffer /\ batches' = batches \cup {b}
        /\ priority' = [priority EXCEPT ![l] = Rest(priority[l])]
    BY <1>6 DEF FlushPriority
  <2> HIDE DEF b
  <2>3. OnRoute("priority")' = OnRoute("priority") \cup {b} /\ OnRoute("key")' = OnRoute("key")
    BY <2>1, <2>2 DEF OnRoute
  <2>4. Moves(priority, OnRoute("priority"), priority', OnRoute("priority") \cup {b})
    <3>1. b.entries = Front1(priority[l])
      BY <2>1
    <3>2. priority' = [priority EXCEPT ![l] = Rest(priority[l])]
      BY <2>2
    <3>3. priority \in [Level -> Seq(Entry)]
      BY <1>2
    <3>4. HeldOnce(priority, OnRoute("priority"))
      BY <1>2
    <3>5. QED
      BY <3>1, <3>2, <3>3, <3>4, PopOnce
  <2>5. HeldOnce(buffer, OnRoute("key"))' /\ HeldOnce(priority, OnRoute("priority"))'
    BY <1>2, <2>2, <2>3, <2>4 DEF Moves
  <2>6. \A r \in Route, z \in Entry : HeldOn(r, z)' <=> HeldOn(r, z)
    BY <2>2, <2>3, <2>4 DEF HeldOn, Moves
  <2>7. QED
    BY <1>1, <2>5, <2>6, HeldStays
<1>7. QED
  BY <1>4, <1>5, <1>6

(* The end of the process forgets what it holds. *)
LEMMA RestartOnce ==
  ASSUME TypeOK, TypeOK', OnceInv, Restart
  PROVE  OnceInv' /\ Delivery!Forget
<1>1. /\ \A k \in DOMAIN buffer' : buffer'[k] = <<>>
      /\ \A l \in DOMAIN priority' : priority'[l] = <<>>
      /\ batches' = {} /\ run' = run + 1
      /\ offered' = offered /\ handed' = handed
  BY DEF Restart, Empty, history
<1>2. \A r : OnRoute(r)' = {}
  BY <1>1 DEF OnRoute
<1>3. \A z : ~Holds(buffer, OnRoute("key"), z)' /\ ~Holds(priority, OnRoute("priority"), z)'
  <2>1. ToSet(<<>>) = {}
    BY DEF ToSet
  <2>2. QED
    BY <1>1, <1>2, <2>1 DEF Holds
<1>4. HeldOnce(buffer, OnRoute("key"))' /\ HeldOnce(priority, OnRoute("priority"))'
  <2>1. IsInjective(<<>>) /\ Apart(<<>>, <<>>)
    BY DEF IsInjective, Apart, ToSet
  <2>2. QED
    BY <1>1, <1>2, <2>1 DEF HeldOnce
<1>5. \A z \in Entry : Seen(z) => Seen(z)'
  <2>1. run \in Nat /\ \A z \in Entry : z.run \in Nat
    BY EventBufferAssumption DEF TypeOK, Entry
  <2>2. QED
    BY <1>1, <2>1 DEF Seen
<1>6. \A r, z : ~HeldOn(r, z)'
  BY <1>3 DEF HeldOn
<1>7. OnceInv'
  BY <1>1, <1>4, <1>5, <1>6 DEF OnceInv
<1>8. Pending' = {}
  <2>1. PendingHeld'
    BY PendingMember, PTL
  <2>2. Pending' \subseteq Route \X Entry /\ \A r \in Route, z \in Entry : <<r, z>> \notin Pending'
    BY <1>6, <2>1 DEF PendingHeld
  <2>3. QED
    BY <2>2
<1>9. QED
  BY <1>1, <1>7, <1>8 DEF Delivery!Forget

LEMMA OnceStep ==
  ASSUME TypeOK, TypeOK', OnceInv, [Next]_vars
  PROVE  OnceInv' /\ (Delivers \/ (Restart /\ Delivery!Forget))
<1> USE DEF memory, history
<1>1. ASSUME NEW e \in Event, Offer(e)
      PROVE  OnceInv' /\ Delivers
  BY <1>1, OfferOnce DEF Delivers
<1>2. ASSUME NEW e \in Event, RecoverKey(e)
      PROVE  OnceInv' /\ Delivers
  BY <1>2, RecoverOnce
<1>3. ASSUME NEW b \in batches, EndBatch(b)
      PROVE  OnceInv' /\ Delivers
  BY <1>3, HeldHanded DEF Delivers
<1>4. CASE Restart
  BY <1>4, RestartOnce
<1>5. CASE \/ \E a \in Adder : Persist(a) \/ PersistFails(a)
           \/ \E f \in Flusher, k \in Key : FlushKey(f, k)
           \/ \E f \in Flusher, l \in Level : FlushPriority(f, l)
  <2>1. /\ handed' = handed /\ run' = run /\ offered' = offered
        /\ recovery' = recovery /\ found' = found
    BY <1>5 DEF Persist, PersistFails, FlushKey, FlushPriority
  <2>2. \/ \E a \in Adder : adding[a].at = "persist" /\ priority' = priority
                            /\ FlushOrReturn(a, adding[a].on, buffer)
        \/ \E f \in Flusher, k \in Key : FlushKey(f, k)
        \/ \E f \in Flusher, l \in Level : FlushPriority(f, l)
    BY <1>5 DEF Persist, PersistFails
  <2>3. OnceInv' /\ Pending' = Pending
    BY <2>1, <2>2, PopOnceStays
  <2>4. QED
    BY <2>1, <2>3 DEF Delivers
<1>6. CASE \/ \E f \in Flusher : BeginFlush(f) \/ EndFlush(f)
           \/ FindKeys \/ FindKeysFails \/ DeleteKey \/ DeleteFails \/ EndRecovery
           \/ \E e \in Event : RecoverFails(e) \/ Expire(e)
           \/ UNCHANGED vars
  <2>1. /\ buffer' = buffer /\ priority' = priority /\ batches' = batches
        /\ handed' = handed /\ run' = run /\ offered' = offered
    BY <1>6 DEF BeginFlush, EndFlush, FindKeys, FindKeysFails, DeleteKey, DeleteFails,
                EndRecovery, RecoverFails, Expire, vars
  <2>2. \/ recovery = "starting"
        \/ recovery' # "starting" /\ found' \subseteq found
    BY <1>6 DEF BeginFlush, EndFlush, FindKeys, FindKeysFails, DeleteKey, DeleteFails,
                EndRecovery, RecoverFails, Expire, vars
  <2>3. \A z \in Entry : Seen(z) => Seen(z)'
    BY <2>1, <2>2 DEF Seen
  <2>4. OnceInv' /\ Pending' = Pending
    BY <2>1, <2>3, ElsewhereStays
  <2>5. QED
    BY <2>1, <2>4 DEF Delivers
<1>7. QED
  BY <1>1, <1>2, <1>3, <1>4, <1>5, <1>6
  DEF Next, AddStep, FlushStep, RecoveryStep, Break

LEMMA InitOnce == Init => OnceInv /\ Delivery!Init
<1> SUFFICES ASSUME Init
             PROVE  OnceInv /\ Delivery!Init
  OBVIOUS
<1>1. /\ \A k \in DOMAIN buffer : buffer[k] = <<>>
      /\ \A l \in DOMAIN priority : priority[l] = <<>>
      /\ batches = {} /\ handed = {}
  BY DEF Init
<1>2. \A r : OnRoute(r) = {}
  BY <1>1 DEF OnRoute
<1>3. ToSet(<<>>) = {} /\ IsInjective(<<>>)
  BY DEF ToSet, IsInjective
<1>4. HeldOnce(buffer, OnRoute("key")) /\ HeldOnce(priority, OnRoute("priority"))
  BY <1>1, <1>2, <1>3 DEF HeldOnce, Apart
<1>5. \A r, z : ~HeldOn(r, z)
  BY <1>1, <1>2, <1>3 DEF HeldOn, Holds
<1>6. PendingHeld
  BY PendingMember, InitType
<1>7. Pending = {}
  BY <1>5, <1>6 DEF PendingHeld
<1>8. QED
  BY <1>1, <1>4, <1>5, <1>7 DEF OnceInv, Delivery!Init

(* DeliverySpec: whatever sources, flushes, immediate flushes and the       *)
(* recovery do at the same time, and wherever the process ends, the buffer  *)
(* is EventDelivery: every step is a step of it or leaves its state alone.  *)
THEOREM DeliveryRefined == Spec => DeliverySpec
<1>1. Init => TypeOK /\ Owned /\ OnceInv /\ Delivery!Init
  BY InitType, InitOwned, InitOnce
<1>2. TypeOK /\ Owned /\ OnceInv /\ [Next]_vars
        => (TypeOK /\ Owned /\ OnceInv)' /\ [Delivery!Next]_<<Pending, handed>>
  BY TypeStep, OwnedStep, OnceStep DEF Delivers, Delivery!Next
<1>3. QED
  BY <1>1, <1>2, PTL DEF Spec, DeliverySpec, Delivery!Spec, Delivery!vars

(* Nothing in a batch has been given to the processors by its route, and   *)
(* nothing in it is still in a buffer of that route or in another batch.   *)
BatchesAreNew ==
  \A b \in batches : \A en \in ToSet(b.entries) :
    /\ <<b.route, en>> \notin handed
    /\ \A c \in batches : c # b /\ c.route = b.route => en \notin ToSet(c.entries)
    /\ b.route = "key" => \A k \in Key : en \notin ToSet(buffer[k])
    /\ b.route = "priority" => \A l \in Level : en \notin ToSet(priority[l])

(* However calls of flush_all, immediate flushes and the recovery overlap,  *)
(* no two batches of a route share an entry and none holds an old one.      *)
THEOREM HandedOnce == Spec => []BatchesAreNew
<1>1. Init => TypeOK /\ Owned /\ OnceInv
  BY InitType, InitOwned, InitOnce
<1>2. TypeOK /\ Owned /\ OnceInv /\ [Next]_vars => (TypeOK /\ Owned /\ OnceInv)'
  BY TypeStep, OwnedStep, OnceStep
<1>3. TypeOK /\ OnceInv => BatchesAreNew
  <2> SUFFICES ASSUME TypeOK, OnceInv, NEW b \in batches, NEW en \in ToSet(b.entries)
               PROVE  /\ <<b.route, en>> \notin handed
                      /\ \A c \in batches : c # b /\ c.route = b.route => en \notin ToSet(c.entries)
                      /\ b.route = "key" => \A k \in Key : en \notin ToSet(buffer[k])
                      /\ b.route = "priority" => \A l \in Level : en \notin ToSet(priority[l])
    BY DEF BatchesAreNew
  <2>1. /\ b.route \in Route /\ en \in Entry /\ b \in OnRoute(b.route)
        /\ DOMAIN buffer = Key /\ DOMAIN priority = Level
    BY ToSetMember DEF TypeOK, BatchOf, OnRoute
  <2>2. HeldOn(b.route, en)
    BY <2>1 DEF HeldOn, Holds, Route
  <2>3. <<b.route, en>> \notin handed
    BY <2>1, <2>2 DEF OnceInv
  <2>4. ASSUME NEW c \in batches, c # b, c.route = b.route
        PROVE  en \notin ToSet(c.entries)
    <3>1. c \in OnRoute(b.route)
      BY <2>4 DEF OnRoute
    <3>2. Apart(b.entries, c.entries)
      BY <2>1, <2>4, <3>1 DEF OnceInv, HeldOnce, Route
    <3>3. QED
      BY <3>2 DEF Apart
  <2>5. ASSUME b.route = "key", NEW k \in Key
        PROVE  en \notin ToSet(buffer[k])
    BY <2>1, <2>5 DEF OnceInv, HeldOnce, Apart
  <2>6. ASSUME b.route = "priority", NEW l \in Level
        PROVE  en \notin ToSet(priority[l])
    BY <2>1, <2>6 DEF OnceInv, HeldOnce, Apart
  <2>7. QED
    BY <2>3, <2>4, <2>5, <2>6
<1>4. QED
  BY <1>1, <1>2, <1>3, PTL DEF Spec
-----------------------------------------------------------------------------
(* An event is in the buffer, or was given to the processors, on each route. *)
Taken(en) == \A r \in Route : <<r, en>> \in Pending \cup handed

(* Until the process ends, whatever add_event said True of is in the buffer  *)
(* or was handed over, both ways: no batch, no priority buffer and no second *)
(* flush_all drops it between two awaits.                                    *)
AcceptedIsCarried == run = 1 => \A e \in acked : Taken(Source(e))

(* It is so from the first await of add_event, before the answer.            *)
CarriedInv ==
  /\ \A e \in Event : adding[e].at # "idle" => adding[e].on = Source(e) /\ Taken(Source(e))
  /\ AcceptedIsCarried

(* Call a, on entry en, goes on, and no other.                               *)
OneCall(a, en) ==
  /\ \A x \in Adder \ {a} : adding'[x] = adding[x]
  /\ adding'[a].at # "idle" => adding'[a].on = en
  /\ acked' = acked \/ (a # Recovery /\ acked' = acked \cup {en.ev})

LEMMA FlushOrReturnCall ==
  ASSUME TypeOK, NEW a \in Adder, NEW en, NEW buf, FlushOrReturn(a, en, buf)
  PROVE  OneCall(a, en)
<1>1. adding \in [Adder -> Add]
  BY DEF TypeOK
<1>2. CASE ImmediateFlush(keyOf[en.ev], buf)
  BY <1>1, <1>2 DEF FlushOrReturn, OneCall
<1>3. CASE ~ImmediateFlush(keyOf[en.ev], buf)
  BY <1>1, <1>3 DEF FlushOrReturn, Return, NoAdd, OneCall
<1>4. QED
  BY <1>2, <1>3

LEMMA Append2Call ==
  ASSUME TypeOK, NEW a \in Adder, NEW en, Append2(a, en)
  PROVE  OneCall(a, en)
<1> DEFINE buf == [buffer EXCEPT ![keyOf[en.ev]] = Append(@, en)]
<1>1. CASE Persisted(en.ev)
  BY <1>1 DEF Append2, OneCall, TypeOK
<1>2. CASE ~Persisted(en.ev)
  <2>1. FlushOrReturn(a, en, buf)
    BY <1>2 DEF Append2
  <2> HIDE DEF buf
  <2>2. QED
    BY <2>1, FlushOrReturnCall
<1>3. QED
  BY <1>1, <1>2

(* Nothing leaves the buffer but to the processors.                          *)
LEMMA DeliversKeepsTaken ==
  ASSUME Delivers, NEW en, Taken(en)
  PROVE  Taken(en)'
<1>1. \A p : p \in Pending \cup handed => p \in Pending' \cup handed'
  BY DEF Delivers, Delivery!Take, Delivery!Hand
<1>2. QED
  BY <1>1 DEF Taken

LEMMA CallCarries ==
  ASSUME CarriedInv, Delivers, run' = run, NEW a \in Adder, NEW en, OneCall(a, en),
         a # Recovery => en = Source(a) /\ Taken(en)'
  PROVE  CarriedInv'
<1>1. ASSUME NEW e \in Event, adding'[e].at # "idle"
      PROVE  adding'[e].on = Source(e) /\ Taken(Source(e))'
  <2>1. e \in Adder /\ e # Recovery
    BY EventBufferAssumption DEF Adder
  <2>2. CASE e = a
    BY <1>1, <2>1, <2>2 DEF OneCall
  <2>3. CASE e # a
    BY <1>1, <2>1, <2>3, DeliversKeepsTaken DEF OneCall, CarriedInv
  <2>4. QED
    BY <2>2, <2>3
<1>2. ASSUME run = 1, NEW e \in acked'
      PROVE  Taken(Source(e))'
  <2>1. CASE e \in acked
    BY <1>2, <2>1, DeliversKeepsTaken DEF CarriedInv, AcceptedIsCarried
  <2>2. CASE e \notin acked
    <3>1. a # Recovery /\ e = en.ev
      BY <1>2, <2>2 DEF OneCall
    <3>2. Source(e) = en /\ Taken(en)'
      BY <3>1 DEF Source
    <3>3. QED
      BY <3>2
  <2>3. QED
    BY <2>1, <2>2
<1>3. QED
  BY <1>1, <1>2 DEF CarriedInv, AcceptedIsCarried

LEMMA CarriedStep ==
  ASSUME TypeOK, TypeOK', Owned, OnceInv, CarriedInv, [Next]_vars
  PROVE  CarriedInv'
<1>1. CASE Restart
  <2>1. \A e \in Event : adding'[e].at = "idle"
    BY <1>1 DEF Restart, Empty, NoAdd, Adder
  <2>2. run' # 1
    BY <1>1, EventBufferAssumption DEF Restart, TypeOK
  <2>3. QED
    BY <2>1, <2>2 DEF CarriedInv, AcceptedIsCarried
<1>2. CASE ~Restart
  <2>1. Delivers
    BY <1>2, OnceStep
  <2>2. run' = run
    BY <1>2 DEF Next, Offer, AddStep, Persist, EndBatch, FlushStep, BeginFlush, FlushKey,
                FlushPriority, EndFlush, RecoveryStep, FindKeys, RecoverKey, DeleteKey,
                EndRecovery, Break, PersistFails, RecoverFails, Expire, FindKeysFails,
                DeleteFails, vars
  <2>3. ASSUME NEW e \in Event, Offer(e)
        PROVE  CarriedInv'
    <3>1. e \in Adder /\ e # Recovery
      BY EventBufferAssumption DEF Adder
    <3>2. CASE Drops(e)
      <4>1. adding' = adding /\ acked' = acked
        BY <2>3, <3>2 DEF Offer
      <4>2. QED
        BY <2>1, <2>2, <4>1, DeliversKeepsTaken DEF CarriedInv, AcceptedIsCarried
    <3>3. CASE ~Drops(e)
      <4>1. Delivery!Take(Source(e))
        BY <2>3, <3>3, OfferOnce
      <4>2. Taken(Source(e))'
        BY <4>1 DEF Delivery!Take, Taken
      <4>3. OneCall(e, Source(e))
        BY <2>3, <3>1, <3>3, Append2Call DEF Offer
      <4>4. QED
        BY <2>1, <2>2, <3>1, <4>2, <4>3, CallCarries
    <3>4. QED
      BY <3>2, <3>3
  <2>4. ASSUME NEW a \in Adder, adding[a].at # "idle", OneCall(a, adding[a].on)
        PROVE  CarriedInv'
    <3>1. a # Recovery => adding[a].on = Source(a) /\ Taken(Source(a))'
      BY <2>1, <2>4, DeliversKeepsTaken DEF CarriedInv, Adder
    <3>2. PICK en : en = adding[a].on
      OBVIOUS
    <3>3. a # Recovery => en = Source(a) /\ Taken(en)'
      BY <3>1, <3>2
    <3>4. OneCall(a, en)
      BY <2>4, <3>2
    <3>5. QED
      BY <2>1, <2>2, <3>3, <3>4, CallCarries
  <2>5. ASSUME NEW a \in Adder, Persist(a) \/ PersistFails(a)
        PROVE  CarriedInv'
    <3>1. adding[a].at = "persist" /\ FlushOrReturn(a, adding[a].on, buffer)
      BY <2>5 DEF Persist, PersistFails
    <3>2. PICK en : en = adding[a].on
      OBVIOUS
    <3>3. OneCall(a, en)
      BY <3>1, <3>2, FlushOrReturnCall
    <3>4. QED
      BY <2>4, <3>1, <3>2, <3>3
  <2>6. ASSUME NEW b \in batches, EndBatch(b)
        PROVE  CarriedInv'
    <3>1. CASE b.by \in Adder
      <4>1. adding[b.by].at = "flush" /\ Return(b.by, adding[b.by].on)
        BY <2>6, <3>1 DEF Owned, EndBatch
      <4>2. OneCall(b.by, adding[b.by].on)
        BY <3>1, <4>1 DEF Return, OneCall, NoAdd, TypeOK
      <4>3. QED
        BY <2>4, <3>1, <4>1, <4>2
    <3>2. CASE b.by \notin Adder
      <4>1. adding' = adding /\ acked' = acked
        BY <2>6, <3>2 DEF EndBatch
      <4>2. QED
        BY <2>1, <2>2, <4>1, DeliversKeepsTaken DEF CarriedInv, AcceptedIsCarried
    <3>3. QED
      BY <3>1, <3>2
  <2>7. ASSUME NEW e \in Event, RecoverKey(e)
        PROVE  CarriedInv'
    <3>1. PICK en : en = Recovered(e)
      OBVIOUS
    <3>2. Recovery \in Adder
      BY DEF Adder
    <3>3. OneCall(Recovery, en)
      <4>1. CASE e \in kept /\ ~Drops(e)
        BY <2>7, <3>1, <3>2, <4>1, Append2Call DEF RecoverKey
      <4>2. CASE e \in kept /\ Drops(e)
        <5>1. acked' = acked /\ adding' = [adding EXCEPT ![Recovery] =
                                              [at |-> "delete", on |-> Recovered(e)]]
          BY <2>7, <4>2 DEF RecoverKey
        <5>2. adding \in [Adder -> Add]
          BY DEF TypeOK
        <5>3. QED
          BY <3>1, <3>2, <5>1, <5>2 DEF OneCall
      <4>3. CASE e \notin kept
        <5>1. acked' = acked /\ adding' = adding
          BY <2>7, <4>3 DEF RecoverKey
        <5>2. adding[Recovery].at = "idle"
          BY <2>7 DEF RecoverKey, NoAdd
        <5>3. QED
          BY <5>1, <5>2 DEF OneCall
      <4>4. QED
        BY <4>1, <4>2, <4>3
    <3>4. QED
      BY <2>1, <2>2, <3>2, <3>3, CallCarries
  <2>8. CASE acked' = acked /\ \A e \in Event : adding'[e] = adding[e]
    BY <2>1, <2>2, <2>8, DeliversKeepsTaken DEF CarriedInv, AcceptedIsCarried
  <2>9. CASE DeleteKey \/ DeleteFails
    <3>1. acked' = acked /\ \A e \in Event : adding'[e] = adding[e]
      <4>1. acked' = acked /\ adding' = [adding EXCEPT ![Recovery] = NoAdd]
        BY <2>9 DEF DeleteKey, DeleteFails
      <4>2. adding \in [Adder -> Add] /\ Recovery \notin Event
        BY EventBufferAssumption DEF TypeOK
      <4>3. QED
        BY <4>1, <4>2 DEF Adder
    <3>2. QED
      BY <2>8, <3>1
  <2>10. CASE UNCHANGED <<adding, acked>>
    BY <2>8, <2>10
  <2>11. QED
    BY <1>2, <2>3, <2>5, <2>6, <2>7, <2>9, <2>10
       DEF Next, AddStep, FlushStep, BeginFlush, FlushKey, FlushPriority, EndFlush,
           RecoveryStep, FindKeys, EndRecovery, Break, RecoverFails, Expire, FindKeysFails,
           vars, memory, history
<1>3. QED
  BY <1>1, <1>2

(* An answer of True is kept for as long as the process lives, on both of    *)
(* the routes: nothing that was accepted disappears without an exit.         *)
THEOREM AcceptedIsNotDropped == Spec => []AcceptedIsCarried
<1>1. Init => TypeOK /\ Owned /\ OnceInv /\ CarriedInv
  BY InitType, InitOwned, InitOnce DEF Init, CarriedInv, AcceptedIsCarried, NoAdd, Adder
<1>2. TypeOK /\ Owned /\ OnceInv /\ CarriedInv /\ [Next]_vars
        => (TypeOK /\ Owned /\ OnceInv /\ CarriedInv)'
  BY TypeStep, OwnedStep, OnceStep, CarriedStep
<1>3. CarriedInv => AcceptedIsCarried
  BY DEF CarriedInv
<1>4. QED
  BY <1>1, <1>2, <1>3, PTL DEF Spec

-----------------------------------------------------------------------------
(* What the recovery lets go *)

Critical(e) == SeverityOfEvent(e) = "critical"

(* Some entry of e is in the buffer or was given to the processors. *)
Had(e) == \E en \in Entry : en.ev = e /\ Taken(en)

(* The recovery deletes the key of a critical event only when it has added *)
(* the event to the buffer of this process, which then holds it.           *)
AddedInv ==
  /\ adding[Recovery].at # "idle" /\ Critical(adding[Recovery].on.ev)
       => Taken(adding[Recovery].on)
  /\ \A e \in Event : Critical(e) /\ <<e, run>> \in released => Had(e)

LEMMA HadStays ==
  ASSUME Delivers, NEW e, Had(e)
  PROVE  Had(e)'
BY DeliversKeepsTaken DEF Had

(* Call a, on entry en, goes on: if it is the recovery's, its event is held. *)
LEMMA CallAdds ==
  ASSUME AddedInv, Delivers, UNCHANGED <<keyOf, run, released>>,
         NEW a \in Adder, NEW en, OneCall(a, en),
         a = Recovery /\ Critical(en.ev) => Taken(en)'
  PROVE  AddedInv'
<1>1. \A e : Critical(e)' <=> Critical(e)
  BY DEF Critical, SeverityOfEvent
<1>2. \A e \in Event : Critical(e)' /\ <<e, run'>> \in released' => Had(e)'
  BY <1>1, HadStays DEF AddedInv
<1>3. PICK z : z = adding'[Recovery].on
  OBVIOUS
<1>4. ASSUME adding'[Recovery].at # "idle", Critical(z.ev)
      PROVE  Taken(z)'
  <2>1. CASE a = Recovery
    BY <1>3, <1>4, <2>1 DEF OneCall
  <2>2. CASE a # Recovery
    <3>1. adding'[Recovery] = adding[Recovery]
      BY <2>2 DEF OneCall, Adder
    <3>2. Taken(z)
      BY <1>3, <1>4, <3>1 DEF AddedInv
    <3>3. QED
      BY <3>2, DeliversKeepsTaken
  <2>3. QED
    BY <2>1, <2>2
<1>5. Critical(z.ev)' <=> Critical(z.ev)
  BY <1>1
<1>6. QED
  BY <1>2, <1>3, <1>4, <1>5 DEF AddedInv

LEMMA AddedStep ==
  ASSUME TypeOK, TypeOK', Owned, OnceInv, AddedInv, [Next]_vars
  PROVE  AddedInv'
<1>1. CASE Restart
  <2>1. adding'[Recovery].at = "idle"
    BY <1>1 DEF Restart, Empty, NoAdd, Adder
  <2>2. \A e \in Event : <<e, run'>> \notin released'
    BY <1>1, EventBufferAssumption DEF Restart, history, TypeOK
  <2>3. QED
    BY <2>1, <2>2 DEF AddedInv
<1>2. CASE DeleteKey
  <2>1. Delivers
    BY <1>2, OnceStep, EventBufferAssumption DEF DeleteKey, Restart, TypeOK, Next, RecoveryStep
  <2>2. PICK z : z = adding[Recovery].on
    OBVIOUS
  <2>3. /\ adding[Recovery].at = "delete" /\ z \in Entry /\ Recovery \in Adder
        /\ adding' = [adding EXCEPT ![Recovery] = NoAdd]
        /\ released' = released \cup {<<z.ev, run>>} /\ run' = run /\ keyOf' = keyOf
    BY <1>2, <2>2 DEF DeleteKey, TypeOK, Adder
  <2>4. adding'[Recovery].at = "idle"
    BY <2>3 DEF TypeOK, NoAdd
  <2>5. ASSUME NEW e \in Event, Critical(e)', <<e, run'>> \in released'
        PROVE  Had(e)'
    <3>1. Critical(e)
      BY <2>3, <2>5 DEF Critical, SeverityOfEvent
    <3>2. Had(e)
      <4>1. CASE <<e, run>> \in released
        BY <3>1, <4>1 DEF AddedInv
      <4>2. CASE e = z.ev
        <5>1. Taken(z)
          BY <2>2, <2>3, <3>1, <4>2 DEF AddedInv
        <5>2. QED
          BY <2>3, <4>2, <5>1 DEF Had
      <4>3. QED
        BY <2>3, <2>5, <4>1, <4>2
    <3>3. QED
      BY <2>1, <3>2, HadStays
  <2>6. QED
    BY <2>4, <2>5 DEF AddedInv
<1>3. CASE ~Restart /\ ~DeleteKey
  <2>1. Delivers
    BY <1>3, OnceStep
  <2>2. UNCHANGED <<keyOf, run, released>>
    BY <1>3 DEF Next, Offer, AddStep, Persist, EndBatch, FlushStep, BeginFlush, FlushKey,
                FlushPriority, EndFlush, RecoveryStep, FindKeys, RecoverKey, EndRecovery,
                Break, PersistFails, RecoverFails, Expire, FindKeysFails, DeleteFails,
                vars, history
  <2>3. Recovery \in Adder
    BY DEF Adder
  <2>4. ASSUME NEW a \in Adder, adding[a].at # "idle", OneCall(a, adding[a].on)
        PROVE  AddedInv'
    <3>1. PICK en : en = adding[a].on
      OBVIOUS
    <3>2. a = Recovery /\ Critical(en.ev) => Taken(en)'
      BY <2>1, <2>4, <3>1, DeliversKeepsTaken DEF AddedInv
    <3>3. OneCall(a, en)
      BY <2>4, <3>1
    <3>4. QED
      BY <2>1, <2>2, <3>2, <3>3, CallAdds
  <2>5. ASSUME UNCHANGED <<adding, acked>>
        PROVE  AddedInv'
    <3>1. PICK en : en = adding[Recovery].on
      OBVIOUS
    <3>2. CASE adding[Recovery].at = "idle"
      <4>1. \A e : Critical(e)' <=> Critical(e)
        BY <2>2 DEF Critical, SeverityOfEvent
      <4>2. \A e \in Event : Critical(e)' /\ <<e, run'>> \in released' => Had(e)'
        BY <2>1, <2>2, <4>1, HadStays DEF AddedInv
      <4>3. QED
        BY <2>5, <3>2, <4>2 DEF AddedInv
    <3>3. CASE adding[Recovery].at # "idle"
      <4>1. OneCall(Recovery, adding[Recovery].on)
        BY <2>5 DEF OneCall
      <4>2. QED
        BY <2>3, <2>4, <3>3, <4>1
    <3>4. QED
      BY <3>2, <3>3
  <2>6. ASSUME NEW e \in Event, Offer(e)
        PROVE  AddedInv'
    <3>1. e \in Adder /\ e # Recovery
      BY EventBufferAssumption DEF Adder
    <3>2. CASE Drops(e)
      BY <2>5, <2>6, <3>2 DEF Offer
    <3>3. CASE ~Drops(e)
      <4>1. PICK en : en = Source(e)
        OBVIOUS
      <4>2. OneCall(e, en)
        BY <2>6, <3>1, <3>3, <4>1, Append2Call DEF Offer
      <4>3. QED
        BY <2>1, <2>2, <3>1, <4>2, CallAdds
    <3>4. QED
      BY <3>2, <3>3
  <2>7. ASSUME NEW a \in Adder, Persist(a) \/ PersistFails(a)
        PROVE  AddedInv'
    <3>1. adding[a].at = "persist" /\ FlushOrReturn(a, adding[a].on, buffer)
      BY <2>7 DEF Persist, PersistFails
    <3>2. PICK en : en = adding[a].on
      OBVIOUS
    <3>3. OneCall(a, en)
      BY <3>1, <3>2, FlushOrReturnCall
    <3>4. QED
      BY <2>4, <3>1, <3>2, <3>3
  <2>8. ASSUME NEW b \in batches, EndBatch(b)
        PROVE  AddedInv'
    <3>1. CASE b.by \in Adder
      <4>1. adding[b.by].at = "flush" /\ Return(b.by, adding[b.by].on)
        BY <2>8, <3>1 DEF Owned, EndBatch
      <4>2. OneCall(b.by, adding[b.by].on)
        BY <3>1, <4>1 DEF Return, OneCall, NoAdd, TypeOK
      <4>3. QED
        BY <2>4, <3>1, <4>1, <4>2
    <3>2. CASE b.by \notin Adder
      BY <2>5, <2>8, <3>2 DEF EndBatch
    <3>3. QED
      BY <3>1, <3>2
  <2>9. ASSUME NEW e \in Event, RecoverKey(e)
        PROVE  AddedInv'
    <3>1. PICK en : en = Recovered(e)
      OBVIOUS
    <3>2. CASE e \notin kept
      BY <2>5, <2>9, <3>2 DEF RecoverKey
    <3>3. CASE e \in kept /\ Drops(e)
      <4>1. /\ acked' = acked
            /\ adding' = [adding EXCEPT ![Recovery] = [at |-> "delete", on |-> en]]
        BY <2>9, <3>1, <3>3 DEF RecoverKey
      <4>2. adding \in [Adder -> Add]
        BY DEF TypeOK
      <4>3. OneCall(Recovery, en)
        BY <2>3, <4>1, <4>2 DEF OneCall
      <4>4. ~Critical(en.ev)
        BY <3>1, <3>3 DEF Drops, Critical, Recovered
      <4>5. QED
        BY <2>1, <2>2, <2>3, <4>3, <4>4, CallAdds
    <3>4. CASE e \in kept /\ ~Drops(e)
      <4>1. OneCall(Recovery, en)
        BY <2>3, <2>9, <3>1, <3>4, Append2Call DEF RecoverKey
      <4>2. Delivery!Take(en)
        BY <2>9, <3>1, <3>4, RecoverOnce
      <4>3. Taken(en)'
        BY <4>2 DEF Delivery!Take, Taken
      <4>4. QED
        BY <2>1, <2>2, <2>3, <4>1, <4>3, CallAdds
    <3>5. QED
      BY <3>2, <3>3, <3>4
  <2>10. CASE DeleteFails
    <3>1. PICK en : en = adding[Recovery].on
      OBVIOUS
    <3>2. /\ adding[Recovery].at = "delete" /\ acked' = acked
          /\ adding' = [adding EXCEPT ![Recovery] = NoAdd]
      BY <2>10 DEF DeleteFails
    <3>3. OneCall(Recovery, adding[Recovery].on)
      BY <2>3, <3>2 DEF OneCall, NoAdd, TypeOK
    <3>4. QED
      BY <2>3, <2>4, <3>2, <3>3
  <2>11. QED
    BY <1>3, <2>5, <2>6, <2>7, <2>8, <2>9, <2>10
       DEF Next, AddStep, FlushStep, BeginFlush, FlushKey, FlushPriority, EndFlush,
           RecoveryStep, FindKeys, EndRecovery, Break, RecoverFails, Expire, FindKeysFails,
           vars, memory, history
<1>4. QED
  BY <1>1, <1>2, <1>3

(* Wherever the process ends, an event of critical or high severity for     *)
(* which add_event returned True is in Redis, in memory or with the         *)
(* processors, unless Redis failed for it, its key expired, or the recovery *)
(* deleted the key; and a critical one whose key it deleted is still held   *)
(* until that process ends.                                                 *)
THEOREM ForgottenByRecoveryOnly == Spec => []OnlyRecoveryForgets
<1>1. Init => TypeOK /\ Owned /\ OnceInv /\ KeptInv /\ AddedInv
  BY InitType, InitOwned, InitOnce, InitKept DEF Init, AddedInv, NoAdd, Adder
<1>2. TypeOK /\ Owned /\ OnceInv /\ KeptInv /\ AddedInv /\ [Next]_vars
        => (TypeOK /\ Owned /\ OnceInv /\ KeptInv /\ AddedInv)'
  BY TypeStep, OwnedStep, OnceStep, KeptStep, AddedStep
<1>3. TypeOK /\ KeptInv /\ AddedInv => OnlyRecoveryForgets
  <2> SUFFICES ASSUME TypeOK, KeptInv, AddedInv, NEW e \in acked, Persisted(e),
                      e \notin kept \cup hurt \cup expired, ~LetGo(e)
               PROVE  Secured(e) \/ Handed(e)
    BY DEF OnlyRecoveryForgets, Secured
  <2>1. e \in Event
    BY DEF TypeOK
  <2>2. PICK p \in released : p[1] = e
    BY DEF KeptInv, AckedIsSafe, Safe
  <2>3. p = <<p[1], p[2]>> /\ p[2] \in 1 .. run /\ run \in Nat
    BY EventBufferAssumption DEF TypeOK
  <2>4. Critical(e) /\ ~(p[2] < run)
    BY <2>2 DEF LetGo, Critical
  <2>5. <<e, run>> \in released
    BY <2>2, <2>3, <2>4
  <2>6. PICK en \in Entry : en.ev = e /\ Taken(en)
    BY <2>1, <2>4, <2>5 DEF AddedInv, Had
  <2>7. <<"key", en>> \in Pending \cup handed
    BY <2>6 DEF Taken, Route
  <2>8. QED
    BY <2>6, <2>7 DEF Secured, InMemory, Handed
<1>4. QED
  BY <1>1, <1>2, <1>3, PTL DEF Spec
=============================================================================
