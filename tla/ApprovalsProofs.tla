--------------------------- MODULE ApprovalsProofs ---------------------------
(* Theorems about Approvals for any number of replicas, users and calls.   *)
EXTENDS Approvals, FiniteSetTheorems, TLAPS

-----------------------------------------------------------------------------
(* Types *)

LEMMA InitType ==
  ASSUME Init
  PROVE  TypeOK
<1>1. record \in Record
  BY DEF Init, Record
<1>2. required \in 1 .. MaxRequired /\ begun \in 0 .. MaxRequests
  BY ApprovalsAssumption DEF Init
<1>3. call \in [Process -> Call \cup {Idle}]
  BY DEF Init
<1>4. QED
  BY <1>1, <1>2, <1>3 DEF Init, TypeOK, Statuses

(* What a handler carries. *)
LEMMA CallType ==
  ASSUME TypeOK, NEW p \in Process, call[p] # Idle
  PROVE  /\ call[p] \in Call
         /\ call[p].user \in User
         /\ call[p].seen \in Record
         /\ call[p].late \in BOOLEAN
BY IdleAssumption DEF TypeOK, Call

LEMMA BeginType ==
  ASSUME TypeOK, NEW p \in Process, NEW u \in User,
         NEW kind \in {"approve", "reject", "cancel"}, Begin(p, kind, u)
  PROVE  TypeOK'
<1>1. [kind |-> kind, user |-> u, seen |-> record, late |-> expired] \in Call
  BY DEF TypeOK, Call
<1>2. call' \in [Process -> Call \cup {Idle}]
  BY <1>1 DEF Begin, TypeOK
<1>3. call'[p] # Idle /\ \A q \in Process : q # p => call'[q] = call[q]
  BY <1>1, IdleAssumption DEF Begin, TypeOK
<1>4. stale' \in SUBSET {q \in Process : call'[q] # Idle}
  BY <1>3 DEF Begin, history, TypeOK
<1>5. begun' \in 0 .. MaxRequests
  BY ApprovalsAssumption DEF Begin, TypeOK
<1>6. QED
  BY <1>2, <1>4, <1>5 DEF Begin, history, TypeOK

(* The ends of a handler: it has written, or not. *)
LEMMA WrittenType ==
  ASSUME TypeOK, NEW p \in Process, call[p] # Idle, Written(p)
  PROVE  /\ call' \in [Process -> Call \cup {Idle}]
         /\ stale' \in SUBSET {q \in Process : call'[q] # Idle}
         /\ overlapped' \in BOOLEAN
<1>1. call' \in [Process -> Call \cup {Idle}] /\ \A q \in Process \ {p} : call'[q] = call[q]
  BY DEF Written, End, TypeOK
<1>2. QED
  BY <1>1 DEF Written, TypeOK

LEMMA UnwrittenType ==
  ASSUME TypeOK, NEW p \in Process, End(p), stale' = stale \ {p}
  PROVE  /\ call' \in [Process -> Call \cup {Idle}]
         /\ stale' \in SUBSET {q \in Process : call'[q] # Idle}
BY DEF End, TypeOK

LEMMA EntryType ==
  ASSUME TypeOK, NEW p \in Process, call[p] # Idle, NEW approved \in BOOLEAN
  PROVE  /\ Entry(p, approved) \in Decision
         /\ Append(call[p].seen.history, Entry(p, approved)) \in Seq(Decision)
         /\ Append(call[p].seen.approvers, call[p].user) \in Seq(User)
         /\ call[p].seen.count + 1 \in Nat
<1>1. call[p].user \in User /\ call[p].seen \in Record
  BY CallType
<1>2. Entry(p, approved) \in Decision
  BY <1>1 DEF Entry, Decision
<1>3. QED
  BY <1>1, <1>2 DEF Record

LEMMA TypeStep ==
  ASSUME TypeOK, [Next]_vars
  PROVE  TypeOK'
<1>1. ASSUME NEW u \in User, NEW k \in 1 .. MaxRequired, Create(u, k)
      PROVE  TypeOK'
  BY <1>1 DEF Create, history, TypeOK, Statuses
<1>2. CASE Expire
  BY <1>2 DEF Expire, history, TypeOK
<1>3. ASSUME NEW p \in Process, NEW u \in Reviewer, NEW kind \in {"approve", "reject"},
             BeginDecision(p, kind, u)
      PROVE  TypeOK'
  BY <1>3, BeginType, ApprovalsAssumption DEF BeginDecision
<1>4. ASSUME NEW p \in Process, NEW u \in User, BeginCancel(p, u)
      PROVE  TypeOK'
  BY <1>4, BeginType DEF BeginCancel
<1>5. ASSUME NEW p \in Process, WriteExpired(p) \/ Cancel(p)
      PROVE  TypeOK'
  <2>1. call[p] # Idle /\ Written(p)
    BY <1>5 DEF WriteExpired, Deciding, Cancel
  <2>2. status' \in Statuses
    BY <1>5 DEF WriteExpired, Cancel, Statuses
  <2>3. QED
    BY <1>5, <2>1, <2>2, WrittenType DEF WriteExpired, Cancel, TypeOK
<1>6. ASSUME NEW p \in Process, Refuse(p) \/ Abandon(p)
      PROVE  TypeOK'
  BY <1>6, UnwrittenType DEF Refuse, Abandon, TypeOK
<1>7. ASSUME NEW p \in Process, Approve(p)
      PROVE  TypeOK'
  <2>1. call[p] # Idle /\ Written(p)
    BY <1>7 DEF Approve, Accepted, Deciding
  <2>2. record' \in Record /\ cast' \subseteq Decision
    BY <1>7, <2>1, EntryType DEF Approve, Record, TypeOK
  <2>3. status' \in Statuses
    BY <1>7 DEF Approve, Statuses, TypeOK
  <2>4. QED
    BY <1>7, <2>1, <2>2, <2>3, WrittenType DEF Approve, TypeOK
<1>8. ASSUME NEW p \in Process, Reject(p)
      PROVE  TypeOK'
  <2>1. call[p] # Idle /\ Written(p)
    BY <1>8 DEF Reject, Accepted, Deciding
  <2>2. record' \in Record /\ cast' \subseteq Decision
    BY <1>8, <2>1, EntryType DEF Reject, Record, TypeOK
  <2>3. status' \in Statuses
    BY <1>8 DEF Reject, Statuses
  <2>4. QED
    BY <1>8, <2>1, <2>2, <2>3, WrittenType DEF Reject, TypeOK
<1>9. CASE UNCHANGED vars
  BY <1>9 DEF vars, history, TypeOK
<1>10. QED
  BY <1>1, <1>2, <1>3, <1>4, <1>5, <1>6, <1>7, <1>8, <1>9 DEF Next

(* Every variable keeps its type: the row has one of the statuses the      *)
(* column allows, and a process is in one handler at most.                 *)
THEOREM TypeCorrect == Spec => []TypeOK
BY InitType, TypeStep, PTL DEF Spec

-----------------------------------------------------------------------------
(* Who supports an approval.                                               *)

(* A snapshot is backed when its count is that of its approvers, and each  *)
(* of them has cast an approval, is not the requester and is in the        *)
(* history.  A rejection that overlaps an approval breaks this in the row, *)
(* but then the row is not pending, and nobody reads it to decide.         *)
Backed(r) ==
  /\ r.count = Cardinality(ToSet(r.approvers))
  /\ \A u \in ToSet(r.approvers) :
       /\ u # requester
       /\ [user |-> u, approved |-> TRUE] \in cast
       /\ \E d \in ToSet(r.history) : d.user = u

(* Before the request is created nobody handles it. *)
NoneInv ==
  status = "none" =>
    /\ record = [count |-> 0, approvers |-> <<>>, history |-> <<>>]
    /\ cast = {}
    /\ \A p \in Process : call[p] = Idle

QuorumInv ==
  /\ \A d \in cast : d.user # requester
  /\ status = "pending" => Backed(record)
  /\ \A p \in Process : call[p] # Idle => Backed(call[p].seen)
  /\ ApprovedByQuorum

LEMMA EmptyBacked ==
  Backed([count |-> 0, approvers |-> <<>>, history |-> <<>>])
BY FS_EmptySet DEF Backed, ToSet

(* An element appended to a sequence. *)
LEMMA ToSetAppend ==
  ASSUME NEW S, NEW s \in Seq(S), NEW e \in S
  PROVE  ToSet(Append(s, e)) = ToSet(s) \cup {e}
<1>1. /\ DOMAIN s = 1 .. Len(s) /\ Len(s) \in Nat
      /\ DOMAIN Append(s, e) = 1 .. Len(s) + 1
      /\ \A i \in 1 .. Len(s) : Append(s, e)[i] = s[i]
      /\ Append(s, e)[Len(s) + 1] = e
  OBVIOUS
<1>2. \A i \in 1 .. Len(s) + 1 : i \in 1 .. Len(s) \/ i = Len(s) + 1
  BY <1>1
<1>3. ToSet(Append(s, e)) \subseteq ToSet(s) \cup {e}
  BY <1>1, <1>2 DEF ToSet
<1>4. ToSet(s) \subseteq ToSet(Append(s, e)) /\ e \in ToSet(Append(s, e))
  BY <1>1 DEF ToSet
<1>5. QED
  BY <1>3, <1>4

(* The users in a sequence of them are finitely many. *)
LEMMA FiniteUsers ==
  ASSUME NEW S \in SUBSET User
  PROVE  IsFiniteSet(S) /\ Cardinality(S) \in Nat
BY ApprovalsAssumption, FS_Subset, FS_CardinalityType

(* Decisions are only added: what was backed stays backed. *)
LEMMA BackedStays ==
  ASSUME NEW r, Backed(r), cast \subseteq cast', requester' = requester
  PROVE  Backed(r)'
BY DEF Backed

(* The snapshot with one more approval, from a user who is not in it. *)
LEMMA ApproveBacked ==
  ASSUME TypeOK, NEW p \in Process, Approve(p), Backed(call[p].seen),
         \A d \in cast : d.user # requester
  PROVE  /\ Backed(record)'
         /\ status' = "approved" /\ status # "approved" => ApprovedByQuorum'
<1> DEFINE seen == call[p].seen
           u    == call[p].user
<1>1. /\ call[p] # Idle /\ u \in User /\ u # requester /\ ~HasDecided(call[p])
      /\ seen \in Record
  BY CallType DEF Approve, Accepted, Deciding
<1>2. u \notin ToSet(seen.approvers)
  BY <1>1 DEF Backed, HasDecided
<1>3. /\ record'.count = seen.count + 1
      /\ record'.approvers = Append(seen.approvers, u)
      /\ record'.history = Append(seen.history, Entry(p, TRUE))
      /\ cast' = cast \cup {Entry(p, TRUE)}
      /\ requester' = requester /\ required' = required
  BY DEF Approve
<1>4. /\ ToSet(record'.approvers) = ToSet(seen.approvers) \cup {u}
      /\ ToSet(record'.history) = ToSet(seen.history) \cup {Entry(p, TRUE)}
  <2>1. seen.approvers \in Seq(User) /\ seen.history \in Seq(Decision)
    BY <1>1 DEF Record
  <2>2. Entry(p, TRUE) \in Decision
    BY <1>1, EntryType
  <2>3. ToSet(Append(seen.approvers, u)) = ToSet(seen.approvers) \cup {u}
    BY <1>1, <2>1, ToSetAppend
  <2>4. \A d \in Decision : ToSet(Append(seen.history, d)) = ToSet(seen.history) \cup {d}
    BY <2>1, ToSetAppend
  <2>5. QED
    BY <1>3, <2>2, <2>3, <2>4
<1>5. ToSet(seen.approvers) \subseteq User
  BY <1>1 DEF Record, ToSet
<1>6. Cardinality(ToSet(record'.approvers)) = record'.count
  <2>1. IsFiniteSet(ToSet(seen.approvers))
    BY <1>5, FiniteUsers
  <2>2. Cardinality(ToSet(record'.approvers)) = Cardinality(ToSet(seen.approvers)) + 1
    BY <1>2, <1>4, <2>1, FS_AddElement
  <2>3. QED
    BY <1>3, <2>2 DEF Backed
<1>7. \A v \in ToSet(record'.approvers) :
        /\ v # requester
        /\ [user |-> v, approved |-> TRUE] \in cast'
        /\ \E d \in ToSet(record'.history) : d.user = v
  BY <1>1, <1>3, <1>4 DEF Backed, Entry
<1>8. Backed(record)'
  BY <1>3, <1>6, <1>7 DEF Backed
<1>9. ASSUME status' = "approved", status # "approved"
      PROVE  ApprovedByQuorum'
  <2> DEFINE supporters == {d.user : d \in Approvals(cast')}
  <2>1. ToSet(record'.approvers) \subseteq supporters
    <3> SUFFICES ASSUME NEW v \in ToSet(record'.approvers)
                 PROVE  v \in supporters
      OBVIOUS
    <3>1. [user |-> v, approved |-> TRUE] \in Approvals(cast')
      BY <1>7 DEF Approvals
    <3>2. [user |-> v, approved |-> TRUE].user = v
      OBVIOUS
    <3>3. QED
      BY <3>1, <3>2
  <2>2. supporters \subseteq User /\ requester \notin supporters
    <3>1. \A d \in cast' : d.user \in User /\ d.user # requester
      BY <1>1, <1>3 DEF Decision, TypeOK, Entry
    <3>2. QED
      BY <3>1 DEF Approvals
  <2>3. Cardinality(supporters) >= record'.count
    <3>1. IsFiniteSet(supporters) /\ Cardinality(supporters) \in Nat
      BY <2>2, FiniteUsers
    <3>2. Cardinality(ToSet(record'.approvers)) <= Cardinality(supporters)
      BY <2>1, <3>1, FS_Subset
    <3>3. QED
      BY <1>6, <3>1, <3>2
  <2>4. record'.count >= required
    BY <1>3, <1>9 DEF Approve
  <2>5. Cardinality(supporters) \in Nat /\ record'.count \in Nat /\ required \in Nat
    <3>1. Cardinality(supporters) \in Nat
      BY <2>2, FiniteUsers
    <3>2. record'.count \in Nat /\ required \in Nat
      BY <1>1, <1>3 DEF TypeOK, Record
    <3>3. QED
      BY <3>1, <3>2
  <2>6. Cardinality(supporters) >= required
    BY <2>3, <2>4, <2>5
  <2>7. QED
    BY <1>3, <2>2, <2>6 DEF ApprovedByQuorum
<1>10. QED
  BY <1>8, <1>9

(* A step that begins no handler and approves nothing. *)
LEMMA QuorumKept ==
  ASSUME QuorumInv, requester' = requester, required' = required,
         status' = status \/ status' \in {"expired", "rejected"},
         status' = "pending" => record' = record,
         cast \subseteq cast',
         \A d \in cast' : d.user # requester,
         status' = "approved" => cast' = cast,
         \A q \in Process : call'[q] = call[q] \/ call'[q] = Idle
  PROVE  QuorumInv'
<1>2. status' = "pending" => Backed(record)'
  BY DEF QuorumInv, Backed
<1>3. \A q \in Process : call'[q] # Idle => Backed(call[q].seen)'
  <2> SUFFICES ASSUME NEW q \in Process, call'[q] # Idle
               PROVE  Backed(call[q].seen)'
    OBVIOUS
  <2>1. call'[q] = call[q] /\ Backed(call[q].seen)
    BY DEF QuorumInv
  <2>2. QED
    BY <2>1 DEF Backed
<1>4. ApprovedByQuorum'
  BY DEF QuorumInv, ApprovedByQuorum
<1>5. QED
  BY <1>2, <1>3, <1>4 DEF QuorumInv

LEMMA BeginQuorum ==
  ASSUME TypeOK, QuorumInv, NEW p \in Process, NEW u, NEW kind, Begin(p, kind, u)
  PROVE  QuorumInv' /\ NoneInv'
<1>1. /\ UNCHANGED <<status, requester, required, record, cast>> /\ status = "pending"
      /\ call'[p].seen = record /\ \A q \in Process : q # p => call'[q] = call[q]
  BY DEF Begin, history, TypeOK
<1>2. Backed(record)
  BY <1>1 DEF QuorumInv
<1>3. \A q \in Process : call'[q] # Idle => Backed(call[q].seen)'
  BY <1>1, <1>2 DEF QuorumInv, Backed
<1>4. QED
  BY <1>1, <1>3 DEF QuorumInv, NoneInv, Backed, ApprovedByQuorum

(* The others' calls, when that of p ends. *)
LEMMA EndCalls ==
  ASSUME TypeOK, NEW p \in Process, End(p)
  PROVE  /\ \A q \in Process : call'[q] = IF q = p THEN Idle ELSE call[q]
BY DEF End, TypeOK

LEMMA QuorumStep ==
  ASSUME TypeOK, NoneInv, QuorumInv, [Next]_vars
  PROVE  (NoneInv /\ QuorumInv)'
<1>1. ASSUME NEW u \in User, NEW k \in 1 .. MaxRequired, Create(u, k)
      PROVE  (NoneInv /\ QuorumInv)'
  <2>1. /\ status = "none" /\ status' = "pending"
        /\ UNCHANGED <<record, call, cast>>
    BY <1>1 DEF Create, history
  <2>2. record = [count |-> 0, approvers |-> <<>>, history |-> <<>>]
    BY <2>1 DEF NoneInv
  <2>3. record.count = 0 /\ ToSet(record.approvers) = {}
    BY <2>2 DEF ToSet
  <2>4. Backed(record)'
    BY <2>1, <2>3, FS_EmptySet DEF Backed
  <2>5. QED
    BY <2>1, <2>4 DEF NoneInv, QuorumInv, ApprovedByQuorum
<1>2. CASE Expire
  BY <1>2, QuorumKept DEF Expire, history, NoneInv, QuorumInv
<1>3. ASSUME NEW p \in Process, NEW u, NEW kind,
             BeginDecision(p, kind, u) \/ BeginCancel(p, u)
      PROVE  (NoneInv /\ QuorumInv)'
  BY <1>3, BeginQuorum DEF BeginDecision, BeginCancel
<1>4. ASSUME NEW p \in Process, WriteExpired(p) \/ Cancel(p)
      PROVE  (NoneInv /\ QuorumInv)'
  <2>1. End(p)
    BY <1>4 DEF WriteExpired, Cancel, Written
  <2>2. QED
    BY <1>4, <2>1, EndCalls, QuorumKept DEF WriteExpired, Cancel, NoneInv, QuorumInv
<1>5. ASSUME NEW p \in Process, Refuse(p) \/ Abandon(p)
      PROVE  (NoneInv /\ QuorumInv)'
  <2>1. End(p) /\ UNCHANGED <<status, requester, required, record, cast>>
    BY <1>5 DEF Refuse, Abandon
  <2>2. QED
    BY <2>1, EndCalls, QuorumKept DEF NoneInv, QuorumInv
<1>6. ASSUME NEW p \in Process, Reject(p)
      PROVE  (NoneInv /\ QuorumInv)'
  <2>1. /\ End(p) /\ status' = "rejected"
        /\ UNCHANGED <<requester, required>>
        /\ cast' = cast \cup {Entry(p, FALSE)} /\ call[p].user # requester
    BY <1>6 DEF Reject, Accepted, Written
  <2>2. \A d \in cast' : d.user # requester
    BY <2>1 DEF QuorumInv, Entry
  <2>3. QED
    BY <2>1, <2>2, EndCalls, QuorumKept DEF NoneInv
<1>7. ASSUME NEW p \in Process, Approve(p)
      PROVE  (NoneInv /\ QuorumInv)'
  <2>1. /\ call[p] # Idle /\ End(p) /\ UNCHANGED <<requester, required>>
        /\ cast' = cast \cup {Entry(p, TRUE)} /\ call[p].user # requester
        /\ status' \in {"approved", status}
    BY <1>7 DEF Approve, Accepted, Deciding, Written
  <2>2. /\ Backed(record)'
        /\ status' = "approved" /\ status # "approved" => ApprovedByQuorum'
    BY <1>7, <2>1, ApproveBacked DEF QuorumInv
  <2>3. status = "approved" => ApprovedByQuorum'
    <3> DEFINE before == {d.user : d \in Approvals(cast)}
               after  == {d.user : d \in Approvals(cast')}
    <3> SUFFICES ASSUME status = "approved"
                 PROVE  ApprovedByQuorum'
      OBVIOUS
    <3>1. Cardinality(before) >= required
      BY DEF QuorumInv, ApprovedByQuorum
    <3>2. before \subseteq after /\ after \subseteq User /\ requester \notin after
      <4>1. \A d \in cast' : d.user \in User /\ d.user # requester
        BY <2>1, CallType DEF TypeOK, Decision, Entry, QuorumInv
      <4>2. QED
        BY <2>1, <4>1 DEF Approvals
    <3>3. /\ IsFiniteSet(after) /\ Cardinality(after) \in Nat /\ Cardinality(before) \in Nat
      BY <3>2, FiniteUsers
    <3>4. Cardinality(before) <= Cardinality(after)
      BY <3>2, <3>3, FS_Subset
    <3>5. Cardinality(after) >= required
      BY <3>1, <3>3, <3>4 DEF TypeOK
    <3>6. QED
      BY <2>1, <3>2, <3>5 DEF ApprovedByQuorum
  <2>4. ApprovedByQuorum'
    BY <2>2, <2>3 DEF ApprovedByQuorum
  <2>5. \A d \in cast' : d.user # requester
    BY <2>1 DEF QuorumInv, Entry
  <2>6. \A q \in Process : call'[q] # Idle => Backed(call[q].seen)'
    <3> SUFFICES ASSUME NEW q \in Process, call'[q] # Idle
                 PROVE  Backed(call[q].seen)'
      OBVIOUS
    <3>1. call'[q] = call[q] /\ Backed(call[q].seen)
      BY <2>1, EndCalls DEF QuorumInv
    <3>2. QED
      BY <2>1, <3>1 DEF Backed
  <2>7. NoneInv'
    BY <2>1 DEF NoneInv
  <2>8. QED
    BY <2>1, <2>2, <2>4, <2>5, <2>6, <2>7 DEF QuorumInv
<1>8. CASE UNCHANGED vars
  BY <1>8 DEF vars, history, NoneInv, QuorumInv, Backed, ApprovedByQuorum
<1>9. QED
  BY <1>1, <1>2, <1>3, <1>4, <1>5, <1>6, <1>7, <1>8 DEF Next

(* However many replicas interleave, a request is approved only when as    *)
(* many people as it requires, none of them the requester, approved it.    *)
THEOREM QuorumApproves == Spec => []ApprovedByQuorum
<1>1. Init => TypeOK /\ NoneInv /\ QuorumInv
  BY InitType DEF Init, NoneInv, QuorumInv, ApprovedByQuorum
<1>2. TypeOK /\ NoneInv /\ QuorumInv /\ [Next]_vars => (TypeOK /\ NoneInv /\ QuorumInv)'
  BY TypeStep, QuorumStep
<1>3. QuorumInv => ApprovedByQuorum
  BY DEF QuorumInv
<1>4. QED
  BY <1>1, <1>2, <1>3, PTL DEF Spec

-----------------------------------------------------------------------------
(* What a handler knows that is not stale: the row is as it read it.       *)

FreshInv ==
  \A p \in Process : call[p] # Idle /\ p \notin stale =>
    status = "pending" /\ call[p].seen = record

(* A process has written: the others in a handler are stale. *)
LEMMA WrittenFresh ==
  ASSUME TypeOK, NEW p \in Process, Written(p)
  PROVE  FreshInv'
<1>1. \A q \in Process : call'[q] = IF q = p THEN Idle ELSE call[q]
  BY EndCalls DEF Written
<1>2. \A q \in Process : call'[q] # Idle => q \in stale'
  BY <1>1 DEF Written
<1>3. QED
  BY <1>2 DEF FreshInv

LEMMA FreshStep ==
  ASSUME TypeOK, NoneInv, FreshInv, [Next]_vars
  PROVE  FreshInv'
<1>1. ASSUME NEW u \in User, NEW k \in 1 .. MaxRequired, Create(u, k)
      PROVE  FreshInv'
  BY <1>1 DEF Create, NoneInv, FreshInv
<1>2. CASE Expire
  BY <1>2 DEF Expire, history, FreshInv
<1>3. ASSUME NEW p \in Process, NEW u, NEW kind, Begin(p, kind, u)
      PROVE  FreshInv'
  <2>1. /\ UNCHANGED <<status, record, stale>> /\ status = "pending"
        /\ call'[p].seen = record /\ \A q \in Process : q # p => call'[q] = call[q]
    BY <1>3 DEF Begin, history, TypeOK
  <2>2. QED
    BY <2>1 DEF FreshInv
<1>4. ASSUME NEW p \in Process, WriteExpired(p) \/ Cancel(p) \/ Approve(p) \/ Reject(p)
      PROVE  FreshInv'
  BY <1>4, WrittenFresh DEF WriteExpired, Cancel, Approve, Reject
<1>5. ASSUME NEW p \in Process, Refuse(p) \/ Abandon(p)
      PROVE  FreshInv'
  <2>1. End(p) /\ stale' = stale \ {p} /\ UNCHANGED <<status, record>>
    BY <1>5 DEF Refuse, Abandon
  <2>2. QED
    BY <2>1, EndCalls DEF FreshInv
<1>6. CASE UNCHANGED vars
  BY <1>6 DEF vars, history, FreshInv
<1>7. QED
  BY <1>1, <1>2, <1>3, <1>4, <1>5, <1>6 DEF Next, BeginDecision, BeginCancel

LEMMA Freshness == Spec => [](TypeOK /\ NoneInv /\ QuorumInv /\ FreshInv)
<1>1. Init => TypeOK /\ NoneInv /\ QuorumInv /\ FreshInv
  BY InitType DEF Init, NoneInv, QuorumInv, ApprovedByQuorum, FreshInv
<1>2. TypeOK /\ NoneInv /\ QuorumInv /\ FreshInv /\ [Next]_vars
        => (TypeOK /\ NoneInv /\ QuorumInv /\ FreshInv)'
  BY TypeStep, QuorumStep, FreshStep
<1>3. QED
  BY <1>1, <1>2, PTL DEF Spec

(* An approved or rejected request changes only by a process that writes   *)
(* a row that another has written since it read it.                        *)
THEOREM DecisionsStand == Spec => DecisionStands
<1>1. ASSUME TypeOK, FreshInv, [Next]_vars, status \in Decided, ~overlapped'
      PROVE  status' = status
  <2>1. \A p \in Process : call[p] # Idle /\ Written(p) => FALSE
    BY <1>1 DEF Written, FreshInv, Decided
  <2>2. ASSUME NEW p \in Process, WriteExpired(p) \/ Cancel(p) \/ Approve(p) \/ Reject(p)
        PROVE  FALSE
    BY <2>1, <2>2 DEF WriteExpired, Cancel, Approve, Reject, Accepted, Deciding
  <2>3. QED
    BY <1>1, <2>2 DEF Next, vars, Create, Expire, BeginDecision, BeginCancel, Begin,
                      Refuse, Abandon, Decided
<1>2. TypeOK /\ FreshInv /\ [Next]_vars
        => [(status \in Decided /\ ~overlapped') => (status' = status)]_vars
  BY <1>1
<1>3. QED
  BY <1>2, Freshness, PTL DEF Spec, DecisionStands

-----------------------------------------------------------------------------
(* The row and the decisions cast.                                         *)

ExactInv == IsFiniteSet(cast) /\ RecordIsExact

(* One more decision, from a user who had made none. *)
LEMMA OneMore ==
  ASSUME TypeOK, NEW p \in Process, call[p] # Idle, ~HasDecided(call[p]),
         NEW approved \in BOOLEAN,
         IsFiniteSet(cast), ToSet(call[p].seen.history) = cast,
         Len(call[p].seen.history) = Cardinality(cast)
  PROVE  LET d    == Entry(p, approved)
             past == call[p].seen.history IN
         /\ d \notin cast
         /\ d.approved = approved
         /\ IsFiniteSet(cast \cup {d})
         /\ ToSet(Append(past, d)) = cast \cup {d}
         /\ Len(Append(past, d)) = Cardinality(cast \cup {d})
<1> DEFINE d    == Entry(p, approved)
           past == call[p].seen.history
<1>1. past \in Seq(Decision) /\ d \in Decision
  BY CallType, EntryType DEF Record
<1>2. d \notin cast /\ d.approved = approved
  BY DEF HasDecided, Entry
<1>3. \A e \in Decision : ToSet(Append(past, e)) = ToSet(past) \cup {e}
  BY <1>1, ToSetAppend
<1>4. /\ IsFiniteSet(cast \cup {d})
      /\ Cardinality(cast \cup {d}) = Cardinality(cast) + 1
  BY <1>2, FS_AddElement
<1>5. Len(Append(past, d)) = Len(past) + 1
  BY <1>1
<1>6. QED
  BY <1>1, <1>2, <1>3, <1>4, <1>5

LEMMA ExactStep ==
  ASSUME TypeOK, NoneInv, FreshInv, ExactInv, [Next]_vars
  PROVE  ExactInv'
<1>1. ASSUME NEW u \in User, NEW k \in 1 .. MaxRequired, Create(u, k)
      PROVE  ExactInv'
  <2>1. /\ status = "none" /\ status' = "pending" /\ required' = k
        /\ UNCHANGED <<record, cast, overlapped>>
    BY <1>1 DEF Create, history
  <2>2. record.count = 0 /\ cast = {}
    BY <2>1 DEF NoneInv
  <2>3. ~(record.count >= k)
    BY <2>2
  <2>4. QED
    BY <2>1, <2>2, <2>3 DEF ExactInv, RecordIsExact, Approvals
<1>2. ASSUME NEW p \in Process, NEW u, NEW kind,
             Expire \/ Begin(p, kind, u) \/ Refuse(p) \/ Abandon(p)
      PROVE  ExactInv'
  BY <1>2 DEF Expire, Begin, Refuse, Abandon, history, ExactInv, RecordIsExact
<1>3. CASE Expire
  BY <1>3 DEF Expire, history, ExactInv, RecordIsExact
<1>4. ASSUME NEW p \in Process, call[p] # Idle, Written(p), ~overlapped'
      PROVE  /\ status = "pending" /\ call[p].seen = record /\ ~overlapped
             /\ ToSet(record.history) = cast
             /\ Len(record.history) = Cardinality(cast)
             /\ ~(record.count >= required)
  BY <1>4 DEF Written, FreshInv, ExactInv, RecordIsExact
<1>5. ASSUME NEW p \in Process, WriteExpired(p) \/ Cancel(p)
      PROVE  ExactInv'
  <2>1. /\ call[p] # Idle /\ Written(p) /\ status' \in {"expired", "rejected"}
        /\ UNCHANGED <<record, required, cast>>
    BY <1>5 DEF WriteExpired, Cancel, Deciding
  <2>2. QED
    BY <1>4, <2>1 DEF ExactInv, RecordIsExact
<1>6. ASSUME NEW p \in Process, Reject(p)
      PROVE  ExactInv'
  <2>1. /\ call[p] # Idle /\ ~HasDecided(call[p]) /\ Written(p)
        /\ status' = "rejected" /\ required' = required
        /\ cast' = cast \cup {Entry(p, FALSE)}
        /\ record' = [record EXCEPT !.history = Append(call[p].seen.history, Entry(p, FALSE))]
    BY <1>6 DEF Reject, Accepted, Deciding
  <2>2. IsFiniteSet(cast')
    BY <2>1, FS_AddElement DEF ExactInv
  <2>3. CASE ~overlapped'
    <3>1. /\ ToSet(Append(call[p].seen.history, Entry(p, FALSE))) = cast'
          /\ Len(Append(call[p].seen.history, Entry(p, FALSE))) = Cardinality(cast')
          /\ Entry(p, FALSE).approved = FALSE
      BY <1>4, <2>1, <2>3, OneMore DEF ExactInv
    <3>2. /\ record'.history = Append(call[p].seen.history, Entry(p, FALSE))
          /\ record'.count = record.count /\ record'.approvers = record.approvers
      BY <2>1 DEF TypeOK, Record
    <3>3. Approvals(cast') = Approvals(cast)
      BY <2>1, <3>1 DEF Approvals
    <3>4. QED
      BY <1>4, <2>1, <2>2, <2>3, <3>1, <3>2, <3>3 DEF ExactInv, RecordIsExact
  <2>4. QED
    BY <2>2, <2>3 DEF ExactInv, RecordIsExact
<1>7. ASSUME NEW p \in Process, Approve(p)
      PROVE  ExactInv'
  <2> DEFINE seen == call[p].seen
             d    == Entry(p, TRUE)
  <2>1. /\ call[p] # Idle /\ ~HasDecided(call[p]) /\ Written(p)
        /\ required' = required /\ cast' = cast \cup {d}
        /\ record'.count = seen.count + 1
        /\ record'.approvers = Append(seen.approvers, call[p].user)
        /\ record'.history = Append(seen.history, d)
        /\ status' = IF seen.count + 1 >= required THEN "approved" ELSE status
    BY <1>7 DEF Approve, Accepted, Deciding
  <2>2. IsFiniteSet(cast')
    BY <2>1, FS_AddElement DEF ExactInv
  <2>3. CASE ~overlapped'
    <3>1. /\ d \notin cast /\ d.approved = TRUE
          /\ ToSet(Append(seen.history, d)) = cast'
          /\ Len(Append(seen.history, d)) = Cardinality(cast')
      BY <1>4, <2>1, <2>3, OneMore DEF ExactInv
    <3>2. Approvals(cast') = Approvals(cast) \cup {d} /\ d \notin Approvals(cast)
      BY <2>1, <3>1 DEF Approvals
    <3>3. Cardinality(Approvals(cast')) = Cardinality(Approvals(cast)) + 1
      <4>1. IsFiniteSet(Approvals(cast))
        BY FS_Subset DEF ExactInv, Approvals
      <4>2. QED
        BY <3>2, <4>1, FS_AddElement
    <3>4. /\ record.count = Cardinality(Approvals(cast))
          /\ Len(record.approvers) = record.count
          /\ Approvals(cast) = cast
      BY <1>4, <2>1, <2>3 DEF ExactInv, RecordIsExact
    <3>5. record'.count = Cardinality(Approvals(cast'))
      BY <1>4, <2>1, <2>3, <3>3, <3>4
    <3>6. Len(record'.approvers) = record'.count
      BY <1>4, <2>1, <2>3, <3>4, CallType DEF Record
    <3>7. Approvals(cast') = cast'
      BY <2>1, <3>2, <3>4
    <3>8. status' = "approved" <=> status' # "none" /\ record'.count >= required
      BY <1>4, <2>1, <2>3
    <3>9. QED
      BY <2>1, <2>2, <3>1, <3>5, <3>6, <3>7, <3>8 DEF ExactInv, RecordIsExact
  <2>4. QED
    BY <2>2, <2>3 DEF ExactInv, RecordIsExact
<1>8. CASE UNCHANGED vars
  BY <1>8 DEF vars, history, ExactInv, RecordIsExact
<1>9. QED
  BY <1>1, <1>2, <1>3, <1>5, <1>6, <1>7, <1>8 DEF Next, BeginDecision, BeginCancel

(* Until two handlers overlap the row is the truth: what it counts and     *)
(* lists is what was decided, and its status is what follows from it.      *)
THEOREM RecordsAreExact == Spec => []RecordIsExact
<1>1. Init => ExactInv
  <2> SUFFICES ASSUME Init
               PROVE  ExactInv
    OBVIOUS
  <2>1. cast = {} /\ Approvals(cast) = {} /\ IsFiniteSet(cast) /\ Cardinality({}) = 0
    BY FS_EmptySet DEF Init, Approvals
  <2>2. /\ record.history = <<>> /\ record.approvers = <<>> /\ record.count = 0
        /\ ToSet(record.history) = {} /\ status = "none"
    BY DEF Init, ToSet
  <2>3. QED
    BY <2>1, <2>2 DEF ExactInv, RecordIsExact
<1>2. TypeOK /\ NoneInv /\ FreshInv /\ ExactInv /\ [Next]_vars => ExactInv'
  BY ExactStep
<1>3. ExactInv => RecordIsExact
  BY DEF ExactInv
<1>4. QED
  BY <1>1, <1>2, <1>3, Freshness, PTL DEF Spec
=============================================================================
