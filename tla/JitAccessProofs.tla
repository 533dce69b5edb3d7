--------------------------- MODULE JitAccessProofs ---------------------------
(* Theorems about JitAccess for any number of secrets, requests, grants,    *)
(* processes, waiting approvals and faults.                                 *)
EXTENDS JitAccess, TLAPS

LEMMA InitType == Init => TypeOK
BY JitAccessAssumption DEF Init, TypeOK, Row, Issued, Segment, NoSegment, Call, NoCall

(* What Enter and Leave make of doing. *)
LEMMA SegmentType ==
  ASSUME TypeOK, NEW p \in Process,
         \/ Leave(p)
         \/ \E r \in Request : Enter(p, "reject", r, {})
         \/ \E B \in SUBSET Grant : Enter(p, "sweep", None, B)
  PROVE  /\ doing' \in [Process -> Segment]
         /\ \A q \in Process : doing'[q].op = "reject" => doing'[q].on \in Request
<1>1. CASE Leave(p)
  BY <1>1 DEF Leave, NoSegment, Segment, TypeOK
<1>2. CASE \E r \in Request : Enter(p, "reject", r, {})
  BY <1>2 DEF Enter, Segment, TypeOK
<1>3. CASE \E B \in SUBSET Grant : Enter(p, "sweep", None, B)
  BY <1>3 DEF Enter, Segment, TypeOK
<1>4. QED
  BY <1>1, <1>2, <1>3

(* A user's call, up to its await if it has one, keeps the types. *)
LEMMA AskType ==
  ASSUME TypeOK, NEW p \in Process, Ask(p)
  PROVE  TypeOK'
<1> USE JitAccessAssumption
<1>1. ASSUME NEW r \in Request, CreateRequest(p, r)
      PROVE  TypeOK'
  BY <1>1 DEF CreateRequest, localVars, TypeOK, Row
<1>2. ASSUME NEW r \in Request, BeginReject(p, r)
      PROVE  TypeOK'
  <2>1. Enter(p, "reject", r, {})
    BY <1>2 DEF BeginReject
  <2>2. /\ doing' \in [Process -> Segment]
        /\ \A q \in Process : doing'[q].op = "reject" => doing'[q].on \in Request
    BY <2>1, SegmentType
  <2>3. QED
    BY <2>1, <2>2 DEF Enter, rowVars, TypeOK
<1>3. ASSUME NEW h \in Handler, NEW r \in Request, BeginApprove(p, h, r)
      PROVE  TypeOK'
  BY <1>3 DEF BeginApprove, rowVars, TypeOK, Call
<1>4. ASSUME NEW s \in Secret, DeleteSecret(p, s)
      PROVE  TypeOK'
  <2>1. status' \in [Request -> Row \cup {"none", "deleted"}]
    BY <1>4 DEF DeleteSecret, TypeOK
  <2>2. /\ grant' \in [Grant -> Issued \cup {"none", "deleted"}]
        /\ \A g \in Grant : grant'[g] # "none" => grantOf[g] \in Request
    BY <1>4 DEF DeleteSecret, TypeOK, Issued
  <2>3. QED
    BY <1>4, <2>1, <2>2 DEF DeleteSecret, localVars, TypeOK
<1>5. QED
  BY <1>1, <1>2, <1>3, <1>4 DEF Ask

(* What an approval does after its await keeps the types. *)
LEMMA AnswerType ==
  ASSUME TypeOK, NEW h \in Handler, Answer(h)
  PROVE  TypeOK'
<1> USE JitAccessAssumption
<1>1. ASSUME NEW g \in Grant, NEW d \in Duration, FinishApprove(h, g, d)
      PROVE  TypeOK'
  <2> DEFINE p == call[h].at
             r == call[h].on
  <2>1. p \in Process /\ r \in Request
    BY <1>1 DEF FinishApprove, TypeOK
  <2>2. call' \in [Handler -> Call] /\ \A k \in Handler : call'[k].at \in Process <=> call'[k].on \in Request
    BY <1>1 DEF FinishApprove, NoCall, Call, TypeOK
  <2>3. CASE Exists(r)
    <3>1. Issue(g, r, d) /\ SetStatus(r, "approved") /\ UNCHANGED conn
      BY <1>1, <2>3 DEF FinishApprove
    <3>2. now + d \in Nat
      BY DEF TypeOK
    <3>3. /\ grant' \in [Grant -> Issued \cup {"none", "deleted"}]
          /\ grantOf' \in [Grant -> Request \cup {None}]
          /\ \A k \in Grant : grant'[k] # "none" => grantOf'[k] \in Request
      BY <2>1, <3>1 DEF Issue, Issued, TypeOK
    <3>4. expires' \in [Grant -> Nat]
      BY <3>1, <3>2 DEF Issue, TypeOK
    <3>5. status' \in [Request -> Row \cup {"none", "deleted"}]
      BY <2>1, <3>1 DEF SetStatus, Row, TypeOK
    <3>6. QED
      BY <1>1, <2>2, <3>1, <3>3, <3>4, <3>5 DEF FinishApprove, TypeOK
  <2>4. CASE ~Exists(r)
    BY <1>1, <2>1, <2>2, <2>4 DEF FinishApprove, TypeOK
  <2>5. QED
    BY <2>3, <2>4
<1>2. CASE AbandonApprove(h)
  BY <1>2 DEF AbandonApprove, rowVars, NoCall, Call, TypeOK
<1>3. QED
  BY <1>1, <1>2 DEF Answer

(* What an event loop runs between two statements keeps the types. *)
LEMMA RunType ==
  ASSUME TypeOK, NEW p \in Process, Run(p)
  PROVE  TypeOK'
<1> USE JitAccessAssumption
<1>1. CASE FinishReject(p)
  <2>1. doing[p].on \in Request /\ Leave(p)
    BY <1>1 DEF FinishReject, TypeOK
  <2>2. status' \in [Request -> Row \cup {"none", "deleted"}]
    BY <1>1, <2>1 DEF FinishReject, SetStatus, Row, TypeOK
  <2>3. QED
    BY <1>1, <2>1, <2>2, SegmentType DEF FinishReject, TypeOK
<1>2. CASE BeginSweep(p)
  <2>1. \E B \in SUBSET Grant : Enter(p, "sweep", None, B)
    BY <1>2 DEF BeginSweep
  <2>2. /\ doing' \in [Process -> Segment]
        /\ \A q \in Process : doing'[q].op = "reject" => doing'[q].on \in Request
    BY <2>1, SegmentType
  <2>3. QED
    BY <2>1, <2>2 DEF Enter, rowVars, TypeOK
<1>3. CASE FinishSweep(p)
  <2>1. Leave(p)
    BY <1>3 DEF FinishSweep
  <2>2. status' \in [Request -> Row \cup {"none", "deleted"}]
    BY <1>3 DEF FinishSweep, Row, TypeOK
  <2>3. /\ grant' \in [Grant -> Issued \cup {"none", "deleted"}]
        /\ \A g \in Grant : grant'[g] # "none" => grantOf[g] \in Request
    BY <1>3 DEF FinishSweep, Revoke, Issued, TypeOK
  <2>4. QED
    BY <1>3, <2>1, <2>2, <2>3, SegmentType DEF FinishSweep, TypeOK
<1>4. QED
  BY <1>1, <1>2, <1>3 DEF Run

(* A failed statement, a restart and the clock keep the types. *)
LEMMA FailureType ==
  ASSUME TypeOK, Tick \/ \E p \in Process : StatementFails(p) \/ Restart(p)
  PROVE  TypeOK'
<1>1. CASE Tick
  BY <1>1 DEF Tick, rowVars, localVars, TypeOK
<1>2. ASSUME NEW p \in Process, StatementFails(p)
      PROVE  TypeOK'
  BY <1>2, SegmentType DEF StatementFails, Fault, rowVars, TypeOK
<1>3. ASSUME NEW p \in Process, Restart(p)
      PROVE  TypeOK'
  <2>1. call' \in [Handler -> Call]
        /\ \A h \in Handler : call'[h].at \in Process <=> call'[h].on \in Request
    BY <1>3, JitAccessAssumption DEF Restart, NoCall, Call, TypeOK
  <2>2. QED
    BY <1>3, <2>1, SegmentType DEF Restart, Fault, rowVars, TypeOK
<1>4. QED
  BY <1>1, <1>2, <1>3

LEMMA NextType == TypeOK /\ [Next]_vars => TypeOK'
<1> SUFFICES ASSUME TypeOK, [Next]_vars PROVE TypeOK'
  OBVIOUS
<1>1. CASE Next
  BY <1>1, AskType, AnswerType, RunType, FailureType DEF Next
<1>2. CASE UNCHANGED vars
  BY <1>2 DEF vars, rowVars, localVars, TypeOK
<1>3. QED
  BY <1>1, <1>2

(* Every variable keeps its type in every state the service reaches: in     *)
(* particular no grant is issued without its request, and an approval that  *)
(* awaits its body knows its process and its request.                       *)
THEOREM TypeCorrect == Spec => []TypeOK
<1>1. Init => TypeOK
  BY InitType
<1>2. TypeOK /\ [Next]_vars => TypeOK'
  BY NextType
<1>3. QED
  BY <1>1, <1>2, PTL DEF Spec
-----------------------------------------------------------------------------
(* A sweep closes every request of its grants, whoever wrote what between    *)
(* its two halves: the one step that both takes grants away and leaves rows. *)
LEMMA SweepKeepsGranted ==
  ASSUME TypeOK, ApprovedIsGranted, NEW p \in Process, FinishSweep(p)
  PROVE  ApprovedIsGranted'
<1> SUFFICES ASSUME NEW r \in Request, status'[r] = "approved"
             PROVE  \E g \in Grant : grant'[g] = "live" /\ grantOf'[g] = r
  BY DEF ApprovedIsGranted
<1>1. status[r] = "approved" /\ \A g \in doing[p].batch : grantOf[g] # r
  BY DEF FinishSweep, Exists, Row, TypeOK
<1>2. PICK g \in Grant : grant[g] = "live" /\ grantOf[g] = r
  BY <1>1 DEF ApprovedIsGranted
<1>3. grant'[g] = "live" /\ grantOf'[g] = r
  BY <1>1, <1>2 DEF FinishSweep, Revoke
<1>4. QED
  BY <1>3

LEMMA DeleteKeepsGranted ==
  ASSUME TypeOK, ApprovedIsGranted, NEW p \in Process, NEW s \in Secret,
         DeleteSecret(p, s)
  PROVE  ApprovedIsGranted'
<1> SUFFICES ASSUME NEW r \in Request, status'[r] = "approved"
             PROVE  \E g \in Grant : grant'[g] = "live" /\ grantOf'[g] = r
  BY DEF ApprovedIsGranted
<1>1. status[r] = "approved" /\ SecretOf[r] # s
  BY DEF DeleteSecret, Exists, Row, TypeOK
<1>2. PICK g \in Grant : grant[g] = "live" /\ grantOf[g] = r
  BY <1>1 DEF ApprovedIsGranted
<1>3. grant'[g] = "live" /\ grantOf'[g] = r
  BY <1>1, <1>2 DEF DeleteSecret
<1>4. QED
  BY <1>3

LEMMA ApproveKeepsGranted ==
  ASSUME TypeOK, ApprovedIsGranted, NEW h \in Handler, NEW g \in Grant,
         NEW d \in Duration, FinishApprove(h, g, d)
  PROVE  ApprovedIsGranted'
<1> DEFINE q == call[h].on
<1>1. CASE Exists(q)
  <2> SUFFICES ASSUME NEW r \in Request, status'[r] = "approved"
               PROVE  \E k \in Grant : grant'[k] = "live" /\ grantOf'[k] = r
    BY DEF ApprovedIsGranted
  <2>1. Issue(g, q, d) /\ SetStatus(q, "approved") /\ grant[g] = "none"
    BY <1>1 DEF FinishApprove
  <2>2. CASE r = q
    BY <2>1, <2>2 DEF Issue, TypeOK
  <2>3. CASE r # q
    <3>1. status[r] = "approved"
      BY <2>1, <2>3 DEF SetStatus, TypeOK
    <3>2. PICK k \in Grant : grant[k] = "live" /\ grantOf[k] = r
      BY <3>1 DEF ApprovedIsGranted
    <3>3. k # g
      BY <2>1, <3>2
    <3>4. QED
      BY <2>1, <3>2, <3>3 DEF Issue, TypeOK
  <2>4. QED
    BY <2>2, <2>3
<1>2. CASE ~Exists(q)
  BY <1>2 DEF FinishApprove, ApprovedIsGranted
<1>3. QED
  BY <1>1, <1>2

LEMMA NextGranted == TypeOK /\ ApprovedIsGranted /\ [Next]_vars => ApprovedIsGranted'
<1> SUFFICES ASSUME TypeOK, ApprovedIsGranted, [Next]_vars
             PROVE  ApprovedIsGranted'
  OBVIOUS
<1>1. CASE UNCHANGED <<status, grant, grantOf>>
  BY <1>1 DEF ApprovedIsGranted
<1>2. ASSUME NEW p \in Process, NEW r \in Request, CreateRequest(p, r)
      PROVE  ApprovedIsGranted'
  BY <1>2 DEF CreateRequest, ApprovedIsGranted, TypeOK
<1>3. ASSUME NEW p \in Process, FinishReject(p)
      PROVE  ApprovedIsGranted'
  BY <1>3 DEF FinishReject, SetStatus, ApprovedIsGranted, TypeOK
<1>4. ASSUME NEW p \in Process, Ask(p)
      PROVE  ApprovedIsGranted'
  BY <1>1, <1>2, <1>4, DeleteKeepsGranted
     DEF Ask, BeginReject, BeginApprove, Enter, rowVars
<1>5. ASSUME NEW p \in Process, Run(p)
      PROVE  ApprovedIsGranted'
  BY <1>1, <1>3, <1>5, SweepKeepsGranted DEF Run, BeginSweep, Enter, rowVars
<1>6. ASSUME NEW h \in Handler, Answer(h)
      PROVE  ApprovedIsGranted'
  BY <1>1, <1>6, ApproveKeepsGranted DEF Answer, AbandonApprove, rowVars
<1>7. CASE Tick \/ \E p \in Process : StatementFails(p) \/ Restart(p)
  BY <1>1, <1>7 DEF Tick, StatementFails, Restart, rowVars
<1>8. CASE UNCHANGED vars
  BY <1>1, <1>8 DEF vars, rowVars
<1>9. QED
  BY <1>4, <1>5, <1>6, <1>7, <1>8 DEF Next

(* However many processes decide and sweep at once, and whatever fails, a    *)
(* request that says approved has a grant that is still to be revoked.       *)
THEOREM ApprovedAlwaysGranted == Spec => []ApprovedIsGranted
<1>1. Init => TypeOK /\ ApprovedIsGranted
  BY InitType DEF Init, ApprovedIsGranted
<1>2. TypeOK /\ ApprovedIsGranted /\ [Next]_vars => (TypeOK /\ ApprovedIsGranted)'
  BY NextType, NextGranted
<1>3. QED
  BY <1>1, <1>2, PTL DEF Spec
-----------------------------------------------------------------------------
(* Nothing of a decided request moves once no decision on it is under way.   *)
StaysClosed(r) == Closed(r)' /\ status'[r] \in {status[r], "deleted"}

LEMMA NextIsFinal ==
  ASSUME TypeOK, Next, NEW r \in Request,
         status[r] \in {"rejected", "expired"}, Closed(r)
  PROVE  StaysClosed(r)
<1> USE JitAccessAssumption
<1>1. CASE Tick
  BY <1>1 DEF Tick, rowVars, localVars, Closed, StaysClosed
<1>2. ASSUME NEW p \in Process, Ask(p)
      PROVE  StaysClosed(r)
  <2>1. ASSUME NEW q \in Request, CreateRequest(p, q)
        PROVE  StaysClosed(r)
    BY <2>1 DEF CreateRequest, localVars, Closed, StaysClosed, TypeOK
  <2>2. ASSUME NEW q \in Request, BeginReject(p, q)
        PROVE  StaysClosed(r)
    BY <2>2 DEF BeginReject, Decidable, Enter, rowVars, Closed, StaysClosed, TypeOK
  <2>3. ASSUME NEW h \in Handler, NEW q \in Request, BeginApprove(p, h, q)
        PROVE  StaysClosed(r)
    BY <2>3 DEF BeginApprove, Decidable, rowVars, Closed, StaysClosed, TypeOK
  <2>4. ASSUME NEW s \in Secret, DeleteSecret(p, s)
        PROVE  StaysClosed(r)
    BY <2>4 DEF DeleteSecret, localVars, Closed, StaysClosed, TypeOK
  <2>5. QED
    BY <1>2, <2>1, <2>2, <2>3, <2>4 DEF Ask
<1>3. ASSUME NEW p \in Process, Run(p)
      PROVE  StaysClosed(r)
  <2>1. CASE FinishReject(p)
    BY <2>1 DEF FinishReject, SetStatus, Leave, NoSegment, Closed, StaysClosed, TypeOK
  <2>2. CASE BeginSweep(p)
    BY <2>2 DEF BeginSweep, Expired, Enter, rowVars, Closed, StaysClosed, TypeOK
  <2>3. CASE FinishSweep(p)
    <3>1. status'[r] = status[r]
      BY <2>3 DEF FinishSweep, Closed, TypeOK
    <3>2. Closed(r)'
      BY <2>3 DEF FinishSweep, Revoke, Leave, NoSegment, Closed, TypeOK
    <3>3. QED
      BY <3>1, <3>2 DEF StaysClosed
  <2>4. QED
    BY <1>3, <2>1, <2>2, <2>3 DEF Run
<1>4. ASSUME NEW h \in Handler, Answer(h)
      PROVE  StaysClosed(r)
  <2>1. ASSUME NEW g \in Grant, NEW d \in Duration, FinishApprove(h, g, d)
        PROVE  StaysClosed(r)
    <3>1. call[h].on # r
      BY DEF Closed
    <3>2. status'[r] = status[r]
      BY <2>1, <3>1 DEF FinishApprove, SetStatus, TypeOK
    <3>3. \A k \in Grant : grantOf'[k] = r => grant'[k] # "live"
      BY <2>1, <3>1 DEF FinishApprove, Issue, Closed, TypeOK
    <3>4. \A p \in Process :
            doing'[p].on # r /\ \A k \in doing'[p].batch : grantOf'[k] # r
      BY <2>1, <3>1 DEF FinishApprove, Issue, Closed, TypeOK, Segment
    <3>5. \A k \in Handler : call'[k].on # r
      BY <2>1 DEF FinishApprove, NoCall, Closed, TypeOK
    <3>6. QED
      BY <3>2, <3>3, <3>4, <3>5 DEF StaysClosed, Closed
  <2>2. CASE AbandonApprove(h)
    BY <2>2 DEF AbandonApprove, NoCall, rowVars, Closed, StaysClosed, TypeOK
  <2>3. QED
    BY <1>4, <2>1, <2>2 DEF Answer
<1>5. ASSUME NEW p \in Process, StatementFails(p) \/ Restart(p)
      PROVE  StaysClosed(r)
  <2>1. /\ UNCHANGED <<status, grant, grantOf>>
        /\ doing' = [doing EXCEPT ![p] = NoSegment]
        /\ \A h \in Handler : call'[h] \in {call[h], NoCall}
    BY <1>5 DEF StatementFails, Restart, Leave, rowVars, TypeOK
  <2>2. \A h \in Handler : call'[h].on # r
    BY <2>1 DEF NoCall, Closed
  <2>3. \A q \in Process : doing'[q].on # r /\ \A g \in doing'[q].batch : grantOf'[g] # r
    BY <2>1 DEF NoSegment, Closed, TypeOK
  <2>4. QED
    BY <2>1, <2>2, <2>3 DEF StaysClosed, Closed
<1>6. QED
  BY <1>1, <1>2, <1>3, <1>4, <1>5 DEF Next

(* A rejected or expired request whose overlapping decisions are through is  *)
(* never decided again, by any number of processes, and gets no grant.       *)
THEOREM DecisionsAreFinal == Spec => DecisionIsFinal
<1>1. Init => TypeOK
  BY InitType
<1>2. TypeOK /\ [Next]_vars => TypeOK'
  BY NextType
<1> DEFINE A == \A r \in Request : status[r] \in {"rejected", "expired"} /\ Closed(r)
                  => Closed(r)' /\ status'[r] \in {status[r], "deleted"}
<1>3. TypeOK /\ [Next]_vars => [A]_vars
  BY NextIsFinal DEF StaysClosed
<1> HIDE DEF A
<1>4. Spec => [][A]_vars
  BY <1>1, <1>2, <1>3, PTL DEF Spec
<1>5. QED
  BY <1>4 DEF A, DecisionIsFinal
-----------------------------------------------------------------------------
(* Nothing ends before its time.  Three sweeps may hold the same grant, and  *)
(* a stale rejection may land on its request between the halves of each: an  *)
(* end is still written only by a sweep that found the grant past its time.  *)
ExpiryIsEarned ==
  /\ \A g \in Grant : grant[g] = "revoked" => expires[g] <= now
  /\ \A r \in Request : status[r] = "expired" =>
       \E g \in Grant : grantOf[g] = r /\ grant[g] = "revoked"

(* What a sweep holds was issued and has run out since it was selected.      *)
Swept ==
  \A p \in Process : \A g \in doing[p].batch : grant[g] # "none" /\ expires[g] <= now

(* A grant belongs to a request that was made, and goes only with it.        *)
Linked ==
  \A g \in Grant : grant[g] # "none" =>
    /\ status[grantOf[g]] # "none"
    /\ grant[g] = "deleted" => status[grantOf[g]] = "deleted"

EarnedInv == ExpiryIsEarned /\ Swept /\ Linked

(* Nobody picks up a batch: each process keeps the one it has or drops it.   *)
NoBatchIsNew == \A p \in Process : doing'[p].batch \in {doing[p].batch, {}}

LEMMA LeavesNoBatch ==
  ASSUME TypeOK, NEW p \in Process, Leave(p)
  PROVE  NoBatchIsNew
BY DEF Leave, NoSegment, NoBatchIsNew, TypeOK

(* No grant moves, and requests only to a status that is not "expired".      *)
LEMMA RowsKeepEarned ==
  ASSUME TypeOK, EarnedInv, UNCHANGED <<now, grant, grantOf, expires>>, NoBatchIsNew,
         \A r \in Request : \/ status'[r] = status[r]
                            \/ status[r] # "deleted" /\ status'[r] \notin {"expired", "none"}
  PROVE  EarnedInv'
<1>1. ExpiryIsEarned'
  BY DEF EarnedInv, ExpiryIsEarned
<1>2. Swept'
  BY DEF EarnedInv, Swept, NoBatchIsNew
<1>3. Linked'
  BY DEF EarnedInv, Linked, TypeOK
<1>4. QED
  BY <1>1, <1>2, <1>3 DEF EarnedInv

LEMMA SweepBegunEarned ==
  ASSUME TypeOK, EarnedInv, NEW p \in Process, BeginSweep(p)
  PROVE  EarnedInv'
<1> DEFINE B == {g \in Grant : Expired(g)}
<1>1. /\ doing' = [doing EXCEPT ![p] = [op |-> "sweep", on |-> None, batch |-> B]]
      /\ UNCHANGED <<now, status, grant, grantOf, expires>>
  BY DEF BeginSweep, Enter, rowVars
<1>2. \A q \in Process : doing'[q].batch = IF q = p THEN B ELSE doing[q].batch
  <2> DEFINE j == [op |-> "sweep", on |-> None, batch |-> B]
  <2>1. doing' = [doing EXCEPT ![p] = j] /\ j.batch = B
    BY <1>1
  <2> HIDE DEF B, j
  <2>2. QED
    BY <2>1 DEF TypeOK
<1>3. \A g \in B : grant[g] # "none" /\ expires[g] <= now
  BY DEF Expired
<1>4. Swept'
  BY <1>1, <1>2, <1>3 DEF EarnedInv, Swept
<1>5. QED
  BY <1>1, <1>4 DEF EarnedInv, ExpiryIsEarned, Linked

(* A sweep revokes what it holds and closes the requests of just that.       *)
LEMMA SweepEarned ==
  ASSUME TypeOK, EarnedInv, NEW p \in Process, FinishSweep(p)
  PROVE  EarnedInv'
<1> DEFINE B == doing[p].batch
<1>1. /\ \A g \in Grant : grant'[g] = IF g \in B /\ grant[g] \in Issued
                                      THEN "revoked" ELSE grant[g]
      /\ \A r \in Request : status'[r] = IF Exists(r) /\ \E g \in B : grantOf[g] = r
                                         THEN "expired" ELSE status[r]
      /\ UNCHANGED <<now, grantOf, expires>>
  BY DEF FinishSweep, Revoke
<1>2. NoBatchIsNew
  BY LeavesNoBatch DEF FinishSweep
<1>3. B \subseteq Grant /\ \A g \in B : grant[g] # "none" /\ expires[g] <= now
  BY DEF EarnedInv, Swept, TypeOK, Segment
<1> HIDE DEF B
<1>4. \A g \in Grant : grant'[g] = "revoked" => expires'[g] <= now'
  BY <1>1, <1>3 DEF EarnedInv, ExpiryIsEarned
<1>5. ASSUME NEW r \in Request, status'[r] = "expired"
      PROVE  \E g \in Grant : grantOf'[g] = r /\ grant'[g] = "revoked"
  <2>1. CASE Exists(r) /\ \E g \in B : grantOf[g] = r
    <3>1. PICK g \in B : grantOf[g] = r
      BY <2>1
    <3>2. grant[g] \in Issued
      BY <1>3, <2>1, <3>1 DEF EarnedInv, Linked, TypeOK, Exists, Row
    <3>3. QED
      BY <1>1, <1>3, <3>1, <3>2
  <2>2. CASE ~(Exists(r) /\ \E g \in B : grantOf[g] = r)
    <3>1. PICK g \in Grant : grantOf[g] = r /\ grant[g] = "revoked"
      BY <1>1, <1>5, <2>2 DEF EarnedInv, ExpiryIsEarned
    <3>2. QED
      BY <1>1, <3>1
  <2>3. QED
    BY <2>1, <2>2
<1>6. Swept'
  <2> SUFFICES ASSUME NEW q \in Process, NEW g \in doing'[q].batch
               PROVE  grant'[g] # "none" /\ expires'[g] <= now'
    BY DEF Swept
  <2>1. g \in doing[q].batch /\ g \in Grant
    BY <1>2 DEF NoBatchIsNew, Segment, TypeOK
  <2>2. QED
    BY <1>1, <2>1 DEF EarnedInv, Swept
<1>7. Linked'
  <2> SUFFICES ASSUME NEW g \in Grant, grant'[g] # "none"
               PROVE  /\ status'[grantOf[g]] # "none"
                      /\ grant'[g] = "deleted" => status'[grantOf[g]] = "deleted"
    BY <1>1 DEF Linked
  <2>1. grant[g] # "none" /\ (grant'[g] = "deleted" => grant[g] = "deleted")
    BY <1>1 DEF Issued
  <2>2. grantOf[g] \in Request
    BY <2>1 DEF TypeOK
  <2>3. /\ status[grantOf[g]] # "none"
        /\ grant[g] = "deleted" => status[grantOf[g]] = "deleted"
    BY <2>1 DEF EarnedInv, Linked
  <2>4. \/ status'[grantOf[g]] = status[grantOf[g]]
        \/ status[grantOf[g]] # "deleted" /\ status'[grantOf[g]] = "expired"
    BY <1>1, <2>2 DEF Exists, Row
  <2>5. QED
    BY <2>1, <2>3, <2>4
<1>8. QED
  BY <1>4, <1>5, <1>6, <1>7 DEF EarnedInv, ExpiryIsEarned

(* A secret takes its requests and their grants with it.                     *)
LEMMA DeleteEarned ==
  ASSUME TypeOK, EarnedInv, NEW p \in Process, NEW s \in Secret, DeleteSecret(p, s)
  PROVE  EarnedInv'
<1>1. /\ \A r \in Request : status'[r] = IF SecretOf[r] = s /\ Exists(r)
                                         THEN "deleted" ELSE status[r]
      /\ \A g \in Grant : grant'[g] = IF grant[g] \in Issued /\ SecretOf[grantOf[g]] = s
                                      THEN "deleted" ELSE grant[g]
      /\ UNCHANGED <<now, grantOf, expires, doing>>
  BY DEF DeleteSecret, localVars
<1>2. ExpiryIsEarned'
  <2>1. ASSUME NEW r \in Request, status'[r] = "expired"
        PROVE  \E g \in Grant : grantOf'[g] = r /\ grant'[g] = "revoked"
    <3>1. status[r] = "expired" /\ SecretOf[r] # s
      BY <1>1, <2>1 DEF Exists, Row
    <3>2. PICK g \in Grant : grantOf[g] = r /\ grant[g] = "revoked"
      BY <3>1 DEF EarnedInv, ExpiryIsEarned
    <3>3. QED
      BY <1>1, <3>1, <3>2
  <2>2. \A g \in Grant : grant'[g] = "revoked" => expires'[g] <= now'
    BY <1>1 DEF EarnedInv, ExpiryIsEarned
  <2>3. QED
    BY <2>1, <2>2 DEF ExpiryIsEarned
<1>3. Swept'
  BY <1>1 DEF EarnedInv, Swept, Segment, Issued, TypeOK
<1>4. Linked'
  BY <1>1 DEF EarnedInv, Linked, TypeOK, Exists, Row, Issued
<1>5. QED
  BY <1>2, <1>3, <1>4 DEF EarnedInv

LEMMA ApproveEarned ==
  ASSUME TypeOK, EarnedInv, NEW h \in Handler, NEW g \in Grant,
         NEW d \in Duration, FinishApprove(h, g, d)
  PROVE  EarnedInv'
<1> DEFINE q == call[h].on
<1>1. UNCHANGED <<now, doing>> /\ grant[g] = "none" /\ q \in Request
  BY DEF FinishApprove, TypeOK
<1>2. CASE Exists(q)
  <2>1. /\ status' = [status EXCEPT ![q] = "approved"]
        /\ grant' = [grant EXCEPT ![g] = "live"]
        /\ grantOf' = [grantOf EXCEPT ![g] = q]
        /\ \A k \in Grant : k # g => expires'[k] = expires[k]
    BY <1>2 DEF FinishApprove, SetStatus, Issue, TypeOK
  <2> HIDE DEF q
  <2>2. ExpiryIsEarned'
    <3>1. ASSUME NEW r \in Request, status'[r] = "expired"
          PROVE  \E k \in Grant : grantOf'[k] = r /\ grant'[k] = "revoked"
      <4>1. status[r] = "expired"
        BY <1>1, <2>1, <3>1 DEF TypeOK
      <4>2. PICK k \in Grant : grantOf[k] = r /\ grant[k] = "revoked"
        BY <4>1 DEF EarnedInv, ExpiryIsEarned
      <4>3. QED
        BY <1>1, <2>1, <4>2 DEF TypeOK
    <3>2. \A k \in Grant : grant'[k] = "revoked" => expires'[k] <= now'
      BY <1>1, <2>1 DEF EarnedInv, ExpiryIsEarned, TypeOK
    <3>3. QED
      BY <3>1, <3>2 DEF ExpiryIsEarned
  <2>3. Swept'
    BY <1>1, <2>1 DEF EarnedInv, Swept, Segment, TypeOK
  <2>4. Linked'
    BY <1>1, <1>2, <2>1 DEF EarnedInv, Linked, Exists, Row, TypeOK
  <2>5. QED
    BY <2>2, <2>3, <2>4 DEF EarnedInv
<1>3. CASE ~Exists(q)
  <2>1. UNCHANGED <<grant, grantOf, expires, status>> /\ NoBatchIsNew
    BY <1>1, <1>3 DEF FinishApprove, NoBatchIsNew
  <2>2. QED
    BY <1>1, <2>1, RowsKeepEarned
<1>4. QED
  BY <1>2, <1>3

LEMMA NextEarned == TypeOK /\ EarnedInv /\ [Next]_vars => EarnedInv'
<1> SUFFICES ASSUME TypeOK, EarnedInv, [Next]_vars
             PROVE  EarnedInv'
  OBVIOUS
<1>1. ASSUME NEW p \in Process, Ask(p)
      PROVE  EarnedInv'
  <2>1. ASSUME NEW r \in Request, CreateRequest(p, r)
        PROVE  EarnedInv'
    <3>1. NoBatchIsNew /\ UNCHANGED <<now, grant, grantOf, expires>>
      BY <2>1 DEF CreateRequest, localVars, NoBatchIsNew
    <3>2. QED
      BY <2>1, <3>1, RowsKeepEarned DEF CreateRequest, TypeOK
  <2>2. ASSUME NEW r \in Request, BeginReject(p, r)
        PROVE  EarnedInv'
    <3>1. NoBatchIsNew
      BY <2>2 DEF BeginReject, Enter, NoBatchIsNew, TypeOK
    <3>2. QED
      BY <2>2, <3>1, RowsKeepEarned DEF BeginReject, Enter, rowVars
  <2>3. ASSUME NEW h \in Handler, NEW r \in Request, BeginApprove(p, h, r)
        PROVE  EarnedInv'
    BY <2>3, RowsKeepEarned DEF BeginApprove, rowVars, NoBatchIsNew
  <2>4. QED
    BY <1>1, <2>1, <2>2, <2>3, DeleteEarned DEF Ask
<1>2. ASSUME NEW p \in Process, Run(p)
      PROVE  EarnedInv'
  <2>1. CASE FinishReject(p)
    BY <2>1, LeavesNoBatch, RowsKeepEarned DEF FinishReject, SetStatus, Exists, Row, TypeOK
  <2>2. QED
    BY <1>2, <2>1, SweepBegunEarned, SweepEarned DEF Run
<1>3. ASSUME NEW h \in Handler, Answer(h)
      PROVE  EarnedInv'
  <2>1. CASE AbandonApprove(h)
    BY <2>1, RowsKeepEarned DEF AbandonApprove, rowVars, NoBatchIsNew
  <2>2. QED
    BY <1>3, <2>1, ApproveEarned DEF Answer
<1>4. CASE Tick
  BY <1>4 DEF Tick, rowVars, localVars, EarnedInv, ExpiryIsEarned, Swept, Linked, Segment, TypeOK
<1>5. ASSUME NEW p \in Process, StatementFails(p) \/ Restart(p)
      PROVE  EarnedInv'
  BY <1>5, LeavesNoBatch, RowsKeepEarned DEF StatementFails, Restart, rowVars
<1>6. CASE UNCHANGED vars
  BY <1>6, RowsKeepEarned DEF vars, rowVars, localVars, NoBatchIsNew
<1>7. QED
  BY <1>1, <1>2, <1>3, <1>4, <1>5, <1>6 DEF Next

(* Nobody loses access early: a grant is revoked, and a request is expired,  *)
(* only past the time the approval gave, whatever other processes swept,     *)
(* approved again or rejected meanwhile.                                     *)
THEOREM ExpiryAlwaysEarned == Spec => []ExpiryIsEarned
<1>1. Init => TypeOK /\ EarnedInv
  BY InitType DEF Init, NoSegment, EarnedInv, ExpiryIsEarned, Swept, Linked
<1>2. TypeOK /\ EarnedInv /\ [Next]_vars => (TypeOK /\ EarnedInv)'
  BY NextType, NextEarned
<1>3. EarnedInv => ExpiryIsEarned
  BY DEF EarnedInv
<1>4. QED
  BY <1>1, <1>2, <1>3, PTL DEF Spec
=============================================================================
