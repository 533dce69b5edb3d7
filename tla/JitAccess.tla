------------------------------ MODULE JitAccess ------------------------------
(***************************************************************************)
(* Just-in-time access in the IceBox API (icebox/services/flask-backend):  *)
(* users request access to a secret, owners approve or reject, an approval *)
(* issues a grant, and a background loop revokes grants that have expired. *)
(*                                                                         *)
(* Several processes run the API (three replicas in production).  Each is  *)
(* one event loop on one thread, and get_db gives a thread one connection: *)
(* a process runs other handlers only where one awaits, and all of them    *)
(* share a transaction.  Processes interleave between any two statements.  *)
(* PostgreSQL (external) fails every statement of a transaction in which   *)
(* one has failed, until a rollback; nothing in the service rolls back.    *)
(***************************************************************************)
EXTENDS Naturals

CONSTANTS
  Secret,        (* ids of secrets                                         *)
  Request,       (* ids of access requests that may be allocated           *)
  SecretOf,      (* the secret each request is for                         *)
  Grant,         (* ids of grants that may be allocated                    *)
  Process,       (* processes of the service                               *)
  Handler,       (* approvals that may be waiting for their request body   *)
  None,          (* no process, request or grant                           *)
  Duration,      (* approved durations (the body may say 0)                *)
  MaxTime,       (* bound on the clock                                     *)
  Faults,        (* kinds of fault that may happen                         *)
  MaxFaults      (* bound on the number of faults                          *)

(* "db" is a statement that fails (a deadlock between two sweeps, a row    *)
(* that went away, bad data); "restart" replaces a process.                *)
FaultKind == {"db", "restart"}

ASSUME JitAccessAssumption ==
  /\ SecretOf \in [Request -> Secret]
  /\ None \notin Request \cup Process
  /\ Duration \subseteq Nat
  /\ MaxTime \in Nat
  /\ MaxFaults \in Nat
  /\ Faults \subseteq FaultKind

VARIABLES
  now,      (* the clock                                                   *)
  secrets,  (* icebox_secrets rows                                         *)
  status,   (* status of each request; "none" before, "deleted" after      *)
  grant,    (* each grant: not yet used, live, revoked or deleted          *)
  grantOf,  (* the request each grant was issued for                       *)
  expires,  (* expires_at of each grant                                    *)
  conn,     (* the connection of each process                              *)
  doing,    (* what a process is in the middle of, between two statements  *)
  call,     (* the approvals that await their body, and where              *)
  faults    (* faults so far                                               *)

rowVars   == <<secrets, status, grant, grantOf, expires>>
localVars == <<conn, doing, call>>
vars      == <<now, rowVars, localVars, faults>>

Row      == {"pending", "approved", "rejected", "expired"}
Issued   == {"live", "revoked"}
Segment  == [op : {"idle", "reject", "sweep"}, on : Request \cup {None},
             batch : SUBSET Grant]
NoSegment == [op |-> "idle", on |-> None, batch |-> {}]
Call     == [at : Process \cup {None}, on : Request \cup {None}]
NoCall   == [at |-> None, on |-> None]

TypeOK ==
  /\ now \in Nat
  /\ secrets \subseteq Secret
  /\ status \in [Request -> Row \cup {"none", "deleted"}]
  /\ grant \in [Grant -> Issued \cup {"none", "deleted"}]
  /\ grantOf \in [Grant -> Request \cup {None}]
  /\ \A g \in Grant : grant[g] # "none" => grantOf[g] \in Request
  /\ expires \in [Grant -> Nat]
  /\ conn \in [Process -> {"ok", "aborted"}]
  /\ doing \in [Process -> Segment]
  /\ \A p \in Process : doing[p].op = "reject" => doing[p].on \in Request
  /\ call \in [Handler -> Call]
  /\ \A h \in Handler : call[h].at \in Process <=> call[h].on \in Request
  /\ faults \in Nat

Init ==
  /\ now = 0
  /\ secrets = Secret
  /\ status = [r \in Request |-> "none"]
  /\ grant = [g \in Grant |-> "none"]
  /\ grantOf = [g \in Grant |-> None]
  /\ expires = [g \in Grant |-> 0]
  /\ conn = [p \in Process |-> "ok"]
  /\ doing = [p \in Process |-> NoSegment]
  /\ call = [h \in Handler |-> NoCall]
  /\ faults = 0

-----------------------------------------------------------------------------
(* The event loop of p is between two handlers and its database works. *)
Free(p) == doing[p] = NoSegment /\ conn[p] = "ok"

Enter(p, op, r, B) ==
  /\ Free(p)
  /\ doing' = [doing EXCEPT ![p] = [op |-> op, on |-> r, batch |-> B]]
  /\ UNCHANGED <<now, rowVars, conn, call, faults>>

Leave(p) == doing' = [doing EXCEPT ![p] = NoSegment]

Exists(r) == status[r] \in Row

(* UPDATE icebox_jit_requests SET status = s WHERE id = r *)
SetStatus(r, s) == status' = IF Exists(r) THEN [status EXCEPT ![r] = s] ELSE status

Fault(kind) ==
  /\ kind \in Faults
  /\ faults < MaxFaults
  /\ faults' = faults + 1

Tick ==
  /\ now < MaxTime
  /\ now' = now + 1
  /\ UNCHANGED <<rowVars, localVars, faults>>

-----------------------------------------------------------------------------
(* Requests *)

(* create_jit_request: the body is there before the secret is looked up. *)
CreateRequest(p, r) ==
  /\ Free(p)
  /\ SecretOf[r] \in secrets
  /\ status[r] = "none"
  /\ status' = [status EXCEPT ![r] = "pending"]
  /\ UNCHANGED <<now, secrets, grant, grantOf, expires, localVars, faults>>

(* Variant: the status is not checked. *)
Undecided(r) == Exists(r)

Decidable(r) == status[r] = "pending"

(* approve_jit_request checks the status and awaits the request body ... *)
BeginApprove(p, h, r) ==
  /\ Free(p)
  /\ Decidable(r)
  /\ call[h] = NoCall
  /\ call' = [call EXCEPT ![h] = [at |-> p, on |-> r]]
  /\ UNCHANGED <<now, rowVars, conn, doing, faults>>

(* Variant: the grant row does not name its request. *)
IssueUnlinked(g, r, d) ==
  /\ grant' = [grant EXCEPT ![g] = "live"]
  /\ expires' = [expires EXCEPT ![g] = now + d]
  /\ UNCHANGED grantOf

(* INSERT INTO icebox_jit_grants *)
Issue(g, r, d) ==
  /\ grant' = [grant EXCEPT ![g] = "live"]
  /\ grantOf' = [grantOf EXCEPT ![g] = r]
  /\ expires' = [expires EXCEPT ![g] = now + d]

(* ... and then inserts a grant and updates the request, whatever the      *)
(* status is by now, in one transaction.  With the request gone the insert *)
(* breaks the foreign key.                                                 *)
FinishApprove(h, g, d) ==
  LET p == call[h].at
      r == call[h].on IN
  /\ p \in Process
  /\ Free(p)
  /\ grant[g] = "none"
  /\ IF Exists(r)
     THEN /\ Issue(g, r, d)
          /\ SetStatus(r, "approved")
          /\ UNCHANGED conn
     ELSE /\ conn' = [conn EXCEPT ![p] = "aborted"]
          /\ UNCHANGED <<grant, grantOf, expires, status>>
  /\ call' = [call EXCEPT ![h] = NoCall]
  /\ UNCHANGED <<now, secrets, doing, faults>>

(* The body never arrives, or the database does not answer: an error.      *)
AbandonApprove(h) ==
  /\ call[h] # NoCall
  /\ call' = [call EXCEPT ![h] = NoCall]
  /\ UNCHANGED <<now, rowVars, conn, doing, faults>>

(* reject_jit_request checks the status and updates it without awaiting:   *)
(* only other processes come between.                                      *)
BeginReject(p, r) ==
  /\ Decidable(r)
  /\ Enter(p, "reject", r, {})

FinishReject(p) ==
  /\ doing[p].op = "reject"
  /\ SetStatus(doing[p].on, "rejected")
  /\ Leave(p)
  /\ UNCHANGED <<now, secrets, grant, grantOf, expires, conn, call, faults>>

(* delete_secret; the foreign keys delete its requests and grants.         *)
DeleteSecret(p, s) ==
  /\ Free(p)
  /\ s \in secrets
  /\ secrets' = secrets \ {s}
  /\ status' = [r \in Request |->
       IF SecretOf[r] = s /\ Exists(r) THEN "deleted" ELSE status[r]]
  /\ grant' = [g \in Grant |->
       IF grant[g] \in Issued /\ SecretOf[grantOf[g]] = s THEN "deleted" ELSE grant[g]]
  /\ UNCHANGED <<now, grantOf, expires, localVars, faults>>

-----------------------------------------------------------------------------
(* _jit_revocation_loop *)

Expired(g) == grant[g] = "live" /\ expires[g] <= now

(* The expired grants are selected (nothing is done when there are none)   *)
BeginSweep(p) ==
  /\ \E g \in Grant : Expired(g)
  /\ Enter(p, "sweep", None, {g \in Grant : Expired(g)})

Revoke(B) == grant' = [g \in Grant |->
  IF g \in B /\ grant[g] \in Issued THEN "revoked" ELSE grant[g]]

(* Variant: the requests are updated, the grants are not. *)
SweepRequestsOnly(p) ==
  LET B == doing[p].batch IN
  /\ doing[p].op = "sweep"
  /\ status' = [r \in Request |->
       IF Exists(r) /\ \E g \in B : grantOf[g] = r THEN "expired" ELSE status[r]]
  /\ Leave(p)
  /\ UNCHANGED <<now, secrets, grant, grantOf, expires, conn, call, faults>>

(* Variant: the grants are revoked, the requests are not updated. *)
SweepGrantsOnly(p) ==
  /\ doing[p].op = "sweep"
  /\ Revoke(doing[p].batch)
  /\ Leave(p)
  /\ UNCHANGED <<now, secrets, status, grantOf, expires, conn, call, faults>>

(* ... and revoked, and their requests set to expired whatever their       *)
(* status, in one transaction.                                             *)
FinishSweep(p) ==
  LET B == doing[p].batch IN
  /\ doing[p].op = "sweep"
  /\ Revoke(B)
  /\ status' = [r \in Request |->
       IF Exists(r) /\ \E g \in B : grantOf[g] = r THEN "expired" ELSE status[r]]
  /\ Leave(p)
  /\ UNCHANGED <<now, secrets, grantOf, expires, conn, call, faults>>

-----------------------------------------------------------------------------
(* Failures *)

(* A statement of p fails: its handler ends with an error (the loop logs   *)
(* it and goes on), the transaction is lost and the connection with it.    *)
StatementFails(p) ==
  /\ conn[p] = "ok"
  /\ Fault("db")
  /\ conn' = [conn EXCEPT ![p] = "aborted"]
  /\ Leave(p)
  /\ UNCHANGED <<now, rowVars, call>>

Restart(p) ==
  /\ Fault("restart")
  /\ conn' = [conn EXCEPT ![p] = "ok"]
  /\ Leave(p)
  /\ call' = [h \in Handler |-> IF call[h].at = p THEN NoCall ELSE call[h]]
  /\ UNCHANGED <<now, rowVars>>

-----------------------------------------------------------------------------
Ask(p) ==
  \/ \E r \in Request : CreateRequest(p, r) \/ BeginReject(p, r)
  \/ \E h \in Handler, r \in Request : BeginApprove(p, h, r)
  \/ \E s \in Secret : DeleteSecret(p, s)

Answer(h) ==
  \/ \E g \in Grant, d \in Duration : FinishApprove(h, g, d)
  \/ AbandonApprove(h)

Run(p) == FinishReject(p) \/ BeginSweep(p) \/ FinishSweep(p)

Next ==
  \/ Tick
  \/ \E p \in Process : Ask(p) \/ Run(p) \/ StatementFails(p) \/ Restart(p)
  \/ \E h \in Handler : Answer(h)

Spec == Init /\ [][Next]_vars

(* The event loops run, and the revocation loop of each wakes up again and *)
(* again; users need not ask, and a request body need not arrive.          *)
FairSpec == Spec /\ \A p \in Process : WF_vars(Run(p))

-----------------------------------------------------------------------------
(* Properties *)

(* A request that says approved has a grant that the loop has yet to       *)
(* revoke: whatever order stale approvals, rejections and several sweeps   *)
(* write in, none is left approved when its access is over.                *)
ApprovedIsGranted ==
  \A r \in Request : status[r] = "approved" =>
    \E g \in Grant : grant[g] = "live" /\ grantOf[g] = r

(* Nobody decides on r, and no grant of r is live or being revoked. *)
Closed(r) ==
  /\ \A h \in Handler : call[h].on # r
  /\ \A p \in Process :
       doing[p].on # r /\ \A g \in doing[p].batch : grantOf[g] # r
  /\ \A g \in Grant : grantOf[g] = r => grant[g] # "live"

(* A decision is final once those that overlapped it are through: a        *)
(* rejected or expired request is not decided again and gets no grant.     *)
DecisionIsFinal ==
  [][\A r \in Request : status[r] \in {"rejected", "expired"} /\ Closed(r)
       => Closed(r)' /\ status'[r] \in {status[r], "deleted"}]_vars

(* A grant that has expired is revoked, by whichever process still has a   *)
(* connection that works, unless its secret is deleted first.              *)
ExpiredIsRevoked ==
  \A g \in Grant :
    Expired(g) ~> grant[g] # "live" \/ \A p \in Process : conn[p] = "aborted"

-----------------------------------------------------------------------------
(* What the code's documentation says, and what it does not do *)

(* _jit_revocation_loop's docstring: "revoke expired JIT grants every 60   *)
(* seconds."  The loop survives an error, the connection it uses does not. *)
RevocationGoesOn ==
  \A g \in Grant : Expired(g) ~> grant[g] # "live"
=============================================================================
