------------------------------ MODULE Approvals ------------------------------
(***************************************************************************)
(* One approval request of the manager (services/manager-new/api/v1/       *)
(* approvals.py): users other than the requester approve it or reject it,  *)
(* the requester or an administrator cancels it, and a decision that comes *)
(* too late makes it expire.                                               *)
(*                                                                         *)
(* A handler reads the row, checks it, and writes the columns it computed  *)
(* from what it read, whatever the row holds by then.  It awaits nothing   *)
(* in between, so a process is in at most one handler; but at least three  *)
(* replicas of the manager share the database, which runs each statement   *)
(* on the committed row.                                                   *)
(***************************************************************************)
EXTENDS Naturals, FiniteSets, Sequences, SequencesExt

CONSTANTS
  Process,      (* replicas of the manager                                 *)
  User,         (* users                                                   *)
  Reviewer,     (* those with the role admin or maintainer                 *)
  Admin,        (* those with the role admin                               *)
  Idle,         (* a process that is in no handler                         *)
  NoUser,       (* no requester                                            *)
  MaxRequired,  (* approvals that may be required: 10 in the code          *)
  MaxRequests   (* bound on the handlers ever begun                        *)

ASSUME ApprovalsAssumption ==
  /\ Reviewer \subseteq User
  /\ Admin \subseteq Reviewer
  /\ IsFiniteSet(User)
  /\ NoUser \notin User
  /\ MaxRequired \in Nat \ {0}
  /\ MaxRequests \in Nat

Decision == [user : User, approved : BOOLEAN]

(* The columns of the row that a decision reads and writes. *)
Record == [count : Nat, approvers : Seq(User), history : Seq(Decision)]

(* A handler that has found the request pending: who calls it, for what,   *)
(* what it read, and whether the request had expired at that time.         *)
Call == [kind : {"approve", "reject", "cancel"}, user : User, seen : Record, late : BOOLEAN]

ASSUME IdleAssumption == Idle \notin Call

VARIABLES
  status,     (* of the row; "none" before it is created                   *)
  requester,  (* requester_id                                              *)
  required,   (* required_approvals                                        *)
  record,     (* current_approvals, approvers and approval_history         *)
  expired,    (* expires_at is past                                        *)
  call,       (* the handler each process is in                            *)
  begun,      (* handlers begun so far                                     *)
  cast,       (* decisions that were answered with success                 *)
  stale,      (* processes whose row was written since they read it        *)
  overlapped  (* such a process has written                                *)

history == <<cast, stale, overlapped>>
vars == <<status, requester, required, record, expired, call, begun, history>>

Statuses == {"none", "pending", "approved", "rejected", "expired"}
Decided  == {"approved", "rejected"}

TypeOK ==
  /\ status \in Statuses
  /\ requester \in User \cup {NoUser}
  /\ required \in 1 .. MaxRequired
  /\ record \in Record
  /\ expired \in BOOLEAN
  /\ call \in [Process -> Call \cup {Idle}]
  /\ begun \in 0 .. MaxRequests
  /\ cast \subseteq Decision
  /\ stale \in SUBSET {p \in Process : call[p] # Idle}
  /\ overlapped \in BOOLEAN

Init ==
  /\ status = "none"
  /\ requester = NoUser
  /\ required = 1
  /\ record = [count |-> 0, approvers |-> <<>>, history |-> <<>>]
  /\ expired = FALSE
  /\ call = [p \in Process |-> Idle]
  /\ begun = 0
  /\ cast = {}
  /\ stale = {}
  /\ overlapped = FALSE

-----------------------------------------------------------------------------
(* create_approval *)
Create(u, k) ==
  /\ status = "none"
  /\ status' = "pending"
  /\ requester' = u
  /\ required' = k
  /\ UNCHANGED <<record, expired, call, begun, history>>

Expire ==
  /\ status # "none"
  /\ ~expired
  /\ expired' = TRUE
  /\ UNCHANGED <<status, requester, required, record, call, begun, history>>

-----------------------------------------------------------------------------
(* Handlers *)

(* The row is read, and found pending: otherwise the handler has ended. *)
Begin(p, kind, u) ==
  /\ call[p] = Idle
  /\ begun < MaxRequests
  /\ begun' = begun + 1
  /\ status = "pending"
  /\ call' = [call EXCEPT ![p] = [kind |-> kind, user |-> u, seen |-> record,
                                  late |-> expired]]
  /\ UNCHANGED <<status, requester, required, record, expired, history>>

BeginDecision(p, kind, u) ==
  /\ kind \in {"approve", "reject"}
  /\ Begin(p, kind, u)

(* Variant: who may cancel is checked, that the request is pending is not. *)
BeginCancelUnchecked(p, u) ==
  /\ u = requester \/ u \in Admin
  /\ status # "none"
  /\ call[p] = Idle
  /\ begun < MaxRequests
  /\ begun' = begun + 1
  /\ call' = [call EXCEPT ![p] = [kind |-> "cancel", user |-> u, seen |-> record,
                                  late |-> expired]]
  /\ UNCHANGED <<status, requester, required, record, expired, history>>

BeginCancel(p, u) ==
  /\ u = requester \/ u \in Admin
  /\ Begin(p, "cancel", u)

End(p) == call' = [call EXCEPT ![p] = Idle]

(* The handler of p has written the row: the others in a handler have read *)
(* an older one.                                                           *)
Written(p) ==
  /\ End(p)
  /\ stale' = {q \in Process \ {p} : call[q] # Idle}
  /\ overlapped' = (overlapped \/ p \in stale)

(* The user decided before, by the row that was read. *)
HasDecided(c) == \E d \in ToSet(c.seen.history) : d.user = c.user

(* decide_approval, after its read. *)
Deciding(p) ==
  /\ call[p] # Idle
  /\ call[p].kind \in {"approve", "reject"}

(* Too late: the request is written off.  The time is compared after the   *)
(* row was read, and may have come since.                                  *)
WriteExpired(p) ==
  /\ Deciding(p)
  /\ expired
  /\ status' = "expired"
  /\ Written(p)
  /\ UNCHANGED <<requester, required, record, expired, begun, cast>>

(* The requester may not decide, and nobody may decide twice. *)
Refuse(p) ==
  /\ Deciding(p)
  /\ ~call[p].late
  /\ call[p].user = requester \/ HasDecided(call[p])
  /\ End(p)
  /\ stale' = stale \ {p}
  /\ UNCHANGED <<status, requester, required, record, expired, begun, cast, overlapped>>

(* Variant: a user may decide again. *)
AcceptedAgain(p) ==
  /\ Deciding(p)
  /\ ~call[p].late
  /\ call[p].user # requester

Accepted(p) ==
  /\ Deciding(p)
  /\ ~call[p].late
  /\ call[p].user # requester
  /\ ~HasDecided(call[p])

(* The decision is added to the history that was read. *)
Entry(p, approved) == [user |-> call[p].user, approved |-> approved]

(* Variant: the count that was read is compared, not the one written. *)
ApproveLate(p) ==
  LET seen == call[p].seen IN
  /\ Accepted(p)
  /\ call[p].kind = "approve"
  /\ record' = [count     |-> seen.count + 1,
                approvers |-> Append(seen.approvers, call[p].user),
                history   |-> Append(seen.history, Entry(p, TRUE))]
  /\ status' = IF seen.count >= required THEN "approved" ELSE status
  /\ cast' = cast \cup {Entry(p, TRUE)}
  /\ Written(p)
  /\ UNCHANGED <<requester, required, expired, begun>>

(* An approval writes all three columns, and the status only when it makes *)
(* the count complete.                                                     *)
Approve(p) ==
  LET seen == call[p].seen IN
  /\ Accepted(p)
  /\ call[p].kind = "approve"
  /\ record' = [count     |-> seen.count + 1,
                approvers |-> Append(seen.approvers, call[p].user),
                history   |-> Append(seen.history, Entry(p, TRUE))]
  /\ status' = IF seen.count + 1 >= required THEN "approved" ELSE status
  /\ cast' = cast \cup {Entry(p, TRUE)}
  /\ Written(p)
  /\ UNCHANGED <<requester, required, expired, begun>>

Reject(p) ==
  LET seen == call[p].seen IN
  /\ Accepted(p)
  /\ call[p].kind = "reject"
  /\ record' = [record EXCEPT !.history = Append(seen.history, Entry(p, FALSE))]
  /\ status' = "rejected"
  /\ cast' = cast \cup {Entry(p, FALSE)}
  /\ Written(p)
  /\ UNCHANGED <<requester, required, expired, begun>>

(* Variant: the status has a name that the column does not allow. *)
CancelByName(p) ==
  /\ call[p] # Idle
  /\ call[p].kind = "cancel"
  /\ status' = "cancelled"
  /\ Written(p)
  /\ UNCHANGED <<requester, required, record, expired, begun, cast>>

(* cancel_approval writes the status alone. *)
Cancel(p) ==
  /\ call[p] # Idle
  /\ call[p].kind = "cancel"
  /\ status' = "rejected"
  /\ Written(p)
  /\ UNCHANGED <<requester, required, record, expired, begun, cast>>

(* The process ends, or its update fails, before the commit. *)
Abandon(p) ==
  /\ call[p] # Idle
  /\ End(p)
  /\ stale' = stale \ {p}
  /\ UNCHANGED <<status, requester, required, record, expired, begun, cast, overlapped>>

-----------------------------------------------------------------------------
Next ==
  \/ \E u \in User, k \in 1 .. MaxRequired : Create(u, k)
  \/ Expire
  \/ \E p \in Process :
       \/ \E u \in Reviewer, kind \in {"approve", "reject"} : BeginDecision(p, kind, u)
       \/ \E u \in User : BeginCancel(p, u)
       \/ WriteExpired(p)
       \/ Refuse(p)
       \/ Approve(p)
       \/ Reject(p)
       \/ Cancel(p)
       \/ Abandon(p)

Spec == Init /\ [][Next]_vars

-----------------------------------------------------------------------------
(* Properties *)

Approvals(decisions) == {d \in decisions : d.approved}

(* However the replicas interleave, a request is approved only after as    *)
(* many people as it requires have said so, each another, and none the     *)
(* requester.                                                              *)
ApprovedByQuorum ==
  status = "approved" =>
    LET supporters == {d.user : d \in Approvals(cast)} IN
    /\ Cardinality(supporters) >= required
    /\ requester \notin supporters

(* As long as no process has written a row that another had written since  *)
(* it read it, the row is the truth: each decision that was answered with  *)
(* success is in the history, once, and the count and the status agree     *)
(* with them.  A decision is lost to an overlap only.                      *)
RecordIsExact ==
  ~overlapped =>
    /\ ToSet(record.history) = cast
    /\ Len(record.history) = Cardinality(cast)
    /\ record.count = Cardinality(Approvals(cast))
    /\ Len(record.approvers) = record.count
    /\ status = "approved" <=> status # "none" /\ record.count >= required
    /\ status = "pending" => Approvals(cast) = cast

(* A decision stands: an approved or rejected request changes only by an   *)
(* overlap.                                                                *)
DecisionStands ==
  [][(status \in Decided /\ ~overlapped') => (status' = status)]_vars
=============================================================================
