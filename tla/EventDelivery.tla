---------------------------- MODULE EventDelivery ----------------------------
(***************************************************************************)
(* What the event buffer of services/aaa-monitor promises, seen from       *)
(* outside: an event that is taken in goes to the batch processors by each *)
(* of its routes, once.  The order and the batches are the buffer's own    *)
(* affair.  Only the end of the process forgets what it holds.             *)
(***************************************************************************)
EXTENDS FiniteSets

CONSTANTS
  Entry,    (* the things that can be taken in, each of them at most once  *)
  Route     (* the ways by which each goes to the processors               *)

VARIABLES
  pending,  (* pairs of a route and an entry still to be handed over       *)
  handed    (* pairs handed over                                           *)

vars == <<pending, handed>>

Init == pending = {} /\ handed = {}

Take(en) ==
  /\ pending' = pending \cup Route \X {en}
  /\ \A p \in Route \X {en} : p \notin pending \cup handed
  /\ UNCHANGED handed

(* Any batch of what is pending. *)
Hand ==
  /\ pending' \subseteq pending
  /\ handed' = handed \cup (pending \ pending')

Forget == pending' = {} /\ UNCHANGED handed

Next == (\E en \in Entry : Take(en)) \/ Hand \/ Forget

Spec == Init /\ [][Next]_vars
=============================================================================
