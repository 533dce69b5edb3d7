------------------------------ MODULE ShownOnce ------------------------------
(* What a one-time secret promises (icebox/services/flask-backend,          *)
(* api/v1/one_time.py): it is sealed once, opened at most once, and shown   *)
(* at most once, to whoever opened it.                                      *)
EXTENDS Naturals

CONSTANT Token

VARIABLES
  seal,   (* of each secret *)
  shown   (* how often its value was sent in an answer *)

Init ==
  /\ seal = [t \in Token |-> "none"]
  /\ shown = [t \in Token |-> 0]

Seal(t) ==
  /\ seal[t] = "none"
  /\ seal' = [seal EXCEPT ![t] = "sealed"]
  /\ UNCHANGED shown

Open(t) ==
  /\ seal[t] = "sealed"
  /\ seal' = [seal EXCEPT ![t] = "opened"]
  /\ UNCHANGED shown

Show(t) ==
  /\ seal[t] = "opened"
  /\ shown[t] = 0
  /\ shown' = [shown EXCEPT ![t] = 1]
  /\ UNCHANGED seal

Next == \E t \in Token : Seal(t) \/ Open(t) \/ Show(t)

Spec == Init /\ [][Next]_<<seal, shown>>
=============================================================================
