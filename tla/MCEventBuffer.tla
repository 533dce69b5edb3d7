---------------------------- MODULE MCEventBuffer ----------------------------
(* Small instances of EventBuffer for TLC. *)
EXTENDS EventBuffer, TLC

CONSTANTS e1, e2, kc, kh, kl

(* A critical or a high event, and a low one. *)
MCKeyings == {e1 :> k @@ e2 :> kl : k \in {kc, kh}}
MCSeverityOf == kc :> "critical" @@ kh :> "high" @@ kl :> "low"
=============================================================================
