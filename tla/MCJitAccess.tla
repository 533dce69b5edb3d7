----------------------------- MODULE MCJitAccess -----------------------------
(* Small instances of JitAccess for TLC. *)
EXTENDS JitAccess

(* Every request is for the same secret, so that deleting it meets them all. *)
OneSecret == [r \in Request |-> CHOOSE s \in Secret : TRUE]

(* Each request is for a secret of its own. *)
TwoSecrets == CHOOSE f \in [Request -> Secret] :
                \A q, r \in Request : q # r => f[q] # f[r]
=============================================================================
