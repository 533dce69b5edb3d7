---------------------------- MODULE MCSecretVault ----------------------------
(* Small instances of SecretVault for TLC. *)
EXTENDS SecretVault, TLC

(* Processes are interchangeable in every property. *)
Symmetry == Permutations(Process)
=============================================================================
