----------------------------- MODULE MCAsmScans -----------------------------
(* Small instances of AsmScans for TLC: every scan is of the same target,  *)
(* and the two entries report an address each.  (AsmScansProofs covers     *)
(* entries that share one.)                                                *)
EXTENDS AsmScans

CONSTANTS t1, x, a, b

MCTargetOf == [s \in Scan |-> t1]

MCAddressOf == [e \in Service |-> IF e = x THEN a ELSE b]
=============================================================================
