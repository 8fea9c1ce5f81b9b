------------------------------ MODULE MCAudit -------------------------------
(* Model values and symmetry for checking Audit with TLC.                  *)
EXTENDS Audit, TLC

CONSTANTS r1, r2

TwoRecorders == {r1, r2}

NoFaults == {}
ProcessFaults == {"crash", "error"}

(* Sessions are interchangeable in the auditor's steps too.                *)
TwoSymmetric == Permutations(TwoRecorders)
=============================================================================
