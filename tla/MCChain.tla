------------------------------ MODULE MCChain -------------------------------
(***************************************************************************)
(* Model values for checking Chain, and the inductive invariant its proofs *)
(* rest on, with TLC.                                                      *)
(***************************************************************************)
EXTENDS ChainProofs

CONSTANTS r1, r2

TwoRecorders == {r1, r2}

ProcessFaults == {"crash", "error"}
AllFaults == {"crash", "error", "torn"}
=============================================================================
