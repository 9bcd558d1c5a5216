--------------------------- MODULE MCTxSubmission ---------------------------
(* Instances of TxSubmission for TLC.                                       *)
EXTENDS TxSubmission, TLC

CONSTANTS p1, p2, opA

(* Two calls with the same operation: the second is a duplicate.            *)
TwinPays == (p1 :> opA) @@ (p2 :> opA)

OnePay == p1 :> opA
=============================================================================
