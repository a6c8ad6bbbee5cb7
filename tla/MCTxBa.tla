------------------------------- MODULE MCTxBa -------------------------------
(* TLC instances of TxBa.                                                  *)
EXTENDS TxBa

=============================================================================
