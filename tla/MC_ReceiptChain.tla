-------------------------- MODULE MC_ReceiptChain --------------------------
(* ReceiptChain with small constants for TLC. *)
EXTENDS ReceiptChain, TLC

CONSTANTS t1, t2, server

TwoThreads == [e \in {t1, t2} |-> server]

=============================================================================
