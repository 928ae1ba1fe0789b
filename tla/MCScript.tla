------------------------------ MODULE MCScript ------------------------------
(* Every script of up to four commands, batches of up to two.              *)
EXTENDS Script
=============================================================================
