----------------------------- MODULE MCScratchpad -----------------------------
(* Instances of ScratchpadTransactions for TLC. *)
EXTENDS ScratchpadTransactions
=============================================================================
