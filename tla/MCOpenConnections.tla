-------------------------- MODULE MCOpenConnections --------------------------
(* Instances of OpenConnections for TLC. *)
EXTENDS OpenConnections
=============================================================================
