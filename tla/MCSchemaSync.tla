---------------------------- MODULE MCSchemaSync ----------------------------
(* Instances of SchemaSync for TLC. *)
EXTENDS SchemaSync
=============================================================================
