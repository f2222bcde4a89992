-------------------------- MODULE MCDataViewReading --------------------------
(* Instances of DataViewReading for TLC. *)
EXTENDS DataViewReading
=============================================================================
