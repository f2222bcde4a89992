--------------------------- MODULE MCDataViewEdits ---------------------------
(* Instances of DataViewEdits for TLC. *)
EXTENDS DataViewEdits
=============================================================================
