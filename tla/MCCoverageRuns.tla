----------------------------- MODULE MCCoverageRuns -----------------------------
(* Instances of CoverageRuns for TLC. *)
EXTENDS CoverageRuns
=============================================================================
