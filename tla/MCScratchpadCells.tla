--------------------------- MODULE MCScratchpadCells ---------------------------
(* Instances of ScratchpadCells for TLC. *)
EXTENDS ScratchpadCells, TLC

\* Several cells in a batch, with changes between them; or batches that overlap.
AllHabits == {[overlaps |-> FALSE, cells |-> MaxCells, changes |-> Changers],
              [overlaps |-> TRUE, cells |-> 1, changes |-> {}]}
Overlapping == {[overlaps |-> TRUE, cells |-> MaxCells, changes |-> Changers]}

\* Sessions, and the calls of one kind, are interchangeable (for the run without liveness).
Symmetry == Permutations(Clients) \cup Permutations(Changers) \cup Permutations(Leases)
            \cup Permutations(Cells)
=============================================================================
