------------------------- MODULE DataViewEditsProofs -------------------------
(* Theorems of DataViewEdits, for any rows, values, added rows and length of the undo history. *)
EXTENDS DataViewEdits, SequenceTheorems, TLAPS

-----------------------------------------------------------------------------
(* The inductive invariant *)

\* Changes under which a row to be removed holds no edits.
Calm == {c \in Changes : Edited(c) \cap c.removals = {}}

CalmMoves == [before: Calm, after: Calm]

\* The types, with calm changes wherever changes are kept: undo and redo bring back any of them.
EditsKept ==
  /\ undoStack \in BOOLEAN /\ lost \in BOOLEAN
  /\ db \in [Rows -> Values \cup {None}]
  /\ inserted \in [NewRows -> 0..2]
  /\ seen \in [Rows -> Values \cup {None}]
  /\ writable \in BOOLEAN
  /\ held \in Calm
  /\ used \in SUBSET NewRows
  /\ phase \in {"idle", "connecting", "connectingReadOnly", "running", "committing", "failing"}
  /\ written \in Calm
  /\ done \in SUBSET (Rows \cup NewRows)
  /\ history \in Seq(CalmMoves)
  /\ at \in 0..Len(history)
  /\ saved \in Nat
  /\ save \in {"none", "writing", "reloading"}

\* What the statements of a write have changed stays as its reader saw it, for it is locked; before
\* COMMIT all of them have run.
LockedAsSeen ==
  /\ phase \in {"running", "committing"} =>
       \A r \in Edited(written) \cap done : db[r] = written.edits[r].original
  /\ phase = "committing" => \A x \in Rows \cup NewRows : ~Due(x)

EditsInv == EditsKept /\ LockedAsSeen

-----------------------------------------------------------------------------
(* Changes *)

LEMMA NothingIsCalm == NoChanges \in Calm
  BY EditsAssumption DEF NoChanges, Calm, Changes, Edited

LEMMA CalmFacts ==
  ASSUME NEW c \in Calm
  PROVE  /\ c \in Changes
         /\ c.edits \in [Rows -> Edit \cup {None}]
         /\ c.removals \in SUBSET Rows
         /\ c.insertions \in [NewRows -> Values \cup {None}]
         /\ \A r \in Rows : c.edits[r] # None => c.edits[r] \in Edit /\ r \notin c.removals
  BY DEF Calm, Changes, Edited

\* A change of one row, of the removals, of one added row.
LEMMA EditedIsCalm ==
  ASSUME NEW c \in Calm, NEW r \in Rows, NEW e \in Edit \cup {None},
         e = None \/ r \notin c.removals
  PROVE  [c EXCEPT !.edits[r] = e] \in Calm
  <1> DEFINE d == [c EXCEPT !.edits[r] = e]
  <1>1. d \in Changes
    BY DEF Calm, Changes
  <1>2. /\ d.removals = c.removals
        /\ \A q \in Rows : d.edits[q] = IF q = r THEN e ELSE c.edits[q]
    BY CalmFacts DEF Changes, Calm
  <1>3. \A q \in Rows : d.edits[q] # None => q \notin d.removals
    <2> HIDE DEF d
    <2> QED BY <1>2, CalmFacts
  <1>4. Edited(d) \cap d.removals = {}
    <2> HIDE DEF d
    <2> QED BY <1>3 DEF Edited
  <1> QED BY <1>1, <1>4 DEF Calm

LEMMA PutBackIsCalm ==
  ASSUME NEW c \in Calm, NEW R \in SUBSET Rows
  PROVE  [c EXCEPT !.removals = @ \ R] \in Calm
  BY DEF Calm, Changes, Edited

LEMMA RemovedIsCalm ==
  ASSUME NEW c \in Calm, NEW R \in SUBSET Rows
  PROVE  [c EXCEPT !.removals = @ \cup R,
                   !.edits = [r \in Rows |-> IF r \in R THEN None ELSE @[r]]] \in Calm
  <1> DEFINE f == [r \in Rows |-> IF r \in R THEN None ELSE c.edits[r]]
             d == [c EXCEPT !.removals = c.removals \cup R, !.edits = f]
  <1>1. f \in [Rows -> Edit \cup {None}]
    BY CalmFacts
  <1>2. d = [edits |-> f, removals |-> c.removals \cup R, insertions |-> c.insertions]
    <2>1. d \in [edits: {f}, removals: {c.removals \cup R}, insertions: {c.insertions}]
      <3> HIDE DEF f
      <3> QED BY DEF Calm, Changes
    <2> HIDE DEF f, d
    <2> QED BY <2>1
  <1>3. \A q \in Rows : f[q] # None => q \notin c.removals \cup R
    BY CalmFacts
  <1>4. d \in Calm
    <2> HIDE DEF f
    <2> QED BY <1>1, <1>2, <1>3, CalmFacts DEF Calm, Changes, Edited
  <1>5. [c EXCEPT !.removals = @ \cup R,
                  !.edits = [r \in Rows |-> IF r \in R THEN None ELSE @[r]]] = d
    OBVIOUS
  <1> QED BY <1>4, <1>5

LEMMA AddedIsCalm ==
  ASSUME NEW c \in Calm, NEW n \in NewRows, NEW v \in Values \cup {None}
  PROVE  /\ [c EXCEPT !.insertions[n] = v] \in Calm
         /\ \A m \in NewRows : [c EXCEPT !.insertions[n] = v].insertions[m]
                                 = IF m = n THEN v ELSE c.insertions[m]
  BY DEF Calm, Changes, Edited

-----------------------------------------------------------------------------
(* The history *)

LEMMA PrefixKept ==
  ASSUME NEW h \in Seq(CalmMoves), NEW i \in 0..Len(h)
  PROVE  SubSeq(h, 1, i) \in Seq(CalmMoves) /\ Len(SubSeq(h, 1, i)) = i
  <1>1. Len(h) \in Nat
    BY LenProperties
  <1>2. \A j \in 1..i : h[j] \in CalmMoves
    BY <1>1, ElementOfSeq
  <1>3. CASE i = 0
    BY <1>1, <1>3, <1>2, SubSeqProperties
  <1>4. CASE i # 0
    BY <1>1, <1>4, <1>2, SubSeqProperties
  <1> QED BY <1>3, <1>4

LEMMA RememberKeeps ==
  ASSUME history \in Seq(CalmMoves), at \in 0..Len(history), held \in Calm, saved \in Nat,
         save \in {"none", "writing", "reloading"}, NEW next \in Calm, Remember(next)
  PROVE  /\ history' \in Seq(CalmMoves) /\ at' \in 0..Len(history')
         /\ saved' \in Nat /\ save' \in {"none", "writing", "reloading"}
  <1>1. CASE undoStack
    <2> DEFINE p == SubSeq(history, 1, at)
               m == [before |-> held, after |-> next]
    <2>1. p \in Seq(CalmMoves) /\ Len(p) = at
      BY PrefixKept
    <2>2. m \in CalmMoves
      BY DEF CalmMoves
    <2>3. Append(p, m) \in Seq(CalmMoves) /\ Len(Append(p, m)) = at + 1
      <3> HIDE DEF p, m
      <3> QED BY <2>1, <2>2, AppendProperties
    <2>4. history' = Append(p, m) /\ at' = at + 1 /\ saved' = saved /\ save' = save
      BY <1>1 DEF Remember
    <2>5. at \in Nat
      BY LenProperties
    <2> HIDE DEF p, m
    <2> QED BY <2>3, <2>4, <2>5
  <1>2. CASE ~undoStack
    BY <1>2 DEF Remember, undoVars
  <1> QED BY <1>1, <1>2

-----------------------------------------------------------------------------
(* Steps *)

LEMMA InitInv == Init => EditsInv
  <1> SUFFICES ASSUME Init PROVE EditsInv
    OBVIOUS
  <1>1. history \in Seq(CalmMoves) /\ Len(history) = 0
    BY EmptySeq DEF Init
  <1>2. undoStack \in BOOLEAN /\ lost \in BOOLEAN /\ writable \in BOOLEAN
    BY DEF Init
  <1> QED BY <1>1, <1>2, NothingIsCalm DEF Init, EditsInv, EditsKept, LockedAsSeen

\* The parts of a write the invariant speaks of do not change.
LEMMA WriteUntouched ==
  ASSUME LockedAsSeen, UNCHANGED <<db, phase, written, done>>
  PROVE  LockedAsSeen'
  BY DEF LockedAsSeen, Due, Edited, Added

LEMMA MoveKeepsInv ==
  ASSUME EditsInv, NEW next \in Calm, Move(next), used' \in SUBSET NewRows
  PROVE  EditsInv'
  <1>1. EditsKept'
    BY RememberKeeps DEF EditsInv, EditsKept, Move, writeVars, fixedVars
  <1>2. LockedAsSeen'
    BY WriteUntouched DEF EditsInv, Move, writeVars, fixedVars
  <1> QED BY <1>1, <1>2 DEF EditsInv

LEMMA SetIsCalm ==
  ASSUME EditsInv, NEW r \in Rows, NEW v \in Values, seen[r] # None, r \notin held.removals
  PROVE  Set(r, v) \in Calm
  <1>1. seen[r] \in Values /\ held \in Calm
    BY DEF EditsInv, EditsKept
  <1>2. (IF v = seen[r] THEN None ELSE [value |-> v, original |-> seen[r]]) \in Edit \cup {None}
    BY <1>1 DEF Edit
  <1> QED BY <1>1, <1>2, EditedIsCalm DEF Set

LEMMA MovesKeepInv ==
  ASSUME EditsInv,
         \/ \E r \in Rows, v \in Values : EditCell(r, v)
         \/ \E R \in SUBSET Rows : RemoveRows(R)
         \/ \E n \in NewRows, v \in Values : AddRow(n, v) \/ FillRow(n, v)
         \/ Discard
  PROVE  EditsInv'
  <1>0. held \in Calm /\ used \in SUBSET NewRows
    BY DEF EditsInv, EditsKept
  <1>1. ASSUME NEW r \in Rows, NEW v \in Values, EditCell(r, v)
        PROVE  EditsInv'
    BY <1>0, <1>1, SetIsCalm, MoveKeepsInv DEF EditCell
  <1>2. ASSUME NEW R \in SUBSET Rows, RemoveRows(R)
        PROVE  EditsInv'
    <2>1. used' = used
      BY <1>2 DEF RemoveRows
    <2>2. CASE R \subseteq held.removals
      <3>1. Move([held EXCEPT !.removals = @ \ R])
        BY <1>2, <2>2 DEF RemoveRows
      <3> QED BY <1>0, <2>1, <3>1, PutBackIsCalm, MoveKeepsInv
    <2>3. CASE ~(R \subseteq held.removals)
      <3>1. Move([held EXCEPT !.removals = @ \cup R,
                              !.edits = [r \in Rows |-> IF r \in R THEN None ELSE @[r]]])
        BY <1>2, <2>3 DEF RemoveRows
      <3> QED BY <1>0, <2>1, <3>1, RemovedIsCalm, MoveKeepsInv
    <2> QED BY <2>2, <2>3
  <1>3. ASSUME NEW n \in NewRows, NEW v \in Values, AddRow(n, v) \/ FillRow(n, v)
        PROVE  EditsInv'
    <2>1. Move([held EXCEPT !.insertions[n] = v]) /\ used' \in SUBSET NewRows
      BY <1>0, <1>3 DEF AddRow, FillRow
    <2> QED BY <1>0, <2>1, AddedIsCalm, MoveKeepsInv
  <1>4. ASSUME Discard
        PROVE  EditsInv'
    <2>1. used' = used
      BY <1>4 DEF Discard
    <2>2. ASSUME NEW r \in Rows, Move([held EXCEPT !.edits[r] = None])
          PROVE  EditsInv'
      BY <1>0, <2>1, <2>2, EditedIsCalm, MoveKeepsInv
    <2>3. ASSUME NEW r \in held.removals, Move([held EXCEPT !.removals = @ \ {r}])
          PROVE  EditsInv'
      <3>1. {r} \in SUBSET Rows
        BY <1>0, CalmFacts
      <3> QED BY <1>0, <2>1, <2>3, <3>1, PutBackIsCalm, MoveKeepsInv
    <2>4. ASSUME NEW n \in NewRows, Move([held EXCEPT !.insertions[n] = None])
          PROVE  EditsInv'
      BY <1>0, <2>1, <2>4, AddedIsCalm, MoveKeepsInv
    <2> QED BY <1>4, <2>2, <2>3, <2>4 DEF Discard
  <1> QED BY <1>1, <1>2, <1>3, <1>4

LEMMA UndoKeepsInv ==
  ASSUME EditsInv, Undo \/ Redo \/ DiscardAll
  PROVE  EditsInv'
  <1>1. LockedAsSeen'
    BY WriteUntouched DEF EditsInv, Undo, Redo, DiscardAll, writeVars, fixedVars
  <1>0. Len(history) \in Nat /\ at \in 0..Len(history) /\ history \in Seq(CalmMoves)
    BY LenProperties DEF EditsInv, EditsKept
  <1>2. ASSUME Undo
        PROVE  EditsKept'
    <2>1. history[at] \in CalmMoves
      BY <1>0, <1>2, ElementOfSeq DEF Undo
    <2>2. held' \in Calm
      BY <1>2, <2>1 DEF Undo, CalmMoves
    <2> QED BY <1>0, <1>2, <2>2 DEF Undo, EditsInv, EditsKept, writeVars, fixedVars
  <1>3. ASSUME Redo
        PROVE  EditsKept'
    <2>1. history[at + 1] \in CalmMoves
      BY <1>0, <1>3, ElementOfSeq DEF Redo
    <2>2. held' \in Calm
      BY <1>3, <2>1 DEF Redo, CalmMoves
    <2> QED BY <1>0, <1>3, <2>2 DEF Redo, EditsInv, EditsKept, writeVars, fixedVars
  <1>4. ASSUME DiscardAll
        PROVE  EditsKept'
    <2>1. history' \in Seq(CalmMoves) /\ at' \in 0..Len(history')
          /\ saved' = saved /\ save' = save
      <3>1. CASE undoStack
        <4>1. at' \in 0..Len(history) /\ history' = SubSeq(history, 1, at')
              /\ saved' = saved /\ save' = save
          BY <1>0, <1>4, <3>1 DEF DiscardAll, EditsInv, EditsKept
        <4>2. \A i \in 0..Len(history) :
                SubSeq(history, 1, i) \in Seq(CalmMoves) /\ Len(SubSeq(history, 1, i)) = i
          BY <1>0, PrefixKept
        <4>3. history' \in Seq(CalmMoves) /\ Len(history') = at'
          BY <4>1, <4>2, Zenon
        <4>4. at' \in 0..at'
          BY <1>0, <4>1
        <4> QED BY <4>1, <4>3, <4>4
      <3>2. CASE ~undoStack
        BY <1>0, <1>4, <3>2 DEF DiscardAll, undoVars
      <3> QED BY <3>1, <3>2
    <2> QED BY <1>4, <2>1, NothingIsCalm DEF DiscardAll, EditsInv, EditsKept, writeVars, fixedVars
  <1> QED BY <1>1, <1>2, <1>3, <1>4 DEF EditsInv

LEMMA ApplyKeepsInv ==
  ASSUME EditsInv, Apply \/ BuildStatements
  PROVE  EditsInv'
  <1>1. EditsKept'
    BY NothingIsCalm DEF EditsInv, EditsKept, Apply, BuildStatements, docVars, writeVars, undoVars, fixedVars
  <1>2. LockedAsSeen'
    <2>1. CASE Apply
      <3>1. CASE held = NoChanges \/ Writing
        BY <2>1, <3>1, WriteUntouched DEF EditsInv, Apply, writeVars, fixedVars
      <3>2. CASE ~(held = NoChanges \/ Writing)
        BY <2>1, <3>2 DEF Apply, LockedAsSeen
      <3> QED BY <3>1, <3>2
    <2>2. CASE BuildStatements
      BY <2>2 DEF BuildStatements, LockedAsSeen
    <2> QED BY <2>1, <2>2
  <1> QED BY <1>1, <1>2 DEF EditsInv

LEMMA StatementKeepsInv ==
  ASSUME EditsInv, NEW x \in Rows \cup NewRows, RunStatement(x)
  PROVE  EditsInv'
  <1>1. EditsKept'
    BY DEF EditsInv, EditsKept, RunStatement, docVars, undoVars, fixedVars
  <1>2. LockedAsSeen'
    BY DEF EditsInv, LockedAsSeen, RunStatement, Matches, Edited
  <1> QED BY <1>1, <1>2 DEF EditsInv

LEMMA WriteKeepsInv ==
  ASSUME EditsInv, SendCommit \/ Fail \/ ReportFailure
  PROVE  EditsInv'
  <1>1. EditsKept'
    BY NothingIsCalm
    DEF EditsInv, EditsKept, SendCommit, Fail, ReportFailure, docVars, undoVars, fixedVars
  <1>2. LockedAsSeen'
    <2>1. CASE SendCommit
      BY <2>1 DEF EditsInv, SendCommit, LockedAsSeen, Due, Edited, Added
    <2>2. CASE Fail \/ ReportFailure
      BY <2>2 DEF Fail, ReportFailure, LockedAsSeen
    <2> QED BY <2>1, <2>2
  <1> QED BY <1>1, <1>2 DEF EditsInv

LEMMA CommitKeepsInv ==
  ASSUME EditsInv, Commit \/ CommitUnacknowledged
  PROVE  EditsInv'
  <1>1. db' \in [Rows -> Values \cup {None}] /\ inserted' \in [NewRows -> 0..2]
    <2>1. Committed /\ written \in Calm /\ db \in [Rows -> Values \cup {None}]
          /\ inserted \in [NewRows -> 0..2]
      BY DEF EditsInv, EditsKept, Commit, CommitUnacknowledged
    <2>2. \A r \in Edited(written) : written.edits[r].value \in Values
      BY <2>1, CalmFacts DEF Edited, Edit
    <2>3. db' \in [Rows -> Values \cup {None}]
      BY <2>1, <2>2 DEF Committed
    <2>4. inserted' \in [NewRows -> 0..2]
      BY <2>1 DEF Committed
    <2> QED BY <2>3, <2>4
  <1>2. EditsKept'
    BY <1>1, NothingIsCalm
    DEF EditsInv, EditsKept, Commit, CommitUnacknowledged, docVars, undoVars, fixedVars
  <1>3. LockedAsSeen'
    BY DEF Commit, CommitUnacknowledged, LockedAsSeen
  <1> QED BY <1>2, <1>3 DEF EditsInv

LEMMA OutsideKeepsInv ==
  ASSUME EditsInv, Load \/ \E r \in Rows, v \in Values \cup {None} : OtherClient(r, v)
  PROVE  EditsInv'
  <1>1. CASE Load
    <2>1. EditsKept'
      BY <1>1, NothingIsCalm DEF EditsInv, EditsKept, Load, writeVars, fixedVars
    <2>2. LockedAsSeen'
      BY <1>1, WriteUntouched DEF EditsInv, Load, writeVars, fixedVars
    <2> QED BY <2>1, <2>2 DEF EditsInv
  <1>2. ASSUME NEW r \in Rows, NEW v \in Values \cup {None}, OtherClient(r, v)
        PROVE  EditsInv'
    <2>1. EditsKept'
      BY <1>2 DEF EditsInv, EditsKept, OtherClient, docVars, writeVars, undoVars, fixedVars
    <2>2. db \in [Rows -> Values \cup {None}] /\ db' = [db EXCEPT ![r] = v] /\ r \notin done
          /\ phase' = phase /\ written' = written /\ done' = done
      BY <1>2 DEF EditsInv, EditsKept, OtherClient, writeVars, fixedVars
    <2>3. \A q \in done \cap Rows : db'[q] = db[q]
      BY <2>2
    <2>4. LockedAsSeen'
      BY <2>2, <2>3 DEF EditsInv, LockedAsSeen, Due, Edited, Added
    <2> QED BY <2>1, <2>4 DEF EditsInv
  <1> QED BY <1>1, <1>2

LEMMA StepKeepsInv == EditsInv /\ [Next]_vars => EditsInv'
  <1> SUFFICES ASSUME EditsInv, [Next]_vars PROVE EditsInv'
    OBVIOUS
  <1>1. CASE UNCHANGED vars
    BY <1>1 DEF vars, docVars, writeVars, undoVars, fixedVars, EditsInv, EditsKept, LockedAsSeen, Due,
                Edited, Added
  <1>2. CASE Next
    BY <1>2, MovesKeepInv, UndoKeepsInv, ApplyKeepsInv, StatementKeepsInv, WriteKeepsInv,
       CommitKeepsInv, OutsideKeepsInv DEF Next, ReaderMoves, WriteGoesOn
  <1> QED BY <1>1, <1>2

LEMMA EditsInvariant == Spec => []EditsInv
  BY InitInv, StepKeepsInv, PTL DEF Spec

LEMMA UpdatesAreCalm ==
  ASSUME EditsInv, phase = "committing"
  PROVE  \A r \in Edited(written) : db[r] = written.edits[r].original
  <1>1. written.removals \subseteq Rows
    BY CalmFacts DEF EditsInv, EditsKept
  <1>2. written.removals \subseteq done
    BY <1>1 DEF EditsInv, LockedAsSeen, Due
  <1>3. Edited(written) \subseteq done
    BY <1>2 DEF EditsInv, LockedAsSeen, Due, Edited
  <1> QED BY <1>3 DEF EditsInv, LockedAsSeen

-----------------------------------------------------------------------------
(* The surfaces without an undo stack *)

\* Only what was given a local id is held or written as an added row, and it is no longer held
\* once it was inserted; what the statements of a write were built from stays held, or was let go
\* with the query that could write it.
ShellInv ==
  /\ history = <<>> /\ at = 0
  /\ writable \/ held = NoChanges
  /\ Added(held) \cup Added(written) \subseteq used
  /\ phase \in {"running", "committing"} => held \in {written, NoChanges}

\* The INSERT of an added row is committed at most once, and only of one that is no longer held.
UnappliedInv == \A n \in NewRows : inserted[n] # 0 => n \in used /\ n \notin Added(held)

\* A move inserts nothing, and what it adds to what is held has a new local id.
OnlyNewAdded ==
  /\ inserted' = inserted
  /\ used \subseteq used' /\ Added(held') \subseteq Added(held) \cup (used' \ used)

LEMMA NothingIsAdded == Added(NoChanges) = {}
  BY DEF Added, NoChanges

LEMMA ShellMove ==
  ASSUME ~undoStack, ShellInv, NEW next, Move(next), writable,
         Added(next) \subseteq used', used \subseteq used'
  PROVE  ShellInv'
  BY DEF Move, Remember, undoVars, writeVars, ShellInv, Added, Writing

LEMMA ShellMoves ==
  ASSUME ~undoStack, EditsInv, ShellInv,
         \/ \E r \in Rows, v \in Values : EditCell(r, v)
         \/ \E R \in SUBSET Rows : RemoveRows(R)
         \/ \E n \in NewRows, v \in Values : AddRow(n, v) \/ FillRow(n, v)
         \/ Discard
  PROVE  ShellInv' /\ OnlyNewAdded
  <1>0. held \in Calm /\ held \in Changes /\ Added(held) \subseteq used
    BY CalmFacts DEF EditsInv, EditsKept, ShellInv
  <1>1. ASSUME NEW next, Move(next), writable, used \subseteq used',
               Added(next) \subseteq Added(held) \cup (used' \ used)
        PROVE  ShellInv' /\ OnlyNewAdded
    <2>1. ShellInv'
      BY <1>0, <1>1, ShellMove
    <2>2. held' = next /\ inserted' = inserted
      BY <1>1 DEF Move
    <2> QED BY <1>1, <2>1, <2>2 DEF OnlyNewAdded
  <1>2. ASSUME NEW next, Move(next), writable, used' = used, next.insertions = held.insertions
        PROVE  Added(next) \subseteq Added(held) \cup (used' \ used) /\ used \subseteq used'
    BY <1>2 DEF Added
  <1>3. ASSUME NEW r \in Rows, NEW v \in Values, EditCell(r, v)
        PROVE  writable /\ used' = used /\ Move(Set(r, v)) /\ Set(r, v).insertions = held.insertions
    BY <1>0, <1>3 DEF EditCell, Set, Changes
  <1>4. ASSUME NEW R \in SUBSET Rows, RemoveRows(R)
        PROVE  /\ writable /\ used' = used
               /\ \E next : Move(next) /\ next.insertions = held.insertions
    <2>1. CASE R \subseteq held.removals
      <3> DEFINE next == [held EXCEPT !.removals = @ \ R]
      <3>1. Move(next) /\ writable /\ used' = used
        BY <1>4, <2>1 DEF RemoveRows
      <3>2. next.insertions = held.insertions
        BY <1>0 DEF Changes
      <3> HIDE DEF next
      <3> QED BY <3>1, <3>2
    <2>2. CASE ~(R \subseteq held.removals)
      <3> DEFINE next == [held EXCEPT !.removals = @ \cup R,
                              !.edits = [r \in Rows |-> IF r \in R THEN None ELSE @[r]]]
      <3>1. Move(next) /\ writable /\ used' = used
        BY <1>4, <2>2 DEF RemoveRows
      <3>2. next.insertions = held.insertions
        BY <1>0 DEF Changes
      <3> HIDE DEF next
      <3> QED BY <3>1, <3>2
    <2> QED BY <2>1, <2>2
  <1>5. ASSUME NEW n \in NewRows, NEW v \in Values, AddRow(n, v) \/ FillRow(n, v)
        PROVE  /\ writable /\ used \subseteq used'
               /\ \E next : Move(next) /\ Added(next) \subseteq Added(held) \cup (used' \ used)
    <2> DEFINE next == [held EXCEPT !.insertions[n] = v]
    <2>1. Move(next)
      BY <1>5 DEF AddRow, FillRow
    <2>2. Added(next) \subseteq Added(held) \cup {n}
      BY <1>0, AddedIsCalm DEF Added
    <2>3. CASE AddRow(n, v)
      <3>1. writable /\ n \notin used /\ used' = used \cup {n}
        BY <2>3 DEF AddRow
      <3> HIDE DEF next
      <3> QED BY <2>1, <2>2, <3>1
    <2>4. CASE FillRow(n, v)
      <3>1. n \in Added(held) /\ used' = used
        BY <2>4 DEF FillRow, Added
      <3>2. writable
        BY <3>1, NothingIsAdded DEF ShellInv
      <3> HIDE DEF next
      <3> QED BY <2>1, <2>2, <3>1, <3>2
    <2> QED BY <1>5, <2>3, <2>4
  <1>6. ASSUME Discard
        PROVE  /\ writable /\ used' = used
               /\ \E next : Move(next) /\ Added(next) \subseteq Added(held)
    <2>1. used' = used
      BY <1>6 DEF Discard
    <2>2. writable
      <3>1. NoChanges.edits = [r \in Rows |-> None] /\ NoChanges.removals = {}
            /\ NoChanges.insertions = [n \in NewRows |-> None]
        BY DEF NoChanges
      <3>2. held # NoChanges
        BY <1>6, <3>1 DEF Discard
      <3> QED BY <3>2 DEF ShellInv
    <2>3. ASSUME NEW r \in Rows, Move([held EXCEPT !.edits[r] = None])
          PROVE  \E next : Move(next) /\ Added(next) \subseteq Added(held)
      <3>1. [held EXCEPT !.edits[r] = None].insertions = held.insertions
        BY <1>0 DEF Changes
      <3>2. Added([held EXCEPT !.edits[r] = None]) \subseteq Added(held)
        BY <3>1 DEF Added
      <3> QED BY <2>3, <3>2
    <2>4. ASSUME NEW r \in held.removals, Move([held EXCEPT !.removals = @ \ {r}])
          PROVE  \E next : Move(next) /\ Added(next) \subseteq Added(held)
      <3>1. [held EXCEPT !.removals = @ \ {r}].insertions = held.insertions
        BY <1>0 DEF Changes
      <3>2. Added([held EXCEPT !.removals = @ \ {r}]) \subseteq Added(held)
        BY <3>1 DEF Added
      <3> QED BY <2>4, <3>2
    <2>5. ASSUME NEW n \in NewRows, Move([held EXCEPT !.insertions[n] = None])
          PROVE  \E next : Move(next) /\ Added(next) \subseteq Added(held)
      <3>1. Added([held EXCEPT !.insertions[n] = None]) \subseteq Added(held)
        BY <1>0, AddedIsCalm DEF Added
      <3> QED BY <2>5, <3>1
    <2> QED BY <1>6, <2>1, <2>2, <2>3, <2>4, <2>5 DEF Discard
  <1>7. ASSUME NEW r \in Rows, NEW v \in Values, EditCell(r, v)
        PROVE  ShellInv' /\ OnlyNewAdded
    BY <1>7, <1>3, <1>2, <1>1
  <1>8. ASSUME NEW R \in SUBSET Rows, RemoveRows(R)
        PROVE  ShellInv' /\ OnlyNewAdded
    BY <1>8, <1>4, <1>2, <1>1
  <1>9. ASSUME NEW n \in NewRows, NEW v \in Values, AddRow(n, v) \/ FillRow(n, v)
        PROVE  ShellInv' /\ OnlyNewAdded
    BY <1>9, <1>5, <1>1
  <1>10. ASSUME Discard
        PROVE  ShellInv' /\ OnlyNewAdded
    BY <1>10, <1>6, <1>1
  <1> QED BY <1>7, <1>8, <1>9, <1>10

LEMMA ShellInit == Init => ShellInv /\ UnappliedInv
  BY NothingIsAdded DEF Init, ShellInv, UnappliedInv

LEMMA ShellWrites ==
  ASSUME ~undoStack, EditsInv, ShellInv, WriteGoesOn \/ Apply
  PROVE  ShellInv'
  <1>1. /\ history' = history /\ at' = at /\ writable' = writable /\ used' = used
        /\ held' \in {held, NoChanges} /\ written' \in {written, held, NoChanges}
    BY DEF WriteGoesOn, Apply, BuildStatements, RunStatement, SendCommit, Fail, Commit,
           CommitUnacknowledged, ReportFailure, docVars, writeVars, undoVars, fixedVars
  <1>2. Added(held') \cup Added(written') \subseteq used'
    BY <1>1, NothingIsAdded DEF ShellInv
  <1>3. phase' \in {"running", "committing"} => held' \in {written', NoChanges}
    BY DEF ShellInv, WriteGoesOn, Apply, BuildStatements, RunStatement, SendCommit, Fail, Commit,
           CommitUnacknowledged, ReportFailure, docVars, writeVars, undoVars, fixedVars
  <1> QED BY <1>1, <1>2, <1>3 DEF ShellInv

LEMMA ShellLets ==
  ASSUME ~undoStack, EditsInv, ShellInv,
         DiscardAll \/ Load \/ \E r \in Rows, v \in Values \cup {None} : OtherClient(r, v)
  PROVE  ShellInv' /\ OnlyNewAdded
  <1>1. /\ history' = history /\ at' = at /\ used' = used /\ inserted' = inserted
        /\ held' \in {held, NoChanges} /\ written' = written /\ phase' = phase
        /\ writable' \/ held' = NoChanges
    BY DEF ShellInv, DiscardAll, Load, OtherClient, docVars, writeVars, undoVars, fixedVars
  <1>2. Added(held') \cup Added(written') \subseteq used' /\ Added(held') \subseteq Added(held)
    BY <1>1, NothingIsAdded DEF ShellInv
  <1> QED BY <1>1, <1>2 DEF ShellInv, OnlyNewAdded

LEMMA ShellHasNoUndo ==
  ASSUME EditsInv, ShellInv
  PROVE  ~Undo /\ ~Redo
  BY EmptySeq DEF EditsInv, EditsKept, ShellInv, Undo, Redo

LEMMA ShellStep ==
  ASSUME ~undoStack, EditsInv, ShellInv, [Next]_vars
  PROVE  ShellInv' /\ (OnlyNewAdded \/ WriteGoesOn \/ Apply)
  <1>1. CASE UNCHANGED vars
    BY <1>1 DEF vars, docVars, writeVars, undoVars, fixedVars, ShellInv, OnlyNewAdded, Added
  <1>2. CASE Next
    BY <1>2, ShellMoves, ShellWrites, ShellLets, ShellHasNoUndo DEF Next, ReaderMoves
  <1> QED BY <1>1, <1>2

\* Only COMMIT inserts, and without a lost answer it lets go of everything that was held.
LEMMA UnappliedStep ==
  ASSUME ~undoStack, ~lost', EditsInv, ShellInv, UnappliedInv, [Next]_vars
  PROVE  UnappliedInv'
  <1>1. CASE OnlyNewAdded
    BY <1>1 DEF OnlyNewAdded, UnappliedInv
  <1>2. CASE Commit
    <2>1. /\ held' = NoChanges /\ used' = used /\ Committed
          /\ inserted \in [NewRows -> 0..2] /\ Added(written) \subseteq used
      BY <1>2 DEF Commit, EditsInv, EditsKept, ShellInv
    <2>2. \A n \in NewRows : inserted'[n] # inserted[n] => n \in Added(written)
      BY <2>1 DEF Committed
    <2> QED BY <2>1, <2>2, NothingIsAdded DEF UnappliedInv
  <1>3. CASE (WriteGoesOn \/ Apply) /\ ~Commit
    <2>1. inserted' = inserted /\ held' = held /\ used' = used
      BY <1>3 DEF WriteGoesOn, Apply, BuildStatements, RunStatement, SendCommit, Fail,
                  CommitUnacknowledged, ReportFailure, docVars
    <2> QED BY <2>1 DEF UnappliedInv, Added
  <1> QED BY <1>1, <1>2, <1>3, ShellStep DEF WriteGoesOn

-----------------------------------------------------------------------------
(* Theorems *)

\* Every variable of a Data View keeps its type (PendingEdits).
THEOREM EditsTypeCorrect == Spec => []TypeOK
  <1>1. EditsInv => TypeOK
    <2> SUFFICES ASSUME EditsInv PROVE TypeOK
      OBVIOUS
    <2>1. Calm \subseteq Changes
      BY DEF Calm
    <2>2. CalmMoves \subseteq [before: Changes, after: Changes]
      BY <2>1 DEF CalmMoves
    <2>3. history \in Seq([before: Changes, after: Changes])
      <3>1. history \in Seq(CalmMoves)
        BY DEF EditsInv, EditsKept
      <3> QED BY <2>2, <3>1, SeqMonotonic
    <2> QED BY <2>1, <2>3 DEF EditsInv, EditsKept, TypeOK
  <1> QED BY <1>1, EditsInvariant, PTL

\* A row to be removed holds no edits, whatever is undone and redone (record, removeRows).
THEOREM RemovalsAreFree == Spec => []RemovedRowsHoldNoEdits
  <1>1. EditsInv => RemovedRowsHoldNoEdits
    BY DEF EditsInv, EditsKept, Calm, RemovedRowsHoldNoEdits
  <1> QED BY <1>1, EditsInvariant, PTL

\* No update overwrites a value its reader did not see (buildRowUpdates).
THEOREM UpdatesSeeWhatTheyOverwrite == Spec => NoBlindUpdate
  <1>1. EditsInv => [Commit \/ CommitUnacknowledged =>
                       \A r \in Edited(written) : db[r] = written.edits[r].original]_vars
    BY UpdatesAreCalm DEF Commit, CommitUnacknowledged
  <1> QED BY <1>1, EditsInvariant, PTL DEF NoBlindUpdate

\* The surface is chosen once, and an answer that is lost stays lost.
LEMMA SurfaceKept ==
  ASSUME [Next]_vars
  PROVE  undoStack' = undoStack /\ (lost => lost')
  <1>1. CASE UNCHANGED vars
    BY <1>1 DEF vars, fixedVars
  <1>2. CASE ReaderMoves
    <2>1. ASSUME NEW next, Move(next)
          PROVE  undoStack' = undoStack /\ lost' = lost
      BY <2>1 DEF Move, fixedVars
    <2>2. CASE Undo \/ Redo \/ DiscardAll
      BY <2>2 DEF Undo, Redo, DiscardAll, fixedVars
    <2>3. CASE Discard
      BY <2>1, <2>3 DEF Discard
    <2>4. ASSUME NEW R \in SUBSET Rows, RemoveRows(R)
          PROVE  undoStack' = undoStack /\ lost' = lost
      <3>1. \E next : Move(next)
        BY <2>4, Zenon DEF RemoveRows
      <3> QED BY <2>1, <3>1
    <2>5. ASSUME NEW r \in Rows, NEW v \in Values, EditCell(r, v)
          PROVE  undoStack' = undoStack /\ lost' = lost
      BY <2>1, <2>5 DEF EditCell
    <2>6. ASSUME NEW n \in NewRows, NEW v \in Values, AddRow(n, v) \/ FillRow(n, v)
          PROVE  undoStack' = undoStack /\ lost' = lost
      BY <2>1, <2>6 DEF AddRow, FillRow
    <2> QED BY <1>2, <2>2, <2>3, <2>4, <2>5, <2>6 DEF ReaderMoves
  <1>3. CASE WriteGoesOn
    BY <1>3 DEF WriteGoesOn, BuildStatements, RunStatement, SendCommit, Fail, Commit,
                CommitUnacknowledged, ReportFailure, fixedVars
  <1>4. CASE Apply \/ Load \/ \E r \in Rows, v \in Values \cup {None} : OtherClient(r, v)
    BY <1>4 DEF Apply, Load, OtherClient, fixedVars
  <1> QED BY <1>1, <1>2, <1>3, <1>4 DEF Next

\* The surfaces without an undo stack, as part of all of them.
Shell ==
  /\ EditsInv
  /\ ~undoStack => ShellInv
  /\ ~undoStack /\ ~lost => UnappliedInv

LEMMA ShellInvariant == Spec => []Shell
  <1>1. Shell /\ [Next]_vars => Shell'
    <2> SUFFICES ASSUME Shell, [Next]_vars PROVE Shell'
      OBVIOUS
    <2>1. EditsInv'
      BY StepKeepsInv DEF Shell
    <2>2. ~undoStack' => ShellInv'
      BY SurfaceKept, ShellStep DEF Shell
    <2>3. ~undoStack' /\ ~lost' => UnappliedInv'
      BY SurfaceKept, UnappliedStep DEF Shell
    <2> QED BY <2>1, <2>2, <2>3 DEF Shell
  <1>2. Init => Shell
    BY InitInv, ShellInit DEF Shell
  <1> QED BY <1>1, <1>2, PTL DEF Spec

\* Without an undo stack nothing is held that the current query could not write (forget).
THEOREM ShellHoldsWritable == Spec => []HeldIsWritable
  <1>1. Shell => HeldIsWritable
    BY DEF Shell, ShellInv, HeldIsWritable
  <1> QED BY <1>1, ShellInvariant, PTL

\* Without an undo stack, everything COMMIT lets go of was written by it (move, applyWith).
THEOREM ShellClearsWhatItWrote == Spec => ClearedMeansWritten
  <1>1. ShellInv /\ Commit => HeldIsWritten
    BY DEF ShellInv, Commit, NoChanges, HeldIsWritten
  <1>2. Shell => [Commit /\ ~undoStack => HeldIsWritten]_vars
    BY <1>1 DEF Shell
  <1> QED BY <1>2, ShellInvariant, PTL DEF ClearedMeansWritten

\* Without an undo stack, and until an answer to COMMIT is lost, an added row that is held was
\* never inserted (PendingEdits).
THEOREM ShellHoldsUnapplied == Spec => []HeldIsUnapplied
  <1>1. Shell => HeldIsUnapplied
    BY DEF Shell, UnappliedInv, HeldIsUnapplied, Added
  <1> QED BY <1>1, ShellInvariant, PTL
=============================================================================
