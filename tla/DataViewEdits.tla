---------------------------- MODULE DataViewEdits ----------------------------
(***************************************************************************)
(* The pending changes of a Data View and their way into PostgreSQL:       *)
(* packages/rows/src/dataView/pendingEdits.ts and updates.ts, with the     *)
(* document that holds them in VS Code                                     *)
(* (vscode-extension/src/dataView/dataViewDocument.ts and its provider).   *)
(*                                                                         *)
(* One table with one editable column.  A reader holds changes, applies    *)
(* them in one transaction, undoes and redoes moves where the surface has  *)
(* an undo stack, and reloads the rows; other clients of PostgreSQL write  *)
(* the same rows at any time.                                              *)
(***************************************************************************)
EXTENDS Naturals, Sequences

CONSTANTS
  Rows,          \* keys of rows the table may hold
  Values,        \* what their column may hold
  NewRows,       \* bound: local ids of the rows a reader adds (new-1, new-2, ...)
  None,          \* no change; a row that does not exist
  MaxMoves       \* bound: moves remembered for undo

ASSUME EditsAssumption ==
  /\ None \notin Rows \cup Values \cup NewRows
  /\ MaxMoves \in Nat

VARIABLES
  undoStack, \* VS Code tracks the document's edits (auto save off); the shell does not
  db,        \* the committed rows
  inserted,  \* how often the INSERT of an added row was committed: never, once, more often
  seen,      \* the rows the grid shows, as they were loaded
  writable,  \* editability: the query draws from exactly one table, with its identity
  held,      \* the pending changes: items, removals, insertions
  used,      \* local ids given out (PendingEdits.added)
  phase,     \* apply: where it awaits; "idle" also while it reloads
  written,   \* the changes its statements were built from
  done,      \* the rows its statements have changed so far, locked until it ends
  history,   \* VS Code: the remembered moves
  at,        \* VS Code: moves of the history that are in effect
  saved,     \* VS Code: at, when the document was last saved
  save,      \* VS Code: the save it waits for
  lost       \* whether the answer of a COMMIT that was executed has been lost

docVars == <<seen, writable, held, used>>
writeVars == <<phase, written, done>>
undoVars == <<history, at, saved, save>>
fixedVars == <<undoStack, lost>>
vars == <<db, inserted, docVars, writeVars, undoVars, fixedVars>>

Edit == [value: Values, original: Values]

Changes == [edits: [Rows -> Edit \cup {None}],
            removals: SUBSET Rows,
            insertions: [NewRows -> Values \cup {None}]]

NoChanges == [edits |-> [r \in Rows |-> None],
              removals |-> {},
              insertions |-> [n \in NewRows |-> None]]

TypeOK ==
  /\ undoStack \in BOOLEAN
  /\ lost \in BOOLEAN
  /\ db \in [Rows -> Values \cup {None}]
  /\ inserted \in [NewRows -> 0..2]
  /\ seen \in [Rows -> Values \cup {None}]
  /\ writable \in BOOLEAN
  /\ held \in Changes
  /\ used \in SUBSET NewRows
  /\ phase \in {"idle", "connecting", "connectingReadOnly", "running", "committing", "failing"}
  /\ written \in Changes
  /\ done \in SUBSET (Rows \cup NewRows)
  /\ history \in Seq([before: Changes, after: Changes])
  /\ at \in 0..Len(history)
  /\ saved \in Nat
  /\ save \in {"none", "writing", "reloading"}

Init ==
  /\ undoStack \in BOOLEAN
  /\ lost = FALSE
  /\ db \in [Rows -> Values]
  /\ inserted = [n \in NewRows |-> 0]
  /\ seen = db
  /\ writable = TRUE
  /\ held = NoChanges
  /\ used = {}
  /\ phase = "idle"
  /\ written = NoChanges
  /\ done = {}
  /\ history = <<>>
  /\ at = 0
  /\ saved = 0
  /\ save = "none"

Writing == phase # "idle"

-----------------------------------------------------------------------------
(* Moves *)

\* remember: the way back to what was held, and the way forward; what was undone is forgotten.
Remember(next) ==
  IF undoStack
    THEN /\ at < MaxMoves
         /\ history' = Append(SubSeq(history, 1, at), [before |-> held, after |-> next])
         /\ at' = at + 1
         /\ UNCHANGED <<saved, save>>
    ELSE UNCHANGED undoVars

MoveDuringWrite(next) ==
  /\ held' = next
  /\ Remember(next)
  /\ UNCHANGED <<db, inserted, seen, writable, writeVars, fixedVars>>

\* move: refused while a write is under way.
Move(next) ==
  /\ ~Writing
  /\ held' = next
  /\ Remember(next)
  /\ UNCHANGED <<db, inserted, seen, writable, writeVars, fixedVars>>

\* set: an edit that puts the original value back is no change.
Set(r, v) ==
  [held EXCEPT !.edits[r] = IF v = seen[r] THEN None ELSE [value |-> v, original |-> seen[r]]]

EditRemovedCell(r, v) ==
  /\ writable
  /\ seen[r] # None
  /\ Move(Set(r, v))
  /\ UNCHANGED used

\* record: a row that is to be removed holds no edits.
EditCell(r, v) ==
  /\ writable
  /\ seen[r] # None
  /\ r \notin held.removals
  /\ Move(Set(r, v))
  /\ UNCHANGED used

\* removeRows: put back rows that were all removed; otherwise remove them, with their edits.
RemoveRows(R) ==
  /\ writable
  /\ R # {} /\ \A r \in R : seen[r] # None
  /\ Move(IF R \subseteq held.removals
            THEN [held EXCEPT !.removals = @ \ R]
            ELSE [held EXCEPT !.removals = @ \cup R,
                              !.edits = [r \in Rows |-> IF r \in R THEN None ELSE @[r]]])
  /\ UNCHANGED used

AddRow(n, v) ==
  /\ writable
  /\ n \notin used
  /\ Move([held EXCEPT !.insertions[n] = v])
  /\ used' = used \cup {n}

FillRow(n, v) ==
  /\ held.insertions[n] # None
  /\ Move([held EXCEPT !.insertions[n] = v])
  /\ UNCHANGED used

\* discard: one change out of what is waiting; dropping an added row is the same move.
Discard ==
  /\ \/ \E r \in Rows : held.edits[r] # None /\ Move([held EXCEPT !.edits[r] = None])
     \/ \E r \in held.removals : Move([held EXCEPT !.removals = @ \ {r}])
     \/ \E n \in NewRows : held.insertions[n] # None /\ Move([held EXCEPT !.insertions[n] = None])
  /\ UNCHANGED used

\* Undo and redo restore a snapshot; they are no moves and ask no guard.
Undo ==
  /\ at > 0
  /\ held' = history[at].before
  /\ at' = at - 1
  /\ UNCHANGED <<db, inserted, seen, writable, used, writeVars, history, saved, save, fixedVars>>

Redo ==
  /\ at < Len(history)
  /\ held' = history[at + 1].after
  /\ at' = at + 1
  /\ UNCHANGED <<db, inserted, seen, writable, used, writeVars, history, saved, save, fixedVars>>

\* Discard all, which is Revert in VS Code: clear; VS Code goes back to its save point.
DiscardAll ==
  /\ undoStack \/ ~Writing       \* the view disables its own button while it applies
  /\ held # NoChanges
  /\ held' = NoChanges
  /\ IF undoStack
       THEN /\ at' = IF saved <= Len(history) THEN saved ELSE Len(history)
            /\ history' = SubSeq(history, 1, at')
            /\ UNCHANGED <<saved, save>>
       ELSE UNCHANGED undoVars
  /\ UNCHANGED <<db, inserted, seen, writable, used, writeVars, fixedVars>>

-----------------------------------------------------------------------------
(* Applying *)

\* VS Code saves the document, which waits for apply and its reload; without an undo stack the
\* view asks for apply directly.  Nothing to write, or a write under way: apply returns at once.
Apply ==
  IF held = NoChanges \/ Writing
    THEN /\ undoStack
         /\ saved' = at
         /\ save' = "none"
         /\ UNCHANGED <<db, inserted, docVars, writeVars, history, at, fixedVars>>
    ELSE /\ phase' = IF writable THEN "connecting" ELSE "connectingReadOnly"
         /\ save' = IF undoStack THEN "writing" ELSE "none"
         /\ UNCHANGED <<db, inserted, docVars, written, done, history, at, saved, fixedVars>>

\* The client is open: applyWith builds its statements from what is held now, for the tables that
\* were writable when apply was called.
BuildStatements ==
  /\ phase \in {"connecting", "connectingReadOnly"}
  /\ phase' = IF phase = "connecting" \/ held = NoChanges THEN "running" ELSE "failing"
  /\ written' = held
  /\ done' = {}
  /\ UNCHANGED <<db, inserted, docVars, undoVars, fixedVars>>

Edited(changes) == {r \in Rows : changes.edits[r] # None}
Added(changes) == {n \in NewRows : changes.insertions[n] # None}

\* Deletions first, then the edited rows, then the added ones.
Due(x) ==
  \/ x \in written.removals \ done
  \/ written.removals \subseteq done /\ x \in Edited(written) \ done
  \/ written.removals \cup Edited(written) \subseteq done /\ x \in Added(written) \ done

MatchesByKey(x) == x \in Rows => db[x] # None

\* The WHERE of a statement finds its row: a DELETE by its key, an UPDATE by its key and by the
\* value it was made against.
Matches(x) ==
  /\ x \in written.removals => db[x] # None
  /\ x \in Edited(written) => db[x] = written.edits[x].original

RunStatement(x) ==
  /\ phase = "running"
  /\ Due(x)
  /\ Matches(x)
  /\ done' = done \cup {x}
  /\ UNCHANGED <<db, inserted, docVars, phase, written, undoVars, fixedVars>>

SendCommit ==
  /\ phase = "running"
  /\ \A x \in Rows \cup NewRows : ~Due(x)
  /\ phase' = "committing"
  /\ UNCHANGED <<db, inserted, docVars, written, done, undoVars, fixedVars>>

\* openClient fails, a statement matches no row or is refused, COMMIT fails.
Fail ==
  /\ phase \notin {"idle", "failing"}
  /\ phase' = "failing"
  /\ UNCHANGED <<db, inserted, docVars, written, done, undoVars, fixedVars>>

\* What the statements do, as other sessions see it after COMMIT.
Committed ==
  /\ db' = [r \in Rows |-> CASE r \in written.removals -> None
                             [] r \in Edited(written) -> written.edits[r].value
                             [] OTHER -> db[r]]
  /\ inserted' = [n \in NewRows |->
       IF n \in Added(written) /\ inserted[n] < 2 THEN inserted[n] + 1 ELSE inserted[n]]

CommitWithoutClear ==
  /\ phase = "committing"
  /\ Committed
  /\ phase' = "idle"
  /\ written' = NoChanges
  /\ done' = {}
  /\ save' = IF save = "writing" THEN "reloading" ELSE save
  /\ UNCHANGED <<docVars, history, at, saved, fixedVars>>

\* COMMIT is acknowledged: clear, and say so.
Commit ==
  /\ phase = "committing"
  /\ Committed
  /\ held' = NoChanges
  /\ phase' = "idle"
  /\ written' = NoChanges
  /\ done' = {}
  /\ save' = IF save = "writing" THEN "reloading" ELSE save
  /\ UNCHANGED <<seen, writable, used, history, at, saved, fixedVars>>

\* COMMIT is executed and its acknowledgement is lost.
CommitUnacknowledged ==
  /\ phase = "committing"
  /\ Committed
  /\ phase' = "failing"
  /\ lost' = TRUE
  /\ UNCHANGED <<docVars, written, done, undoVars, undoStack>>

ReportFailureStillWriting ==
  /\ phase = "failing"
  /\ written' = NoChanges
  /\ done' = {}
  /\ save' = IF save = "writing" THEN "none" ELSE save
  /\ UNCHANGED <<db, inserted, docVars, phase, history, at, saved, fixedVars>>

\* ROLLBACK has settled: the changes stay held, the reader is told, and the save rejects.
ReportFailure ==
  /\ phase = "failing"
  /\ phase' = "idle"
  /\ written' = NoChanges
  /\ done' = {}
  /\ save' = IF save = "writing" THEN "none" ELSE save
  /\ UNCHANGED <<db, inserted, docVars, history, at, saved, fixedVars>>

-----------------------------------------------------------------------------
(* Loading, and other clients *)

LoadWithoutForgetting ==
  /\ seen' = db
  /\ writable' \in BOOLEAN
  /\ IF save = "reloading" THEN save' = "none" /\ saved' = at ELSE UNCHANGED <<save, saved>>
  /\ UNCHANGED <<db, inserted, held, used, writeVars, history, at, fixedVars>>

\* The rows of the current query are shown.  The changes held against a table the query no longer
\* writes to are let go.  The save that awaited this reload is over.
Load ==
  /\ seen' = db
  /\ writable' \in BOOLEAN
  /\ held' = IF writable' THEN held ELSE NoChanges
  /\ IF save = "reloading" THEN save' = "none" /\ saved' = at ELSE UNCHANGED <<save, saved>>
  /\ UNCHANGED <<db, inserted, used, writeVars, history, at, fixedVars>>

OtherClient(r, v) ==
  /\ r \notin done
  /\ db' = [db EXCEPT ![r] = v]
  /\ UNCHANGED <<inserted, docVars, writeVars, undoVars, fixedVars>>

-----------------------------------------------------------------------------
(* Specification *)

ReaderMoves ==
  \/ \E r \in Rows, v \in Values : EditCell(r, v)
  \/ \E R \in SUBSET Rows : RemoveRows(R)
  \/ \E n \in NewRows, v \in Values : AddRow(n, v) \/ FillRow(n, v)
  \/ Discard \/ Undo \/ Redo \/ DiscardAll

WriteGoesOn ==
  \/ BuildStatements \/ (\E x \in Rows \cup NewRows : RunStatement(x)) \/ SendCommit
  \/ Fail \/ Commit \/ CommitUnacknowledged \/ ReportFailure

Next ==
  \/ ReaderMoves \/ Apply \/ WriteGoesOn \/ Load
  \/ \E r \in Rows, v \in Values \cup {None} : OtherClient(r, v)

Spec == Init /\ [][Next]_vars

\* PostgreSQL answers every statement, or the client fails.
FairSpec == Spec /\ WF_vars(WriteGoesOn)

-----------------------------------------------------------------------------
(* Properties *)

HeldIsWritten ==
  /\ \A r \in Rows : /\ held.edits[r] \in {None, written.edits[r]}
                     /\ r \in held.removals => r \in written.removals
  /\ \A n \in NewRows : held.insertions[n] \in {None, written.insertions[n]}

\* Everything that is dropped when COMMIT is acknowledged was written by that COMMIT: the reader
\* is told that the changes were applied (move, applyWith).
NothingDropped == [][Commit => HeldIsWritten]_vars

\* The same where no undo or redo can bring changes back during a write.
ClearedMeansWritten == [][Commit /\ ~undoStack => HeldIsWritten]_vars

\* An update never overwrites a value its reader did not see (buildRowUpdates).
NoBlindUpdate ==
  [][Commit \/ CommitUnacknowledged =>
       \A r \in Edited(written) : db[r] = written.edits[r].original]_vars

\* Without an undo stack, what is held has not been applied, as long as PostgreSQL's answers to
\* COMMIT arrive: saving again inserts no row twice (PendingEdits).
HeldIsUnapplied == undoStack \/ lost \/ \A n \in Added(held) : inserted[n] = 0

\* A row to be removed holds no edits, which would make the whole transaction fail
\* (record, removeRows).
RemovedRowsHoldNoEdits ==
  /\ Edited(held) \cap held.removals = {}
  /\ Edited(written) \cap written.removals = {}

\* Without an undo stack, nothing is held that the current query could not write, and that would
\* only fail later (forget).
HeldIsWritable == undoStack \/ writable \/ held = NoChanges

\* A write ends, and moves are taken again (apply).
WriteEnds == Writing ~> ~Writing

=============================================================================
