--------------------------- MODULE ScratchpadCells ---------------------------
(***************************************************************************)
(* The notebook controller of Scratchpads over their Transactions:         *)
(* vscode-extension/src/scratchpad/registerCommands.ts, with the           *)
(* cancellation of packages/rows/src/notebookClient.ts.                    *)
(*                                                                         *)
(* VS Code calls the execute handler once per Run or Run All, and a second *)
(* Run does not wait for the first: each call is a batch of cells that     *)
(* keeps the Association it was started with.  Stop cancels the cell a     *)
(* batch is running: a second session asks PostgreSQL to cancel whatever   *)
(* the backend of that cell is doing when the request arrives.             *)
(***************************************************************************)
EXTENDS ScratchpadTransactions

CONSTANTS
  MaxCells,      \* bound: cells of a batch
  Habits         \* bound: what the users of an instance do

\* A user may start a batch while another is going on, run several cells in one, and make changes.
\* What waits for an operation is one call: an execution, a change or a lease.
ASSUME CellsAssumption ==
  /\ MaxCells \in Nat
  /\ Cells \cap (Changers \cup Leases) = {}
  /\ Habits \subseteq [overlaps: BOOLEAN, cells: 1..MaxCells, changes: SUBSET Changers]

VARIABLES
  habit,   \* what this user does
  assoc,   \* the Connection each Scratchpad is associated with (notebook metadata)
  mode,    \* the Mode in each Scratchpad's metadata
  batch    \* the calls of the execute handler; Cells names them

padVars == <<habit, assoc, mode>>
cellVars == <<padVars, batch>>
allVars == <<vars, cellVars>>

Modes == {"auto", "manual"}

Batch == [phase: {"idle", "planning", "queued", "auto", "reporting", "settling"},
          pad: Scratchpads \cup {None},
          conn: Connections \cup {None},     \* the Association the batch was started with
          mode: Modes,                       \* the Mode when the cell was started
          left: 0..MaxCells,                 \* cells of the batch, this one included
          requested: BOOLEAN,                \* NotebookClientCancellation.requested
          client: Clients \cup {None},       \* NotebookClientCancellation.binding
          cancel: {"no", "sent", "done"},    \* cancelNotebookClient
          shown: {"nothing", "result", "cancelled"}]

IdleBatch == [phase |-> "idle", pad |-> None, conn |-> None, mode |-> "auto", left |-> 0,
              requested |-> FALSE, client |-> None, cancel |-> "no", shown |-> "nothing"]

CellsTypeOK ==
  /\ TypeOK
  /\ habit \in Habits
  /\ assoc \in [Scratchpads -> Connections]
  /\ mode \in [Scratchpads -> Modes]
  /\ batch \in [Cells -> Batch]

CellsInit ==
  /\ Init
  /\ habit \in Habits
  /\ assoc \in [Scratchpads -> Connections]
  /\ mode \in [Scratchpads -> Modes]
  /\ batch = [b \in Cells |-> IdleBatch]

-----------------------------------------------------------------------------
(* A batch *)

\* A cell starts: the Mode is read again, the Association is not.
StartCell(b, s, c, n) ==
  batch' = [batch EXCEPT ![b] = [IdleBatch EXCEPT
              !.phase = "planning", !.pad = s, !.conn = c, !.mode = mode[s], !.left = n]]

StartBatch(b, s) ==
  /\ batch[b].phase = "idle"
  /\ habit.overlaps \/ \A other \in Cells : batch[other].phase = "idle"
  /\ \E n \in 1..habit.cells : StartCell(b, s, assoc[s], n)
  /\ UNCHANGED <<vars, padVars>>

\* The cell is over: replaceOutput is called with what it shows.
Report(b) ==
  [batch[b] EXCEPT !.phase = "reporting",
                   !.shown = IF batch[b].requested THEN "cancelled" ELSE "result"]

\* Nothing to execute, a plan that is refused, or a cancellation before anything is executed.
PlanEndsCell(b) ==
  /\ batch[b].phase = "planning"
  /\ batch' = [batch EXCEPT ![b] = Report(b)]
  /\ UNCHANGED <<vars, padVars>>

\* The plan is ready.  Stop may have been pressed since it was checked.
ExecuteManual(b) ==
  /\ batch[b].phase = "planning"
  /\ batch[b].mode = "manual"
  /\ Execute(batch[b].pad, batch[b].conn, b)
  /\ batch' = [batch EXCEPT ![b].phase = "queued"]
  /\ UNCHANGED padVars

RefuseManual(b) ==
  LET s == batch[b].pad
      c == batch[b].conn
  IN
  /\ batch[b].phase = "planning"
  /\ batch[b].mode = "manual"
  /\ blockedPads[s] > 0 \/ blockedConns[c] > 0 \/ ~accepting
  /\ IF batch[b].requested /\ Usable(s) THEN MarkFailed(s, c) ELSE UNCHANGED vars
  /\ batch' = [batch EXCEPT ![b] = Report(b)]
  /\ UNCHANGED padVars

\* Mode AUTO: a dedicated session of the cell's own, closed before it reports.
ExecuteAuto(b) ==
  /\ batch[b].phase = "planning"
  /\ batch[b].mode = "auto"
  /\ batch' = [batch EXCEPT ![b].phase = "auto"]
  /\ UNCHANGED <<vars, padVars>>

AutoEnds(b) ==
  /\ batch[b].phase = "auto"
  /\ batch' = [batch EXCEPT ![b] = Report(b)]
  /\ UNCHANGED <<vars, padVars>>

\* Stop.  Once the cell is bound to a session, the session is cancelled; the token stays
\* subscribed until the output has been replaced.
RequestCancel(b) ==
  /\ batch[b].phase \in {"planning", "queued", "auto", "reporting"}
  /\ ~batch[b].requested
  /\ batch' = [batch EXCEPT ![b].requested = TRUE,
                            ![b].cancel = IF @ = "no" /\ (batch[b].client # None
                                                          \/ batch[b].phase = "auto")
                                            THEN "sent" ELSE @]
  /\ UNCHANGED <<vars, padVars>>

\* replaceOutput has resolved: the token is unsubscribed.
Reported(b) ==
  /\ batch[b].phase = "reporting"
  /\ batch' = [batch EXCEPT ![b].phase = "settling"]
  /\ UNCHANGED <<vars, padVars>>

NextCellUnsettled(b) ==
  /\ batch[b].phase = "settling"
  /\ IF batch[b].left > 1 /\ ~batch[b].requested
       THEN StartCell(b, batch[b].pad, batch[b].conn, batch[b].left - 1)
       ELSE batch' = [batch EXCEPT ![b].phase = "idle"]
  /\ UNCHANGED <<vars, padVars>>

NextCellPastTheEnd(b) ==
  /\ batch[b].phase = "settling"
  /\ batch[b].cancel # "sent"
  /\ IF ~batch[b].requested
       THEN StartCell(b, batch[b].pad, batch[b].conn, batch[b].left - 1)
       ELSE batch' = [batch EXCEPT ![b] = IdleBatch]
  /\ UNCHANGED <<vars, padVars>>

\* The cancellation has settled: the next cell starts, unless the batch was cancelled.
NextCell(b) ==
  /\ batch[b].phase = "settling"
  /\ batch[b].cancel # "sent"
  /\ IF batch[b].left > 1 /\ ~batch[b].requested
       THEN StartCell(b, batch[b].pad, batch[b].conn, batch[b].left - 1)
       ELSE batch' = [batch EXCEPT ![b] = IdleBatch]
  /\ UNCHANGED <<vars, padVars>>

-----------------------------------------------------------------------------
(* pg_cancel_backend *)

CancelNeverAnswered(b) ==
  /\ batch[b].cancel = "sent"
  /\ batch[b].client = None
  /\ batch' = [batch EXCEPT ![b].cancel = "done"]
  /\ UNCHANGED <<vars, padVars>>

\* The request finds the backend idle, or cancels a query whose failure is a step of its own.
CancelMisses(b) ==
  /\ batch[b].cancel = "sent"
  /\ batch' = [batch EXCEPT ![b].cancel = "done"]
  /\ UNCHANGED <<vars, padVars>>

\* It cannot be delivered: the socket of the session is destroyed.
CancelDestroysSocket(b) ==
  /\ batch[b].cancel = "sent"
  /\ batch[b].client # None
  /\ SessionLost(batch[b].client)
  /\ batch' = [batch EXCEPT ![b].cancel = "done"]
  /\ UNCHANGED padVars

\* It arrives while the cell of another batch sets the statement timeout on the same session:
\* that query fails before the first Statement, and nothing is recorded.
CancelHitsOther(b, s) ==
  LET k == batch[b].client
      other == Head(queue[s]).by
  IN
  /\ batch[b].cancel = "sent"
  /\ AtTurn(s, {"execute"}, "running")
  /\ other # b
  /\ ~batch[other].requested
  /\ cur[s] = k
  /\ session[k].state = "open" /\ session[k].pg = "active"
  /\ session' = [session EXCEPT ![k].pg = "aborted"]
  /\ Settle(s)
  /\ batch' = [batch EXCEPT ![b].cancel = "done", ![other] = Report(other)]
  /\ UNCHANGED <<tx, opening, blockedConns, stopVars, padVars>>

-----------------------------------------------------------------------------
(* The chain moves under the cells *)

AtHead(b, s) == queue[s] # <<>> /\ Head(queue[s]).by = b

\* The cell whose operation is at its turn: bound to the session its action is given (a cell
\* already cancelled sends the request at once), or over with its operation.
Follow(b, s) ==
  IF queue'[s] = queue[s]
    THEN IF phase'[s] = "running"
           THEN [batch[b] EXCEPT !.client = cur'[s],
                                 !.cancel = IF batch[b].requested /\ @ = "no" THEN "sent" ELSE @]
           ELSE batch[b]
    ELSE Report(b)

CancelledUnmarked(s) == TRUE

\* A cancelled cell never completes: it records a failed Statement or its handler calls markFailed.
CancelledMarksFailed(s) ==
  phase[s] = "running" /\ batch[Head(queue[s]).by].requested /\ tx[s] # None
    => session'[tx[s]].status = "failed"

\* A pid that is being cancelled is not given to another session.
IdentitiesKept ==
  \A b \in Cells : LET k == batch[b].client IN
    k # None /\ session[k].state = "free" => session'[k].state = "free"

\* A change sets the Association or the Mode.
CellTurn(s) ==
  /\ Turn(s)
  /\ CancelledMarksFailed(s)
  /\ IdentitiesKept
  /\ UNCHANGED habit
  /\ batch' = [b \in Cells |-> IF AtHead(b, s) THEN Follow(b, s) ELSE batch[b]]
  /\ \/ UNCHANGED <<assoc, mode>>
     \/ /\ phase[s] = "mutating"
        /\ \/ mode' = mode /\ \E c \in Connections : assoc' = [assoc EXCEPT ![s] = c]
           \/ assoc' = assoc /\ \E m \in Modes : mode' = [mode EXCEPT ![s] = m]

\* The calls that do not come from a cell.
OtherCall(s) ==
  \/ \E kind \in {"commit", "rollback"} : Resolve(s, kind)
  \/ CloseScratchpad(s)
  \/ \E h \in habit.changes : ChangeScratchpad(s, h)

Surroundings ==
  \/ \E s \in Scratchpads : OtherCall(s)
  \/ \E l \in Leases : LeaseStep(l) \/ (\E c \in Connections : Acquire(l, c))
  \/ BeginShutdown \/ ShutdownStep
  \/ \E k \in Clients : SessionEnds(k) \/ SessionLost(k)
  \/ Stopped

CancelLands(b) ==
  CancelMisses(b) \/ CancelDestroysSocket(b) \/ (\E s \in Scratchpads : CancelHitsOther(b, s))

CellGoesOn(b) ==
  \/ PlanEndsCell(b) \/ ExecuteManual(b) \/ RefuseManual(b) \/ ExecuteAuto(b)
  \/ AutoEnds(b) \/ Reported(b) \/ NextCell(b)

CellsNext ==
  \/ \E b \in Cells : \/ \E s \in Scratchpads : StartBatch(b, s)
                      \/ RequestCancel(b) \/ CellGoesOn(b) \/ CancelLands(b)
  \/ \E s \in Scratchpads : CellTurn(s)
  \/ Surroundings /\ UNCHANGED cellVars

CellsSpec == CellsInit /\ [][CellsNext]_allVars

\* Planning, output and cancellation settle, as do the operations (cancelNotebookClient bounds
\* every await by a timer; OperationsSettle says why operations settle).
FairCellsSpec ==
  /\ CellsSpec
  /\ \A b \in Cells : WF_allVars(CellGoesOn(b)) /\ WF_allVars(CancelLands(b))
  /\ \A s \in Scratchpads : WF_allVars(CellTurn(s))
  /\ \A k \in Clients : WF_allVars(SessionEnds(k) /\ UNCHANGED cellVars)

-----------------------------------------------------------------------------
(* Properties *)

\* A cell that shows it was cancelled leaves the Transaction it ran in failed, so that only
\* Rollback is offered (runCellExecution, markFailed).
CancelledNeedsRollback ==
  \A b \in Cells :
    LET s == batch[b].pad IN
    batch[b].phase # "idle" /\ batch[b].shown = "cancelled" /\ batch[b].client # None
      => tx[s] # batch[b].client \/ Failed(tx[s])

\* Where a user starts a batch once the one before is over, COMMIT is never sent on a Transaction
\* PostgreSQL has aborted: the cancellation of a batch is over before the batch is (settle).
SequentialCommitsAreSound == ~habit.overlaps => CommitMeansCommitted

\* No matter what is cancelled and when, a batch comes to its end (executeCell, settle).
BatchFinishes == \A b \in Cells : batch[b].phase # "idle" ~> batch[b].phase = "idle"

==============================================================================
