------------------------ MODULE ScratchpadTransactions ------------------------
(***************************************************************************)
(* The Transactions of MANUAL Scratchpads, as the class                    *)
(* ScratchpadTransactionManager of the extension keeps them                *)
(* (vscode-extension/src/scratchpad/transactions.ts).                      *)
(*                                                                         *)
(* Every Scratchpad has a chain of promises (runExclusive) on which its    *)
(* operations take their turn.  A Connection change takes a lease: it      *)
(* refuses new work on the Connection, waits for the chains that use it,   *)
(* rolls the open Transactions back and keeps the refusal until disposed.  *)
(* Shutdown refuses everything, drains for a bounded time and closes every *)
(* session.                                                                *)
(*                                                                         *)
(* One step is what the code runs between two awaits; PostgreSQL answers,  *)
(* dialogs and timers are steps of their own.                              *)
(***************************************************************************)
EXTENDS Naturals, Sequences, FiniteSets

CONSTANTS
  Scratchpads,   \* Scratchpad uris
  Connections,   \* saved Connection ids
  Clients,       \* identities of dedicated PostgreSQL sessions, reused once forgotten
  Changers,      \* runScratchpadChange calls that may be under way at the same time
  Leases,        \* acquireConnectionChange calls that may be under way at the same time
  Cells,         \* execute calls that may be under way at the same time
  MaxQueue,      \* bound: calls are made while fewer operations are on a Scratchpad's chain
  None           \* no client, no Connection, nobody

ASSUME ConstantsAssumption ==
  /\ IsFiniteSet(Changers) /\ IsFiniteSet(Leases)
  /\ None \notin Scratchpads \cup Connections \cup Clients \cup Changers \cup Leases \cup Cells
  /\ Changers \cap Leases = {}
  /\ MaxQueue \in Nat

VARIABLES
  queue,         \* operationTails: the operations of a Scratchpad, first one at its turn
  phase,         \* where the first operation of a Scratchpad awaits
  cur,           \* the session that operation holds in its local variables
  opConn,        \* operationConnections
  tx,            \* transactions: the session of the open Transaction
  opening,       \* openingClients
  session,       \* the dedicated sessions: client object and PostgreSQL backend
  blockedPads,   \* blockedScratchpads
  changing,      \* the Scratchpad each runScratchpadChange call is blocking
  blockedConns,  \* blockedConnections
  lease,         \* the acquireConnectionChange calls
  accepting,     \* acceptingOperations
  shutdown,      \* progress of finishOperationsAndRollback
  doomed         \* Transactions handed to closeForShutdown

chainVars == <<queue, phase, cur, opConn, blockedPads, changing, lease>>
stopVars == <<accepting, shutdown, doomed>>
vars == <<queue, phase, cur, opConn, tx, opening, session, blockedPads,
          changing, blockedConns, lease, accepting, shutdown, doomed>>

-----------------------------------------------------------------------------
(* Types *)

OpKinds == {"execute", "commit", "rollback", "close", "change", "settle"}

Operation == [kind: OpKinds,
              conn: Connections \cup {None},          \* execute: the Association it was called with
              client: Clients \cup {None},            \* settle: the Transaction a lease rolls back
              by: Changers \cup Leases \cup Cells \cup {None}]  \* the call that waits for it

Phases == {"waiting", "connecting", "beginning", "running", "asking", "askingRollback",
           "committing", "rollingBack", "ending", "endingFailed", "mutating"}

Session == [state: {"free", "open", "ending"},
            conn: Connections \cup {None},
            status: {"in-progress", "failed"},
            pg: {"none", "active", "aborted", "committed", "rolledback", "lost"}]

Lease == [phase: {"idle", "draining", "rolling", "settling", "held"},
          conn: Connections \cup {None},
          ahead: [Scratchpads -> Nat],    \* operations before the awaited tail of a chain settles
          todo: SUBSET (Scratchpads \X Clients)]

TypeOK ==
  /\ queue \in [Scratchpads -> Seq(Operation)]
  /\ phase \in [Scratchpads -> Phases]
  /\ cur \in [Scratchpads -> Clients \cup {None}]
  /\ opConn \in [Scratchpads -> Connections \cup {None}]
  /\ tx \in [Scratchpads -> Clients \cup {None}]
  /\ opening \in [Scratchpads -> Clients \cup {None}]
  /\ session \in [Clients -> Session]
  /\ blockedPads \in [Scratchpads -> Nat]
  /\ changing \in [Changers -> Scratchpads \cup {None}]
  /\ blockedConns \in [Connections -> Nat]
  /\ lease \in [Leases -> Lease]
  /\ accepting \in BOOLEAN
  /\ shutdown \in {"up", "draining", "closing", "done"}
  /\ doomed \in SUBSET Clients

FreeSession == [state |-> "free", conn |-> None, status |-> "in-progress", pg |-> "none"]
IdleLease == [phase |-> "idle", conn |-> None, ahead |-> [s \in Scratchpads |-> 0], todo |-> {}]

Init ==
  /\ queue = [s \in Scratchpads |-> <<>>]
  /\ phase = [s \in Scratchpads |-> "waiting"]
  /\ cur = [s \in Scratchpads |-> None]
  /\ opConn = [s \in Scratchpads |-> None]
  /\ tx = [s \in Scratchpads |-> None]
  /\ opening = [s \in Scratchpads |-> None]
  /\ session = [k \in Clients |-> FreeSession]
  /\ blockedPads = [s \in Scratchpads |-> 0]
  /\ changing = [h \in Changers |-> None]
  /\ blockedConns = [c \in Connections |-> 0]
  /\ lease = [l \in Leases |-> IdleLease]
  /\ accepting = TRUE
  /\ shutdown = "up"
  /\ doomed = {}

-----------------------------------------------------------------------------
(* The chain of a Scratchpad: runExclusive *)

Op(kind, c, k, who) == [kind |-> kind, conn |-> c, client |-> k, by |-> who]

\* runExclusive: refuse during shutdown, remember the Connection, append to the tail.
RunExclusive(s, op) ==
  /\ accepting
  /\ queue' = [queue EXCEPT ![s] = Append(@, op)]
  /\ opConn' = [opConn EXCEPT ![s] = IF op.conn # None THEN op.conn ELSE @]

\* The operation at its turn settles: its tail resolves, the chain and its Connection are
\* forgotten after the last one, and the call that waits for it goes on.
Settle(s) ==
  LET op == Head(queue[s])
      change == op.kind = "change"
      Awaits(l) == op.kind = "settle" /\ op.by = l
  IN
  /\ queue' = [queue EXCEPT ![s] = Tail(@)]
  /\ phase' = [phase EXCEPT ![s] = "waiting"]
  /\ cur' = [cur EXCEPT ![s] = None]
  /\ opConn' = [opConn EXCEPT ![s] = IF Len(queue[s]) = 1 THEN None ELSE @]
  /\ blockedPads' = [blockedPads EXCEPT ![s] = IF change THEN @ - 1 ELSE @]
  /\ changing' = [h \in Changers |-> IF change /\ op.by = h THEN None ELSE changing[h]]
  /\ lease' = [l \in Leases |->
       [phase |-> IF Awaits(l) THEN "rolling" ELSE lease[l].phase,
        conn |-> lease[l].conn,
        ahead |-> [lease[l].ahead EXCEPT ![s] = IF @ = 0 THEN 0 ELSE @ - 1],
        todo |-> IF Awaits(l) THEN lease[l].todo \ {<<s, op.client>>} ELSE lease[l].todo]]

AtTurn(s, kinds, p) ==
  /\ queue[s] # <<>>
  /\ Head(queue[s]).kind \in kinds
  /\ phase[s] = p

\* The operation goes on with session k, awaiting in phase p.
GoOn(s, p, k) ==
  /\ phase' = [phase EXCEPT ![s] = p]
  /\ cur' = [cur EXCEPT ![s] = k]
  /\ UNCHANGED <<queue, opConn, blockedPads, changing, lease>>

Failed(k) == session[k].status = "failed"

UsableWhileOpen(s) == tx[s] # None

\* The Scratchpad has a Transaction that has not failed.
Usable(s) == tx[s] # None /\ ~Failed(tx[s])

-----------------------------------------------------------------------------
(* Calls *)

Room(s) == Len(queue[s]) < MaxQueue

Executing(b) == \E s \in Scratchpads : \E i \in DOMAIN queue[s] : queue[s][i].by = b

ExecuteDuringChange(s, c, b) ==
  /\ Room(s)
  /\ ~Executing(b)
  /\ blockedPads[s] = 0
  /\ RunExclusive(s, Op("execute", c, None, b))
  /\ UNCHANGED <<phase, cur, tx, opening, session, blockedPads, changing,
                 blockedConns, lease, stopVars>>

\* execute, called by cell b with the Association its batch runs on; both refusals come before
\* the chain is touched.
Execute(s, c, b) ==
  /\ Room(s)
  /\ ~Executing(b)
  /\ blockedPads[s] = 0
  /\ blockedConns[c] = 0
  /\ RunExclusive(s, Op("execute", c, None, b))
  /\ UNCHANGED <<phase, cur, tx, opening, session, blockedPads, changing,
                 blockedConns, lease, stopVars>>

\* commit and rollback; rollbackAll is a rollback per open Transaction.
Resolve(s, kind) ==
  /\ Room(s)
  /\ kind \in {"commit", "rollback"}
  /\ RunExclusive(s, Op(kind, None, None, None))
  /\ UNCHANGED <<phase, cur, tx, opening, session, blockedPads, changing,
                 blockedConns, lease, stopVars>>

\* resolveClosedScratchpad
CloseScratchpad(s) ==
  /\ Room(s)
  /\ tx[s] # None
  /\ RunExclusive(s, Op("close", None, None, None))
  /\ UNCHANGED <<phase, cur, tx, opening, session, blockedPads, changing,
                 blockedConns, lease, stopVars>>

\* runScratchpadChange: block the Scratchpad before queueing.
ChangeScratchpad(s, h) ==
  /\ Room(s)
  /\ changing[h] = None
  /\ RunExclusive(s, Op("change", None, None, h))
  /\ blockedPads' = [blockedPads EXCEPT ![s] = @ + 1]
  /\ changing' = [changing EXCEPT ![h] = s]
  /\ UNCHANGED <<phase, cur, tx, opening, session, blockedConns, lease, stopVars>>

\* markFailed, called by a cell whose cancelled execution was refused at the door.
MarkFailed(s, c) ==
  /\ blockedPads[s] > 0 \/ blockedConns[c] > 0 \/ ~accepting
  /\ Usable(s)
  /\ session' = [session EXCEPT ![tx[s]].status = "failed"]
  /\ UNCHANGED <<chainVars, tx, opening, blockedConns, stopVars>>

-----------------------------------------------------------------------------
(* execute at its turn *)

StartExecute(s) ==
  /\ AtTurn(s, {"execute"}, "waiting")
  /\ \/ tx[s] = None /\ GoOn(s, "connecting", None)
     \/ Usable(s) /\ GoOn(s, "running", tx[s])
     \/ tx[s] # None /\ ~Usable(s) /\ Settle(s)
  /\ UNCHANGED <<tx, opening, session, blockedConns, stopVars>>

\* No variable of any call refers to session k any more.
Forgotten(k) ==
  /\ session[k].state = "free"
  /\ k \notin doomed
  /\ \A s \in Scratchpads : /\ k \notin {tx[s], opening[s], cur[s]}
                            /\ \A i \in DOMAIN queue[s] : queue[s][i].client # k
  /\ \A l \in Leases : \A s \in Scratchpads : <<s, k>> \notin lease[l].todo

ConnectFails(s) ==
  /\ AtTurn(s, {"execute"}, "connecting")
  /\ Settle(s)
  /\ UNCHANGED <<tx, opening, session, blockedConns, stopVars>>

\* The session is open: send BEGIN, or close it when shutdown started meanwhile.
ConnectSucceeds(s, k) ==
  /\ AtTurn(s, {"execute"}, "connecting")
  /\ Forgotten(k)
  /\ session' = [session EXCEPT ![k] =
       [state |-> IF accepting THEN "open" ELSE "ending", conn |-> Head(queue[s]).conn,
        status |-> "in-progress", pg |-> "none"]]
  /\ opening' = [opening EXCEPT ![s] = IF accepting THEN k ELSE None]
  /\ GoOn(s, IF accepting THEN "beginning" ELSE "endingFailed", k)
  /\ UNCHANGED <<tx, blockedConns, stopVars>>

BeginWithoutRecheck(s) ==
  /\ AtTurn(s, {"execute"}, "beginning")
  /\ session[cur[s]].pg = "none"
  /\ session' = [session EXCEPT ![cur[s]].pg = "active"]
  /\ opening' = [opening EXCEPT ![s] = None]
  /\ tx' = [tx EXCEPT ![s] = cur[s]]
  /\ GoOn(s, "running", cur[s])
  /\ UNCHANGED <<blockedConns, stopVars>>

\* BEGIN answers while operations are accepted: the Transaction is published, the action runs.
BeginSucceeds(s) ==
  /\ AtTurn(s, {"execute"}, "beginning")
  /\ accepting
  /\ session[cur[s]].pg = "none"
  /\ session' = [session EXCEPT ![cur[s]].pg = "active"]
  /\ opening' = [opening EXCEPT ![s] = None]
  /\ tx' = [tx EXCEPT ![s] = cur[s]]
  /\ GoOn(s, "running", cur[s])
  /\ UNCHANGED <<blockedConns, stopVars>>

BeginFailsWithoutEnd(s) ==
  /\ AtTurn(s, {"execute"}, "beginning")
  /\ opening' = [opening EXCEPT ![s] = None]
  /\ Settle(s)
  /\ UNCHANGED <<tx, session, blockedConns, stopVars>>

\* BEGIN fails, or shutdown started before it answered.
BeginFails(s) ==
  /\ AtTurn(s, {"execute"}, "beginning")
  /\ session' = [session EXCEPT ![cur[s]].state = "ending"]
  /\ opening' = [opening EXCEPT ![s] = None]
  /\ GoOn(s, "endingFailed", cur[s])
  /\ UNCHANGED <<tx, blockedConns, stopVars>>

\* Every Statement of the cell succeeded.
ActionSucceeds(s) ==
  /\ AtTurn(s, {"execute"}, "running")
  /\ session[cur[s]].state = "open"
  /\ session[cur[s]].pg = "active"
  /\ Settle(s)
  /\ UNCHANGED <<tx, opening, session, blockedConns, stopVars>>

\* A Statement failed, which PostgreSQL answers by aborting the Transaction and the cell by
\* record(false), or the cell was cancelled, which its handler answers by markFailed.
ActionFails(s) ==
  /\ AtTurn(s, {"execute"}, "running")
  /\ \E aborted \in BOOLEAN :
       session' = [k \in Clients |->
         [session[k] EXCEPT
            !.status = IF k = tx[s] THEN "failed" ELSE @,
            !.pg = IF k = cur[s] /\ aborted /\ @ = "active" THEN "aborted" ELSE @]]
  /\ Settle(s)
  /\ UNCHANGED <<tx, opening, blockedConns, stopVars>>

\* The session is lost before the first Statement: the cell throws without recording anything.
ActionThrows(s) ==
  /\ AtTurn(s, {"execute"}, "running")
  /\ session[cur[s]].pg = "lost" \/ session[cur[s]].state # "open"
  /\ Settle(s)
  /\ UNCHANGED <<tx, opening, session, blockedConns, stopVars>>

-----------------------------------------------------------------------------
(* commit, rollback, close, change and settle at their turn *)

\* The operation has something to settle, or a change finds nothing in its way.  The answers a
\* change offers are chosen when the dialog opens: a failed Transaction is not offered Commit.
StartResolve(s) ==
  /\ \/ /\ AtTurn(s, {"commit"}, "waiting")
        /\ Usable(s)
        /\ GoOn(s, "committing", tx[s])
     \/ /\ AtTurn(s, {"rollback"}, "waiting")
        /\ tx[s] # None
        /\ GoOn(s, "rollingBack", tx[s])
     \/ /\ AtTurn(s, {"settle"}, "waiting")
        /\ GoOn(s, "rollingBack", Head(queue[s]).client)
     \/ /\ AtTurn(s, {"close"}, "waiting")
        /\ tx[s] # None
        /\ GoOn(s, "askingRollback", tx[s])
     \/ /\ AtTurn(s, {"change"}, "waiting")
        /\ tx[s] # None
        /\ GoOn(s, IF Usable(s) THEN "asking" ELSE "askingRollback", tx[s])
     \/ /\ AtTurn(s, {"change"}, "waiting")
        /\ tx[s] = None
        /\ GoOn(s, "mutating", None)
  /\ UNCHANGED <<tx, opening, session, blockedConns, stopVars>>

\* Nothing to do: no Transaction, a failed one to commit, or a change that is a no-op by now.
NothingToResolve(s) ==
  /\ \/ AtTurn(s, {"commit"}, "waiting") /\ ~Usable(s)
     \/ AtTurn(s, {"rollback", "close"}, "waiting") /\ tx[s] = None
     \/ AtTurn(s, {"change"}, "waiting")
  /\ Settle(s)
  /\ UNCHANGED <<tx, opening, session, blockedConns, stopVars>>

\* The user answers the dialog, or dismisses it and the operation gives up.
Answer(s) ==
  /\ AtTurn(s, {"close", "change"}, phase[s])
  /\ phase[s] \in {"asking", "askingRollback"}
  /\ \/ phase[s] = "asking" /\ GoOn(s, "committing", cur[s])
     \/ GoOn(s, "rollingBack", cur[s])
     \/ Settle(s)
  /\ UNCHANGED <<tx, opening, session, blockedConns, stopVars>>

\* close: forget the Transaction unless the map already holds another one, and end its client.
\* The chain waits for end() in phase p.
CloseTransaction(s, p, outcome) ==
  /\ tx' = [tx EXCEPT ![s] = IF @ = cur[s] THEN None ELSE @]
  /\ session' = [session EXCEPT ![cur[s]].pg = outcome,
                                ![cur[s]].state = IF @ = "open" THEN "ending" ELSE @]
  /\ GoOn(s, p, cur[s])

\* PostgreSQL acknowledges COMMIT, which rolls an aborted Transaction back without an error.
\* A status that failed while COMMIT was in flight keeps the Transaction from being closed.
CommitSucceeds(s) ==
  /\ phase[s] = "committing"
  /\ session[cur[s]].state = "open"
  /\ session[cur[s]].pg \in {"active", "aborted"}
  /\ LET outcome == IF session[cur[s]].pg = "active" THEN "committed" ELSE "rolledback"
         change == Head(queue[s]).kind = "change"
     IN IF ~Failed(cur[s])
          THEN CloseTransaction(s, "ending", outcome)
          ELSE /\ session' = [session EXCEPT ![cur[s]].pg = outcome]
               /\ tx' = tx
               /\ IF change THEN GoOn(s, "mutating", None) ELSE Settle(s)
  /\ UNCHANGED <<opening, blockedConns, stopVars>>

\* COMMIT fails: the Transaction stays in the map as failed.
CommitFails(s) ==
  /\ phase[s] = "committing"
  /\ session' = [session EXCEPT ![cur[s]].status = "failed",
                                ![cur[s]].pg = IF @ = "active" THEN "rolledback" ELSE @]
  /\ Settle(s)
  /\ UNCHANGED <<tx, opening, blockedConns, stopVars>>

RollbackSucceeds(s) ==
  /\ phase[s] = "rollingBack"
  /\ session[cur[s]].state = "open"
  /\ session[cur[s]].pg # "lost"
  /\ CloseTransaction(s, "ending",
       IF session[cur[s]].pg \in {"active", "aborted"} THEN "rolledback" ELSE session[cur[s]].pg)
  /\ UNCHANGED <<opening, blockedConns, stopVars>>

\* ROLLBACK fails: the Transaction is closed all the same, and the operation throws.
RollbackFails(s) ==
  /\ phase[s] = "rollingBack"
  /\ CloseTransaction(s, "endingFailed", session[cur[s]].pg)
  /\ UNCHANGED <<opening, blockedConns, stopVars>>

\* end() has resolved: a change that was waiting for it goes on, any other operation is over.
Ended(s) ==
  /\ phase[s] \in {"ending", "endingFailed"}
  /\ session[cur[s]].state = "free"
  /\ IF phase[s] = "ending" /\ Head(queue[s]).kind = "change"
       THEN GoOn(s, "mutating", None)
       ELSE Settle(s)
  /\ UNCHANGED <<tx, opening, session, blockedConns, stopVars>>

\* The change runs: a new Association, or a Mode, a timeout, a rename, a deletion, a failure.  None
\* of them is the manager's.
Mutate(s) ==
  /\ phase[s] = "mutating"
  /\ Settle(s)
  /\ UNCHANGED <<tx, opening, session, blockedConns, stopVars>>

-----------------------------------------------------------------------------
(* acquireConnectionChange *)

OpenOn(c) == {open \in Scratchpads \X Clients :
                tx[open[1]] = open[2] /\ session[open[2]].conn = c}

AcquireAheadOfOpening(l, c) ==
  /\ accepting
  /\ lease[l].phase = "idle"
  /\ blockedConns' = [blockedConns EXCEPT ![c] = @ + 1]
  /\ lease' = [lease EXCEPT ![l] =
       [phase |-> "draining", conn |-> c, todo |-> {},
        ahead |-> [s \in Scratchpads |->
                     IF opConn[s] = c /\ tx[s] # None THEN Len(queue[s]) ELSE 0]]]
  /\ UNCHANGED <<queue, phase, cur, opConn, tx, opening, session, blockedPads, changing,
                 stopVars>>

\* Refuse the Connection, then note the tail of every chain that uses it.
Acquire(l, c) ==
  /\ accepting
  /\ lease[l].phase = "idle"
  /\ blockedConns' = [blockedConns EXCEPT ![c] = @ + 1]
  /\ lease' = [lease EXCEPT ![l] =
       [phase |-> "draining", conn |-> c, todo |-> {},
        ahead |-> [s \in Scratchpads |-> IF opConn[s] = c THEN Len(queue[s]) ELSE 0]]]
  /\ UNCHANGED <<queue, phase, cur, opConn, tx, opening, session, blockedPads, changing,
                 stopVars>>

DrainedOnceIdle(l) ==
  /\ lease[l].phase = "draining"
  /\ \A s \in Scratchpads : opConn[s] # lease[l].conn
  /\ lease' = [lease EXCEPT ![l].phase = "rolling", ![l].todo = OpenOn(lease[l].conn),
                            ![l].ahead = IdleLease.ahead]
  /\ UNCHANGED <<queue, phase, cur, opConn, tx, opening, session, blockedPads, changing,
                 blockedConns, stopVars>>

\* Every awaited tail has settled: collect the open Transactions of the Connection.
Drained(l) ==
  /\ lease[l].phase = "draining"
  /\ \A s \in Scratchpads : lease[l].ahead[s] = 0
  /\ lease' = [lease EXCEPT ![l].phase = "rolling", ![l].todo = OpenOn(lease[l].conn)]
  /\ UNCHANGED <<queue, phase, cur, opConn, tx, opening, session, blockedPads, changing,
                 blockedConns, stopVars>>

\* Roll the next one back on its Scratchpad's chain.  Nobody is asked.
RollNext(l) ==
  /\ lease[l].phase = "rolling"
  /\ \E todo \in lease[l].todo :
       RunExclusive(todo[1], Op("settle", None, todo[2], l))
  /\ lease' = [lease EXCEPT ![l].phase = "settling"]
  /\ UNCHANGED <<phase, cur, tx, opening, session, blockedPads, changing,
                 blockedConns, stopVars>>

Grant(l) ==
  /\ lease[l].phase = "rolling"
  /\ lease[l].todo = {}
  /\ lease' = [lease EXCEPT ![l].phase = "held"]
  /\ UNCHANGED <<queue, phase, cur, opConn, tx, opening, session, blockedPads, changing,
                 blockedConns, stopVars>>

ReleaseKeepingRefusal(l) ==
  /\ \/ lease[l].phase = "held"
     \/ lease[l].phase = "rolling" /\ lease[l].todo # {} /\ ~accepting
  /\ blockedConns' = [blockedConns EXCEPT
                       ![lease[l].conn] = IF lease[l].phase = "held" THEN @ - 1 ELSE @]
  /\ lease' = [lease EXCEPT ![l] = IdleLease]
  /\ UNCHANGED <<queue, phase, cur, opConn, tx, opening, session, blockedPads, changing,
                 stopVars>>

\* The lease is disposed, or runExclusive refuses because shutdown started.
Release(l) ==
  /\ \/ lease[l].phase = "held"
     \/ lease[l].phase = "rolling" /\ lease[l].todo # {} /\ ~accepting
  /\ blockedConns' = [blockedConns EXCEPT ![lease[l].conn] = @ - 1]
  /\ lease' = [lease EXCEPT ![l] = IdleLease]
  /\ UNCHANGED <<queue, phase, cur, opConn, tx, opening, session, blockedPads, changing,
                 stopVars>>

-----------------------------------------------------------------------------
(* shutdown *)

BeginShutdown ==
  /\ shutdown = "up"
  /\ accepting' = FALSE
  /\ shutdown' = "draining"
  /\ UNCHANGED <<chainVars, tx, opening, session, blockedConns, doomed>>

DrainEndsUntimed ==
  /\ shutdown = "draining"
  /\ \A s \in Scratchpads : queue[s] = <<>>
  /\ shutdown' = "closing"
  /\ tx' = [s \in Scratchpads |-> None]
  /\ doomed' = {tx[s] : s \in Scratchpads} \ {None}
  /\ UNCHANGED <<chainVars, opening, session, blockedConns, accepting>>

\* Every chain has settled or the drain timer fires; every Transaction leaves the map.  Without
\* a drain there is no ROLLBACK and the clients are ended at once.
DrainEnds ==
  /\ shutdown = "draining"
  /\ shutdown' = "closing"
  /\ tx' = [s \in Scratchpads |-> None]
  /\ LET open == {tx[s] : s \in Scratchpads} \ {None} IN
     \/ /\ \A s \in Scratchpads : queue[s] = <<>>
        /\ doomed' = open
        /\ UNCHANGED session
     \/ /\ doomed' = {}
        /\ session' = [k \in Clients |->
             [session[k] EXCEPT !.state = IF k \in open /\ @ = "open" THEN "ending" ELSE @]]
  /\ UNCHANGED <<chainVars, opening, blockedConns, accepting>>

\* ROLLBACK answers, fails or times out; the client is ended.
RollbackDoomed(k) ==
  /\ k \in doomed
  /\ \E pg \in {"rolledback", session[k].pg} :
       session' = [session EXCEPT ![k].pg = IF @ = "active" THEN pg ELSE @,
                                  ![k].state = IF @ = "open" THEN "ending" ELSE @]
  /\ doomed' = doomed \ {k}
  /\ UNCHANGED <<chainVars, tx, opening, blockedConns, accepting, shutdown>>

\* Last, the clients that were opening.
SweepOpening ==
  /\ shutdown = "closing"
  /\ doomed = {}
  /\ session' = [k \in Clients |->
       [session[k] EXCEPT
          !.state = IF @ = "open" /\ \E s \in Scratchpads : opening[s] = k THEN "ending" ELSE @]]
  /\ opening' = [s \in Scratchpads |-> None]
  /\ shutdown' = "done"
  /\ UNCHANGED <<chainVars, tx, blockedConns, accepting, doomed>>

-----------------------------------------------------------------------------
(* PostgreSQL *)

\* end() completes: the backend is gone.
SessionEnds(k) ==
  /\ session[k].state = "ending"
  /\ session' = [session EXCEPT ![k] = FreeSession]
  /\ UNCHANGED <<chainVars, tx, opening, blockedConns, stopVars>>

\* The backend dies or the network drops it.
SessionLost(k) ==
  /\ session[k].state = "open"
  /\ session[k].pg # "lost"
  /\ session' = [session EXCEPT ![k].pg = "lost"]
  /\ UNCHANGED <<chainVars, tx, opening, blockedConns, stopVars>>

\* After shutdown, once every operation has settled, nothing happens any more.
Stopped ==
  /\ shutdown = "done"
  /\ \A s \in Scratchpads : queue[s] = <<>>
  /\ UNCHANGED vars

-----------------------------------------------------------------------------
(* Specification *)

\* What is queued on a chain executes on one Connection.  It need not be the Scratchpad's
\* Association: a batch of cells keeps the one it was started with.
Agreed(s, c) ==
  \A i \in DOMAIN queue[s] : queue[s][i].kind = "execute" => queue[s][i].conn = c

Call(s) ==
  \/ \E c \in Connections : Agreed(s, c) /\ \E b \in Cells : Execute(s, c, b)
  \/ \E kind \in {"commit", "rollback"} : Resolve(s, kind)
  \/ CloseScratchpad(s)
  \/ \E h \in Changers : ChangeScratchpad(s, h)
  \/ \E c \in Connections : MarkFailed(s, c)

\* What an operation does at its turn, PostgreSQL and the user answering.
Turn(s) ==
  \/ StartExecute(s) \/ ConnectFails(s) \/ (\E k \in Clients : ConnectSucceeds(s, k))
  \/ BeginSucceeds(s) \/ BeginFails(s)
  \/ ActionSucceeds(s) \/ ActionFails(s) \/ ActionThrows(s)
  \/ StartResolve(s) \/ NothingToResolve(s) \/ Answer(s)
  \/ CommitSucceeds(s) \/ CommitFails(s) \/ RollbackSucceeds(s) \/ RollbackFails(s)
  \/ Ended(s) \/ Mutate(s)

LeaseStep(l) == Drained(l) \/ RollNext(l) \/ Grant(l) \/ Release(l)

ShutdownStep == DrainEnds \/ (\E k \in Clients : RollbackDoomed(k)) \/ SweepOpening

Next ==
  \/ \E s \in Scratchpads : Call(s) \/ Turn(s)
  \/ \E l \in Leases : LeaseStep(l) \/ (\E c \in Connections : Acquire(l, c))
  \/ BeginShutdown \/ ShutdownStep
  \/ \E k \in Clients : SessionEnds(k) \/ SessionLost(k)
  \/ Stopped

Spec == Init /\ [][Next]_vars

\* The timers of settlesWithin fire: shutdown goes on whatever PostgreSQL and the user do.
TimerSpec == Spec /\ WF_vars(ShutdownStep)

\* Statements end by their timeout, PostgreSQL answers and dialogs are answered or dismissed:
\* promises settle.  Nothing is said of calls, nor of a lease holder.
OperationsSettle ==
  /\ \A s \in Scratchpads : WF_vars(Turn(s))
  /\ \A l \in Leases : WF_vars(Drained(l) \/ RollNext(l) \/ Grant(l))
  /\ \A k \in Clients : WF_vars(SessionEnds(k))

-----------------------------------------------------------------------------
(* Properties *)

ChangesOn(s) == {h \in Changers : changing[h] = s}
LeasesOn(c) == {l \in Leases : lease[l].phase # "idle" /\ lease[l].conn = c}

\* While a Connection change holds its lease, no Scratchpad works on that Connection: no open
\* Transaction, no session being opened, no execution queued (acquireConnectionChange).
LeaseExcludesWork ==
  \A l \in Leases : lease[l].phase = "held" =>
    \A s \in Scratchpads :
      /\ tx[s] # None => session[tx[s]].conn # lease[l].conn
      /\ opening[s] # None => session[opening[s]].conn # lease[l].conn
      /\ \A i \in DOMAIN queue[s] : queue[s][i].conn # lease[l].conn

\* Every call that blocks a Scratchpad or a Connection lifts its refusal exactly once, however
\* it ends: the counters equal the calls under way (block, unblock).
RefusalsBalance ==
  /\ \A s \in Scratchpads : blockedPads[s] = Cardinality(ChangesOn(s))
  /\ \A c \in Connections : blockedConns[c] = Cardinality(LeasesOn(c))

\* A live session is the Transaction of exactly one Scratchpad, the one a Scratchpad is opening,
\* or one shutdown is about to close: none is left behind holding locks in PostgreSQL.
NoOrphanSession ==
  /\ \A k \in Clients : session[k].state = "open" =>
       \/ \E s \in Scratchpads : k \in {tx[s], opening[s]}
       \/ k \in doomed
  /\ \A s, r \in Scratchpads : s # r /\ tx[s] # None => tx[s] # tx[r]

\* COMMIT is never sent on a Transaction PostgreSQL has aborted, where it would roll back and yet
\* be reported as a success (commit, resolveOpenTransaction).
CommitMeansCommitted ==
  \A s \in Scratchpads : phase[s] = "committing" => session[cur[s]].pg # "aborted"

\* Once shutdown is done every session has been told to end, also the ones that were opening
\* or running, and no later answer publishes a Transaction (finishOperationsAndRollback).
ShutdownClosesEverything ==
  shutdown = "done" =>
    /\ \A k \in Clients : session[k].state # "open"
    /\ \A s \in Scratchpads : tx[s] = None /\ opening[s] = None

\* When operations settle, a Connection change is granted its lease, or the manager is shutting
\* down: operations that keep being queued on the Scratchpads it waits for cannot starve it
\* (acquireConnectionChange).
LeaseProceeds ==
  OperationsSettle =>
    \A l \in Leases : lease[l].phase = "draining" ~> (lease[l].phase = "held" \/ ~accepting)

\* Shutdown ends although a dialog stays open, a Statement hangs or PostgreSQL never answers
\* (finishOperationsAndRollback).
ShutdownEnds == shutdown = "draining" ~> shutdown = "done"

-----------------------------------------------------------------------------
(* The contract with the Connections *)

\* Scratchpad s works on Connection c: an open Transaction, a session being opened, or an
\* execution that has been accepted.
Works(s, c) ==
  \/ tx[s] # None /\ session[tx[s]].conn = c
  \/ opening[s] # None /\ session[opening[s]].conn = c
  \/ \E i \in DOMAIN queue[s] : queue[s][i].conn = c

Gate == INSTANCE ConnectionGate WITH
  Workers <- Scratchpads,
  Changes <- Leases,
  work <- {sc \in Scratchpads \X Connections : Works(sc[1], sc[2])},
  asked <- [l \in Leases |-> lease[l].conn],
  granted <- {l \in Leases : lease[l].phase = "held"}

\* The manager implements the gate: work starts only on a Connection no change has asked for, and
\* a change is let in only once nobody works on its Connection, whatever chains, dialogs,
\* shutdown and lost sessions do meanwhile (acquireConnectionChange, execute).
ImplementsGate == Gate!GateSpec

-----------------------------------------------------------------------------
(* The inductive invariants behind TypeOK, RefusalsBalance and LeaseExcludesWork *)

\* Where the operations of a kind may await at their turn.
PhasesOf(kind) ==
  CASE kind = "execute" -> {"waiting", "connecting", "beginning", "running", "endingFailed"}
    [] kind = "commit" -> {"waiting", "committing", "ending"}
    [] kind = "rollback" -> {"waiting", "rollingBack", "ending", "endingFailed"}
    [] kind = "close" -> {"waiting", "askingRollback", "rollingBack", "ending", "endingFailed"}
    [] kind = "settle" -> {"waiting", "rollingBack", "ending", "endingFailed"}
    [] kind = "change" -> {"waiting", "asking", "askingRollback", "rollingBack", "committing",
                           "ending", "endingFailed", "mutating"}

\* An operation belongs to the call that waits for it.
QueueOK ==
  \A s \in Scratchpads : \A i \in DOMAIN queue[s] :
    /\ queue[s][i].kind # "execute" => queue[s][i].conn = None
    /\ queue[s][i].kind = "change" =>
         queue[s][i].by \in Changers /\ changing[queue[s][i].by] = s
    /\ queue[s][i].kind = "settle" =>
         queue[s][i].by \in Leases /\ lease[queue[s][i].by].phase = "settling"

\* A call waits for one operation.
CallsDistinct ==
  \A s, r \in Scratchpads : \A i \in DOMAIN queue[s], j \in DOMAIN queue[r] :
    /\ queue[s][i].kind = queue[r][j].kind
    /\ queue[s][i].kind \in {"change", "settle"}
    /\ queue[s][i].by = queue[r][j].by
    => s = r /\ i = j

\* The head of a chain awaits where an operation of its kind may; nobody else awaits.
PhaseOK ==
  \A s \in Scratchpads :
    /\ queue[s] = <<>> => phase[s] = "waiting"
    /\ queue[s] # <<>> => phase[s] \in PhasesOf(Head(queue[s]).kind)
    /\ queue[s] # <<>> /\ Head(queue[s]).kind = "settle" /\ phase[s] # "waiting" =>
         cur[s] = Head(queue[s]).client

\* The sessions an operation holds: the one it is opening runs on its own Connection and is no
\* Transaction yet, the one it is ending is no Transaction any more.
CurOK(s) ==
  /\ opening[s] # None => phase[s] = "beginning" /\ cur[s] = opening[s]
  /\ phase[s] = "beginning" =>
       cur[s] \in Clients /\ session[cur[s]].conn \in {Head(queue[s]).conn, None}
  /\ phase[s] \in {"beginning", "ending", "endingFailed"} /\ tx[s] # None => tx[s] # cur[s]

\* A lease that is under way is one of a Connection.
LeasesNamed == \A l \in Leases : lease[l].phase # "idle" => lease[l].conn \in Connections

\* What holds whatever Connections the caller executes on.
CallsInv ==
  /\ TypeOK
  /\ RefusalsBalance
  /\ QueueOK
  /\ CallsDistinct
  /\ PhaseOK
  /\ LeasesNamed
  /\ \A s \in Scratchpads : CurOK(s)

\* What executes runs on the Connection its chain is remembered by.
Remembered ==
  \A s \in Scratchpads : \A i \in DOMAIN queue[s] :
    queue[s][i].kind = "execute" => queue[s][i].conn = opConn[s]

\* A lease waits for every execution on its Connection, then holds every Transaction on it.
LeaseOK ==
  \A l \in Leases :
    /\ lease[l].phase = "draining" =>
         \A s \in Scratchpads : \A i \in DOMAIN queue[s] :
           queue[s][i].conn = lease[l].conn => i <= lease[l].ahead[s]
    /\ lease[l].phase \in {"rolling", "settling", "held"} =>
         /\ \A s \in Scratchpads : \A i \in DOMAIN queue[s] : queue[s][i].conn # lease[l].conn
         /\ \A s \in Scratchpads :
              tx[s] # None /\ session[tx[s]].conn = lease[l].conn => <<s, tx[s]>> \in lease[l].todo
    /\ lease[l].phase = "held" => lease[l].todo = {}

\* What holds where what is queued on a chain executes on one Connection.
ChainInv == CallsInv /\ Remembered /\ LeaseOK

=============================================================================
