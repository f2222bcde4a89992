------------------------------ MODULE CoverageRuns ------------------------------
(***************************************************************************)
(* Runs of PL/pgSQL coverage, as the class CoverageRunner makes them       *)
(* (packages/coverage/src/runner.ts).                                      *)
(*                                                                         *)
(* A run opens a dedicated client, instruments its routines in a           *)
(* transaction, runs the tests in it and rolls everything back.  It may be *)
(* aborted, by its caller or by its deadline, at any point; what then      *)
(* stops it is a ladder of timed steps on other connections: cancel the    *)
(* backend, terminate it, drop the socket.  The test callback does not     *)
(* stop with the run that called it.                                       *)
(*                                                                         *)
(* One step is what the code runs between two awaits.  A statement may     *)
(* fail at any time, which is also all a cancellation can do, and a        *)
(* session may be lost at any time.                                        *)
(***************************************************************************)
EXTENDS Naturals, Sequences, FiniteSets

CONSTANTS
  Runs,      \* calls of runSuite
  Runners,   \* CoverageRunner objects: one per suite or request, also of other processes
  Routines,  \* routine OIDs
  None       \* no runner

ASSUME NoneAssumption == None \notin Runners

VARIABLES
  run,       \* the CoverageRunContext of a run and where its code awaits
  link,      \* the dedicated client of a run, the statements sent on it and its backend
  active,    \* activeTargets of each CoverageRunner
  persisted  \* runs that had a statement executed outside their transaction

vars == <<run, link, active, persisted>>

-----------------------------------------------------------------------------
(* Types *)

\* Statements the run sends itself and awaits, one at a time.
OwnStatements == {"pid", "pgtap", "begin", "locking", "reading", "instrumenting"}

\* Awaits raced with the abort signal.
Raced == {"connecting", "analyzing", "testing"}

Run == [pc: OwnStatements \cup Raced \cup {"idle", "settling", "rollingBack", "forcing",
                                          "disconnecting", "ending", "releasing", "done"},
        runner: Runners \cup {None},
        oids: SUBSET Routines,
        todo: SUBSET Routines,      \* routines the current loop has not reached
        aborted: BOOLEAN,           \* signal.aborted
        cancellation: {"none", "armed", "cancelling", "terminating", "disconnecting",
                       "cancelled", "forced", "stuck"},
        txOpen: BOOLEAN,            \* transactionOpen
        tests: {"off", "ready", "checking", "querying", "broken", "restoring"}]

Link == [client: {"none", "opening", "open", "ending", "ended"},
         wire: Seq(OwnStatements \cup {"test", "restore", "rollback"}),
         pg: {"none", "idle", "tx", "gone"},  \* an aborted transaction still is one
         locks: SUBSET Routines,         \* advisory locks of its transaction
         instrumented: SUBSET Routines]  \* routines its transaction has replaced

IdleRun == [pc |-> "idle", runner |-> None, oids |-> {}, todo |-> {},
            aborted |-> FALSE, cancellation |-> "none", txOpen |-> FALSE, tests |-> "off"]

NoLink == [client |-> "none", wire |-> <<>>, pg |-> "none", locks |-> {}, instrumented |-> {}]

Init ==
  /\ run = [r \in Runs |-> IdleRun]
  /\ link = [r \in Runs |-> NoLink]
  /\ active = [u \in Runners |-> {}]
  /\ persisted = {}

-----------------------------------------------------------------------------
(* Helpers *)

Become(r, R, L) ==
  /\ run' = [run EXCEPT ![r] = R]
  /\ link' = [link EXCEPT ![r] = L]

\* execute throws: cleanup begins by removing the abort listener; without a client there is
\* nothing else to clean up.
Failing(R) ==
  [R EXCEPT !.cancellation = IF @ = "armed" THEN "none" ELSE @,
            !.pc = IF @ = "connecting" THEN "releasing" ELSE "settling"]

Alive(L) == L.pg \notin {"none", "gone"}

\* The statement the backend is executing for a client that still listens.
Executing(r, st) ==
  /\ link[r].client = "open"
  /\ Alive(link[r])
  /\ link[r].wire # <<>>
  /\ Head(link[r].wire) = st

Answered(L) == [L EXCEPT !.wire = Tail(@)]
Sending(L, st) == [L EXCEPT !.wire = Append(@, st)]

\* client.end(): nothing more is sent or received.
Ending(L) == [L EXCEPT !.client = IF @ = "open" THEN "ending" ELSE @]

\* The transaction is over: its locks and the definitions it replaced are gone.
OutsideTransaction(L, pg) == [L EXCEPT !.pg = pg, !.locks = {}, !.instrumented = {}]

\* The backend ends and the client learns it.
Severed(L) == [OutsideTransaction(L, "gone") EXCEPT !.client = "ended", !.wire = <<>>]

\* Every statement in flight is rejected; a callback its run has left can do nothing any more.
Rejected(R) ==
  LET C == [R EXCEPT !.tests = IF R.pc # "testing" THEN "off"
                               ELSE IF @ = "querying" THEN "broken"
                               ELSE IF @ = "restoring" THEN "ready" ELSE @]
  IN IF R.pc \in OwnStatements THEN Failing(C)
     ELSE [C EXCEPT !.pc = IF @ = "rollingBack" THEN "forcing" ELSE @]

-----------------------------------------------------------------------------
(* admit, and the connection *)

\* A target that is busy on this runner is refused (CoverageTargetBusyError).
Admit(r, u, oids) ==
  /\ run[r].pc = "idle"
  /\ oids # {}
  /\ active[u] \cap oids = {}
  /\ Become(r, [IdleRun EXCEPT !.pc = "connecting", !.runner = u, !.oids = oids],
               [NoLink EXCEPT !.client = "opening"])
  /\ active' = [active EXCEPT ![u] = @ \cup oids]
  /\ UNCHANGED persisted

Connected(r) ==
  /\ link[r].client = "opening"
  /\ run[r].pc = "connecting"
  /\ Become(r, [run[r] EXCEPT !.pc = "pid"],
               [link[r] EXCEPT !.client = "open", !.pg = "idle", !.wire = <<"pid">>])
  /\ UNCHANGED <<active, persisted>>

LateClientKept(r) ==
  /\ link[r].client = "opening"
  /\ run[r].pc \in {"releasing", "done"}
  /\ Become(r, run[r], [link[r] EXCEPT !.client = "open", !.pg = "idle"])
  /\ UNCHANGED <<active, persisted>>

\* closeLateClientAfterAbort
LateClient(r) ==
  /\ link[r].client = "opening"
  /\ run[r].pc \in {"releasing", "done"}
  /\ Become(r, run[r], [link[r] EXCEPT !.client = "ending", !.pg = "idle"])
  /\ UNCHANGED <<active, persisted>>

ConnectFails(r) ==
  /\ link[r].client = "opening"
  /\ Become(r, IF run[r].pc = "connecting" THEN Failing(run[r]) ELSE run[r], NoLink)
  /\ UNCHANGED <<active, persisted>>

-----------------------------------------------------------------------------
(* execute *)

\* The backend pid is known: cancellation is installed, and starts at once when it is late.
PidAnswered(r) ==
  /\ Executing(r, "pid")
  /\ Become(r, [run[r] EXCEPT !.pc = "pgtap",
                 !.cancellation = IF run[r].aborted THEN "cancelling" ELSE "armed"],
               Sending(Answered(link[r]), "pgtap"))
  /\ UNCHANGED <<active, persisted>>

PgTapAnswered(r) ==
  /\ Executing(r, "pgtap")
  /\ \E installed \in BOOLEAN :
       IF installed /\ ~run[r].aborted
         THEN Become(r, [run[r] EXCEPT !.pc = "begin"], Sending(Answered(link[r]), "begin"))
         ELSE Become(r, Failing(run[r]), Answered(link[r]))
  /\ UNCHANGED <<active, persisted>>

\* BEGIN, then SET LOCAL lock_timeout.
BeginAnswered(r) ==
  /\ Executing(r, "begin")
  /\ Become(r, [run[r] EXCEPT !.pc = "locking", !.todo = run[r].oids, !.txOpen = TRUE],
               [Sending(Answered(link[r]), "locking") EXCEPT !.pg = "tx"])
  /\ UNCHANGED <<active, persisted>>

LockIgnored(r) ==
  /\ Executing(r, "locking")
  /\ Become(r, [run[r] EXCEPT !.pc = "reading", !.todo = run[r].oids],
               Sending([Answered(link[r]) EXCEPT !.locks = run[r].oids], "reading"))
  /\ UNCHANGED <<active, persisted>>

\* acquireTargetLock: pg_try_advisory_xact_lock never waits.
LockAnswered(r) ==
  /\ Executing(r, "locking")
  /\ \E p \in run[r].todo :
       LET rest == run[r].todo \ {p}
           taken == [Answered(link[r]) EXCEPT !.locks = @ \cup {p}]
       IN IF \E q \in Runs \ {r} : p \in link[q].locks
            THEN Become(r, Failing(run[r]), Answered(link[r]))
            ELSE IF rest # {}
              THEN Become(r, [run[r] EXCEPT !.todo = rest], Sending(taken, "locking"))
              ELSE Become(r, [run[r] EXCEPT !.pc = "reading", !.todo = run[r].oids],
                             Sending(taken, "reading"))
  /\ UNCHANGED <<active, persisted>>

\* queryCoverageRoutine: the routine may be gone, or not coverable; its analysis is raced.
RoutineAnswered(r) ==
  /\ Executing(r, "reading")
  /\ \E p \in run[r].todo, coverable \in BOOLEAN :
       LET next == [run[r] EXCEPT !.pc = "analyzing", !.todo = @ \ {p}] IN
       Become(r, IF coverable /\ ~run[r].aborted THEN next ELSE Failing(next),
              Answered(link[r]))
  /\ UNCHANGED <<active, persisted>>

\* The syntax service answers: read the next routine, or instrument them all.
AnalysisDone(r) ==
  /\ run[r].pc = "analyzing"
  /\ \/ Become(r, Failing(run[r]), link[r])
     \/ /\ link[r].client = "open"
        /\ LET next == IF run[r].todo # {} THEN [run[r] EXCEPT !.pc = "reading"]
                       ELSE [run[r] EXCEPT !.pc = "instrumenting", !.todo = run[r].oids]
           IN Become(r, next, Sending(link[r], next.pc))
  /\ UNCHANGED <<active, persisted>>

\* CREATE OR REPLACE of an instrumented routine; after the last one the tests are called.
DdlAnswered(r) ==
  /\ Executing(r, "instrumenting")
  /\ \E p \in run[r].todo :
       LET rest == run[r].todo \ {p}
           done == [Answered(link[r]) EXCEPT !.instrumented = @ \cup {p}]
       IN IF run[r].aborted
            THEN Become(r, Failing(run[r]), done)
            ELSE IF rest # {}
              THEN Become(r, [run[r] EXCEPT !.todo = rest], Sending(done, "instrumenting"))
              ELSE Become(r, [run[r] EXCEPT !.pc = "testing", !.todo = {}, !.tests = "ready"],
                             done)
  /\ persisted' = IF link[r].pg = "idle" THEN persisted \cup {r} ELSE persisted
  /\ UNCHANGED active

-----------------------------------------------------------------------------
(* The test callback and its TransactionBoundTestClient *)

TestCallsUnguarded(r) ==
  /\ run[r].tests = "ready"
  /\ Become(r, [run[r] EXCEPT !.tests = "checking"], link[r])
  /\ UNCHANGED <<active, persisted>>

\* query, or the SAVEPOINT of runIsolated: refused once the signal is aborted.  A callback sends one
\* statement at a time and awaits it, as those of the suites do (schemaTestExecutor, executeTestSuite);
\* the client would take several at once.
TestCalls(r) ==
  /\ run[r].tests = "ready"
  /\ ~run[r].aborted
  /\ Become(r, [run[r] EXCEPT !.tests = "checking"], link[r])
  /\ UNCHANGED <<active, persisted>>

\* containsSqlTransactionControl answers: the statement is refused, or sent.
TestChecked(r) ==
  /\ run[r].tests = "checking"
  /\ \/ Become(r, [run[r] EXCEPT !.tests = "broken"], link[r])
     \/ /\ link[r].client = "open"
        /\ Become(r, [run[r] EXCEPT !.tests = "querying"], Sending(link[r], "test"))
  /\ UNCHANGED <<active, persisted>>

\* A test statement succeeds; outside a transaction PostgreSQL commits it at once.
TestAnswered(r) ==
  /\ Executing(r, "test")
  /\ Become(r, [run[r] EXCEPT !.tests = "ready"], Answered(link[r]))
  /\ persisted' = IF link[r].pg = "idle" THEN persisted \cup {r} ELSE persisted
  /\ UNCHANGED active

\* The callback goes on, or runIsolated returns to its savepoint, whatever the signal says.
TestBroken(r) ==
  /\ run[r].tests = "broken"
  /\ \/ Become(r, [run[r] EXCEPT !.tests = "ready"], link[r])
     \/ /\ link[r].client = "open"
        /\ Become(r, [run[r] EXCEPT !.tests = "restoring"], Sending(link[r], "restore"))
  /\ UNCHANGED <<active, persisted>>

RestoreAnswered(r) ==
  /\ Executing(r, "restore")
  /\ link[r].pg # "idle"
  /\ Become(r, [run[r] EXCEPT !.tests = "ready"], Answered(link[r]))
  /\ UNCHANGED <<active, persisted>>

\* The callback returns or throws; once the run has left it, nobody listens.
TestsEnd(r) ==
  /\ run[r].tests = "ready"
  /\ LET over == [run[r] EXCEPT !.tests = "off"] IN
     IF run[r].pc = "testing"
       THEN \/ Become(r, Failing(over), link[r])
            \/ Become(r, [over EXCEPT !.pc = "settling", !.cancellation = "none"], link[r])
       ELSE Become(r, over, link[r])
  /\ UNCHANGED <<active, persisted>>

-----------------------------------------------------------------------------
(* Abort, and the ladder of cancelOrDisconnect *)

\* The caller aborts or the deadline fires: raced awaits are over, cancellation starts if it is
\* installed, and the callback's own raced await is over too.  During cleanup nobody listens.
Abort(r) ==
  /\ run[r].pc \in OwnStatements \cup Raced
  /\ ~run[r].aborted
  /\ LET R == [run[r] EXCEPT
                 !.aborted = TRUE,
                 !.cancellation = IF @ = "armed" THEN "cancelling" ELSE @,
                 !.tests = IF @ = "checking" THEN "broken" ELSE @]
     IN Become(r, IF R.pc \in Raced THEN Failing(R) ELSE R, link[r])
  /\ UNCHANGED <<active, persisted>>

\* pg_cancel_backend on another connection: it answers, or fails or times out.
CancelBackend(r) ==
  /\ run[r].cancellation = "cancelling"
  /\ \E next \in {"cancelled", "terminating"} :
       Become(r, [run[r] EXCEPT !.cancellation = next], link[r])
  /\ UNCHANGED <<active, persisted>>

\* pg_terminate_backend: it succeeds, or fails or times out and the target client is ended.
TerminateBackend(r) ==
  /\ run[r].cancellation = "terminating"
  /\ \/ /\ Alive(link[r])
        /\ Become(r, [Rejected(run[r]) EXCEPT !.cancellation = "forced"], Severed(link[r]))
     \/ Become(r, [run[r] EXCEPT !.cancellation = "disconnecting"], Ending(link[r]))
  /\ UNCHANGED <<active, persisted>>

\* The target client has ended, or that timed out as well.
Disconnected(r) ==
  /\ run[r].cancellation = "disconnecting"
  /\ \/ /\ link[r].client = "ended"
        /\ Become(r, [run[r] EXCEPT !.cancellation = "forced"], link[r])
     \/ Become(r, [run[r] EXCEPT !.cancellation = "stuck"], link[r])
  /\ UNCHANGED <<active, persisted>>

-----------------------------------------------------------------------------
(* cleanup *)

\* The cancellation that was started has come to an end; ROLLBACK, or close the client.
Settle(r) ==
  /\ run[r].pc = "settling"
  /\ run[r].cancellation \notin {"cancelling", "terminating", "disconnecting"}
  /\ LET R == [run[r] EXCEPT !.txOpen = @ /\ run[r].cancellation # "forced",
                             !.cancellation = "none"]
     IN IF ~R.txOpen
          THEN Become(r, [R EXCEPT !.pc = "ending"], Ending(link[r]))
          ELSE IF link[r].client = "open"
            THEN Become(r, [R EXCEPT !.pc = "rollingBack"], Sending(link[r], "rollback"))
            ELSE Become(r, [R EXCEPT !.pc = "forcing"], link[r])
  /\ UNCHANGED <<active, persisted>>

\* ROLLBACK is answered, to a run that may have stopped waiting for it.
RollbackAnswered(r) ==
  /\ Executing(r, "rollback")
  /\ LET over == OutsideTransaction(Answered(link[r]), "idle") IN
     IF run[r].pc = "rollingBack"
       THEN Become(r, [run[r] EXCEPT !.txOpen = FALSE, !.pc = "ending"], Ending(over))
       ELSE Become(r, run[r], over)
  /\ UNCHANGED <<active, persisted>>

\* It waits behind a test statement, or PostgreSQL does not answer.
RollbackTimesOut(r) ==
  /\ run[r].pc = "rollingBack"
  /\ Become(r, [run[r] EXCEPT !.pc = "forcing"], link[r])
  /\ UNCHANGED <<active, persisted>>

\* forceTerminateOrDisconnect
ForceTerminate(r) ==
  /\ run[r].pc = "forcing"
  /\ \/ /\ Alive(link[r])
        /\ Become(r, [Rejected(run[r]) EXCEPT !.txOpen = FALSE, !.pc = "ending"], Severed(link[r]))
     \/ Become(r, [run[r] EXCEPT !.pc = "disconnecting"], Ending(link[r]))
  /\ UNCHANGED <<active, persisted>>

ForceDisconnect(r) ==
  /\ run[r].pc = "disconnecting"
  /\ \/ /\ link[r].client = "ended"
        /\ Become(r, [run[r] EXCEPT !.txOpen = FALSE, !.pc = "ending"], link[r])
     \/ Become(r, [run[r] EXCEPT !.pc = "ending"], link[r])
  /\ UNCHANGED <<active, persisted>>

\* The client has ended, or there was none: the targets are released and the run is over.
Finish(r) ==
  /\ \/ run[r].pc = "releasing"
     \/ run[r].pc = "ending" /\ link[r].client = "ended"
  /\ Become(r, [IdleRun EXCEPT !.pc = "done", !.runner = run[r].runner, !.oids = run[r].oids],
               link[r])
  /\ active' = [active EXCEPT ![run[r].runner] = @ \ run[r].oids]
  /\ UNCHANGED persisted

-----------------------------------------------------------------------------
(* PostgreSQL and the network *)

\* A statement fails, by itself or because its backend was told to cancel it.
StatementFails(r) ==
  /\ link[r].wire # <<>>
  /\ Executing(r, Head(link[r].wire))
  /\ LET st == Head(link[r].wire)
         C == [run[r] EXCEPT !.tests = IF st = "test" THEN "broken"
                                       ELSE IF st = "restore" THEN "ready" ELSE @]
         L == Answered(link[r])
     IN IF st \in OwnStatements THEN Become(r, Failing(C), L)
        ELSE IF st = "rollback" /\ C.pc = "rollingBack"
          THEN Become(r, [C EXCEPT !.pc = "forcing"], L)
          ELSE Become(r, C, L)
  /\ UNCHANGED <<active, persisted>>

\* end() completes: the socket is closed, whatever the backend is doing.
ClientEnds(r) ==
  /\ link[r].client = "ending"
  /\ Become(r, Rejected(run[r]), [link[r] EXCEPT !.client = "ended", !.wire = <<>>])
  /\ UNCHANGED <<active, persisted>>

\* The backend ends: the session is lost, or it notices that its client is gone.
BackendEnds(r) ==
  /\ Alive(link[r])
  /\ Become(r, Rejected(run[r]), Severed(link[r]))
  /\ UNCHANGED <<active, persisted>>

-----------------------------------------------------------------------------
(* Specification *)

Request(r) ==
  \/ \E u \in Runners, oids \in SUBSET Routines : Admit(r, u, oids)
  \/ Abort(r)

Opening(r) == Connected(r) \/ LateClient(r) \/ ConnectFails(r)

\* PostgreSQL answers the statements of the run itself.
Answer(r) ==
  \/ PidAnswered(r) \/ PgTapAnswered(r) \/ BeginAnswered(r) \/ LockAnswered(r)
  \/ RoutineAnswered(r) \/ DdlAnswered(r)

Callback(r) ==
  TestCalls(r) \/ TestChecked(r) \/ TestAnswered(r) \/ TestBroken(r) \/ RestoreAnswered(r)
  \/ TestsEnd(r)

Ladder(r) == CancelBackend(r) \/ TerminateBackend(r) \/ Disconnected(r)

Cleanup(r) ==
  Settle(r) \/ RollbackAnswered(r) \/ RollbackTimesOut(r) \/ ForceTerminate(r)
  \/ ForceDisconnect(r) \/ Finish(r)

Stopped ==
  /\ \A r \in Runs : run[r].pc = "done"
  /\ UNCHANGED vars

Next ==
  \/ \E r \in Runs :
       \/ Request(r) \/ Opening(r) \/ Answer(r) \/ AnalysisDone(r) \/ Callback(r)
       \/ Ladder(r) \/ Cleanup(r)
       \/ StatementFails(r) \/ ClientEnds(r) \/ BackendEnds(r)
  \/ Stopped

Spec == Init /\ [][Next]_vars

\* The timers fire, end() completes and PostgreSQL answers the runner's own statements, which
\* lock_timeout bounds.  Nothing is said of connections being opened, of the syntax service, of
\* the callback, nor of its SQL, which may hang or catch its cancellation.
FairSpec ==
  /\ Spec
  /\ \A r \in Runs :
       /\ WF_vars(Abort(r))
       /\ WF_vars(Answer(r))
       /\ WF_vars(Ladder(r))
       /\ WF_vars(Cleanup(r))
       /\ WF_vars(ClientEnds(r))

-----------------------------------------------------------------------------
(* Properties *)

\* Every variable keeps its type; a run awaits a statement of its own exactly while that statement
\* is the only one on the wire, so that cleanup never begins under one (execute); the targets
\* of a runner are those of its runs that are not over (admit, cleanup).
CoverageTypeOK ==
  /\ run \in [Runs -> Run]
  /\ link \in [Runs -> Link]
  /\ persisted \in SUBSET Runs
  /\ \A r \in Runs : \A i \in DOMAIN link[r].wire :
       link[r].wire[i] \in OwnStatements => link[r].wire = <<run[r].pc>>
  /\ active = [u \in Runners |->
       UNION {run[r].oids : r \in {q \in Runs : run[q].runner = u /\ run[q].pc # "done"}}]

\* No statement of a run, and none of the test callback that outlives it, is executed once its
\* transaction is over, where PostgreSQL would commit it: the tests and the instrumented
\* definitions leave no trace (TransactionBoundTestClient, cleanup).
NothingPersists == persisted = {}

\* Two transactions never hold an instrumented definition of the same routine, also when the
\* runs belong to different runners and one of them has given its target up before its backend
\* has noticed that it is gone (acquireTargetLock).
OneInstrumenter ==
  \A r, q \in Runs : r # q => link[r].instrumented \cap link[q].instrumented = {}

\* Whatever hangs, the tests, their cancellation, the control connections or the connection the
\* run waits for, every run ends and leaves no client open behind it (runSuite, cancelOrDisconnect,
\* closeLateClientAfterAbort).
RunEnds ==
  \A r \in Runs :
    run[r].pc # "idle" ~> [](run[r].pc = "done" /\ link[r].client # "open")
=============================================================================
