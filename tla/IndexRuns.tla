------------------------------ MODULE IndexRuns ------------------------------
(***************************************************************************)
(* The index of one database of one Connection:                            *)
(* WorkbenchIndexController (packages/catalog/src/indexController.ts).     *)
(*                                                                         *)
(* Runs of a database wait for each other.  A run reads the catalog of     *)
(* PostgreSQL, replaces the source set the Code Moniker engine holds,      *)
(* reads its symbols back and publishes a registry; a run that fails after *)
(* it replaced the sources puts the previous ones back.  A newer refresh   *)
(* supersedes older runs (the refresh epoch), the user cancels runs, and   *)
(* the engine's session may close under them.                              *)
(*                                                                         *)
(* A catalog is the set of DDL transactions it reflects.                   *)
(***************************************************************************)
EXTENDS Naturals, Sequences

CONSTANTS
  MaxDdl,       \* bound: DDL transactions other sessions commit
  MaxRequests,  \* bound: what the user and the Connection do
  MaxInputs,    \* bound: both together
  MaxFaults,    \* bound: answers that fail, sessions that are lost
  None,         \* no registry; an engine without sources
  Unknown       \* the engine was asked to replace its sources and did not answer

ASSUME IndexAssumption ==
  /\ MaxDdl \in Nat /\ MaxRequests \in Nat /\ MaxInputs \in Nat /\ MaxFaults \in Nat
  /\ None # Unknown

VARIABLES
  ddl,        \* PostgreSQL: DDL transactions committed so far
  connected,  \* the Connection is open
  session,    \* a session with the engine is open
  content,    \* what the engine holds for this database
  registry,   \* the registry every view reads: registries.get(scope)
  stale,      \* staleScopes
  status,     \* states.get(scope)
  runs,       \* the chain of scopeRuns: the first one runs, the others wait
  answer,     \* the settled promise of synchronizeDatabaseDdl its caller is about to see
  requests, faults  \* bounds

indexVars == <<session, content, registry, stale, status, runs, answer>>

Ddl == 1..MaxDdl
Snapshot == SUBSET Ddl

Run == [kind: {"manual",    \* indexDatabase
               "refresh",   \* indexPostgresDatabase
               "ddl"},      \* synchronizeDatabaseDdl
        phase: {"queued", "reading", "connecting", "replacing", "symbols", "restoring"},
        full: BOOLEAN,      \* reads the whole catalog, and is tracked as an active run
        objects: Snapshot,  \* the DDL its notification named
        read: Snapshot,     \* the catalog it publishes
        current: BOOLEAN,   \* the refresh epoch is still the one it captured
        cancelled: BOOLEAN,
        lost: BOOLEAN,      \* the connection its next answer comes from is gone
        retry: {"never", "armed", "due"}] \* indexDatabase runs again once after the engine's session closed

IndexTypeOK ==
  /\ ddl \in 0..MaxDdl /\ connected \in BOOLEAN /\ session \in BOOLEAN
  /\ content \in Snapshot \cup {None, Unknown}
  /\ registry \in Snapshot \cup {None}
  /\ stale \in BOOLEAN
  /\ status \in {"not-indexed", "indexing", "available", "stale", "cancelled", "error"}
  /\ runs \in Seq(Run)
  /\ answer \in {"none", "ok", "failed"}
  /\ requests \in 0..MaxRequests /\ faults \in 0..MaxFaults

IndexInit ==
  /\ ddl = 0 /\ connected = FALSE /\ session = FALSE
  /\ content = None /\ registry = None
  /\ stale = FALSE /\ status = "not-indexed"
  /\ runs = <<>> /\ answer = "none"
  /\ requests = 0 /\ faults = 0

NewRun(kind, full, objects) ==
  [kind |-> kind, phase |-> "queued", full |-> full, objects |-> objects, read |-> {},
   current |-> TRUE, cancelled |-> FALSE, lost |-> FALSE,
   retry |-> IF kind = "manual" THEN "armed" ELSE "never"]

First == runs[1]
At(phase) == runs # <<>> /\ First.phase = phase
Put(run) == runs' = <<run>> \o Tail(runs)

\* What the event loop still has to do before anything else happens.
RunPending == At("queued") \/ answer # "none"

MoreInputs == ddl + requests < MaxInputs
Request == MoreInputs /\ requests < MaxRequests /\ requests' = requests + 1 /\ UNCHANGED faults
Fault == faults < MaxFaults /\ faults' = faults + 1
\* An answer fails because its connection is gone, or for a reason of its own.
Fails == UNCHANGED requests /\ \/ First.lost /\ UNCHANGED faults
                               \/ ~First.lost /\ Fault
Answers == ~First.lost /\ UNCHANGED <<requests, faults>>

\* advanceScopeRefreshEpoch: runs that captured the epoch are superseded.
Superseded(chain) == [i \in 1..Len(chain) |-> [chain[i] EXCEPT !.current = FALSE]]

\* isCurrent: a run on the Connection's own client also needs the Connection to be open.
IsCurrent(run) == run.current /\ (run.kind = "manual" => connected)

MarkStale == stale' = TRUE /\ status' = "stale"

-----------------------------------------------------------------------------
(* Requests *)

\* indexDatabase
IndexDatabase ==
  /\ Request
  /\ runs' = Append(runs, NewRun("manual", TRUE, {}))
  /\ UNCHANGED <<ddl, connected, session, content, registry, stale, status, answer>>

\* indexPostgresDatabase: whatever runs or waits is superseded at once.
IndexPostgresDatabase ==
  /\ runs' = Append(Superseded(runs), NewRun("refresh", TRUE, {}))
  /\ MarkStale
  /\ UNCHANGED <<session, content, registry, answer>>

\* cancelDatabaseIndex: the run hears of it when it asks.
CancelDatabaseIndex ==
  /\ runs # <<>> /\ First.full /\ ~First.cancelled
  /\ Request
  /\ Put([First EXCEPT !.cancelled = TRUE])
  /\ status' = "indexing"
  /\ UNCHANGED <<ddl, connected, session, content, registry, stale, answer>>

\* A run that reads through the Connection's client fails when that is closed.
WithoutClient(chain) ==
  [i \in 1..Len(chain) |->
    IF \/ chain[i].kind = "refresh" /\ chain[i].phase \in {"queued", "reading"}
       \/ chain[i].kind = "manual" /\ chain[i].phase = "reading"
      THEN [chain[i] EXCEPT !.lost = TRUE] ELSE chain[i]]

\* observeConnections: a newly open Connection is indexed, a closed one shows what is left.
Observe(isConnected, newly) ==
  IF isConnected
    THEN IF newly /\ registry = None THEN IndexPostgresDatabase ELSE UNCHANGED indexVars
    ELSE /\ status' = IF registry = None THEN "not-indexed"
                      ELSE IF stale THEN "stale" ELSE "available"
         /\ runs' = WithoutClient(runs)
         /\ UNCHANGED <<session, content, registry, stale, answer>>

-----------------------------------------------------------------------------
(* A run *)

Reading(run) == [run EXCEPT !.phase = "reading", !.full = TRUE, !.read = {}, !.lost = FALSE]

\* The run leaves the chain; whoever asked for it hears the outcome.
Settle(outcome) ==
  /\ runs' = Tail(runs)
  /\ answer' = IF First.kind = "ddl" THEN outcome ELSE "none"

\* enqueueScopeRun: the next run starts as soon as the one before it has settled.
StartManual ==  \* runIndex
  /\ First.kind = "manual"
  /\ IF connected
       THEN Put([Reading(First) EXCEPT !.current = TRUE]) /\ status' = "indexing"
       ELSE runs' = Tail(runs) /\ UNCHANGED status
  /\ UNCHANGED stale

StartRefresh ==
  /\ First.kind = "refresh"
  /\ Put([First EXCEPT !.phase = "reading"])
  /\ status' = "indexing"
  /\ UNCHANGED stale

\* runDdlSynchronization: the whole catalog, or the objects of the notification over the registry.
StartDdlWith(full, incremental) ==
  /\ First.kind = "ddl"
  /\ stale' = TRUE
  /\ IF full
       THEN /\ runs' = <<Reading(First)>> \o Superseded(Tail(runs))
            /\ status' = "indexing"
       ELSE /\ Put([First EXCEPT !.phase = "reading", !.current = TRUE, !.read = incremental])
            /\ status' = "stale"

StartDdlUnread == StartDdlWith(First.full, IF registry = None THEN {None} ELSE registry \cup First.objects)
StartDdlAlone == StartDdlWith(First.full \/ registry = None, First.objects)
StartDdl == StartDdlWith(First.full \/ registry = None, registry \cup First.objects)

StartRun ==
  /\ At("queued") /\ answer = "none"
  /\ StartManual \/ StartRefresh \/ StartDdl
  /\ UNCHANGED <<ddl, connected, session, content, registry, answer, requests, faults>>

\* What a failure ends in, once the previous sources are back.
FallBack ==  \* an incremental update becomes a full refresh
  /\ ~First.full
  /\ runs' = <<[Reading(First) EXCEPT !.current = TRUE]>> \o Superseded(Tail(runs))
  /\ status' = "indexing"
  /\ UNCHANGED answer

ReportCancelled ==
  /\ First.full /\ First.cancelled
  /\ status' = "cancelled"
  /\ Settle("failed")

ReportError ==  \* a run of DDL sync reports nothing: its caller does
  /\ First.full /\ ~First.cancelled
  /\ ~(First.retry = "due" /\ connected)
  /\ status' = IF First.kind = "ddl" THEN status ELSE "error"
  /\ Settle("failed")

RunAgain ==
  /\ First.full /\ ~First.cancelled /\ First.retry = "due" /\ connected
  /\ Put([Reading(First) EXCEPT !.current = TRUE, !.retry = "never"])
  /\ status' = "indexing"
  /\ UNCHANGED answer

FailRun == FallBack \/ ReportCancelled \/ ReportError \/ RunAgain

Wanted(run) == ~run.cancelled /\ IsCurrent(run)
Progress == status' = IF First.full THEN "indexing" ELSE status

CatalogRead ==
  /\ At("reading")
  /\ UNCHANGED <<requests, faults>>
  /\ First.lost => ~First.full   \* the engine may have answered before its session closed
  /\ session' = (session \/ ~First.full)
  /\ IF Wanted(First)
       THEN /\ Put([First EXCEPT !.phase = "connecting", !.lost = FALSE,
                                 !.read = IF First.full THEN 1..ddl ELSE First.read])
            /\ Progress /\ UNCHANGED answer
       ELSE FailRun
  /\ UNCHANGED <<ddl, connected, content, registry, stale>>

\* The catalog cannot be read; an incremental update may also ask for a full refresh.
CatalogFails ==
  /\ At("reading")
  /\ Fails
  /\ FailRun
  /\ UNCHANGED <<ddl, connected, session, content, registry, stale>>

\* ensureSession, workspace ready; publishCatalog asks once more before it replaces the sources.
SessionReady ==
  /\ At("connecting")
  /\ Answers
  /\ session' = TRUE
  /\ IF Wanted(First)
       THEN Put([First EXCEPT !.phase = "replacing"]) /\ Progress /\ UNCHANGED answer
       ELSE FailRun
  /\ UNCHANGED <<ddl, connected, content, registry, stale>>

SessionFails ==
  /\ At("connecting")
  /\ Fails
  /\ FailRun
  /\ UNCHANGED <<ddl, connected, session, content, registry, stale>>

SourcesReplaced ==
  /\ At("replacing")
  /\ Answers
  /\ content' = First.read
  /\ IF Wanted(First)
       THEN Put([First EXCEPT !.phase = "symbols"]) /\ Progress
       ELSE Put([First EXCEPT !.phase = "restoring"]) /\ UNCHANGED status
  /\ UNCHANGED <<ddl, connected, session, registry, stale, answer>>

\* Without an answer nothing is restored.
ReplaceFails ==
  /\ At("replacing")
  /\ Fails
  /\ content' = Unknown
  /\ FailRun
  /\ UNCHANGED <<ddl, connected, session, registry, stale>>

\* readDatabaseSymbols, probeGraph, and publishRegistry in the same turn.
SymbolsRead ==
  /\ At("symbols")
  /\ Answers
  /\ IF Wanted(First)
       THEN registry' = First.read /\ stale' = FALSE /\ status' = "available" /\ Settle("ok")
       ELSE Put([First EXCEPT !.phase = "restoring"]) /\ UNCHANGED <<registry, stale, status, answer>>
  /\ UNCHANGED <<ddl, connected, session, content>>

SymbolsFail ==
  /\ At("symbols")
  /\ Fails
  /\ Put([First EXCEPT !.phase = "restoring"])
  /\ UNCHANGED <<ddl, connected, session, content, registry, stale, status, answer>>

RestoreSkipped ==
  /\ At("restoring")
  /\ Answers
  /\ FailRun
  /\ UNCHANGED <<ddl, connected, session, content, registry, stale>>

\* restorePublishedSnapshot
SourcesRestored ==
  /\ At("restoring")
  /\ Answers
  /\ content' = registry
  /\ FailRun
  /\ UNCHANGED <<ddl, connected, session, registry, stale>>

RestoreFails ==
  /\ At("restoring")
  /\ Fails
  /\ content' = Unknown
  /\ FailRun
  /\ UNCHANGED <<ddl, connected, session, registry, stale>>

\* onDidClose: what it held is forgotten, its calls fail.
SessionCloses ==
  /\ session
  /\ Fault /\ UNCHANGED requests
  /\ session' = FALSE
  /\ content' = Unknown /\ registry' = None
  /\ runs' = [i \in 1..Len(runs) |->
               [runs[i] EXCEPT !.lost = \/ runs[i].lost
                                        \/ runs[i].phase \in {"connecting", "replacing", "symbols", "restoring"}
                                        \/ runs[i].phase = "reading" /\ ~runs[i].full,
                               !.retry = IF runs[i].retry = "armed" THEN "due" ELSE runs[i].retry]]
  /\ UNCHANGED <<ddl, connected, stale, status, answer>>

RunAnswers ==
  \/ CatalogRead \/ CatalogFails \/ SessionReady \/ SessionFails
  \/ SourcesReplaced \/ ReplaceFails \/ SymbolsRead \/ SymbolsFail
  \/ SourcesRestored \/ RestoreFails
=============================================================================
