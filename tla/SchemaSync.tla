----------------------------- MODULE SchemaSync -----------------------------
(***************************************************************************)
(* Schema synchronization of one Connection, with the index it keeps       *)
(* fresh: WorkbenchDdlSyncController (packages/catalog/src/ddlSync.ts).    *)
(*                                                                         *)
(* A listener on a connection of its own hears of every DDL transaction;   *)
(* after 100 ms the ones heard are refreshed one by one.  What may have    *)
(* been missed is owed as a complete refresh (the full refresh debt).      *)
(* Starting, stopping and losing the listener are operations of one        *)
(* lifecycle chain, refreshes of another; each request supersedes the      *)
(* intents of the ones before (the lifecycle epoch).                       *)
(***************************************************************************)
EXTENDS IndexRuns

VARIABLES
  saved,      \* the Connection is in the store
  enabled,    \* its setting
  provisioned,\* its database has the event triggers
  disposed,   \* the window closes
  stranded,   \* history: nothing was reconciled since a command failed or the Connection was saved
  listener,   \* its client, from before it connects: listeners.get once it is heard
  wire,       \* notifications on their way to it, or held back while it starts
  heard,      \* every DDL a listener was notified of
  debt,       \* fullRefreshDebtEpochs
  ops,        \* the lifecycle chain, its first operation under way
  refreshes,  \* the refresh chain, its first one under way
  reconnect,  \* the timer of the next attempt
  sync        \* states.get(connectionId).status

settingVars == <<saved, enabled, provisioned, disposed, stranded>>
syncVars == <<settingVars, listener, wire, heard, debt, ops, refreshes, reconnect, sync>>
vars == <<ddl, connected, indexVars, requests, faults, syncVars>>

Listener == [phase: {"none", "connecting", "checking", "listening",  \* not heard yet
                     "restoring", "published"},
             failed: BOOLEAN,     \* its error or end, kept until startup looks (startupFailure)
             notes: Snapshot,     \* notifications received
             timer: BOOLEAN,      \* the 100 ms before they are flushed
             flushing: BOOLEAN,   \* flushActive
             groups: Snapshot]    \* what the flush has still to refresh

\* What a user asks for: setConnectionEnabled, provision, removeProvisioning
Commands == {"enable", "disable", "provision", "unprovision"}

Operation == [op: {"reconcile", "restart", "closed", "dispose"} \cup Commands,
              at: {"queued", "stopping", "persisting", "dialing", "executing", "provisioned",
                   "leaving", "reconcile", "removing", "settling", "halting", "configured",
                   "establish", "starting", "refreshing", "ending"},
              current: BOOLEAN]   \* lifecycleIntentIsCurrent

Refresh == [from: {"start", "reconcile", "flush", "orphan"}, \* orphan: the flush of a listener that closed
            at: {"queued", "connecting", "indexing", "ending"},
            full: BOOLEAN,        \* has a reason for a complete refresh
            objects: Snapshot,
            debt: BOOLEAN,        \* there was debt when it started, and no newer one since
            ok: BOOLEAN]

SyncTypeOK ==
  /\ IndexTypeOK
  /\ {saved, enabled, provisioned, disposed, stranded} \subseteq BOOLEAN
  /\ listener \in Listener
  /\ wire \in Snapshot /\ heard \in Snapshot
  /\ debt \in BOOLEAN
  /\ ops \in Seq(Operation) /\ refreshes \in Seq(Refresh)
  /\ reconnect \in BOOLEAN
  /\ sync \in {"unknown", "unavailable", "disabled", "listening", "desynchronized",
               "provisioning-required", "insufficient-privilege"}

NoListener == [phase |-> "none", failed |-> FALSE, notes |-> {}, timer |-> FALSE,
               flushing |-> FALSE, groups |-> {}]

NewOp(op) == [op |-> op, at |-> "queued", current |-> TRUE]
NewRefresh(from, full, objects) ==
  [from |-> from, at |-> "queued", full |-> full, objects |-> objects, debt |-> FALSE, ok |-> FALSE]

\* The constructor reconciles every saved Connection.
Init ==
  /\ IndexInit
  /\ saved = TRUE /\ enabled \in BOOLEAN /\ provisioned \in BOOLEAN
  /\ disposed = FALSE /\ stranded = FALSE
  /\ listener = NoListener /\ wire = {} /\ heard = {}
  /\ debt = FALSE
  /\ ops = <<NewOp("reconcile")>> /\ refreshes = <<>>
  /\ reconnect = FALSE
  /\ sync = "unknown"

Listed == listener.phase \in {"restoring", "published"}   \* listeners.has
Op == ops[1]
OpAt(at) == ops # <<>> /\ Op.at = at
Current == Op.current /\ ~disposed   \* lifecycleIntentIsCurrent
OpGoes(at) == ops' = <<[Op EXCEPT !.at = at]>> \o Tail(ops)
OpEnds == ops' = Tail(ops)
RefreshAt(at) == refreshes # <<>> /\ refreshes[1].at = at

\* The event loop runs promise callbacks before anything else.
Pending ==
  \/ RunPending
  \/ RefreshAt("queued")
  \/ \E at \in {"queued", "reconcile", "configured", "establish"} : OpAt(at)
  \/ OpAt("settling") /\ refreshes = <<>>

\* advanceLifecycleEpoch, enqueueLifecycle
Superseding(op, chain) ==
  Append([i \in 1..Len(chain) |-> [chain[i] EXCEPT !.current = FALSE]], NewOp(op))

\* requireFullRefresh: a newer debt, which the refresh under way does not pay.
Owe == debt' = TRUE
NotPaying(chain) == [i \in 1..Len(chain) |-> [chain[i] EXCEPT !.debt = FALSE]]
Orphaned(chain) ==
  [i \in 1..Len(chain) |-> IF chain[i].from = "flush" THEN [chain[i] EXCEPT !.from = "orphan"] ELSE chain[i]]

\* scheduleReconnect
NeverReconnect == UNCHANGED reconnect
ScheduleReconnect == reconnect' = TRUE

Forget == listener' = NoListener /\ wire' = {}

\* onListenerClosed; a window that closes leaves the listener to the operation dispose has queued.
ListenerClosed(chain, waiting) ==
  IF disposed
    THEN /\ listener' = [listener EXCEPT !.phase = "published", !.flushing = FALSE, !.groups = {},
                                         !.timer = @ \/ listener.notes # {}]
         /\ refreshes' = waiting /\ ops' = chain
         /\ UNCHANGED <<wire, debt>>
    ELSE /\ Forget
         /\ Owe
         /\ refreshes' = Orphaned(NotPaying(waiting))
         /\ ops' = Superseding("closed", chain)

-----------------------------------------------------------------------------
(* The Connection, the user and PostgreSQL *)

ConnectionChanges(isConnected) ==
  /\ connected' = isConnected
  /\ Observe(isConnected, ~connected)
  /\ ops' = Superseding("reconcile", ops)
  /\ UNCHANGED <<ddl, settingVars, listener, wire, heard, debt, refreshes, reconnect, sync>>

Connect == saved /\ ~connected /\ Request /\ ConnectionChanges(TRUE)
Disconnect == connected /\ Request /\ ConnectionChanges(FALSE)

\* removeConnectionConfiguration: the Connection is closed and forgotten at once.
RemoveConnection ==
  /\ saved /\ Request
  /\ saved' = FALSE /\ connected' = FALSE
  /\ runs' = WithoutClient(runs)
  /\ ops' = Superseding("reconcile", ops)
  /\ UNCHANGED <<ddl, session, content, registry, stale, status, answer, enabled, provisioned, disposed,
                 stranded, listener, wire, heard, debt, refreshes, reconnect, sync>>

\* Its parameters are saved again, and so is its id; nothing is reconciled, as no Connection is named.
AddConnection ==
  /\ ~saved /\ Request
  /\ saved' = TRUE /\ enabled' \in BOOLEAN
  /\ stranded' = TRUE
  /\ UNCHANGED <<ddl, connected, indexVars, provisioned, disposed, listener, wire, heard,
                 debt, ops, refreshes, reconnect, sync>>

\* setConnectionEnabled, provision, removeProvisioning
Command(op) ==
  /\ saved /\ Request
  /\ ops' = Superseding(op, ops)
  /\ UNCHANGED <<ddl, connected, indexVars, settingVars, listener, wire, heard, debt, refreshes, reconnect, sync>>

\* restartAll, when a setting of Schema Sync changes that the Connection may follow
RestartAll ==
  /\ saved /\ Request
  /\ enabled' \in BOOLEAN
  /\ ops' = Superseding("restart", ops)
  /\ UNCHANGED <<ddl, connected, indexVars, saved, provisioned, disposed, stranded, listener, wire, heard, debt, refreshes, reconnect, sync>>

\* dispose: a listener that is still starting is left to startStillRequired.
Dispose ==
  /\ Request
  /\ disposed' = TRUE
  /\ reconnect' = FALSE
  /\ ops' = IF Listed THEN Superseding("dispose", ops) ELSE ops
  /\ UNCHANGED <<ddl, connected, indexVars, saved, enabled, provisioned, stranded, listener, wire, heard,
                 debt, refreshes, sync>>

RefreshDatabase ==
  /\ connected /\ Request
  /\ IndexPostgresDatabase
  /\ UNCHANGED <<ddl, connected, syncVars>>

UserIndexes == (IndexDatabase \/ CancelDatabaseIndex) /\ UNCHANGED syncVars

CommitDdl ==
  /\ ddl < MaxDdl /\ MoreInputs
  /\ ddl' = ddl + 1
  /\ IF Listed /\ ~listener.failed /\ provisioned
       THEN wire' = wire \cup {ddl'} /\ heard' = heard \cup {ddl'}
       ELSE UNCHANGED <<wire, heard>>
  /\ UNCHANGED <<connected, indexVars, requests, faults, settingVars, listener, debt, ops, refreshes, reconnect, sync>>

-----------------------------------------------------------------------------
(* Notifications *)

Arriving == CHOOSE d \in wire : \A e \in wire : d <= e

\* onNotification
Notified ==
  /\ listener.phase = "published" /\ wire # {}
  /\ wire' = wire \ {Arriving}
  /\ listener' = [listener EXCEPT !.notes = @ \cup {Arriving}, !.timer = TRUE]
  /\ MarkStale
  /\ UNCHANGED <<ddl, connected, session, content, registry, runs, answer, requests, faults,
                 settingVars, heard, debt, ops, refreshes, reconnect, sync>>

\* An unusable notification is owed.
Rejected ==
  /\ listener.phase = "published" /\ wire # {}
  /\ Fault /\ UNCHANGED requests
  /\ wire' = wire \ {Arriving}
  /\ Owe /\ refreshes' = NotPaying(refreshes)
  /\ MarkStale
  /\ sync' = "desynchronized"
  /\ UNCHANGED <<ddl, connected, session, content, registry, runs, answer,
                 settingVars, listener, heard, ops, reconnect>>

\* The flush refreshes one transaction after the other, in the order they were heard.
FlushNext(groups, notes, timer, chain) ==
  IF groups = {}
    THEN /\ listener' = [listener EXCEPT !.flushing = FALSE, !.groups = {}, !.timer = timer]
         /\ refreshes' = chain
    ELSE LET d == CHOOSE d \in groups : \A e \in groups : d <= e
         IN /\ listener' = [listener EXCEPT !.flushing = TRUE, !.groups = groups \ {d},
                                            !.notes = notes, !.timer = timer]
            /\ \E fallback \in BOOLEAN : refreshes' = Append(chain, NewRefresh("flush", fallback, {d}))

\* flushNotifications
FlushTimer ==
  /\ listener.timer
  /\ IF listener.flushing
       THEN listener' = [listener EXCEPT !.timer = FALSE] /\ UNCHANGED refreshes
       ELSE FlushNext(listener.notes, {}, FALSE, refreshes)
  /\ UNCHANGED <<ddl, connected, indexVars, requests, faults, settingVars, wire, heard, debt, ops, reconnect, sync>>

-----------------------------------------------------------------------------
(* Refreshes *)

\* refreshActive: the debt is read first, then the client of the refresh connects, unless the
\* Connection has been removed.
RefreshStarts ==
  /\ RefreshAt("queued")
  /\ refreshes' = [refreshes EXCEPT ![1].at = IF saved THEN "connecting" ELSE "ending",
                                    ![1].debt = debt, ![1].full = @ \/ debt]
  /\ UNCHANGED <<ddl, connected, indexVars, requests, faults, settingVars, listener, wire, heard, debt, ops, reconnect, sync>>

RefreshConnected ==
  /\ RefreshAt("connecting")
  /\ refreshes' = [refreshes EXCEPT ![1].at = "indexing"]
  /\ runs' = Append(runs, NewRun("ddl", refreshes[1].full, refreshes[1].objects))
  /\ UNCHANGED <<ddl, connected, session, content, registry, stale, status, answer, requests, faults,
                 settingVars, listener, wire, heard, debt, ops, reconnect, sync>>

\* Whoever waits for the refresh goes on.
FlushGoesOn(ok, chain) ==
  IF ok
    THEN /\ IF listener.groups # {} THEN FlushNext(listener.groups, listener.notes, listener.timer, chain)
                                    ELSE FlushNext(listener.notes, {}, listener.timer, chain)
         /\ UNCHANGED <<wire, debt, ops>>
    ELSE ListenerClosed(ops, chain)

StartGoesOn(ok, chain) ==
  IF ok /\ ~listener.failed
    THEN /\ listener' = [listener EXCEPT !.phase = "published"]
         /\ refreshes' = chain /\ OpEnds
         /\ UNCHANGED <<wire, debt>>
    ELSE ListenerClosed(Tail(ops), chain)

ReconcileGoesOn(ok, chain) ==
  IF ok \/ ~Listed
    THEN refreshes' = chain /\ OpEnds /\ UNCHANGED <<listener, wire, debt>>
    ELSE ListenerClosed(Tail(ops), chain)

GoOn(ok) ==
  LET chain == Tail(refreshes) IN
  \/ refreshes[1].from = "flush" /\ FlushGoesOn(ok, chain)
  \/ refreshes[1].from = "start" /\ StartGoesOn(ok, chain)
  \/ refreshes[1].from = "reconcile" /\ ReconcileGoesOn(ok, chain)
  \/ refreshes[1].from = "orphan" /\ refreshes' = chain /\ UNCHANGED <<listener, wire, debt, ops>>

RefreshConnectFails ==
  /\ RefreshAt("connecting")
  /\ Fault /\ UNCHANGED requests
  /\ GoOn(FALSE)
  /\ UNCHANGED <<ddl, connected, indexVars, settingVars, heard, reconnect, sync>>

\* Only the debt it started with is paid.
PaidWhatever == answer = "ok"
Paid == answer = "ok" /\ refreshes[1].debt

RefreshAnswered ==
  /\ RefreshAt("indexing") /\ answer # "none"
  /\ answer' = "none"
  /\ refreshes' = [refreshes EXCEPT ![1].at = "ending", ![1].ok = (answer = "ok")]
  /\ debt' = (debt /\ ~Paid)
  /\ IF answer = "ok" /\ debt' THEN MarkStale ELSE UNCHANGED <<stale, status>>
  /\ sync' = IF answer = "ok" /\ Listed THEN (IF debt' THEN "desynchronized" ELSE "listening") ELSE sync
  /\ UNCHANGED <<ddl, connected, session, content, registry, runs, requests, faults,
                 settingVars, listener, wire, heard, ops, reconnect>>

RefreshEnds ==
  /\ RefreshAt("ending")
  /\ GoOn(refreshes[1].ok)
  /\ UNCHANGED <<ddl, connected, indexVars, requests, faults, settingVars, heard, reconnect, sync>>

-----------------------------------------------------------------------------
(* The lifecycle of the listener *)

\* stopListenerNow: the operation waits for the client to end, if there is one.
Stop(owing, waiting, next) ==
  /\ reconnect' = FALSE
  /\ debt' = (debt \/ owing)
  /\ refreshes' = Orphaned(IF owing THEN NotPaying(refreshes) ELSE refreshes)
  /\ IF Listed THEN Forget /\ OpGoes(waiting) ELSE UNCHANGED <<listener, wire>> /\ OpGoes(next)

\* A Connection is required, and one that is enabled to provision its database.
Refused == Op.op \in Commands /\ (~saved \/ (Op.op = "provision" /\ ~enabled))

OpStarts ==
  /\ OpAt("queued")
  /\ \/ /\ Op.op \in {"reconcile", "restart"}
        /\ IF Current THEN OpGoes("reconcile") ELSE OpEnds
        /\ UNCHANGED <<listener, wire, debt, refreshes, reconnect>>
     \/ /\ Op.op = "closed" /\ OpGoes("ending")
        /\ UNCHANGED <<listener, wire, debt, refreshes, reconnect>>
     \/ Op.op = "dispose" /\ Stop(FALSE, "leaving", "leaving")
     \/ saved /\ Op.op = "disable" /\ Stop(TRUE, "stopping", "persisting")
     \/ /\ saved /\ Op.op = "enable" /\ OpGoes("persisting")
        /\ IF enabled THEN UNCHANGED <<debt, refreshes>> ELSE Owe /\ refreshes' = NotPaying(refreshes)
        /\ UNCHANGED <<listener, wire, reconnect>>
     \/ saved /\ Op.op = "provision" /\ enabled /\ Stop(TRUE, "stopping", "dialing")
     \/ saved /\ Op.op = "unprovision" /\ Stop(TRUE, "stopping", "dialing")
     \/ Refused /\ OpEnds /\ UNCHANGED <<listener, wire, debt, refreshes, reconnect>>
  /\ stranded' = (stranded \/ Refused)
  /\ UNCHANGED <<ddl, connected, indexVars, requests, faults, saved, enabled, provisioned, disposed, heard, sync>>

ListenerEnded ==
  /\ \/ OpAt("stopping") /\ OpGoes(IF Op.op = "disable" THEN "persisting" ELSE "dialing")
     \/ OpAt("halting") /\ OpGoes("configured")
     \/ OpAt("removing") /\ OpGoes("settling")
  /\ UNCHANGED <<ddl, connected, indexVars, requests, faults, settingVars, listener, wire, heard, debt,
                 refreshes, reconnect, sync>>

\* reconcileConnection by an operation of another kind, with the epoch of whoever came last.
ReconcilesWith(chain) == [chain EXCEPT ![1] = [Op EXCEPT !.at = "reconcile", !.current = TRUE]]

\* The setting is saved and announced, as any change of the Connection is.
Persisted ==
  /\ OpAt("persisting")
  /\ saved
  /\ enabled' = (Op.op = "enable")
  /\ IF disposed
       THEN UNCHANGED indexVars /\ ops' = ReconcilesWith(ops)
       ELSE Observe(connected, FALSE) /\ ops' = ReconcilesWith(Superseding("reconcile", ops))
  /\ UNCHANGED <<ddl, connected, requests, faults, saved, provisioned, disposed, stranded, listener, wire,
                 heard, debt, refreshes, reconnect, sync>>

\* The command is over: what it stopped stays stopped, what it superseded is not done.
LeavesStopped == stranded' = TRUE

\* The store rejects the setting, or the Connection has been removed.
PersistFails ==
  /\ OpAt("persisting")
  /\ UNCHANGED requests
  /\ (~saved /\ UNCHANGED faults) \/ (saved /\ Fault)
  /\ LeavesStopped
  /\ OpEnds
  /\ UNCHANGED <<ddl, connected, indexVars, saved, enabled, provisioned, disposed, listener, wire, heard,
                 debt, refreshes, reconnect, sync>>

-----------------------------------------------------------------------------
(* provision and removeProvisioning, once the listener has ended *)

\* A client of its own connects, also for a Connection that is removed just now.
AdminConnects ==
  /\ OpAt("dialing")
  /\ OpGoes("executing")
  /\ UNCHANGED <<ddl, connected, indexVars, requests, faults, settingVars, listener, wire, heard, debt,
                 refreshes, reconnect, sync>>

\* Its failure is the caller's: the state and the index are left as they were.
AdminConnectFails ==
  /\ OpAt("dialing")
  /\ UNCHANGED requests
  /\ (~saved /\ UNCHANGED faults) \/ Fault
  /\ LeavesStopped
  /\ OpEnds
  /\ UNCHANGED <<ddl, connected, indexVars, saved, enabled, provisioned, disposed, listener, wire, heard,
                 debt, refreshes, reconnect, sync>>

ScriptRuns ==
  /\ OpAt("executing")
  /\ provisioned' = (Op.op = "provision")
  /\ IF provisioned'
       THEN OpGoes("provisioned") /\ UNCHANGED <<stale, status, sync>>
       ELSE /\ OpGoes("leaving")
            /\ MarkStale
            /\ sync' = IF enabled THEN "provisioning-required" ELSE "disabled"
  /\ UNCHANGED <<ddl, connected, session, content, registry, runs, answer, requests, faults, saved, enabled,
                 disposed, stranded, listener, wire, heard, debt, refreshes, reconnect>>

\* The script fails, or its answer is lost: it may have been executed.
ScriptFails ==
  /\ OpAt("executing")
  /\ Fault /\ UNCHANGED requests
  /\ provisioned' \in {provisioned, Op.op = "provision"}
  /\ IF Op.op = "unprovision" THEN MarkStale ELSE UNCHANGED <<stale, status>>
  /\ sync' \in {"unavailable", "insufficient-privilege"}
  /\ LeavesStopped
  /\ OpGoes("leaving")
  /\ UNCHANGED <<ddl, connected, session, content, registry, runs, answer, saved, enabled, disposed,
                 listener, wire, heard, debt, refreshes, reconnect>>

\* The client of the command, or the listener of a window that closes, has ended.
CommandLeaves ==
  /\ \/ OpAt("leaving") /\ OpEnds /\ UNCHANGED sync
     \/ OpAt("provisioned") /\ ops' = ReconcilesWith(ops) /\ sync' = "unknown"
  /\ UNCHANGED <<ddl, connected, indexVars, requests, faults, settingVars, listener, wire, heard, debt,
                 refreshes, reconnect>>

-----------------------------------------------------------------------------
(* reconcileConnection *)

\* The Connection was removed: the listener stops without a debt, for its index is stale from here on.
StopRemoved ==
  /\ Stop(FALSE, "removing", "settling")
  /\ heard' = {}
  /\ MarkStale \/ (sync = "unknown" /\ UNCHANGED <<stale, status>>)  \* its database may not be known yet
  /\ UNCHANGED stranded

StopUnwanted ==
  /\ Stop(Op.op = "restart" \/ Listed, "halting", "configured")
  /\ stranded' = FALSE
  /\ UNCHANGED <<heard, stale, status>>

Reconcile ==
  /\ OpAt("reconcile")
  /\ \/ Current /\ ~saved /\ StopRemoved
     \/ Current /\ saved /\ (~enabled \/ Op.op = "restart") /\ StopUnwanted
     \/ /\ Current /\ saved /\ enabled /\ Op.op # "restart"
        /\ OpGoes("establish")
        /\ stranded' = FALSE
        /\ UNCHANGED <<listener, wire, debt, refreshes, reconnect, heard, stale, status>>
     \/ /\ ~Current /\ OpEnds
        /\ UNCHANGED <<stranded, listener, wire, debt, refreshes, reconnect, heard, stale, status>>
  /\ UNCHANGED <<ddl, connected, session, content, registry, runs, answer, requests, faults, saved, enabled,
                 provisioned, disposed, sync>>

\* waitForRefreshIdle, clearRemovedConnectionState
RefreshesIdle ==
  /\ OpAt("settling") /\ refreshes = <<>>
  /\ OpEnds
  /\ IF Current /\ ~saved THEN debt' = FALSE /\ sync' = "unknown" ELSE UNCHANGED <<debt, sync>>
  /\ UNCHANGED <<ddl, connected, indexVars, requests, faults, settingVars, listener, wire, heard,
                 refreshes, reconnect>>

Configured ==
  /\ OpAt("configured")
  /\ IF Current /\ saved /\ enabled THEN OpGoes("establish") ELSE OpEnds
  /\ sync' = IF Current /\ saved /\ ~enabled THEN "disabled" ELSE sync
  /\ UNCHANGED <<ddl, connected, indexVars, requests, faults, settingVars, listener, wire, heard, debt,
                 refreshes, reconnect>>

Establish ==
  /\ OpAt("establish")
  /\ \/ /\ ~Listed /\ ~reconnect /\ sync # "provisioning-required"
        /\ listener' = [NoListener EXCEPT !.phase = "connecting"]
        /\ OpGoes("starting") /\ UNCHANGED refreshes
     \/ /\ ~Listed /\ (reconnect \/ sync = "provisioning-required")
        /\ OpEnds /\ UNCHANGED <<listener, refreshes>>
     \/ /\ Listed /\ stale /\ refreshes = <<>>
        /\ refreshes' = <<NewRefresh("reconcile", TRUE, {})>>
        /\ OpGoes("refreshing") /\ UNCHANGED listener
     \/ /\ Listed /\ ~(stale /\ refreshes = <<>>)
        /\ OpEnds /\ UNCHANGED <<listener, refreshes>>
  /\ UNCHANGED <<ddl, connected, indexVars, requests, faults, settingVars, wire, heard, debt, reconnect, sync>>

\* startStillRequired
Required == Current /\ saved /\ enabled

\* startConnectionOnce: the client connects, then the provisioning is read.
ListenerAnswers ==
  /\ OpAt("starting") /\ listener.phase \in {"connecting", "checking"}
  /\ ~listener.failed
  /\ listener.phase = "connecting" \/ provisioned \/ ~Required
  /\ IF Required
       THEN /\ listener' = [listener EXCEPT !.phase = IF @ = "connecting" THEN "checking" ELSE "listening"]
            /\ UNCHANGED ops
       ELSE listener' = NoListener /\ OpEnds
  /\ UNCHANGED <<ddl, connected, indexVars, requests, faults, settingVars, wire, heard, debt,
                 refreshes, reconnect, sync>>

\* LISTEN has been executed: from here on every DDL is heard.
Listens ==
  /\ OpAt("starting") /\ listener.phase = "listening" /\ ~listener.failed
  /\ IF ~Required
       THEN listener' = NoListener /\ OpEnds /\ UNCHANGED <<refreshes, stale, status, sync>>
       ELSE IF debt \/ stale
         THEN /\ listener' = [listener EXCEPT !.phase = "restoring"]
              /\ MarkStale /\ sync' = "desynchronized"
              /\ refreshes' = Append(refreshes, NewRefresh("start", TRUE, {}))
              /\ OpGoes("refreshing")
         ELSE /\ listener' = [listener EXCEPT !.phase = "published"]
              /\ sync' = "listening"
              /\ OpEnds /\ UNCHANGED <<refreshes, stale, status>>
  /\ UNCHANGED <<ddl, connected, session, content, registry, runs, answer, requests, faults,
                 settingVars, wire, heard, debt, reconnect>>

\* A database that is not provisioned leaves a debt.
NotProvisioned ==
  /\ OpAt("starting") /\ listener.phase = "checking" /\ ~listener.failed
  /\ ~provisioned /\ Required
  /\ listener' = NoListener /\ OpEnds
  /\ Owe /\ refreshes' = NotPaying(refreshes)
  /\ MarkStale
  /\ sync' = "provisioning-required"
  /\ UNCHANGED <<ddl, connected, session, content, registry, runs, answer, requests, faults, settingVars,
                 wire, heard, reconnect>>

\* So does a start that fails.
StartFails ==
  /\ OpAt("starting")
  /\ UNCHANGED requests
  /\ \/ listener.failed /\ UNCHANGED faults
     \/ ~listener.failed /\ Fault
  /\ listener' = NoListener /\ OpEnds
  /\ IF Required
       THEN /\ Owe /\ refreshes' = NotPaying(refreshes)
            /\ MarkStale
            /\ \/ sync' = "unavailable" /\ ScheduleReconnect
               \/ sync' = "insufficient-privilege" /\ UNCHANGED reconnect
       ELSE UNCHANGED <<debt, refreshes, stale, status, sync, reconnect>>
  /\ UNCHANGED <<ddl, connected, session, content, registry, runs, answer, settingVars, wire, heard>>

\* The client of the listener fails or ends.
ListenerLost ==
  /\ listener.phase \in {"checking", "listening", "restoring", "published"} /\ ~listener.failed
  /\ Fault /\ UNCHANGED requests
  /\ IF listener.phase = "published"
       THEN ListenerClosed(ops, refreshes)
       ELSE listener' = [listener EXCEPT !.failed = TRUE] /\ UNCHANGED <<wire, debt, refreshes, ops>>
  /\ UNCHANGED <<ddl, connected, indexVars, settingVars, heard, reconnect, sync>>

\* What onListenerClosed queued, once the client has ended.
ClosedListenerEnded ==
  /\ OpAt("ending")
  /\ OpEnds
  /\ IF Required THEN MarkStale /\ ScheduleReconnect ELSE UNCHANGED <<stale, status, reconnect>>
  /\ sync' = IF ~Current \/ ~saved THEN sync ELSE IF enabled THEN "desynchronized" ELSE "disabled"
  /\ UNCHANGED <<ddl, connected, session, content, registry, runs, answer, requests, faults,
                 settingVars, listener, wire, heard, debt, refreshes>>

ReconnectTimer ==
  /\ reconnect
  /\ reconnect' = FALSE
  /\ ops' = Superseding("reconcile", ops)
  /\ UNCHANGED <<ddl, connected, indexVars, requests, faults, settingVars, listener, wire, heard, debt, refreshes, sync>>

-----------------------------------------------------------------------------
Callbacks == \/ StartRun /\ UNCHANGED syncVars
             \/ RefreshStarts \/ RefreshAnswered
             \/ OpStarts \/ Reconcile \/ RefreshesIdle \/ Configured \/ Establish

IndexAnswers == ~Pending /\ RunAnswers /\ UNCHANGED syncVars
RefreshSteps == ~Pending /\ (RefreshConnected \/ RefreshConnectFails \/ RefreshEnds)
LifecycleSteps ==
  /\ ~Pending
  /\ \/ ListenerEnded \/ Persisted \/ PersistFails
     \/ AdminConnects \/ AdminConnectFails \/ ScriptRuns \/ ScriptFails \/ CommandLeaves
     \/ ListenerAnswers \/ NotProvisioned \/ Listens \/ StartFails \/ ClosedListenerEnded
Timers == ~Pending /\ (FlushTimer \/ ReconnectTimer)
Notifications == ~Pending /\ (Notified \/ Rejected)

Environment ==
  /\ ~Pending /\ ~disposed
  /\ \/ Connect \/ Disconnect \/ RemoveConnection \/ AddConnection
     \/ (\E op \in Commands : Command(op)) \/ RestartAll \/ Dispose
     \/ RefreshDatabase \/ UserIndexes
     \/ CommitDdl \/ ListenerLost
     \/ SessionCloses /\ UNCHANGED syncVars

Next == \/ Callbacks \/ IndexAnswers \/ RefreshSteps \/ LifecycleSteps \/ Timers \/ Notifications
        \/ Environment

Spec == Init /\ [][Next]_vars

\* PostgreSQL, the engine and timers answer; the faults are bounded.
FairSpec ==
  /\ Spec
  /\ WF_vars(Callbacks) /\ WF_vars(IndexAnswers) /\ WF_vars(RefreshSteps)
  /\ WF_vars(LifecycleSteps) /\ WF_vars(Timers) /\ WF_vars(Notifications)

-----------------------------------------------------------------------------
(* Properties *)

\* Whatever an older run reads or restores, the engine holds the sources of the registry the views
\* read, unless it left a replacement unanswered (publishAndReadCatalog, restorePublishedSnapshot).
EngineHoldsRegistry ==
  registry = None \/ content \in {registry, Unknown} \/ At("symbols") \/ At("restoring")

\* A registry never loses a DDL transaction the one before it reflected: no older catalog, and no
\* incremental update of one, overwrites a newer (enqueueScopeRun, the refresh epochs).
SnapshotsGrow == [][registry = None \/ registry' = None \/ registry \subseteq registry']_vars

\* Every DDL a listener was notified of is in the registry, or on its way there, or owed as a
\* complete refresh, through lost and stopped listeners, rejected notifications, failed and
\* superseded refreshes (requireFullRefresh and the debt a refresh pays).
NothingForgotten ==
  \A d \in heard :
    \/ disposed
    \/ registry = None \/ d \in registry
    \/ debt
    \/ d \in wire \cup listener.notes \cup listener.groups
    \/ \E i \in 1..Len(refreshes) : d \in refreshes[i].objects /\ ~refreshes[i].ok

\* The saved setting prevails, unless a command failed and nothing was reconciled since: an enabled
\* listener comes back and the index reflects all it heard, or the database refuses it; a disabled one
\* is gone.  So is that of a removed Connection or of a window that closed, whatever failed
\* (enqueueLifecycle, lifecycle epochs, clearRemovedConnectionState, dispose).
Back ==
  \/ sync \in {"provisioning-required", "insufficient-privilege"}
  \/ Listed /\ \/ registry = None \/ heard \subseteq registry
               \/ sync = "desynchronized"  \* an unusable notification: owed until the next one
Gone == listener = NoListener /\ ~reconnect

IntentPrevails ==
  []<>(IF saved /\ ~disposed THEN stranded \/ (IF enabled THEN Back ELSE Gone) ELSE Gone)

\* vscode-extension/README.md:203-206: "If notifications may have been missed, the index is marked
\* desynchronized and a complete catalog refresh is required before it is presented as fresh again."
\* Listening, with nothing left to do, an index that is not stale reflects every DDL.
Resting == ~Pending /\ runs = <<>> /\ refreshes = <<>> /\ ops = <<>> /\ wire = {} /\ ~listener.timer
ListeningIsFresh ==
  sync = "listening" /\ Resting /\ registry # None /\ ~stale => registry = 1..ddl
=============================================================================
