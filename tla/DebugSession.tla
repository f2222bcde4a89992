---------------------------- MODULE DebugSession ----------------------------
(***************************************************************************)
(* One launch of the PL/pgSQL debug adapter (packages/dap/src/debugger):   *)
(* the DAP handlers of PlpgsqlDebugSession, its lifecycle, the two         *)
(* PostgreSQL connections it owns, and the process that serves it.         *)
(*                                                                         *)
(* The listener connection runs the commands of pldbgapi: waiting for the  *)
(* target and stepping block it until the target stops.  The target        *)
(* connection runs the user's SQL.  Every handler is a sequence of         *)
(* sections between two awaits; one section is one action.  What           *)
(* PostgreSQL does with the two backends, and the client, are external.    *)
(***************************************************************************)
EXTENDS Integers, FiniteSets

CONSTANTS
  Requests,   \* the client's continue, next, stepIn and stepOut requests
  MaxStops,   \* bound: how often the target stops again after its entry
  MaxSets,    \* bound: setBreakpoints requests of one source
  MaxFaults   \* bound: connections lost or refused, answers that are errors

ASSUME DebugAssumption ==
  /\ MaxStops \in Nat /\ MaxSets \in Nat /\ MaxFaults \in Nat
  /\ "config" \notin Requests

VARIABLES
  life,        \* DebugSessionLifecycle.current
  shown,       \* the last status event the client has
  announced,   \* terminatedEventSent
  launch,      \* launchRequest and prepareDebugLaunch
  ready,       \* what follows startDebugTarget's promise ready
  targetReady, \* the promise targetReady is resolved
  config,      \* configurationDoneRequest
  stepping,    \* safeStep, on behalf of configurationDone or of a request
  released,    \* entryBreakpointReleased
  cleanup,     \* cleanupResources
  ending,      \* what terminateSession was asked, and what cleanup captured
  holds,       \* the fields listenerExecutor and targetClient that are set
  listener,    \* the backend of the listener connection, and what it runs
  target,      \* the backend of the target connection, and the user's SQL
  cut,         \* connections whose socket this process has closed
  process,     \* the adapter's process
  sets,        \* setBreakpoints requests: asked, pending, active, jobs, refused
  stops, faults

adapterVars == <<life, shown, announced, launch, ready, targetReady, config, stepping, released,
                 cleanup, ending, holds>>
backendVars == <<listener, target, cut>>
vars == <<adapterVars, backendVars, process, sets, stops, faults>>

Handlers == Requests \cup {"config"}
Ended == {"terminating", "terminated", "failed"}
LifeStates == {"idle", "preparing", "waitingForTarget", "suspended", "resuming"} \cup Ended

DebugTypeOK ==
  /\ life \in LifeStates /\ shown \in LifeStates
  /\ life \in Ended <=> cleanup # "none"
  /\ announced \in BOOLEAN /\ targetReady \in BOOLEAN /\ released \in BOOLEAN
  /\ launch \in {"none", "listener", "arming", "target", "unwinding", "failing", "over"}
  /\ ready \in {"none", "pending", "position", "failing", "over"}
  /\ config \in {"none", "awaiting", "replaying", "releasing", "over", "broken"}
  /\ stepping \in [Handlers -> {"none", "releasing", "stepping", "inspecting"}]
  /\ cleanup \in {"none", "killing", "aborting", "draining", "closing", "over"}
  /\ ending \in [failed : BOOLEAN, emit : BOOLEAN, captured : SUBSET {"listener", "target"}]
  /\ holds \subseteq {"listener", "target"} /\ cut \subseteq {"listener", "target"}
  /\ listener \in {"none", "connecting", "idle", "waiting", "stepping", "gone"}
  /\ target \in {"none", "connecting", "idle", "running", "stopped", "gone"}
  /\ process \in [asked : BOOLEAN, exited : BOOLEAN, hurried : BOOLEAN, killFailed : BOOLEAN]
  /\ sets \in [asked : 0..MaxSets, pending : 0..MaxSets, active : 0..MaxSets,
               jobs : SUBSET (1..MaxSets), refused : SUBSET (1..MaxSets)]
  /\ stops \in 0..MaxStops /\ faults \in 0..MaxFaults

Init ==
  /\ life = "idle" /\ shown = "idle" /\ announced = FALSE
  /\ launch = "none" /\ ready = "none" /\ targetReady = FALSE /\ config = "none"
  /\ stepping = [h \in Handlers |-> "none"] /\ released = FALSE
  /\ cleanup = "none" /\ ending = [failed |-> FALSE, emit |-> FALSE, captured |-> {}]
  /\ holds = {} /\ listener = "none" /\ target = "none" /\ cut = {}
  /\ process = [asked |-> FALSE, exited |-> FALSE, hurried |-> FALSE, killFailed |-> FALSE]
  /\ sets = [asked |-> 0, pending |-> 0, active |-> 0, jobs |-> {}, refused |-> {}]
  /\ stops = 0 /\ faults = 0

-----------------------------------------------------------------------------
(* Connections *)

Fault == faults < MaxFaults /\ faults' = faults + 1
Alive == ~process.exited
Busy(backend) == backend \in {"waiting", "stepping"}

\* An answer of the listener: its backend is there and runs nothing that blocks it.
Answers == listener = "idle" /\ "listener" \notin cut
Unanswerable == listener = "gone" \/ "listener" \in cut

\* end() and the exit of the process close sockets; a backend at work notices when it is done.
Closed(backend) == IF backend \in {"connecting", "idle"} THEN "gone" ELSE backend

\* A stopped target goes on by itself when the backend of its listener is gone.
Freed(l, t) == IF l = "gone" /\ t = "stopped" THEN "running" ELSE t

Close(conns) ==
  /\ cut' = cut \cup conns
  /\ listener' = IF "listener" \in conns THEN Closed(listener) ELSE listener
  /\ target' = Freed(listener', IF "target" \in conns THEN Closed(target) ELSE target)

-----------------------------------------------------------------------------
(* terminateSession, as far as its first await; whoever calls it again awaits the same promise. *)

TerminateUnasked(failed, emit) ==
  IF life \in Ended
    THEN UNCHANGED <<life, shown, ending, holds, cleanup>>
    ELSE /\ life' = "terminating" /\ shown' = "terminating"
         /\ ending' = [failed |-> failed, emit |-> emit, captured |-> holds]
         /\ holds' = {}
         /\ cleanup' = IF "listener" \notin holds THEN "draining" ELSE "aborting"

Terminate(failed, emit) ==
  IF life \in Ended
    THEN UNCHANGED <<life, shown, ending, holds, cleanup>>
    ELSE /\ life' = "terminating" /\ shown' = "terminating"
         /\ ending' = [failed |-> failed, emit |-> emit, captured |-> holds]
         /\ holds' = {}
         /\ cleanup' = IF "listener" \notin holds THEN "draining"
                       ELSE IF Busy(listener') THEN "killing" ELSE "aborting"

-----------------------------------------------------------------------------
(* launchRequest, prepareDebugLaunch, startPreparedTarget *)

Launch ==
  /\ Alive /\ life = "idle"
  /\ life' = "preparing" /\ shown' = "preparing"
  /\ launch' = "listener" /\ listener' = "connecting"
  /\ UNCHANGED <<announced, ready, targetReady, config, stepping, released, cleanup, ending, holds,
                 target, cut, process, sets, stops, faults>>

\* listenerReady
ListenerConnects ==
  /\ Alive /\ launch = "listener"
  /\ listener' = "idle" /\ holds' = holds \cup {"listener"} /\ launch' = "arming"
  /\ UNCHANGED <<life, shown, announced, ready, targetReady, config, stepping, released, cleanup,
                 ending, target, cut, process, sets, stops, faults>>

ListenerRefused ==
  /\ Alive /\ launch = "listener"
  /\ Fault
  /\ listener' = "gone" /\ launch' = "unwinding"
  /\ UNCHANGED <<life, shown, announced, ready, targetReady, config, stepping, released, cleanup,
                 ending, holds, target, cut, process, sets, stops>>

\* checkDebugger, createListener, the entry resolved and its global breakpoint set; targetClientReady
Armed ==
  /\ Alive /\ launch = "arming" /\ Answers
  /\ target' = "connecting" /\ holds' = holds \cup {"target"} /\ launch' = "target"
  /\ UNCHANGED <<life, shown, announced, ready, targetReady, config, stepping, released, cleanup,
                 ending, listener, cut, process, sets, stops, faults>>

ArmingFails ==
  /\ Alive /\ launch = "arming"
  /\ \/ Unanswerable /\ UNCHANGED faults
     \/ Answers /\ Fault
  /\ launch' = "unwinding"
  /\ UNCHANGED <<life, shown, announced, ready, targetReady, config, stepping, released, cleanup,
                 ending, holds, backendVars, process, sets, stops>>

\* The target runs and the listener waits for it, unless the session was ended meanwhile:
\* then the transition throws, and nobody closes the two connections.
TargetConnects ==
  /\ Alive /\ launch = "target" /\ target = "connecting"
  /\ IF life = "preparing"
       THEN /\ life' = "waitingForTarget" /\ shown' = "waitingForTarget"
            /\ ready' = "pending" /\ launch' = "over" /\ target' = "running"
            /\ listener' = IF listener = "idle" THEN "waiting" ELSE listener
       ELSE /\ launch' = "failing" /\ target' = "idle"
            /\ UNCHANGED <<life, shown, ready, listener>>
  /\ UNCHANGED <<announced, targetReady, config, stepping, released, cleanup, ending, holds, cut,
                 process, sets, stops, faults>>

TargetRefused ==
  /\ Alive /\ launch = "target"
  /\ \/ target = "gone" /\ UNCHANGED faults
     \/ target = "connecting" /\ Fault
  /\ launch' = "unwinding" /\ target' = "gone"
  /\ UNCHANGED <<life, shown, announced, ready, targetReady, config, stepping, released, cleanup,
                 ending, holds, listener, cut, process, sets, stops>>

\* prepareDebugLaunch ends what it opened and rethrows to launchRequest.
Unwound ==
  /\ Alive /\ launch = "unwinding"
  /\ Close({"listener", "target"})
  /\ Terminate(TRUE, FALSE)
  /\ launch' = "failing"
  /\ UNCHANGED <<announced, ready, targetReady, config, stepping, released, process, sets, stops,
                 faults>>

LaunchFails ==
  /\ Alive /\ launch = "failing" /\ cleanup = "over"
  /\ launch' = "over" /\ announced' = TRUE
  /\ UNCHANGED <<life, shown, ready, targetReady, config, stepping, released, cleanup, ending, holds,
                 backendVars, process, sets, stops, faults>>

-----------------------------------------------------------------------------
(* The promise ready of startDebugTarget *)

\* waitForTarget answers; before or after somebody still waits for it.
TargetReaches ==
  /\ listener = "waiting" /\ target = "running"
  /\ IF "listener" \in cut
       THEN listener' = "gone" /\ UNCHANGED <<target, adapterVars>>
       ELSE /\ listener' = "idle" /\ target' = "stopped"
            /\ IF ready = "pending"
                 THEN IF life = "waitingForTarget"
                        THEN life' = "suspended" /\ ready' = "position" /\ UNCHANGED targetReady
                        ELSE targetReady' = TRUE /\ ready' = "over" /\ UNCHANGED life
                 ELSE UNCHANGED <<life, ready, targetReady>>
            /\ UNCHANGED <<shown, announced, launch, config, stepping, released, cleanup, ending, holds>>
  /\ UNCHANGED <<cut, process, sets, stops, faults>>

\* The position of the stop and its source are read; failures leave them undefined.
EntryRead ==
  /\ Alive /\ ready = "position" /\ (Answers \/ Unanswerable)
  /\ ready' = "over" /\ targetReady' = TRUE
  /\ UNCHANGED <<life, shown, announced, launch, config, stepping, released, cleanup, ending, holds,
                 backendVars, process, sets, stops, faults>>

NotReady ==
  /\ ready = "pending"
  /\ ready' = "failing"
  /\ Terminate(TRUE, TRUE)

AttachTimesOut ==
  /\ Alive /\ UNCHANGED backendVars
  /\ NotReady
  /\ UNCHANGED <<announced, launch, targetReady, config, stepping, released, process, sets, stops,
                 faults>>

WaitFails ==  \* the listener's backend is gone
  /\ Alive /\ listener = "gone" /\ UNCHANGED backendVars
  /\ NotReady
  /\ UNCHANGED <<announced, launch, targetReady, config, stepping, released, process, sets, stops,
                 faults>>

ReadyFailed ==
  /\ Alive /\ ready = "failing" /\ cleanup = "over"
  /\ ready' = "over" /\ targetReady' = TRUE
  /\ UNCHANGED <<life, shown, announced, launch, config, stepping, released, cleanup, ending, holds,
                 backendVars, process, sets, stops, faults>>

-----------------------------------------------------------------------------
(* Execution *)

ShowStopAnyway == life' = "suspended" /\ shown' = "suspended"

\* sendStoppedAndReset
ShowStop ==
  /\ life' = IF life = "resuming" THEN "suspended" ELSE life
  /\ shown' = "suspended"

\* runStepCommand: the command is sent; on a connection that is gone it answers null.
Step(h) ==
  /\ stepping' = [stepping EXCEPT ![h] = "stepping"]
  /\ IF Answers THEN listener' = "stepping" /\ target' = (IF target = "stopped" THEN "running" ELSE target)
                ELSE UNCHANGED <<listener, target>>
  /\ UNCHANGED cut

\* configurationDoneRequest answers at once and awaits targetReady.
ConfigurationDone ==
  /\ Alive /\ config = "none" /\ launch # "none"
  /\ config' = "awaiting"
  /\ UNCHANGED <<life, shown, announced, launch, ready, targetReady, stepping, released, cleanup,
                 ending, holds, backendVars, process, sets, stops, faults>>

\* What configurationDone does once no breakpoint is left to replay.
StopOnEntry == config' = "over" /\ ShowStop
ReleaseEntry == config' = "releasing" /\ UNCHANGED <<life, shown>>

ConfigSkipsReplay ==
  /\ Alive /\ config = "awaiting" /\ targetReady
  /\ \/ "listener" \notin holds /\ config' = "over" /\ UNCHANGED <<life, shown>>
     \/ "listener" \in holds /\ (StopOnEntry \/ ReleaseEntry)
  /\ UNCHANGED <<announced, launch, ready, targetReady, stepping, released, cleanup, ending, holds,
                 backendVars, process, sets, stops, faults>>

ConfigGoesOn ==
  /\ Alive /\ config = "awaiting" /\ targetReady
  /\ \/ "listener" \notin holds /\ config' = "over" /\ UNCHANGED <<life, shown>>
     \/ "listener" \in holds /\ sets.pending # 0 /\ config' = "replaying" /\ UNCHANGED <<life, shown>>
     \/ "listener" \in holds /\ sets.pending = 0 /\ (StopOnEntry \/ ReleaseEntry)
  /\ UNCHANGED <<announced, launch, ready, targetReady, stepping, released, cleanup, ending, holds,
                 backendVars, process, sets, stops, faults>>

\* replayPendingBreakpoints: what fails stays pending.
Replayed ==
  /\ Alive /\ config = "replaying"
  /\ \/ /\ Answers /\ "listener" \in holds /\ UNCHANGED faults
        /\ sets' = [sets EXCEPT !.active = sets.pending, !.pending = 0]
     \/ /\ \/ (Unanswerable \/ "listener" \notin holds) /\ UNCHANGED faults
           \/ Answers /\ "listener" \in holds /\ Fault
        /\ sets' = [sets EXCEPT !.refused = @ \cup {sets.pending}]
  /\ StopOnEntry \/ ReleaseEntry
  /\ UNCHANGED <<announced, launch, ready, targetReady, stepping, released, cleanup, ending, holds,
                 backendVars, process, stops>>

\* releaseEntryBreakpoint, then the function breakpoint or continueToVisibleStop
ConfigReleases ==
  /\ Alive /\ config = "releasing" /\ "listener" \in holds /\ Answers
  /\ released' = TRUE /\ config' = "over"
  /\ \/ ShowStop /\ UNCHANGED <<stepping, backendVars>>
     \/ /\ life = "suspended" /\ life' = "resuming" /\ shown' = "resuming"
        /\ Step("config")
     \/ life # "suspended" /\ UNCHANGED <<life, shown, stepping, backendVars>>
  /\ UNCHANGED <<announced, launch, ready, targetReady, cleanup, ending, holds, process, sets, stops,
                 faults>>

\* Nobody catches what configurationDone throws: the process only logs the rejection.
ConfigBreaks ==
  /\ Alive /\ config = "releasing"
  /\ \/ (Unanswerable \/ "listener" \notin holds) /\ UNCHANGED faults
     \/ Answers /\ "listener" \in holds /\ Fault
  /\ config' = "broken"
  /\ UNCHANGED <<life, shown, announced, launch, ready, targetReady, stepping, released, cleanup,
                 ending, holds, backendVars, process, sets, stops>>

\* runExecutionRequest; the client asks while it shows the session as suspended.
MayExecuteAnyTime == "listener" \in holds
MayExecute == "listener" \in holds /\ life = "suspended"

Execute(q) ==
  /\ Alive /\ shown = "suspended" /\ stepping[q] = "none"
  /\ MayExecute
  /\ life' = "resuming" /\ stepping' = [stepping EXCEPT ![q] = "releasing"]
  /\ UNCHANGED <<shown, announced, launch, ready, targetReady, config, released, cleanup, ending,
                 holds, backendVars, process, sets, stops, faults>>

\* The inspections before it have ended and the entry breakpoint is released.
RequestReleases(q) ==
  /\ Alive /\ stepping[q] = "releasing"
  /\ released \/ ("listener" \in holds /\ Answers)
  /\ released' = TRUE /\ shown' = "resuming"
  /\ IF "listener" \in holds THEN Step(q)
                             ELSE stepping' = [stepping EXCEPT ![q] = "none"] /\ UNCHANGED backendVars
  /\ UNCHANGED <<life, announced, launch, ready, targetReady, config, cleanup, ending, holds, process,
                 sets, stops, faults>>

ReleaseFails(q) ==
  /\ Alive /\ stepping[q] = "releasing" /\ ~released
  /\ \/ (Unanswerable \/ "listener" \notin holds) /\ UNCHANGED faults
     \/ Answers /\ "listener" \in holds /\ Fault
  /\ stepping' = [stepping EXCEPT ![q] = "none"]
  /\ UNCHANGED backendVars
  /\ Terminate(TRUE, TRUE)
  /\ UNCHANGED <<announced, launch, ready, targetReady, config, released, process, sets, stops>>

\* The target stops again and the step command answers.
TargetStops ==
  /\ listener = "stepping" /\ target = "running" /\ stops < MaxStops
  /\ stops' = stops + 1
  /\ IF "listener" \in cut
       THEN listener' = "gone" /\ UNCHANGED <<target, stepping>>
       ELSE /\ listener' = "idle" /\ target' = "stopped"
            /\ stepping' = [h \in Handlers |-> IF stepping[h] = "stepping" THEN "inspecting"
                                                                          ELSE stepping[h]]
  /\ UNCHANGED <<life, shown, announced, launch, ready, targetReady, config, released, cleanup, ending,
                 holds, cut, process, sets, faults>>

\* The user's SQL ends: the target's connection is free again, or gone when its socket was closed.
TargetEnds ==
  /\ target = "running"
  /\ target' = IF "target" \in cut THEN "gone" ELSE "idle"
  /\ UNCHANGED <<listener, cut>>
  /\ IF ready = "pending" /\ Alive THEN NotReady
                                   ELSE UNCHANGED <<ready, life, shown, ending, holds, cleanup>>
  /\ UNCHANGED <<announced, launch, targetReady, config, stepping, released, process, sets, stops,
                 faults>>

ExecutionAnswers(h) ==
  /\ Alive /\ stepping[h] = "stepping" /\ listener \in {"gone", "idle"}
  /\ stepping' = [stepping EXCEPT ![h] = "none"]
  /\ UNCHANGED backendVars
  /\ Terminate(FALSE, TRUE)
  /\ UNCHANGED <<announced, launch, ready, targetReady, config, released, process, sets, stops, faults>>

\* The target has ended: the step command answers null, or the grace period ends without it.
ExecutionCompletes(h) ==
  /\ Alive /\ stepping[h] = "stepping"
  /\ listener \in {"gone", "idle"} \/ target \in {"idle", "gone"}
  /\ stepping' = [stepping EXCEPT ![h] = "none"]
  /\ listener' \in IF listener = "stepping" THEN {"stepping", "idle"} ELSE {listener}
  /\ UNCHANGED <<target, cut>>
  /\ Terminate(FALSE, TRUE)
  /\ UNCHANGED <<announced, launch, ready, targetReady, config, released, process, sets, stops, faults>>

\* safeStep has read the position, the source and the variables of the stop.
StopRead(h) == Alive /\ stepping[h] = "inspecting" /\ (Answers \/ Unanswerable)

StopShown(h) ==
  /\ StopRead(h)
  /\ ShowStop
  /\ stepping' = [stepping EXCEPT ![h] = "none"]
  /\ UNCHANGED <<announced, launch, ready, targetReady, config, released, cleanup, ending, holds,
                 backendVars, process, sets, stops, faults>>

\* A logpoint, a condition that does not hold, or the technical entry again.
StopPassed(h) ==
  /\ StopRead(h) /\ "listener" \in holds
  /\ Step(h)
  /\ UNCHANGED <<life, shown, announced, launch, ready, targetReady, config, released, cleanup,
                 ending, holds, process, sets, stops, faults>>

StopFails(h) ==
  /\ StopRead(h) /\ ("listener" \notin holds \/ Unanswerable)
  /\ stepping' = [stepping EXCEPT ![h] = "none"]
  /\ UNCHANGED backendVars
  /\ Terminate(TRUE, TRUE)
  /\ UNCHANGED <<announced, launch, ready, targetReady, config, released, process, sets, stops, faults>>

-----------------------------------------------------------------------------
(* setBreakpoints, of one source *)

\* The client sends the next request of a source once the one before is answered.
SetBreakpoints ==
  /\ Alive /\ sets.asked < MaxSets /\ shown # "idle" /\ sets.jobs = {}
  /\ LET n == sets.asked + 1 IN
     sets' = IF "listener" \notin holds THEN [sets EXCEPT !.asked = n, !.pending = n]
             ELSE IF ready = "none"   \* the sources are not known yet
                    THEN [sets EXCEPT !.asked = n, !.refused = @ \cup {n}]
                    ELSE [sets EXCEPT !.asked = n, !.jobs = @ \cup {n}]
  /\ UNCHANGED <<adapterVars, backendVars, process, stops, faults>>

\* applyBreakpoints behind whatever blocks the listener
BreakpointsApplied(n) ==
  /\ Alive /\ n \in sets.jobs /\ Answers
  /\ sets' = [sets EXCEPT !.jobs = @ \ {n}, !.active = n]
  /\ UNCHANGED <<adapterVars, backendVars, process, stops, faults>>

\* It fails, and a lost connection ends the session.
BreakpointsFail(n) ==
  /\ Alive /\ n \in sets.jobs /\ Unanswerable
  /\ sets' = [sets EXCEPT !.jobs = @ \ {n}, !.refused = @ \cup {n}]
  /\ UNCHANGED backendVars
  /\ IF "listener" \in holds THEN Terminate(TRUE, TRUE)
                             ELSE UNCHANGED <<life, shown, ending, holds, cleanup>>
  /\ UNCHANGED <<announced, launch, ready, targetReady, config, stepping, released, process, stops,
                 faults>>

-----------------------------------------------------------------------------
(* Ends *)

\* disconnectRequest
Disconnect ==
  /\ Alive /\ life \notin Ended
  /\ UNCHANGED backendVars
  /\ Terminate(FALSE, FALSE)
  /\ UNCHANGED <<announced, launch, ready, targetReady, config, stepping, released, process, sets,
                 stops, faults>>

\* PostgreSQL ends the listener's backend, also on behalf of a user who terminates the session.
ListenerLost ==
  /\ listener \notin {"none", "connecting", "gone"} /\ "listener" \notin cut
  /\ Fault
  /\ listener' = "gone" /\ target' = Freed("gone", target)
  /\ UNCHANGED <<adapterVars, cut, process, sets, stops>>

\* handlePossibleConnectionLoss, of any request that reads from the listener
LossNoticed ==
  /\ Alive /\ listener = "gone" /\ "listener" \in holds /\ shown = "suspended"
  /\ UNCHANGED backendVars
  /\ Terminate(TRUE, TRUE)
  /\ UNCHANGED <<announced, launch, ready, targetReady, config, stepping, released, process, sets,
                 stops, faults>>

\* terminateBackends, through a connection of its own
Killed ==
  /\ Alive /\ cleanup = "killing"
  /\ cleanup' = "draining"
  /\ listener' = "gone" /\ target' = IF target \in {"running", "stopped"} THEN "gone" ELSE target
  /\ UNCHANGED <<life, shown, announced, launch, ready, targetReady, config, stepping, released,
                 ending, holds, cut, process, sets, stops, faults>>

KillFails ==
  /\ Alive /\ cleanup = "killing"
  /\ Fault
  /\ cleanup' = "draining" /\ process' = [process EXCEPT !.killFailed = TRUE]
  /\ UNCHANGED <<life, shown, announced, launch, ready, targetReady, config, stepping, released,
                 ending, holds, backendVars, sets, stops>>

\* abort answers, fails, or is not waited for any longer; a stopped target runs on.
Aborted ==
  /\ Alive /\ cleanup = "aborting"
  /\ cleanup' = "draining"
  /\ target' \in {target, IF Answers /\ target = "stopped" THEN "running" ELSE target}
  /\ UNCHANGED <<life, shown, announced, launch, ready, targetReady, config, stepping, released,
                 ending, holds, listener, cut, process, sets, stops, faults>>

\* The target's query has ended, or is not waited for any longer.
Drained ==
  /\ Alive /\ cleanup = "draining"
  /\ cleanup' = "closing"
  /\ UNCHANGED <<life, shown, announced, launch, ready, targetReady, config, stepping, released,
                 ending, holds, backendVars, process, sets, stops, faults>>

TerminatedSilently ==
  /\ Alive /\ cleanup = "closing"
  /\ cleanup' = "over"
  /\ Close(ending.captured)
  /\ life' = IF ending.failed THEN "failed" ELSE "terminated"
  /\ shown' = life'
  /\ UNCHANGED <<announced, launch, ready, targetReady, config, stepping, released, ending, holds,
                 process, sets, stops, faults>>

\* The clients are closed; finishTermination and the last events.
Terminated ==
  /\ Alive /\ cleanup = "closing"
  /\ cleanup' = "over"
  /\ Close(ending.captured)
  /\ life' = IF ending.failed THEN "failed" ELSE "terminated"
  /\ shown' = life'
  /\ announced' = (announced \/ ending.emit)
  /\ UNCHANGED <<launch, ready, targetReady, config, stepping, released, ending, holds, process, sets,
                 stops, faults>>

\* The client closes stdin, or a signal arrives: shutdown.
Shutdown ==
  /\ Alive /\ ~process.asked
  /\ process' = [process EXCEPT !.asked = TRUE]
  /\ UNCHANGED backendVars
  /\ Terminate(FALSE, FALSE)
  /\ UNCHANGED <<announced, launch, ready, targetReady, config, stepping, released, sets, stops, faults>>

\* process.exit, once the session has ended or the budget is spent; nothing of the process goes on.
Exit ==
  /\ Alive /\ process.asked
  /\ process' = [process EXCEPT !.exited = TRUE, !.hurried = (cleanup # "over")]
  /\ Close({"listener", "target"})
  /\ UNCHANGED <<adapterVars, sets, stops, faults>>

\* A backend that ran on without its client is done.
BackendNotices ==
  /\ "listener" \in cut /\ target # "running"
  /\ listener = "stepping"
  /\ listener' = "gone"
  /\ target' = Freed("gone", target)
  /\ UNCHANGED <<adapterVars, cut, process, sets, stops, faults>>

-----------------------------------------------------------------------------
Backends == TargetReaches \/ TargetStops \/ TargetEnds \/ BackendNotices

LaunchSteps ==
  \/ ListenerConnects \/ Armed \/ ArmingFails \/ TargetConnects \/ TargetRefused \/ Unwound
  \/ LaunchFails

ReadySteps == EntryRead \/ AttachTimesOut \/ WaitFails \/ ReadyFailed

ConfigSteps == ConfigurationDone \/ ConfigGoesOn \/ Replayed \/ ConfigReleases \/ ConfigBreaks

ExecutionSteps(h) ==
  \/ RequestReleases(h) \/ ReleaseFails(h) \/ ExecutionCompletes(h)
  \/ StopShown(h) \/ StopPassed(h) \/ StopFails(h)

EndSteps == Killed \/ KillFails \/ Aborted \/ Drained \/ Terminated \/ Exit

Next ==
  \/ Launch \/ Disconnect \/ Shutdown \/ ListenerRefused \/ ListenerLost \/ LossNoticed
  \/ LaunchSteps \/ ReadySteps \/ ConfigSteps \/ Backends \/ EndSteps
  \/ \E q \in Requests : Execute(q)
  \/ \E h \in Handlers : ExecutionSteps(h)
  \/ SetBreakpoints
  \/ \E n \in sets.jobs : BreakpointsApplied(n) \/ BreakpointsFail(n)

Spec == Init /\ [][Next]_vars

\* PostgreSQL answers, timers fire, the user's SQL goes on, the client configures what it launches;
\* nobody has to ask for anything, and nothing has to fail.
Fairness ==
  /\ WF_vars(LaunchSteps) /\ WF_vars(ReadySteps) /\ WF_vars(ConfigSteps)
  /\ WF_vars(Backends) /\ WF_vars(EndSteps)
  /\ \A h \in Handlers : WF_vars(ExecutionSteps(h))

FairSpec == Spec /\ Fairness

-----------------------------------------------------------------------------
(* Properties *)

\* "Only one resume operation can be in flight because pldbgapi step commands block"
\* (docs/user/debugger.md:74): at most one handler waits for a step, and none while the session
\* still waits for its target, whatever the client sends twice and whichever handler resumed last.
OneResume ==
  /\ Cardinality({h \in Handlers : stepping[h] # "none"}) <= 1
  /\ listener = "waiting" => \A h \in Handlers : stepping[h] = "none"

\* When a stop is shown for the first time, the breakpoints set before the listener was there have
\* been set, or their failure was answered (pendingBreakpointRequests and their replay).
PendingReplayed ==
  [][(shown' = "suspended" /\ life' = "suspended") => sets'.pending \in sets'.refused \cup {0}]_shown

\* A session that ends by itself tells the client, which otherwise keeps showing it: when its
\* launch fails, its target ends or its connection is lost, also when all of it happens at once
\* (terminateSession, terminatedEventSent).
EndIsAnnounced == (life \in Ended /\ (ending.failed \/ ending.emit)) ~> (announced \/ process.asked)

\* A launch comes to a stop the client is shown or to its end, unless configurationDone itself fails:
\* neither a target that never reaches its entry nor a lost answer leaves it resuming for ever.
LaunchComesToRest ==
  (life = "preparing") ~> \/ life = "suspended" /\ shown = "suspended"
                          \/ life \in {"terminated", "failed"}
                          \/ process.exited \/ config = "broken"

\* "Each launch owns its PostgreSQL backends and cleans up only its own session"
\* (docs/user/debugger.md:63): a process that ended its session within its budget leaves no backend
\* behind, wherever the session was, once the user's SQL is over.
NothingOutlivesTheAdapter ==
  (process.exited /\ ~process.hurried /\ ~process.killFailed)
    ~> (listener \in {"none", "gone"} /\ target \in {"none", "gone"})

\* The latest setBreakpoints request of a source is the one in force once nothing is under way
\* ("latest request per source wins", PlpgsqlDebugSession.ts:280), when none was answered by an error.
LatestBreakpointsWin ==
  (shown = "suspended" /\ life = "suspended" /\ sets.jobs = {} /\ sets.refused = {} /\ Answers)
    => sets.active = sets.asked
=============================================================================
