-------------------------- MODULE DebugSessionProofs --------------------------
(***************************************************************************)
(* One resume at a time, and breakpoints replayed before a stop is shown,  *)
(* for any number of requests, stops and faults: proofs about              *)
(* DebugSession.                                                           *)
(***************************************************************************)
EXTENDS DebugSession, FiniteSetTheorems, TLAPS

\* What follows the launch comes after it, and what it opened is held until the session ends.
Launched ==
  /\ life = "idle" => launch = "none"
  /\ ready # "none" \/ targetReady \/ config \notin {"none", "awaiting"} => launch = "over"
  /\ launch \in {"arming", "target", "over"} => "listener" \in holds \/ life \in Ended

\* Nothing is replayed for nothing, and what was pending is set or refused once the entry is left.
Replaying ==
  /\ config = "replaying" => sets.pending # 0
  /\ config \in {"releasing", "over"} => sets.pending \in sets.refused \cup {0} \/ life \in Ended

\* Whoever waits for a step resumed a session that was suspended, once it was configured and had
\* its target, and nobody else did.
Resumed ==
  /\ life = "resuming" \/ shown = "suspended" => config = "over"
  /\ listener = "waiting" => life \in {"waitingForTarget"} \cup Ended
  /\ \A h \in Handlers : stepping[h] # "none" =>
       config = "over" /\ listener # "waiting" /\ life \in {"resuming"} \cup Ended
  /\ \A h, k \in Handlers : stepping[h] # "none" /\ stepping[k] # "none" => h = k

DebugInv == DebugTypeOK /\ Launched /\ Replaying /\ Resumed

-----------------------------------------------------------------------------
(* Steps that do not end the session *)

Sets == [asked : 0..MaxSets, pending : 0..MaxSets, active : 0..MaxSets,
         jobs : SUBSET (1..MaxSets), refused : SUBSET (1..MaxSets)]

\* The two connections after a step that makes nobody wait for the target.
Connections ==
  /\ cut' \subseteq {"listener", "target"}
  /\ listener' \in {"none", "connecting", "idle", "waiting", "stepping", "gone"}
  /\ target' \in {"none", "connecting", "idle", "running", "stopped", "gone"}
  /\ listener' = "waiting" => listener = "waiting"

LEMMA CloseTyped ==
  ASSUME DebugTypeOK, NEW conns \in SUBSET {"listener", "target"}, Close(conns)
  PROVE  Connections
  <1>1. listener' \in {listener, "gone"} /\ cut' \subseteq {"listener", "target"}
    BY DEF DebugTypeOK, Close, Closed
  <1>2. target' \in {target, "gone", "running"}
    BY DEF Close, Closed, Freed
  <1> QED BY <1>1, <1>2 DEF DebugTypeOK, Connections

\* The launch.
LEMMA LaunchKeeps ==
  ASSUME DebugInv, Launch
  PROVE  DebugInv'
  <1>1. DebugTypeOK'
    BY DebugAssumption DEF DebugInv, DebugTypeOK, LifeStates, Ended, Handlers, Launch, Alive
  <1>2. Launched'
    BY DEF DebugInv, DebugTypeOK, Launched, Ended, Launch, Alive
  <1>3. Replaying'
    BY DEF DebugInv, DebugTypeOK, Launched, Replaying, Ended, Launch, Alive
  <1>4. Resumed'
    BY DEF DebugInv, DebugTypeOK, Launched, Resumed, Ended, Handlers, Launch, Alive
  <1> QED BY <1>1, <1>2, <1>3, <1>4 DEF DebugInv

LEMMA ListenerConnectsKeeps ==
  ASSUME DebugInv, ListenerConnects
  PROVE  DebugInv'
  <1>1. DebugTypeOK'
    BY DebugAssumption DEF DebugInv, DebugTypeOK, LifeStates, Ended, Handlers, ListenerConnects
  <1>2. Launched'
    BY DEF DebugInv, DebugTypeOK, Launched, Ended, ListenerConnects
  <1>3. Replaying'
    BY DEF DebugInv, DebugTypeOK, Launched, Replaying, Ended, ListenerConnects
  <1>4. Resumed'
    BY DEF DebugInv, DebugTypeOK, Launched, Resumed, Ended, Handlers, ListenerConnects
  <1> QED BY <1>1, <1>2, <1>3, <1>4 DEF DebugInv

LEMMA ListenerRefusedKeeps ==
  ASSUME DebugInv, ListenerRefused
  PROVE  DebugInv'
  <1>1. DebugTypeOK'
    BY DebugAssumption DEF DebugInv, DebugTypeOK, LifeStates, Ended, Handlers, ListenerRefused,
        Fault
  <1>2. Launched'
    BY DEF DebugInv, DebugTypeOK, Launched, Ended, ListenerRefused, Fault
  <1>3. Replaying'
    BY DEF DebugInv, DebugTypeOK, Launched, Replaying, Ended, ListenerRefused, Fault
  <1>4. Resumed'
    BY DEF DebugInv, DebugTypeOK, Launched, Resumed, Ended, Handlers, ListenerRefused, Fault
  <1> QED BY <1>1, <1>2, <1>3, <1>4 DEF DebugInv

LEMMA ArmedKeeps ==
  ASSUME DebugInv, Armed
  PROVE  DebugInv'
  <1>1. DebugTypeOK'
    BY DebugAssumption DEF DebugInv, DebugTypeOK, LifeStates, Ended, Handlers, Armed
  <1>2. Launched'
    BY DEF DebugInv, DebugTypeOK, Launched, Ended, Armed
  <1>3. Replaying'
    BY DEF DebugInv, DebugTypeOK, Launched, Replaying, Ended, Armed
  <1>4. Resumed'
    BY DEF DebugInv, DebugTypeOK, Launched, Resumed, Ended, Handlers, Armed
  <1> QED BY <1>1, <1>2, <1>3, <1>4 DEF DebugInv

LEMMA ArmingFailsKeeps ==
  ASSUME DebugInv, ArmingFails
  PROVE  DebugInv'
  <1>1. DebugTypeOK'
    BY DebugAssumption DEF DebugInv, DebugTypeOK, LifeStates, Ended, Handlers, ArmingFails, Fault,
        backendVars
  <1>2. Launched'
    BY DEF DebugInv, DebugTypeOK, Launched, Ended, ArmingFails, Fault, backendVars
  <1>3. Replaying'
    BY DEF DebugInv, DebugTypeOK, Launched, Replaying, Ended, ArmingFails, Fault, backendVars
  <1>4. Resumed'
    BY DEF DebugInv, DebugTypeOK, Launched, Resumed, Ended, Handlers, ArmingFails, Fault,
        backendVars
  <1> QED BY <1>1, <1>2, <1>3, <1>4 DEF DebugInv

LEMMA TargetConnectsKeeps ==
  ASSUME DebugInv, TargetConnects
  PROVE  DebugInv'
  <1>1. DebugTypeOK'
    BY DebugAssumption DEF DebugInv, DebugTypeOK, LifeStates, Ended, Handlers, TargetConnects
  <1>2. Launched'
    BY DEF DebugInv, DebugTypeOK, Launched, Ended, TargetConnects
  <1>3. Replaying'
    BY DEF DebugInv, DebugTypeOK, Launched, Replaying, Ended, TargetConnects
  <1>4. Resumed'
    BY DEF DebugInv, DebugTypeOK, Launched, Resumed, Ended, Handlers, TargetConnects
  <1> QED BY <1>1, <1>2, <1>3, <1>4 DEF DebugInv

LEMMA TargetRefusedKeeps ==
  ASSUME DebugInv, TargetRefused
  PROVE  DebugInv'
  <1>1. DebugTypeOK'
    BY DebugAssumption DEF DebugInv, DebugTypeOK, LifeStates, Ended, Handlers, TargetRefused, Fault
  <1>2. Launched'
    BY DEF DebugInv, DebugTypeOK, Launched, Ended, TargetRefused, Fault
  <1>3. Replaying'
    BY DEF DebugInv, DebugTypeOK, Launched, Replaying, Ended, TargetRefused, Fault
  <1>4. Resumed'
    BY DEF DebugInv, DebugTypeOK, Launched, Resumed, Ended, Handlers, TargetRefused, Fault
  <1> QED BY <1>1, <1>2, <1>3, <1>4 DEF DebugInv

LEMMA LaunchFailsKeeps ==
  ASSUME DebugInv, LaunchFails
  PROVE  DebugInv'
  <1>1. DebugTypeOK'
    BY DebugAssumption DEF DebugInv, DebugTypeOK, LifeStates, Ended, Handlers, LaunchFails,
        backendVars
  <1>2. Launched'
    BY DEF DebugInv, DebugTypeOK, Launched, Ended, LaunchFails, backendVars
  <1>3. Replaying'
    BY DEF DebugInv, DebugTypeOK, Launched, Replaying, Ended, LaunchFails, backendVars
  <1>4. Resumed'
    BY DEF DebugInv, DebugTypeOK, Launched, Resumed, Ended, Handlers, LaunchFails, backendVars
  <1> QED BY <1>1, <1>2, <1>3, <1>4 DEF DebugInv

LEMMA TargetReachesKeeps ==
  ASSUME DebugInv, TargetReaches
  PROVE  DebugInv'
  <1>1. DebugTypeOK'
    <2>1. /\ listener' \in {"idle", "gone"} /\ target' \in {target, "stopped"}
          /\ ready' \in {ready, "position", "over"}
          /\ life' = life \/ (life = "waitingForTarget" /\ life' = "suspended")
          /\ UNCHANGED <<shown, announced, launch, config, stepping, released, cleanup, ending, holds,
                         cut, process, sets, stops, faults>>
      BY DEF TargetReaches, adapterVars
    <2>2. targetReady' \in BOOLEAN
      BY DEF TargetReaches, adapterVars, DebugInv, DebugTypeOK
    <2>3. life' \in LifeStates /\ (life' \in Ended <=> cleanup # "none")
      BY <2>1 DEF DebugInv, DebugTypeOK, LifeStates, Ended
    <2> QED BY <2>1, <2>2, <2>3 DEF DebugInv, DebugTypeOK
  <1>2. Launched'
    BY DEF DebugInv, DebugTypeOK, Launched, Ended, TargetReaches, adapterVars
  <1>3. Replaying'
    BY DEF DebugInv, DebugTypeOK, Launched, Replaying, Ended, TargetReaches, adapterVars
  <1>4. Resumed'
    BY DEF DebugInv, DebugTypeOK, Launched, Resumed, Ended, Handlers, TargetReaches, adapterVars
  <1> QED BY <1>1, <1>2, <1>3, <1>4 DEF DebugInv

LEMMA EntryReadKeeps ==
  ASSUME DebugInv, EntryRead
  PROVE  DebugInv'
  <1>1. DebugTypeOK'
    BY DebugAssumption DEF DebugInv, DebugTypeOK, LifeStates, Ended, Handlers, EntryRead,
        backendVars
  <1>2. Launched'
    BY DEF DebugInv, DebugTypeOK, Launched, Ended, EntryRead, backendVars
  <1>3. Replaying'
    BY DEF DebugInv, DebugTypeOK, Launched, Replaying, Ended, EntryRead, backendVars
  <1>4. Resumed'
    BY DEF DebugInv, DebugTypeOK, Launched, Resumed, Ended, Handlers, EntryRead, backendVars
  <1> QED BY <1>1, <1>2, <1>3, <1>4 DEF DebugInv

LEMMA ReadyFailedKeeps ==
  ASSUME DebugInv, ReadyFailed
  PROVE  DebugInv'
  <1>1. DebugTypeOK'
    BY DebugAssumption DEF DebugInv, DebugTypeOK, LifeStates, Ended, Handlers, ReadyFailed,
        backendVars
  <1>2. Launched'
    BY DEF DebugInv, DebugTypeOK, Launched, Ended, ReadyFailed, backendVars
  <1>3. Replaying'
    BY DEF DebugInv, DebugTypeOK, Launched, Replaying, Ended, ReadyFailed, backendVars
  <1>4. Resumed'
    BY DEF DebugInv, DebugTypeOK, Launched, Resumed, Ended, Handlers, ReadyFailed, backendVars
  <1> QED BY <1>1, <1>2, <1>3, <1>4 DEF DebugInv

\* The configuration.
LEMMA ConfigurationDoneKeeps ==
  ASSUME DebugInv, ConfigurationDone
  PROVE  DebugInv'
  <1>1. DebugTypeOK'
    BY DebugAssumption DEF DebugInv, DebugTypeOK, LifeStates, Ended, Handlers, ConfigurationDone,
        backendVars
  <1>2. Launched'
    BY DEF DebugInv, DebugTypeOK, Launched, Ended, ConfigurationDone, backendVars
  <1>3. Replaying'
    BY DEF DebugInv, DebugTypeOK, Launched, Replaying, Ended, ConfigurationDone, backendVars
  <1>4. Resumed'
    BY DEF DebugInv, DebugTypeOK, Launched, Resumed, Ended, Handlers, ConfigurationDone, backendVars
  <1> QED BY <1>1, <1>2, <1>3, <1>4 DEF DebugInv

LEMMA ConfigGoesOnKeeps ==
  ASSUME DebugInv, ConfigGoesOn
  PROVE  DebugInv'
  <1>1. DebugTypeOK'
    BY DebugAssumption DEF DebugInv, DebugTypeOK, LifeStates, Ended, Handlers, ConfigGoesOn,
        StopOnEntry, ReleaseEntry, ShowStop, backendVars
  <1>2. Launched'
    BY DEF DebugInv, DebugTypeOK, Launched, Ended, ConfigGoesOn, StopOnEntry, ReleaseEntry,
        ShowStop, backendVars
  <1>3. Replaying'
    BY DEF DebugInv, DebugTypeOK, Launched, Replaying, Ended, ConfigGoesOn, StopOnEntry,
        ReleaseEntry, ShowStop, backendVars
  <1>4. Resumed'
    BY DEF DebugInv, DebugTypeOK, Launched, Resumed, Ended, Handlers, ConfigGoesOn, StopOnEntry,
        ReleaseEntry, ShowStop, backendVars
  <1> QED BY <1>1, <1>2, <1>3, <1>4 DEF DebugInv

LEMMA ReplayedKeeps ==
  ASSUME DebugInv, Replayed
  PROVE  DebugInv'
  <1>0. /\ config = "replaying" /\ config' \in {"over", "releasing"}
        /\ UNCHANGED <<announced, launch, ready, targetReady, stepping, released, cleanup, ending, holds,
                       listener, target, cut, process, stops>>
        /\ life' \in {life, "suspended"} /\ (life' = life \/ life = "resuming")
        /\ shown' \in {shown, "suspended"} /\ (shown' = shown \/ config' = "over")
    BY DEF Replayed, StopOnEntry, ReleaseEntry, ShowStop, backendVars
  <1>s. /\ sets \in Sets /\ sets.pending \in 1..MaxSets
        /\ \/ sets' = [sets EXCEPT !.active = sets.pending, !.pending = 0]
           \/ sets' = [sets EXCEPT !.refused = @ \cup {sets.pending}]
    BY <1>0, DebugAssumption DEF DebugInv, DebugTypeOK, Replaying, Sets, Replayed
  <1>1. DebugTypeOK'
    <2>0. 0 \in 0..MaxSets /\ sets.pending \in 0..MaxSets
      BY <1>s, DebugAssumption
    <2>1. sets' \in Sets
      BY <1>s, <2>0 DEF Sets
    <2>2. faults' \in 0..MaxFaults
      BY DebugAssumption DEF DebugInv, DebugTypeOK, Replayed, Fault
    <2> QED BY <1>0, <2>1, <2>2 DEF DebugInv, DebugTypeOK, Sets, LifeStates, Ended
  <1>2. Launched'
    BY <1>0 DEF DebugInv, Launched, Ended
  <1>3. Replaying'
    BY <1>0, <1>s DEF Replaying, Sets
  <1>4. Resumed'
    BY <1>0 DEF DebugInv, Resumed, Ended
  <1> QED BY <1>1, <1>2, <1>3, <1>4 DEF DebugInv

LEMMA ConfigReleasesKeeps ==
  ASSUME DebugInv, ConfigReleases
  PROVE  DebugInv'
  <1>1. DebugTypeOK'
    <2>1. /\ released' = TRUE /\ config' = "over" /\ cut' = cut
          /\ UNCHANGED <<announced, launch, ready, targetReady, cleanup, ending, holds, process, sets,
                         stops, faults>>
          /\ listener' \in {listener, "stepping"} /\ target' \in {target, "running"}
          /\ shown' \in {shown, "suspended", "resuming"}
          /\ \/ life' = life
             \/ life \in {"suspended", "resuming"} /\ life' \in {"suspended", "resuming"}
          /\ stepping' \in {stepping, [stepping EXCEPT !["config"] = "stepping"]}
      BY DEF ConfigReleases, ShowStop, Step, backendVars
    <2>2. stepping' \in [Handlers -> {"none", "releasing", "stepping", "inspecting"}]
      BY <2>1 DEF DebugInv, DebugTypeOK
    <2>3. life' \in LifeStates /\ (life' \in Ended <=> cleanup # "none") /\ shown' \in LifeStates
      BY <2>1 DEF DebugInv, DebugTypeOK, LifeStates, Ended
    <2> QED BY <2>1, <2>2, <2>3 DEF DebugInv, DebugTypeOK
  <1>2. Launched'
    BY DEF DebugInv, DebugTypeOK, Launched, Ended, ConfigReleases, ShowStop, Step, Answers,
        backendVars
  <1>3. Replaying'
    BY DEF DebugInv, DebugTypeOK, Launched, Replaying, Ended, ConfigReleases, ShowStop, Step,
        Answers, backendVars
  <1>4. Resumed'
    BY DEF DebugInv, DebugTypeOK, Launched, Resumed, Ended, Handlers, ConfigReleases, ShowStop,
        Step, Answers, backendVars
  <1> QED BY <1>1, <1>2, <1>3, <1>4 DEF DebugInv

LEMMA ConfigBreaksKeeps ==
  ASSUME DebugInv, ConfigBreaks
  PROVE  DebugInv'
  <1>1. DebugTypeOK'
    BY DebugAssumption DEF DebugInv, DebugTypeOK, LifeStates, Ended, Handlers, ConfigBreaks, Fault,
        backendVars
  <1>2. Launched'
    BY DEF DebugInv, DebugTypeOK, Launched, Ended, ConfigBreaks, Fault, backendVars
  <1>3. Replaying'
    BY DEF DebugInv, DebugTypeOK, Launched, Replaying, Ended, ConfigBreaks, Fault, backendVars
  <1>4. Resumed'
    BY DEF DebugInv, DebugTypeOK, Launched, Resumed, Ended, Handlers, ConfigBreaks, Fault,
        backendVars
  <1> QED BY <1>1, <1>2, <1>3, <1>4 DEF DebugInv

\* Execution.  The session was suspended: nobody else waits for a step.
LEMMA ExecuteKeeps ==
  ASSUME DebugInv, NEW q \in Requests, Execute(q)
  PROVE  DebugInv'
  <1>1. DebugTypeOK'
    BY DebugAssumption DEF DebugInv, DebugTypeOK, LifeStates, Ended, Handlers, Execute, MayExecute,
        backendVars
  <1>2. Launched'
    BY DEF DebugInv, DebugTypeOK, Launched, Ended, Execute, MayExecute, backendVars
  <1>3. Replaying'
    BY DEF DebugInv, DebugTypeOK, Launched, Replaying, Ended, Execute, MayExecute, backendVars
  <1>4. Resumed'
    BY DEF DebugInv, DebugTypeOK, Launched, Resumed, Ended, Handlers, Execute, MayExecute,
        backendVars
  <1> QED BY <1>1, <1>2, <1>3, <1>4 DEF DebugInv

LEMMA RequestReleasesKeeps ==
  ASSUME DebugInv, NEW h \in Handlers, RequestReleases(h)
  PROVE  DebugInv'
  <1>1. DebugTypeOK'
    <2>1. /\ released' = TRUE /\ shown' = "resuming"
          /\ UNCHANGED <<life, announced, launch, ready, targetReady, config, cleanup, ending, holds,
                         cut, process, sets, stops, faults>>
          /\ listener' \in {listener, "stepping"} /\ target' \in {target, "running"}
          /\ \E s \in {"none", "stepping"} : stepping' = [stepping EXCEPT ![h] = s]
      BY DEF RequestReleases, Step, backendVars
    <2>2. stepping' \in [Handlers -> {"none", "releasing", "stepping", "inspecting"}]
      BY <2>1 DEF DebugInv, DebugTypeOK
    <2> QED BY <2>1, <2>2 DEF DebugInv, DebugTypeOK, LifeStates
  <1>2. Launched'
    BY DEF DebugInv, DebugTypeOK, Launched, Ended, RequestReleases, Step, Answers, backendVars
  <1>3. Replaying'
    BY DEF DebugInv, DebugTypeOK, Launched, Replaying, Ended, RequestReleases, Step, Answers,
        backendVars
  <1>4. Resumed'
    BY DEF DebugInv, DebugTypeOK, Launched, Resumed, Ended, Handlers, RequestReleases, Step,
        Answers, backendVars
  <1> QED BY <1>1, <1>2, <1>3, <1>4 DEF DebugInv

LEMMA TargetStopsKeeps ==
  ASSUME DebugInv, TargetStops
  PROVE  DebugInv'
  <1>1. DebugTypeOK'
    BY DebugAssumption DEF DebugInv, DebugTypeOK, LifeStates, Ended, Handlers, TargetStops
  <1>2. Launched'
    BY DEF DebugInv, DebugTypeOK, Launched, Ended, TargetStops
  <1>3. Replaying'
    BY DEF DebugInv, DebugTypeOK, Launched, Replaying, Ended, TargetStops
  <1>4. Resumed'
    BY DEF DebugInv, DebugTypeOK, Launched, Resumed, Ended, Handlers, TargetStops
  <1> QED BY <1>1, <1>2, <1>3, <1>4 DEF DebugInv

LEMMA StopShownKeeps ==
  ASSUME DebugInv, NEW h \in Handlers, StopShown(h)
  PROVE  DebugInv'
  <1>1. DebugTypeOK'
    BY DebugAssumption DEF DebugInv, DebugTypeOK, LifeStates, Ended, Handlers, StopShown, StopRead,
        ShowStop, backendVars
  <1>2. Launched'
    BY DEF DebugInv, DebugTypeOK, Launched, Ended, StopShown, StopRead, ShowStop, backendVars
  <1>3. Replaying'
    BY DEF DebugInv, DebugTypeOK, Launched, Replaying, Ended, StopShown, StopRead, ShowStop,
        backendVars
  <1>4. Resumed'
    BY DEF DebugInv, DebugTypeOK, Launched, Resumed, Ended, Handlers, StopShown, StopRead, ShowStop,
        backendVars
  <1> QED BY <1>1, <1>2, <1>3, <1>4 DEF DebugInv

LEMMA StopPassedKeeps ==
  ASSUME DebugInv, NEW h \in Handlers, StopPassed(h)
  PROVE  DebugInv'
  <1>1. DebugTypeOK'
    BY DebugAssumption DEF DebugInv, DebugTypeOK, LifeStates, Ended, Handlers, StopPassed, StopRead,
        Step, Answers, backendVars
  <1>2. Launched'
    BY DEF DebugInv, DebugTypeOK, Launched, Ended, StopPassed, StopRead, Step, Answers, backendVars
  <1>3. Replaying'
    BY DEF DebugInv, DebugTypeOK, Launched, Replaying, Ended, StopPassed, StopRead, Step, Answers,
        backendVars
  <1>4. Resumed'
    BY DEF DebugInv, DebugTypeOK, Launched, Resumed, Ended, Handlers, StopPassed, StopRead, Step,
        Answers, backendVars
  <1> QED BY <1>1, <1>2, <1>3, <1>4 DEF DebugInv

\* Breakpoints.
LEMMA SetBreakpointsKeeps ==
  ASSUME DebugInv, SetBreakpoints
  PROVE  DebugInv'
  <1>1. DebugTypeOK'
    <2>1. sets \in Sets /\ sets.asked + 1 \in 0..MaxSets /\ sets.asked + 1 \in 1..MaxSets
      BY DebugAssumption DEF DebugInv, DebugTypeOK, SetBreakpoints, Sets
    <2>2. sets' \in Sets
      BY <2>1 DEF SetBreakpoints, Sets
    <2> QED BY <2>2 DEF DebugInv, DebugTypeOK, Sets, SetBreakpoints, adapterVars, backendVars
  <1>2. Launched'
    BY DEF DebugInv, DebugTypeOK, Launched, Ended, SetBreakpoints, adapterVars, backendVars
  <1>3. Replaying'
    BY DEF DebugInv, DebugTypeOK, Launched, Replaying, Ended, SetBreakpoints, adapterVars,
        backendVars
  <1>4. Resumed'
    BY DEF DebugInv, DebugTypeOK, Launched, Resumed, Ended, Handlers, SetBreakpoints, adapterVars,
        backendVars
  <1> QED BY <1>1, <1>2, <1>3, <1>4 DEF DebugInv

LEMMA BreakpointsAppliedKeeps ==
  ASSUME DebugInv, NEW n \in sets.jobs, BreakpointsApplied(n)
  PROVE  DebugInv'
  <1>1. DebugTypeOK'
    <2>1. sets \in Sets /\ n \in 0..MaxSets
      BY DebugAssumption DEF DebugInv, DebugTypeOK, Sets
    <2>2. sets' \in Sets
      BY <2>1 DEF BreakpointsApplied, Sets
    <2> QED BY <2>2 DEF DebugInv, DebugTypeOK, Sets, BreakpointsApplied, adapterVars, backendVars
  <1>2. Launched'
    BY DEF DebugInv, DebugTypeOK, Launched, Ended, BreakpointsApplied, adapterVars, backendVars
  <1>3. Replaying'
    BY DEF DebugInv, DebugTypeOK, Launched, Replaying, Ended, BreakpointsApplied, adapterVars,
        backendVars
  <1>4. Resumed'
    BY DEF DebugInv, DebugTypeOK, Launched, Resumed, Ended, Handlers, BreakpointsApplied,
        adapterVars, backendVars
  <1> QED BY <1>1, <1>2, <1>3, <1>4 DEF DebugInv

\* Ends.
LEMMA ListenerLostKeeps ==
  ASSUME DebugInv, ListenerLost
  PROVE  DebugInv'
  <1>1. DebugTypeOK'
    BY DebugAssumption DEF DebugInv, DebugTypeOK, LifeStates, Ended, Handlers, ListenerLost, Fault,
        Freed, adapterVars
  <1>2. Launched'
    BY DEF DebugInv, DebugTypeOK, Launched, Ended, ListenerLost, Fault, Freed, adapterVars
  <1>3. Replaying'
    BY DEF DebugInv, DebugTypeOK, Launched, Replaying, Ended, ListenerLost, Fault, Freed,
        adapterVars
  <1>4. Resumed'
    BY DEF DebugInv, DebugTypeOK, Launched, Resumed, Ended, Handlers, ListenerLost, Fault, Freed,
        adapterVars
  <1> QED BY <1>1, <1>2, <1>3, <1>4 DEF DebugInv

LEMMA KilledKeeps ==
  ASSUME DebugInv, Killed
  PROVE  DebugInv'
  <1>1. DebugTypeOK'
    BY DebugAssumption DEF DebugInv, DebugTypeOK, LifeStates, Ended, Handlers, Killed
  <1>2. Launched'
    BY DEF DebugInv, DebugTypeOK, Launched, Ended, Killed
  <1>3. Replaying'
    BY DEF DebugInv, DebugTypeOK, Launched, Replaying, Ended, Killed
  <1>4. Resumed'
    BY DEF DebugInv, DebugTypeOK, Launched, Resumed, Ended, Handlers, Killed
  <1> QED BY <1>1, <1>2, <1>3, <1>4 DEF DebugInv

LEMMA KillFailsKeeps ==
  ASSUME DebugInv, KillFails
  PROVE  DebugInv'
  <1>1. DebugTypeOK'
    <2>1. process' \in [asked : BOOLEAN, exited : BOOLEAN, hurried : BOOLEAN, killFailed : BOOLEAN]
      BY DEF DebugInv, DebugTypeOK, KillFails
    <2>2. faults' \in 0..MaxFaults
      BY DebugAssumption DEF DebugInv, DebugTypeOK, KillFails, Fault
    <2> QED BY <2>1, <2>2 DEF DebugInv, DebugTypeOK, Ended, KillFails, backendVars
  <1>2. Launched'
    BY DEF DebugInv, DebugTypeOK, Launched, Ended, KillFails, Fault, backendVars
  <1>3. Replaying'
    BY DEF DebugInv, DebugTypeOK, Launched, Replaying, Ended, KillFails, Fault, backendVars
  <1>4. Resumed'
    BY DEF DebugInv, DebugTypeOK, Launched, Resumed, Ended, Handlers, KillFails, Fault, backendVars
  <1> QED BY <1>1, <1>2, <1>3, <1>4 DEF DebugInv

LEMMA AbortedKeeps ==
  ASSUME DebugInv, Aborted
  PROVE  DebugInv'
  <1>1. DebugTypeOK'
    BY DebugAssumption DEF DebugInv, DebugTypeOK, LifeStates, Ended, Handlers, Aborted, Answers
  <1>2. Launched'
    BY DEF DebugInv, DebugTypeOK, Launched, Ended, Aborted, Answers
  <1>3. Replaying'
    BY DEF DebugInv, DebugTypeOK, Launched, Replaying, Ended, Aborted, Answers
  <1>4. Resumed'
    BY DEF DebugInv, DebugTypeOK, Launched, Resumed, Ended, Handlers, Aborted, Answers
  <1> QED BY <1>1, <1>2, <1>3, <1>4 DEF DebugInv

LEMMA DrainedKeeps ==
  ASSUME DebugInv, Drained
  PROVE  DebugInv'
  <1>1. DebugTypeOK'
    BY DebugAssumption DEF DebugInv, DebugTypeOK, LifeStates, Ended, Handlers, Drained, backendVars
  <1>2. Launched'
    BY DEF DebugInv, DebugTypeOK, Launched, Ended, Drained, backendVars
  <1>3. Replaying'
    BY DEF DebugInv, DebugTypeOK, Launched, Replaying, Ended, Drained, backendVars
  <1>4. Resumed'
    BY DEF DebugInv, DebugTypeOK, Launched, Resumed, Ended, Handlers, Drained, backendVars
  <1> QED BY <1>1, <1>2, <1>3, <1>4 DEF DebugInv

LEMMA TerminatedKeeps ==
  ASSUME DebugInv, Terminated
  PROVE  DebugInv'
  <1>1. DebugTypeOK'
    <2>1. ending.captured \subseteq {"listener", "target"}
      BY DEF DebugInv, DebugTypeOK
    <2>2. Connections
      BY <2>1, CloseTyped DEF DebugInv, Terminated
    <2>3. life' \in {"failed", "terminated"} /\ shown' = life' /\ cleanup' = "over"
      BY DEF Terminated
    <2>4. announced' \in BOOLEAN
      BY DEF DebugInv, DebugTypeOK, Terminated
    <2> QED BY <2>2, <2>3, <2>4
       DEF DebugInv, DebugTypeOK, LifeStates, Ended, Terminated, Connections
  <1>2. Launched'
    BY DEF DebugInv, DebugTypeOK, Launched, Ended, Terminated, Close, Closed, Freed
  <1>3. Replaying'
    BY DEF DebugInv, DebugTypeOK, Launched, Replaying, Ended, Terminated, Close, Closed, Freed
  <1>4. Resumed'
    BY DEF DebugInv, DebugTypeOK, Launched, Resumed, Ended, Handlers, Terminated, Close, Closed,
        Freed
  <1> QED BY <1>1, <1>2, <1>3, <1>4 DEF DebugInv

LEMMA ExitKeeps ==
  ASSUME DebugInv, Exit
  PROVE  DebugInv'
  <1>1. DebugTypeOK'
    <2>1. Connections
      BY CloseTyped DEF DebugInv, Exit
    <2>2. process' \in [asked : BOOLEAN, exited : BOOLEAN, hurried : BOOLEAN, killFailed : BOOLEAN]
      BY DEF DebugInv, DebugTypeOK, Exit
    <2> QED BY <2>1, <2>2 DEF DebugInv, DebugTypeOK, Exit, adapterVars, Connections
  <1>2. Launched'
    BY DEF DebugInv, DebugTypeOK, Launched, Ended, Exit, Close, Closed, Freed, adapterVars
  <1>3. Replaying'
    BY DEF DebugInv, DebugTypeOK, Launched, Replaying, Ended, Exit, Close, Closed, Freed,
        adapterVars
  <1>4. Resumed'
    BY DEF DebugInv, DebugTypeOK, Launched, Resumed, Ended, Handlers, Exit, Close, Closed, Freed,
        adapterVars
  <1> QED BY <1>1, <1>2, <1>3, <1>4 DEF DebugInv

LEMMA BackendNoticesKeeps ==
  ASSUME DebugInv, BackendNotices
  PROVE  DebugInv'
  <1>1. DebugTypeOK'
    BY DebugAssumption DEF DebugInv, DebugTypeOK, LifeStates, Ended, Handlers, BackendNotices,
        Freed, adapterVars
  <1>2. Launched'
    BY DEF DebugInv, DebugTypeOK, Launched, Ended, BackendNotices, Freed, adapterVars
  <1>3. Replaying'
    BY DEF DebugInv, DebugTypeOK, Launched, Replaying, Ended, BackendNotices, Freed, adapterVars
  <1>4. Resumed'
    BY DEF DebugInv, DebugTypeOK, Launched, Resumed, Ended, Handlers, BackendNotices, Freed,
        adapterVars
  <1> QED BY <1>1, <1>2, <1>3, <1>4 DEF DebugInv
-----------------------------------------------------------------------------
(* Steps that end it *)

\* What the end of a session leaves: it holds nothing it may use, and no stop is shown.
Ends ==
  /\ life' \in Ended /\ cleanup' # "none"
  /\ life' \in LifeStates /\ shown' \in LifeStates
  /\ shown' = "suspended" => shown = "suspended"
  /\ cleanup' \in {"none", "killing", "aborting", "draining", "closing", "over"}
  /\ ending' \in [failed : BOOLEAN, emit : BOOLEAN, captured : SUBSET {"listener", "target"}]
  /\ holds' \subseteq {"listener", "target"}

\* terminateSession leaves a session that has ended as it is, and ends any other: it holds nothing,
\* and no stop is shown.
LEMMA TerminateEnds ==
  ASSUME DebugTypeOK, NEW failed \in {TRUE, FALSE}, NEW emit \in {TRUE, FALSE},
         Terminate(failed, emit)
  PROVE  Ends
  <1>1. CASE life \in Ended
    BY <1>1 DEF DebugTypeOK, Terminate, Ends
  <1>2. CASE life \notin Ended
    <2>1. /\ life' = "terminating" /\ shown' = "terminating" /\ holds' = {}
          /\ ending' = [failed |-> failed, emit |-> emit, captured |-> holds]
          /\ cleanup' \in {"killing", "aborting", "draining"}
      BY <1>2 DEF Terminate
    <2> QED BY <2>1 DEF DebugTypeOK, LifeStates, Ended, Ends
  <1> QED BY <1>1, <1>2

\* What an end has to leave alone.
LEMMA EndKeeps ==
  ASSUME DebugInv, life' \in Ended, launch' = launch \/ launch' = "failing",
         ready # "none" \/ targetReady \/ config \notin {"none", "awaiting"} => launch' = "over",
         ready' = ready \/ ready # "none", UNCHANGED <<targetReady, config>>,
         sets'.pending = sets.pending, shown' = "suspended" => shown = "suspended",
         listener' = "waiting" => listener = "waiting",
         \A h \in Handlers : stepping'[h] # "none" => stepping[h] # "none"
  PROVE  Launched' /\ Replaying' /\ Resumed'
  <1>1. Launched'
    BY DEF DebugInv, Launched, Ended
  <1>2. Replaying'
    BY DEF DebugInv, Replaying
  <1>3. Resumed'
    BY DEF DebugInv, Resumed, Ended
  <1> QED BY <1>1, <1>2, <1>3

LEMMA UnwoundKeeps ==
  ASSUME DebugInv, Unwound
  PROVE  DebugInv'
  <1>t. Terminate(TRUE, FALSE)
    BY DEF Unwound
  <1>1. Ends
    BY <1>t, TerminateEnds DEF DebugInv
  <1>2. Connections
    BY CloseTyped DEF DebugInv, Unwound
  <1>3. DebugTypeOK'
    BY <1>1, <1>2, DebugAssumption DEF DebugInv, DebugTypeOK, Handlers, Unwound, Ends, Connections
  <1>4. Launched' /\ Replaying' /\ Resumed'
    <2>1. \A k \in Handlers : stepping'[k] # "none" => stepping[k] # "none"
      BY DEF DebugInv, DebugTypeOK, Unwound
    <2>2. UNCHANGED <<targetReady, config, sets>> /\ (launch' = launch \/ launch' = "failing")
      BY DEF Unwound
    <2>3. ready' = ready \/ ready # "none"
      BY DEF Unwound
    <2>4. ready # "none" \/ targetReady \/ config \notin {"none", "awaiting"} => launch' = "over"
      BY DEF DebugInv, Launched, Unwound
    <2> QED BY <1>1, <1>2, <2>1, <2>2, <2>3, <2>4, EndKeeps DEF Ends, Connections
  <1> QED BY <1>3, <1>4 DEF DebugInv

LEMMA ReleaseFailsKeeps ==
  ASSUME DebugInv, NEW h \in Handlers, ReleaseFails(h)
  PROVE  DebugInv'
  <1>t. Terminate(TRUE, TRUE)
    BY DEF ReleaseFails, Fault
  <1>1. Ends
    BY <1>t, TerminateEnds DEF DebugInv
  <1>2. Connections
    BY DEF DebugInv, DebugTypeOK, ReleaseFails, Fault, backendVars, Ends, Connections
  <1>3. DebugTypeOK'
    BY <1>1, <1>2, DebugAssumption
       DEF DebugInv, DebugTypeOK, Handlers, ReleaseFails, Fault, Ends, Connections
  <1>4. Launched' /\ Replaying' /\ Resumed'
    <2>1. \A k \in Handlers : stepping'[k] # "none" => stepping[k] # "none"
      BY DEF DebugInv, DebugTypeOK, ReleaseFails, Fault
    <2>2. UNCHANGED <<targetReady, config, sets>> /\ (launch' = launch \/ launch' = "failing")
      BY DEF ReleaseFails, Fault
    <2>3. ready' = ready \/ ready # "none"
      BY DEF ReleaseFails, Fault
    <2>4. ready # "none" \/ targetReady \/ config \notin {"none", "awaiting"} => launch' = "over"
      BY DEF DebugInv, Launched, ReleaseFails, Fault
    <2> QED BY <1>1, <1>2, <2>1, <2>2, <2>3, <2>4, EndKeeps DEF Ends, Connections
  <1> QED BY <1>3, <1>4 DEF DebugInv

LEMMA ExecutionCompletesKeeps ==
  ASSUME DebugInv, NEW h \in Handlers, ExecutionCompletes(h)
  PROVE  DebugInv'
  <1>t. Terminate(FALSE, TRUE)
    BY DEF ExecutionCompletes
  <1>1. Ends
    BY <1>t, TerminateEnds DEF DebugInv
  <1>2. Connections
    BY DEF DebugInv, DebugTypeOK, ExecutionCompletes, backendVars, Ends, Connections
  <1>3. DebugTypeOK'
    BY <1>1, <1>2, DebugAssumption
       DEF DebugInv, DebugTypeOK, Handlers, ExecutionCompletes, Ends, Connections
  <1>4. Launched' /\ Replaying' /\ Resumed'
    <2>1. \A k \in Handlers : stepping'[k] # "none" => stepping[k] # "none"
      BY DEF DebugInv, DebugTypeOK, ExecutionCompletes
    <2>2. UNCHANGED <<targetReady, config, sets>> /\ (launch' = launch \/ launch' = "failing")
      BY DEF ExecutionCompletes
    <2>3. ready' = ready \/ ready # "none"
      BY DEF ExecutionCompletes
    <2>4. ready # "none" \/ targetReady \/ config \notin {"none", "awaiting"} => launch' = "over"
      BY DEF DebugInv, Launched, ExecutionCompletes
    <2> QED BY <1>1, <1>2, <2>1, <2>2, <2>3, <2>4, EndKeeps DEF Ends, Connections
  <1> QED BY <1>3, <1>4 DEF DebugInv

LEMMA StopFailsKeeps ==
  ASSUME DebugInv, NEW h \in Handlers, StopFails(h)
  PROVE  DebugInv'
  <1>t. Terminate(TRUE, TRUE)
    BY DEF StopFails, StopRead
  <1>1. Ends
    BY <1>t, TerminateEnds DEF DebugInv
  <1>2. Connections
    BY DEF DebugInv, DebugTypeOK, StopFails, StopRead, backendVars, Ends, Connections
  <1>3. DebugTypeOK'
    BY <1>1, <1>2, DebugAssumption
       DEF DebugInv, DebugTypeOK, Handlers, StopFails, StopRead, Ends, Connections
  <1>4. Launched' /\ Replaying' /\ Resumed'
    <2>1. \A k \in Handlers : stepping'[k] # "none" => stepping[k] # "none"
      BY DEF DebugInv, DebugTypeOK, StopFails, StopRead
    <2>2. UNCHANGED <<targetReady, config, sets>> /\ (launch' = launch \/ launch' = "failing")
      BY DEF StopFails, StopRead
    <2>3. ready' = ready \/ ready # "none"
      BY DEF StopFails, StopRead
    <2>4. ready # "none" \/ targetReady \/ config \notin {"none", "awaiting"} => launch' = "over"
      BY DEF DebugInv, Launched, StopFails, StopRead
    <2> QED BY <1>1, <1>2, <2>1, <2>2, <2>3, <2>4, EndKeeps DEF Ends, Connections
  <1> QED BY <1>3, <1>4 DEF DebugInv

LEMMA DisconnectKeeps ==
  ASSUME DebugInv, Disconnect
  PROVE  DebugInv'
  <1>t. Terminate(FALSE, FALSE)
    BY DEF Disconnect
  <1>1. Ends
    BY <1>t, TerminateEnds DEF DebugInv
  <1>2. Connections
    BY DEF DebugInv, DebugTypeOK, Disconnect, backendVars, Ends, Connections
  <1>3. DebugTypeOK'
    BY <1>1, <1>2, DebugAssumption
       DEF DebugInv, DebugTypeOK, Handlers, Disconnect, Ends, Connections
  <1>4. Launched' /\ Replaying' /\ Resumed'
    <2>1. \A k \in Handlers : stepping'[k] # "none" => stepping[k] # "none"
      BY DEF DebugInv, DebugTypeOK, Disconnect
    <2>2. UNCHANGED <<targetReady, config, sets>> /\ (launch' = launch \/ launch' = "failing")
      BY DEF Disconnect
    <2>3. ready' = ready \/ ready # "none"
      BY DEF Disconnect
    <2>4. ready # "none" \/ targetReady \/ config \notin {"none", "awaiting"} => launch' = "over"
      BY DEF DebugInv, Launched, Disconnect
    <2> QED BY <1>1, <1>2, <2>1, <2>2, <2>3, <2>4, EndKeeps DEF Ends, Connections
  <1> QED BY <1>3, <1>4 DEF DebugInv

LEMMA LossNoticedKeeps ==
  ASSUME DebugInv, LossNoticed
  PROVE  DebugInv'
  <1>t. Terminate(TRUE, TRUE)
    BY DEF LossNoticed
  <1>1. Ends
    BY <1>t, TerminateEnds DEF DebugInv
  <1>2. Connections
    BY DEF DebugInv, DebugTypeOK, LossNoticed, backendVars, Ends, Connections
  <1>3. DebugTypeOK'
    BY <1>1, <1>2, DebugAssumption
       DEF DebugInv, DebugTypeOK, Handlers, LossNoticed, Ends, Connections
  <1>4. Launched' /\ Replaying' /\ Resumed'
    <2>1. \A k \in Handlers : stepping'[k] # "none" => stepping[k] # "none"
      BY DEF DebugInv, DebugTypeOK, LossNoticed
    <2>2. UNCHANGED <<targetReady, config, sets>> /\ (launch' = launch \/ launch' = "failing")
      BY DEF LossNoticed
    <2>3. ready' = ready \/ ready # "none"
      BY DEF LossNoticed
    <2>4. ready # "none" \/ targetReady \/ config \notin {"none", "awaiting"} => launch' = "over"
      BY DEF DebugInv, Launched, LossNoticed
    <2> QED BY <1>1, <1>2, <2>1, <2>2, <2>3, <2>4, EndKeeps DEF Ends, Connections
  <1> QED BY <1>3, <1>4 DEF DebugInv

LEMMA ShutdownKeeps ==
  ASSUME DebugInv, Shutdown
  PROVE  DebugInv'
  <1>t. Terminate(FALSE, FALSE)
    BY DEF Shutdown
  <1>1. Ends
    BY <1>t, TerminateEnds DEF DebugInv
  <1>2. Connections
    BY DEF DebugInv, DebugTypeOK, Shutdown, backendVars, Ends, Connections
  <1>3. DebugTypeOK'
    <2>1. process' \in [asked : BOOLEAN, exited : BOOLEAN, hurried : BOOLEAN, killFailed : BOOLEAN]
      BY DEF DebugInv, DebugTypeOK, Shutdown
    <2> QED BY <1>1, <1>2, <2>1 DEF DebugInv, DebugTypeOK, Shutdown, Ends, Connections
  <1>4. Launched' /\ Replaying' /\ Resumed'
    <2>1. \A k \in Handlers : stepping'[k] # "none" => stepping[k] # "none"
      BY DEF DebugInv, DebugTypeOK, Shutdown
    <2>2. UNCHANGED <<targetReady, config, sets>> /\ (launch' = launch \/ launch' = "failing")
      BY DEF Shutdown
    <2>3. ready' = ready \/ ready # "none"
      BY DEF Shutdown
    <2>4. ready # "none" \/ targetReady \/ config \notin {"none", "awaiting"} => launch' = "over"
      BY DEF DebugInv, Launched, Shutdown
    <2> QED BY <1>1, <1>2, <2>1, <2>2, <2>3, <2>4, EndKeeps DEF Ends, Connections
  <1> QED BY <1>3, <1>4 DEF DebugInv

LEMMA AttachTimesOutKeeps ==
  ASSUME DebugInv, AttachTimesOut
  PROVE  DebugInv'
  <1>t. Terminate(TRUE, TRUE)
    BY DEF AttachTimesOut, NotReady
  <1>1. Ends
    BY <1>t, TerminateEnds DEF DebugInv
  <1>2. Connections
    BY DEF DebugInv, DebugTypeOK, AttachTimesOut, NotReady, backendVars, Ends, Connections
  <1>3. DebugTypeOK'
    BY <1>1, <1>2, DebugAssumption
       DEF DebugInv, DebugTypeOK, Handlers, AttachTimesOut, NotReady, Ends, Connections
  <1>4. Launched' /\ Replaying' /\ Resumed'
    <2>1. \A k \in Handlers : stepping'[k] # "none" => stepping[k] # "none"
      BY DEF DebugInv, DebugTypeOK, AttachTimesOut, NotReady
    <2>2. UNCHANGED <<targetReady, config, sets>> /\ (launch' = launch \/ launch' = "failing")
      BY DEF AttachTimesOut, NotReady
    <2>3. ready' = ready \/ ready # "none"
      BY DEF AttachTimesOut, NotReady
    <2>4. ready # "none" \/ targetReady \/ config \notin {"none", "awaiting"} => launch' = "over"
      BY DEF DebugInv, Launched, AttachTimesOut, NotReady
    <2> QED BY <1>1, <1>2, <2>1, <2>2, <2>3, <2>4, EndKeeps DEF Ends, Connections
  <1> QED BY <1>3, <1>4 DEF DebugInv

LEMMA WaitFailsKeeps ==
  ASSUME DebugInv, WaitFails
  PROVE  DebugInv'
  <1>t. Terminate(TRUE, TRUE)
    BY DEF WaitFails, NotReady
  <1>1. Ends
    BY <1>t, TerminateEnds DEF DebugInv
  <1>2. Connections
    BY DEF DebugInv, DebugTypeOK, WaitFails, NotReady, backendVars, Ends, Connections
  <1>3. DebugTypeOK'
    BY <1>1, <1>2, DebugAssumption
       DEF DebugInv, DebugTypeOK, Handlers, WaitFails, NotReady, Ends, Connections
  <1>4. Launched' /\ Replaying' /\ Resumed'
    <2>1. \A k \in Handlers : stepping'[k] # "none" => stepping[k] # "none"
      BY DEF DebugInv, DebugTypeOK, WaitFails, NotReady
    <2>2. UNCHANGED <<targetReady, config, sets>> /\ (launch' = launch \/ launch' = "failing")
      BY DEF WaitFails, NotReady
    <2>3. ready' = ready \/ ready # "none"
      BY DEF WaitFails, NotReady
    <2>4. ready # "none" \/ targetReady \/ config \notin {"none", "awaiting"} => launch' = "over"
      BY DEF DebugInv, Launched, WaitFails, NotReady
    <2> QED BY <1>1, <1>2, <2>1, <2>2, <2>3, <2>4, EndKeeps DEF Ends, Connections
  <1> QED BY <1>3, <1>4 DEF DebugInv

\* The user's SQL ends, before or after its entry was reached.
LEMMA TargetEndsKeeps ==
  ASSUME DebugInv, TargetEnds
  PROVE  DebugInv'
  <1>0. /\ target' \in {"gone", "idle"}
        /\ UNCHANGED <<listener, cut, announced, launch, targetReady, config, stepping, released,
                       process, sets, stops, faults>>
    BY DEF TargetEnds
  <1>1. CASE ready = "pending" /\ Alive
    <2>1. ready' = "failing" /\ Terminate(TRUE, TRUE)
      BY <1>1 DEF TargetEnds, NotReady
    <2>2. Ends
      BY <2>1, TerminateEnds DEF DebugInv
    <2>3. DebugTypeOK'
      BY <1>0, <2>1, <2>2 DEF DebugInv, DebugTypeOK, Ends, Connections
    <2>4. Launched' /\ Replaying' /\ Resumed'
      <3>1. ready # "none" \/ targetReady \/ config \notin {"none", "awaiting"} => launch' = "over"
        BY <1>0 DEF DebugInv, Launched
      <3> QED BY <1>0, <1>1, <2>2, <3>1, EndKeeps DEF Ends, Connections
    <2> QED BY <2>3, <2>4 DEF DebugInv
  <1>2. CASE ~(ready = "pending" /\ Alive)
    <2>1. UNCHANGED <<ready, life, shown, ending, holds, cleanup>>
      BY <1>2 DEF TargetEnds
    <2> QED BY <1>0, <2>1 DEF DebugInv, DebugTypeOK, Launched, Replaying, Resumed
  <1> QED BY <1>1, <1>2

\* A request for breakpoints fails, and a lost connection ends the session.
LEMMA BreakpointsFailKeeps ==
  ASSUME DebugInv, NEW n \in sets.jobs, BreakpointsFail(n)
  PROVE  DebugInv'
  <1>0. /\ UNCHANGED <<listener, target, cut, announced, launch, ready, targetReady, config, stepping,
                       released, process, stops, faults>>
        /\ sets' = [sets EXCEPT !.jobs = @ \ {n}, !.refused = @ \cup {n}]
    BY DEF BreakpointsFail, backendVars
  <1>1. sets \in Sets
    BY DEF DebugInv, DebugTypeOK, Sets
  <1>2. sets' \in Sets /\ sets'.pending = sets.pending /\ sets.refused \subseteq sets'.refused
    BY <1>0, <1>1 DEF Sets
  <1>3. CASE "listener" \in holds
    <2>1. Terminate(TRUE, TRUE)
      BY <1>3 DEF BreakpointsFail
    <2>2. Ends
      BY <2>1, TerminateEnds DEF DebugInv
    <2>3. DebugTypeOK'
      BY <1>0, <1>2, <2>2 DEF DebugInv, DebugTypeOK, Sets, Ends, Connections
    <2>4. Launched' /\ Replaying' /\ Resumed'
      <3>1. ready # "none" \/ targetReady \/ config \notin {"none", "awaiting"} => launch' = "over"
        BY <1>0 DEF DebugInv, Launched
      <3> QED BY <1>0, <1>2, <2>2, <3>1, EndKeeps DEF Ends, Connections
    <2> QED BY <2>3, <2>4 DEF DebugInv
  <1>4. CASE "listener" \notin holds
    <2>1. UNCHANGED <<life, shown, ending, holds, cleanup>>
      BY <1>4 DEF BreakpointsFail
    <2>2. DebugTypeOK'
      BY <1>0, <1>2, <2>1 DEF DebugInv, DebugTypeOK, Sets
    <2>3. Launched' /\ Replaying' /\ Resumed'
      BY <1>0, <1>2, <2>1 DEF DebugInv, Launched, Replaying, Resumed
    <2> QED BY <2>2, <2>3 DEF DebugInv
  <1> QED BY <1>3, <1>4

-----------------------------------------------------------------------------

LEMMA DebugStep ==
  ASSUME DebugInv, [Next]_vars
  PROVE  DebugInv'
  <1>1. CASE LaunchSteps
    BY <1>1, ListenerConnectsKeeps, ArmedKeeps, ArmingFailsKeeps, TargetConnectsKeeps,
       TargetRefusedKeeps, UnwoundKeeps, LaunchFailsKeeps DEF LaunchSteps
  <1>2. CASE ReadySteps
    BY <1>2, EntryReadKeeps, AttachTimesOutKeeps, WaitFailsKeeps, ReadyFailedKeeps DEF ReadySteps
  <1>3. CASE ConfigSteps
    BY <1>3, ConfigurationDoneKeeps, ConfigGoesOnKeeps, ReplayedKeeps, ConfigReleasesKeeps,
       ConfigBreaksKeeps DEF ConfigSteps
  <1>4. CASE Backends
    BY <1>4, TargetReachesKeeps, TargetStopsKeeps, TargetEndsKeeps, BackendNoticesKeeps DEF Backends
  <1>5. CASE EndSteps
    BY <1>5, KilledKeeps, KillFailsKeeps, AbortedKeeps, DrainedKeeps, TerminatedKeeps, ExitKeeps
       DEF EndSteps
  <1>6. ASSUME NEW h \in Handlers, ExecutionSteps(h) PROVE DebugInv'
    BY <1>6, RequestReleasesKeeps, ReleaseFailsKeeps, ExecutionCompletesKeeps, StopShownKeeps,
       StopPassedKeeps, StopFailsKeeps DEF ExecutionSteps
  <1>7. CASE Launch \/ Disconnect \/ Shutdown \/ ListenerRefused \/ ListenerLost \/ LossNoticed
    BY <1>7, LaunchKeeps, DisconnectKeeps, ShutdownKeeps, ListenerRefusedKeeps, ListenerLostKeeps,
       LossNoticedKeeps
  <1>8. CASE UNCHANGED vars
    BY <1>8 DEF vars, adapterVars, backendVars, DebugInv, DebugTypeOK, Launched, Replaying, Resumed
  <1> QED BY <1>1, <1>2, <1>3, <1>4, <1>5, <1>6, <1>7, <1>8, ExecuteKeeps, SetBreakpointsKeeps,
             BreakpointsAppliedKeeps, BreakpointsFailKeeps DEF Next

LEMMA DebugStart == Init => DebugInv
  <1> SUFFICES ASSUME Init PROVE DebugInv
    OBVIOUS
  <1>1. DebugTypeOK
    <2>1. sets \in Sets /\ stops \in 0..MaxStops /\ faults \in 0..MaxFaults
      BY DebugAssumption DEF Init, Sets
    <2>2. /\ process \in [asked : BOOLEAN, exited : BOOLEAN, hurried : BOOLEAN, killFailed : BOOLEAN]
          /\ ending \in [failed : BOOLEAN, emit : BOOLEAN, captured : SUBSET {"listener", "target"}]
      BY DEF Init
    <2> QED BY <2>1, <2>2 DEF Init, DebugTypeOK, Sets, LifeStates, Ended
  <1>2. Launched /\ Replaying /\ Resumed
    BY DEF Init, Launched, Replaying, Resumed
  <1> QED BY <1>1, <1>2 DEF DebugInv

\* The inductive invariant of a launch, whatever the client asks and wherever it is interrupted.
THEOREM DebugInvariant == Spec => []DebugInv
  BY DebugStart, DebugStep, PTL DEF Spec

\* Types of the lifecycle, the two connections, the handlers and the breakpoints, for any number of
\* requests, stops and faults.
THEOREM DebugTypes == Spec => []DebugTypeOK
  <1>1. DebugInv => DebugTypeOK
    BY DEF DebugInv
  <1> QED BY <1>1, DebugInvariant, PTL

\* At most one handler waits for a step of the target, and none while the session waits for its
\* target (docs/user/debugger.md:74).
THEOREM ResumesAreSingle == Spec => []OneResume
  <1>1. DebugInv => OneResume
    <2> SUFFICES ASSUME DebugInv PROVE OneResume
      OBVIOUS
    <2> DEFINE busy == {h \in Handlers : stepping[h] # "none"}
    <2>1. Cardinality(busy) <= 1
      <3>1. CASE busy = {}
        BY <3>1, FS_EmptySet
      <3>2. CASE busy # {}
        <4>1. PICK h \in busy : TRUE
          BY <3>2
        <4>2. busy = {h}
          BY <4>1 DEF DebugInv, Resumed
        <4> QED BY <4>2, FS_Singleton
      <3> QED BY <3>1, <3>2
    <2>2. listener = "waiting" => \A h \in Handlers : stepping[h] = "none"
      BY DEF DebugInv, Resumed
    <2> QED BY <2>1, <2>2 DEF OneResume
  <1> QED BY <1>1, DebugInvariant, PTL

\* No stop is shown for the first time before the pending breakpoints were set or refused.
THEOREM StopsAreReplayed == Spec => PendingReplayed
  <1>1. DebugInv /\ DebugInv' /\ [Next]_vars =>
          [(shown' = "suspended" /\ life' = "suspended")
             => sets'.pending \in sets'.refused \cup {0}]_shown
    BY DEF DebugInv, Replaying, Resumed, Ended
  <1> QED BY <1>1, DebugInvariant, PTL DEF Spec, PendingReplayed

=============================================================================
