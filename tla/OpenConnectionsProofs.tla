------------------------ MODULE OpenConnectionsProofs ------------------------
(* Theorems of OpenConnections, for any number of Connections, sessions and Scratchpads. *)
EXTENDS OpenConnections, SequenceTheorems, TLAPS

-----------------------------------------------------------------------------
(* The inductive invariant *)

\* The steps of a transition that will connect, and those that follow the end of a session.
Opening == {"password", "prompting", "reopening", "connecting", "recording"}
Ending == {"closing", "unopening", "forgetting"}

\* What a transition that has decided something can still count on when it acts: that the Connection
\* it opens is saved, that it opens no second session, that what it closes is leased, and that what
\* it takes away from the store is not open.
StepOK(c) ==
  /\ step[c] # "waiting" => tails[c] # <<>>
  /\ step[c] \in Opening => c \in saved
  /\ step[c] = "leasing" /\ Head(tails[c]) = "reconnect" => c \in saved
  /\ step[c] \in {"password", "prompting"} /\ registry[c] # None
       => Head(tails[c]) = "reconnect" /\ c \in granted
  /\ step[c] \in {"reopening", "connecting"} \cup Ending => registry[c] = None
  /\ step[c] \in {"reopening"} \cup Ending => c \in granted
  /\ step[c] \in {"unopening", "forgetting"} => c \notin open
  /\ step[c] = "unopening" /\ Head(tails[c]) = "disconnect" => capability[c].of = None

\* ConnectedIsKept and CapabilityOfLiveSession, of one Connection.
LiveOK(c) ==
  /\ registry[c] # None => c \in open /\ c \notin losses
  /\ c \in open => c \in saved
  /\ capability[c].of \in {None, registry[c]} \/ step[c] \in {"reopening", "closing", "unopening"}

\* The change of a Connection is named by it; one that was let in excludes work.
LeaseOK ==
  /\ \A c \in Connections : asked[c] \in {None, c}
  /\ \A c \in granted : asked[c] = c /\ \A s \in Scratchpads : <<s, c>> \notin work

\* A probe whose answer counts was asked of the session the capability names.
ProbesOK == \A p \in probes : p.current => capability[p.conn].of = p.of

ConnInv ==
  /\ ConnTypeOK
  /\ \A c \in Connections : StepOK(c) /\ LiveOK(c)
  /\ NoSessionLeft
  /\ LeaseOK
  /\ ProbesOK

-----------------------------------------------------------------------------
(* Tails *)

LEMMA TailFacts ==
  ASSUME NEW s \in Seq(Transitions), NEW kind \in Transitions
  PROVE  /\ Append(s, kind) \in Seq(Transitions) /\ Append(s, kind) # <<>>
         /\ s # <<>> => /\ Head(Append(s, kind)) = Head(s)
                        /\ Tail(s) \in Seq(Transitions) /\ Head(s) \in Transitions
  <1>1. /\ Append(s, kind) \in Seq(Transitions) /\ Len(Append(s, kind)) = Len(s) + 1
        /\ Len(s) \in Nat /\ \A i \in 1..Len(s) : Append(s, kind)[i] = s[i]
    BY AppendProperties, LenProperties
  <1>2. Append(s, kind) # <<>>
    BY <1>1, EmptySeq
  <1>3. ASSUME s # <<>>
        PROVE  /\ Head(Append(s, kind)) = Head(s)
               /\ Tail(s) \in Seq(Transitions) /\ Head(s) \in Transitions
    <2>1. Len(s) # 0 /\ Tail(s) \in Seq(Transitions) /\ Head(s) = s[1] /\ Head(s) \in Transitions
      BY <1>1, <1>3, EmptySeq, HeadTailProperties
    <2>2. Head(Append(s, kind)) = Append(s, kind)[1]
      BY <1>1, <1>2, HeadTailProperties
    <2> QED BY <1>1, <2>1, <2>2
  <1> QED BY <1>1, <1>2, <1>3

-----------------------------------------------------------------------------
(* What a step of one Connection leaves alone *)

\* Nothing of another Connection changes.
OthersKept(c) ==
  \A d \in Connections \ {c} :
    /\ tails'[d] = tails[d] /\ step'[d] = step[d] /\ registry'[d] = registry[d]
    /\ capability'[d] = capability[d]
    /\ d \in saved <=> d \in saved'
    /\ d \in open <=> d \in open'
    /\ d \in losses <=> d \in losses'
    /\ d \in granted <=> d \in granted'

LEMMA OthersOK ==
  ASSUME ConnInv, NEW c \in Connections, OthersKept(c), (StepOK(c) /\ LiveOK(c))'
  PROVE  \A d \in Connections : (StepOK(d) /\ LiveOK(d))'
  <1> SUFFICES ASSUME NEW d \in Connections, d # c
               PROVE  (StepOK(d) /\ LiveOK(d))'
    OBVIOUS
  <1>1. /\ tails'[d] = tails[d] /\ step'[d] = step[d] /\ registry'[d] = registry[d]
        /\ capability'[d] = capability[d]
        /\ d \in saved <=> d \in saved'
        /\ d \in open <=> d \in open'
        /\ d \in losses <=> d \in losses'
        /\ d \in granted <=> d \in granted'
    BY DEF OthersKept
  <1>2. StepOK(d) /\ LiveOK(d)
    BY DEF ConnInv
  <1>3. StepOK(d)'
    BY <1>1, <1>2 DEF StepOK
  <1>4. LiveOK(d)'
    BY <1>1, <1>2 DEF LiveOK
  <1> QED BY <1>3, <1>4

\* Facts every step starts from.
LEMMA Typed ==
  ASSUME ConnInv
  PROVE  /\ saved \subseteq Connections /\ password \subseteq Connections /\ open \subseteq Connections
         /\ tails \in [Connections -> Seq(Transitions)]
         /\ step \in [Connections -> Steps]
         /\ pending \in [Connections -> Clients \cup {None}]
         /\ registry \in [Connections -> Clients \cup {None}]
         /\ client \in [Clients -> {"free", "connecting", "late", "open", "ending"}]
         /\ losses \subseteq Connections
         /\ capability \in [Connections -> [status: {"unknown", "checking", "known"},
                                            of: Clients \cup {None}]]
         /\ probes \subseteq Probe
         /\ inputBox \in ({"rename", "password"} \X Connections) \cup {None}
         /\ work \subseteq Scratchpads \X Connections
         /\ asked \in [Connections -> Connections \cup {None}]
         /\ granted \subseteq Connections
  BY DEF ConnInv, ConnTypeOK, Gate!GateTypeOK

LEMMA GateKept ==
  ASSUME ConnInv, UNCHANGED gateVars
  PROVE  LeaseOK' /\ Gate!GateTypeOK'
  BY DEF ConnInv, ConnTypeOK, LeaseOK, Gate!GateTypeOK, gateVars

\* The end of a transition gives the lease back.
LEMMA UnleaseOK ==
  ASSUME ConnInv, NEW c \in Connections, Unlease(c)
  PROVE  /\ LeaseOK' /\ Gate!GateTypeOK'
         /\ \A d \in Connections \ {c} : d \in granted <=> d \in granted'
  <1>1. CASE UNCHANGED gateVars
    BY <1>1, GateKept DEF gateVars
  <1>2. CASE Gate!Withdraw(c)
    BY <1>2 DEF ConnInv, ConnTypeOK, LeaseOK, Gate!GateTypeOK, Gate!Withdraw
  <1> QED BY <1>1, <1>2 DEF Unlease

\* A transition settles, when its Connection's own facts allow it to wait.
LEMMA SettleStep ==
  ASSUME ConnInv, NEW c \in Connections, tails[c] # <<>>, Settle(c)
  PROVE  /\ tails' \in [Connections -> Seq(Transitions)] /\ step' \in [Connections -> Steps]
         /\ pending' \in [Connections -> Clients \cup {None}]
         /\ step'[c] = "waiting"
         /\ \A d \in Connections \ {c} : tails'[d] = tails[d] /\ step'[d] = step[d]
         /\ LeaseOK' /\ Gate!GateTypeOK'
         /\ \A d \in Connections \ {c} : d \in granted <=> d \in granted'
         /\ StepOK(c)'
  <1>1. /\ tails' = [tails EXCEPT ![c] = Tail(@)] /\ step' = [step EXCEPT ![c] = "waiting"]
        /\ pending' = [pending EXCEPT ![c] = None] /\ Unlease(c)
    BY DEF Settle
  <1>2. Tail(tails[c]) \in Seq(Transitions)
    BY Typed, TailFacts DEF Transitions
  <1>3. /\ tails' \in [Connections -> Seq(Transitions)] /\ step' \in [Connections -> Steps]
        /\ pending' \in [Connections -> Clients \cup {None}]
        /\ step'[c] = "waiting"
        /\ \A d \in Connections \ {c} : tails'[d] = tails[d] /\ step'[d] = step[d]
    BY <1>1, <1>2, Typed DEF Steps
  <1>4. StepOK(c)'
    BY <1>3 DEF StepOK, Opening, Ending
  <1> QED BY <1>1, <1>3, <1>4, UnleaseOK

\* A transition goes on to another await.
LEMMA GoOnStep ==
  ASSUME ConnInv, NEW c \in Connections, NEW p \in Steps, GoOn(c, p)
  PROVE  /\ tails' = tails /\ step' \in [Connections -> Steps] /\ step'[c] = p
         /\ \A d \in Connections \ {c} : step'[d] = step[d]
  BY Typed DEF GoOn

\* Everything but the Connection at work and what has no Connection.
LEMMA ConnStep ==
  ASSUME ConnInv, NEW c \in Connections, OthersKept(c), (StepOK(c) /\ LiveOK(c))',
         ConnTypeOK', NoSessionLeft', LeaseOK', ProbesOK'
  PROVE  ConnInv'
  BY OthersOK DEF ConnInv

-----------------------------------------------------------------------------
(* Probes *)

LEMMA ForgetStep ==
  ASSUME ConnInv, NEW c \in Connections, ForgetCapability(c)
  PROVE  /\ ProbesOK' /\ probes' \subseteq Probe
         /\ capability' \in [Connections -> [status: {"unknown", "checking", "known"},
                                             of: Clients \cup {None}]]
         /\ capability'[c].of = None
         /\ \A d \in Connections \ {c} : capability'[d] = capability[d]
  <1>1. /\ capability' = [capability EXCEPT ![c] = NoCapability] /\ probes' = Stale(c)
        /\ NoCapability \in [status: {"unknown", "checking", "known"}, of: Clients \cup {None}]
        /\ NoCapability.of = None
    BY DEF ForgetCapability, NoCapability
  <1>2. \A p \in probes : p \in Probe
    BY Typed
  <1>3. ASSUME NEW p \in probes
        PROVE  LET q == [p EXCEPT !.current = @ /\ p.conn # c] IN
               /\ q \in Probe /\ q.conn = p.conn /\ q.of = p.of
               /\ q.current => p.current /\ p.conn # c
    <2>1. p \in Probe /\ (p.current /\ p.conn # c) \in BOOLEAN
      BY <1>2
    <2> QED BY <2>1 DEF Probe
  <1>4. probes' \subseteq Probe
    BY <1>1, <1>3 DEF Stale
  <1>5. /\ capability' \in [Connections -> [status: {"unknown", "checking", "known"},
                                             of: Clients \cup {None}]]
        /\ capability'[c].of = None
        /\ \A d \in Connections \ {c} : capability'[d] = capability[d]
    BY <1>1, Typed
  <1>6. ProbesOK'
    <2> SUFFICES ASSUME NEW q \in probes', q.current
                 PROVE  capability'[q.conn].of = q.of
      BY DEF ProbesOK
    <2>1. PICK p \in probes : q = [p EXCEPT !.current = @ /\ p.conn # c]
      BY <1>1 DEF Stale
    <2>2. q.conn = p.conn /\ q.of = p.of /\ p.current /\ p.conn # c /\ p.conn \in Connections
      BY <1>2, <1>3, <2>1 DEF Probe
    <2> QED BY <1>5, <2>2 DEF ConnInv, ProbesOK
  <1> QED BY <1>4, <1>5, <1>6

LEMMA ProbeStep ==
  ASSUME ConnInv, NEW c \in Connections, NEW k \in Clients \cup {None}, ProbeOf(c, k)
  PROVE  /\ ProbesOK' /\ probes' \subseteq Probe
         /\ capability' \in [Connections -> [status: {"unknown", "checking", "known"},
                                             of: Clients \cup {None}]]
         /\ capability'[c].of = k
         /\ \A d \in Connections \ {c} : capability'[d] = capability[d]
  <1>1. /\ capability' = [capability EXCEPT ![c] = [status |-> "checking", of |-> k]]
        /\ probes' = Stale(c) \cup {[conn |-> c, of |-> k, current |-> TRUE]}
    BY DEF ProbeOf
  <1>2. \A p \in probes : p \in Probe
    BY Typed
  <1>3. ASSUME NEW p \in probes
        PROVE  LET q == [p EXCEPT !.current = @ /\ p.conn # c] IN
               /\ q \in Probe /\ q.conn = p.conn /\ q.of = p.of
               /\ q.current => p.current /\ p.conn # c
    <2>1. p \in Probe /\ (p.current /\ p.conn # c) \in BOOLEAN
      BY <1>2
    <2> QED BY <2>1 DEF Probe
  <1>4. probes' \subseteq Probe
    <2>1. [conn |-> c, of |-> k, current |-> TRUE] \in Probe
      BY DEF Probe
    <2>2. Stale(c) \subseteq Probe
      BY <1>3 DEF Stale
    <2> QED BY <1>1, <2>1, <2>2
  <1>5. /\ capability' \in [Connections -> [status: {"unknown", "checking", "known"},
                                             of: Clients \cup {None}]]
        /\ capability'[c].of = k
        /\ \A d \in Connections \ {c} : capability'[d] = capability[d]
    BY <1>1, Typed
  <1>6. ProbesOK'
    <2> SUFFICES ASSUME NEW q \in probes', q.current
                 PROVE  capability'[q.conn].of = q.of
      BY DEF ProbesOK
    <2>1. CASE q \in Stale(c)
      <3>1. PICK p \in probes : q = [p EXCEPT !.current = @ /\ p.conn # c]
        BY <2>1 DEF Stale
      <3>2. q.conn = p.conn /\ q.of = p.of /\ p.current /\ p.conn # c /\ p.conn \in Connections
        BY <1>2, <1>3, <3>1 DEF Probe
      <3> QED BY <1>5, <3>2 DEF ConnInv, ProbesOK
    <2>2. CASE q = [conn |-> c, of |-> k, current |-> TRUE]
      BY <1>5, <2>2
    <2> QED BY <1>1, <2>1, <2>2
  <1> QED BY <1>4, <1>5, <1>6

LEMMA ProbesKept ==
  ASSUME ConnInv, UNCHANGED probeVars
  PROVE  ProbesOK' /\ capability' = capability /\ probes' = probes
  BY DEF ConnInv, ProbesOK, probeVars

LEMMA ClientsKept ==
  ASSUME ConnInv, registry' = registry, client' = client
  PROVE  NoSessionLeft'
  BY DEF ConnInv, NoSessionLeft

-----------------------------------------------------------------------------
(* A transition starts *)

LEMMA RefuseKeepsInv ==
  ASSUME ConnInv, NEW c \in Connections, tails[c] # <<>>, Refuse(c),
         capability[c].of \in {None, registry[c]}
  PROVE  ConnInv'
  <1>1. Settle(c) /\ UNCHANGED <<storeVars, liveVars, probeVars, inputBox>>
    BY DEF Refuse
  <1>2. /\ saved' = saved /\ password' = password /\ open' = open /\ registry' = registry
        /\ client' = client /\ losses' = losses /\ capability' = capability /\ probes' = probes
        /\ inputBox' = inputBox /\ ProbesOK'
    BY <1>1, ProbesKept DEF storeVars, liveVars
  <1>3. ConnTypeOK'
    BY <1>1, <1>2, SettleStep, Typed DEF ConnTypeOK
  <1>4. LiveOK(c)'
    BY <1>2 DEF ConnInv, LiveOK
  <1>5. OthersKept(c)
    BY <1>1, <1>2, SettleStep DEF OthersKept
  <1> QED BY <1>1, <1>2, <1>3, <1>4, <1>5, SettleStep, ClientsKept, ConnStep

LEMMA StartKeepsInv ==
  ASSUME ConnInv, NEW c \in Connections, StartConnect(c) \/ StartChange(c) \/ LeaseRefused(c)
                                         \/ PasswordRefused(c)
  PROVE  ConnInv'
  <1>1. StepOK(c) /\ LiveOK(c)
    BY DEF ConnInv
  <1>2. CASE Refuse(c)
    <2>1. /\ step[c] \in {"waiting", "leasing", "prompting"}
          /\ tails[c] # <<>>
      BY <1>1 DEF StartConnect, StartChange, LeaseRefused, PasswordRefused, Running, StepOK
    <2>2. capability[c].of \in {None, registry[c]}
      BY <1>1, <2>1 DEF LiveOK
    <2> QED BY <1>2, <2>1, <2>2, RefuseKeepsInv
  <1>3. CASE /\ Running(c, {"connect", "reconnect"}, "waiting") /\ c \in saved /\ registry[c] = None
             /\ GoOn(c, "password")
             /\ UNCHANGED <<storeVars, pending, liveVars, probeVars, inputBox, gateVars>>
    <2>1. /\ tails' = tails /\ step' \in [Connections -> Steps] /\ step'[c] = "password"
          /\ \A d \in Connections \ {c} : step'[d] = step[d]
      BY <1>3, GoOnStep DEF Steps
    <2>2. /\ saved' = saved /\ password' = password /\ open' = open /\ registry' = registry
          /\ client' = client /\ losses' = losses /\ capability' = capability /\ probes' = probes
          /\ inputBox' = inputBox /\ pending' = pending /\ granted' = granted
          /\ ProbesOK' /\ LeaseOK' /\ Gate!GateTypeOK'
      BY <1>3, ProbesKept, GateKept DEF storeVars, liveVars, gateVars
    <2>3. ConnTypeOK'
      BY <2>1, <2>2, Typed DEF ConnTypeOK
    <2>4. StepOK(c)'
      BY <1>3, <2>1, <2>2 DEF StepOK, Running, Opening, Ending
    <2>5. LiveOK(c)'
      BY <1>1, <1>3, <2>2 DEF LiveOK, Running
    <2>6. OthersKept(c)
      BY <2>1, <2>2 DEF OthersKept
    <2> QED BY <2>2, <2>3, <2>4, <2>5, <2>6, ClientsKept, ConnStep
  <1>4. CASE /\ Running(c, Transitions \ {"connect"}, "waiting")
             /\ Head(tails[c]) = "reconnect" => c \in saved
             /\ Gate!Ask(c, c) /\ GoOn(c, "leasing")
             /\ UNCHANGED <<storeVars, pending, liveVars, probeVars, inputBox>>
    <2>1. /\ tails' = tails /\ step' \in [Connections -> Steps] /\ step'[c] = "leasing"
          /\ \A d \in Connections \ {c} : step'[d] = step[d]
      BY <1>4, GoOnStep DEF Steps
    <2>2. /\ saved' = saved /\ password' = password /\ open' = open /\ registry' = registry
          /\ client' = client /\ losses' = losses /\ capability' = capability /\ probes' = probes
          /\ inputBox' = inputBox /\ pending' = pending /\ ProbesOK'
      BY <1>4, ProbesKept DEF storeVars, liveVars
    <2>3. LeaseOK' /\ Gate!GateTypeOK' /\ granted' = granted
      BY <1>4, Typed DEF ConnInv, LeaseOK, Gate!Ask, Gate!GateTypeOK
    <2>4. ConnTypeOK'
      BY <2>1, <2>2, <2>3, Typed DEF ConnTypeOK
    <2>5. StepOK(c)'
      BY <1>4, <2>1, <2>2 DEF StepOK, Running, Opening, Ending
    <2>6. LiveOK(c)'
      BY <1>1, <1>4, <2>2 DEF LiveOK, Running
    <2>7. OthersKept(c)
      BY <2>1, <2>2, <2>3 DEF OthersKept
    <2> QED BY <2>2, <2>3, <2>4, <2>5, <2>6, <2>7, ClientsKept, ConnStep
  <1>5. CASE StartConnect(c)
    BY <1>2, <1>3, <1>4, <1>5 DEF StartConnect, Running, Transitions
  <1>6. CASE StartChange(c)
    BY <1>4, <1>6 DEF StartChange, Running, Transitions
  <1> QED BY <1>2, <1>5, <1>6 DEF LeaseRefused, PasswordRefused

-----------------------------------------------------------------------------
(* A session is closed, or opened *)

\* The registry forgets the session of c; nobody else's session is concerned.
LEMMA CloseStep ==
  ASSUME ConnInv, NEW c \in Connections, NEW p \in Steps, CloseClient(c, p)
  PROVE  /\ registry' \in [Connections -> Clients \cup {None}] /\ registry'[c] = None
         /\ client' \in [Clients -> {"free", "connecting", "late", "open", "ending"}]
         /\ \A d \in Connections \ {c} : registry'[d] = registry[d]
         /\ losses' = losses /\ NoSessionLeft'
         /\ tails' = tails /\ step' \in [Connections -> Steps] /\ step'[c] = p
         /\ \A d \in Connections \ {c} : step'[d] = step[d]
  <1>1. /\ registry' = [registry EXCEPT ![c] = None]
        /\ client' = IF registry[c] = None THEN client
                                           ELSE [client EXCEPT ![registry[c]] = "ending"]
        /\ GoOn(c, p) /\ losses' = losses
    BY DEF CloseClient
  <1>2. /\ registry' \in [Connections -> Clients \cup {None}] /\ registry'[c] = None
        /\ client' \in [Clients -> {"free", "connecting", "late", "open", "ending"}]
        /\ \A d \in Connections \ {c} : registry'[d] = registry[d]
    BY <1>1, Typed
  <1>3. NoSessionLeft'
    <2> SUFFICES ASSUME NEW k \in Clients, client'[k] = "open"
                 PROVE  \E d \in Connections : registry'[d] = k
      BY DEF NoSessionLeft
    <2>1. client[k] = "open" /\ k # registry[c]
      BY <1>1, Typed, OpenConnectionsAssumption DEF OpenConnectionsAssumption
    <2>2. PICK d \in Connections : registry[d] = k
      BY <2>1 DEF ConnInv, NoSessionLeft
    <2> QED BY <1>2, <2>1, <2>2
  <1> QED BY <1>1, <1>2, <1>3, GoOnStep

LEMMA LeaseTakenKeepsInv ==
  ASSUME ConnInv, NEW c \in Connections, LeaseTaken(c)
  PROVE  ConnInv'
  <1>1. StepOK(c) /\ LiveOK(c)
    BY DEF ConnInv
  <1>2. /\ saved' = saved /\ password' = password /\ open' = open
        /\ capability' = capability /\ probes' = probes /\ inputBox' = inputBox /\ ProbesOK'
    BY ProbesKept DEF LeaseTaken, storeVars
  <1>3. LeaseOK' /\ Gate!GateTypeOK' /\ granted' = granted \cup {c}
    <2>1. Gate!Allow(c)
      BY DEF LeaseTaken
    <2>2. asked[c] = c
      BY <2>1 DEF ConnInv, LeaseOK, Gate!Allow
    <2> QED BY <2>1, <2>2, Typed DEF ConnInv, LeaseOK, Gate!Allow, Gate!GateTypeOK
  <1>4. CASE /\ Running(c, {"reconnect"}, "leasing")
             /\ GoOn(c, "password")
             /\ UNCHANGED <<pending, liveVars>>
    <2>1. /\ tails' = tails /\ step' \in [Connections -> Steps] /\ step'[c] = "password"
          /\ \A d \in Connections \ {c} : step'[d] = step[d]
      BY <1>4, GoOnStep DEF Steps
    <2>2. registry' = registry /\ client' = client /\ losses' = losses /\ pending' = pending
      BY <1>4 DEF liveVars
    <2>3. ConnTypeOK'
      BY <1>2, <1>3, <2>1, <2>2, Typed DEF ConnTypeOK
    <2>4. StepOK(c)'
      BY <1>1, <1>2, <1>3, <1>4, <2>1, <2>2 DEF StepOK, Running, Opening, Ending
    <2>5. LiveOK(c)'
      BY <1>1, <1>2, <1>4, <2>2 DEF LiveOK, Running
    <2>6. OthersKept(c)
      BY <1>2, <1>3, <2>1, <2>2 DEF OthersKept
    <2> QED BY <1>2, <1>3, <2>2, <2>3, <2>4, <2>5, <2>6, ClientsKept, ConnStep
  <1>5. CASE /\ Running(c, {"disconnect", "remove", "replace"}, "leasing")
             /\ CloseClient(c, "closing")
             /\ pending' = [pending EXCEPT ![c] = registry[c]]
    <2>1. /\ registry' \in [Connections -> Clients \cup {None}] /\ registry'[c] = None
          /\ client' \in [Clients -> {"free", "connecting", "late", "open", "ending"}]
          /\ \A d \in Connections \ {c} : registry'[d] = registry[d]
          /\ losses' = losses /\ NoSessionLeft'
          /\ tails' = tails /\ step' \in [Connections -> Steps] /\ step'[c] = "closing"
          /\ \A d \in Connections \ {c} : step'[d] = step[d]
      BY <1>5, CloseStep DEF Steps
    <2>2. pending' \in [Connections -> Clients \cup {None}]
      BY <1>5, Typed
    <2>3. ConnTypeOK'
      BY <1>2, <1>3, <2>1, <2>2, Typed DEF ConnTypeOK
    <2>4. StepOK(c)'
      BY <1>3, <1>5, <2>1 DEF StepOK, Running, Opening, Ending
    <2>5. LiveOK(c)'
      BY <1>1, <1>2, <2>1 DEF LiveOK
    <2>6. OthersKept(c)
      BY <1>2, <1>3, <2>1 DEF OthersKept
    <2> QED BY <1>2, <1>3, <2>1, <2>3, <2>4, <2>5, <2>6, ConnStep
  <1> QED BY <1>4, <1>5 DEF LeaseTaken

\* A session begins to connect.
LEMMA ConnectingStep ==
  ASSUME ConnInv, NEW c \in Connections, \E k \in Clients : Connecting(c, k)
  PROVE  /\ client' \in [Clients -> {"free", "connecting", "late", "open", "ending"}]
         /\ pending' \in [Connections -> Clients \cup {None}]
         /\ tails' = tails /\ step' \in [Connections -> Steps] /\ step'[c] = "connecting"
         /\ \A d \in Connections \ {c} : step'[d] = step[d]
         /\ registry' = registry => NoSessionLeft'
  <1>1. PICK k \in Clients : Connecting(c, k)
    OBVIOUS
  <1>2. /\ client' = [client EXCEPT ![k] = "connecting"]
        /\ pending' = [pending EXCEPT ![c] = k] /\ GoOn(c, "connecting")
    BY <1>1 DEF Connecting
  <1>3. registry' = registry => NoSessionLeft'
    BY <1>2, Typed DEF ConnInv, NoSessionLeft
  <1>4. /\ tails' = tails /\ step' \in [Connections -> Steps] /\ step'[c] = "connecting"
        /\ \A d \in Connections \ {c} : step'[d] = step[d]
    BY <1>2, GoOnStep DEF Steps
  <1> QED BY <1>2, <1>3, <1>4, Typed

LEMMA PasswordKnownKeepsInv ==
  ASSUME ConnInv, NEW c \in Connections, step[c] \in {"password", "prompting"}, HavePassword(c),
         saved' = saved, open' = open, password' \subseteq Connections, inputBox' = inputBox,
         UNCHANGED probeVars, UNCHANGED gateVars
  PROVE  ConnInv'
  <1>1. StepOK(c) /\ LiveOK(c)
    BY DEF ConnInv
  <1>2. /\ capability' = capability /\ probes' = probes /\ ProbesOK' /\ LeaseOK'
        /\ Gate!GateTypeOK' /\ granted' = granted
    BY ProbesKept, GateKept DEF gateVars
  <1>3. CASE /\ Head(tails[c]) = "reconnect" /\ registry[c] # None
             /\ CloseClient(c, "reopening") /\ pending' = [pending EXCEPT ![c] = registry[c]]
    <2>1. /\ registry' \in [Connections -> Clients \cup {None}] /\ registry'[c] = None
          /\ client' \in [Clients -> {"free", "connecting", "late", "open", "ending"}]
          /\ \A d \in Connections \ {c} : registry'[d] = registry[d]
          /\ losses' = losses /\ NoSessionLeft'
          /\ tails' = tails /\ step' \in [Connections -> Steps] /\ step'[c] = "reopening"
          /\ \A d \in Connections \ {c} : step'[d] = step[d]
      BY <1>3, CloseStep DEF Steps
    <2>2. pending' \in [Connections -> Clients \cup {None}]
      BY <1>3, Typed
    <2>3. ConnTypeOK'
      BY <1>2, <2>1, <2>2, Typed DEF ConnTypeOK
    <2>4. StepOK(c)'
      BY <1>1, <1>2, <1>3, <2>1 DEF StepOK, Opening, Ending
    <2>5. LiveOK(c)'
      BY <1>1, <1>2, <2>1 DEF LiveOK
    <2>6. OthersKept(c)
      BY <1>2, <2>1 DEF OthersKept
    <2> QED BY <1>2, <2>1, <2>3, <2>4, <2>5, <2>6, ConnStep
  <1>4. CASE /\ ~(Head(tails[c]) = "reconnect" /\ registry[c] # None)
             /\ \E k \in Clients : Connecting(c, k)
             /\ registry' = registry /\ losses' = losses
    <2>1. /\ client' \in [Clients -> {"free", "connecting", "late", "open", "ending"}]
          /\ pending' \in [Connections -> Clients \cup {None}]
          /\ tails' = tails /\ step' \in [Connections -> Steps] /\ step'[c] = "connecting"
          /\ \A d \in Connections \ {c} : step'[d] = step[d]
          /\ NoSessionLeft'
      BY <1>4, ConnectingStep
    <2>2. ConnTypeOK'
      BY <1>2, <1>4, <2>1, Typed DEF ConnTypeOK
    <2>3. StepOK(c)'
      BY <1>1, <1>2, <1>4, <2>1 DEF StepOK, Opening, Ending
    <2>4. LiveOK(c)'
      BY <1>1, <1>2, <1>4 DEF LiveOK
    <2>5. OthersKept(c)
      BY <1>2, <1>4, <2>1 DEF OthersKept
    <2> QED BY <1>2, <2>1, <2>2, <2>3, <2>4, <2>5, ConnStep
  <1> QED BY <1>3, <1>4 DEF HavePassword

LEMMA PasswordKeepsInv ==
  ASSUME ConnInv, NEW c \in Connections, PasswordRead(c) \/ PasswordEntered(c)
  PROVE  ConnInv'
  <1>1. StepOK(c) /\ LiveOK(c)
    BY DEF ConnInv
  <1>2. CASE PasswordRead(c) /\ c \in password
    BY <1>2, Typed, PasswordKnownKeepsInv DEF PasswordRead, storeVars
  <1>3. CASE PasswordEntered(c)
    BY <1>3, Typed, PasswordKnownKeepsInv DEF PasswordEntered
  <1>4. CASE PasswordRead(c) /\ c \notin password
    <2>1. /\ step[c] = "password" /\ GoOn(c, "prompting")
          /\ UNCHANGED <<pending, liveVars>>
          /\ UNCHANGED <<storeVars, probeVars, inputBox, gateVars>>
      BY <1>4 DEF PasswordRead
    <2>2. /\ tails' = tails /\ step' \in [Connections -> Steps] /\ step'[c] = "prompting"
          /\ \A d \in Connections \ {c} : step'[d] = step[d]
      BY <2>1, GoOnStep DEF Steps
    <2>3. /\ saved' = saved /\ password' = password /\ open' = open /\ registry' = registry
          /\ client' = client /\ losses' = losses /\ capability' = capability /\ probes' = probes
          /\ inputBox' = inputBox /\ pending' = pending /\ granted' = granted
          /\ ProbesOK' /\ LeaseOK' /\ Gate!GateTypeOK'
      BY <2>1, ProbesKept, GateKept DEF storeVars, liveVars, gateVars
    <2>4. ConnTypeOK'
      BY <2>2, <2>3, Typed DEF ConnTypeOK
    <2>5. StepOK(c)'
      BY <1>1, <2>1, <2>2, <2>3 DEF StepOK, Opening, Ending
    <2>6. LiveOK(c)'
      BY <1>1, <2>1, <2>3 DEF LiveOK
    <2>7. OthersKept(c)
      BY <2>2, <2>3 DEF OthersKept
    <2> QED BY <2>3, <2>4, <2>5, <2>6, <2>7, ClientsKept, ConnStep
  <1> QED BY <1>2, <1>3, <1>4

LEMMA ReopenKeepsInv ==
  ASSUME ConnInv, NEW c \in Connections, Reopen(c)
  PROVE  ConnInv'
  <1>1. StepOK(c) /\ LiveOK(c) /\ step[c] = "reopening"
    BY DEF ConnInv, Reopen
  <1>2. /\ saved' = saved /\ password' = password /\ open' = open /\ registry' = registry
        /\ losses' = losses \ {c} /\ inputBox' = inputBox
        /\ LeaseOK' /\ Gate!GateTypeOK' /\ granted' = granted
    BY GateKept DEF Reopen, storeVars, gateVars
  <1>3. /\ client' \in [Clients -> {"free", "connecting", "late", "open", "ending"}]
        /\ pending' \in [Connections -> Clients \cup {None}]
        /\ tails' = tails /\ step' \in [Connections -> Steps] /\ step'[c] = "connecting"
        /\ \A d \in Connections \ {c} : step'[d] = step[d]
        /\ NoSessionLeft'
    BY <1>2, ConnectingStep DEF Reopen
  <1>4. /\ ProbesOK' /\ probes' \subseteq Probe
        /\ capability' \in [Connections -> [status: {"unknown", "checking", "known"},
                                             of: Clients \cup {None}]]
        /\ capability'[c].of = None
        /\ \A d \in Connections \ {c} : capability'[d] = capability[d]
    BY ForgetStep DEF Reopen
  <1>5. ConnTypeOK'
    BY <1>2, <1>3, <1>4, Typed DEF ConnTypeOK
  <1>6. StepOK(c)'
    BY <1>1, <1>2, <1>3 DEF StepOK, Opening, Ending
  <1>7. LiveOK(c)'
    BY <1>1, <1>2, <1>4 DEF LiveOK
  <1>8. OthersKept(c)
    BY <1>2, <1>3, <1>4 DEF OthersKept
  <1> QED BY <1>2, <1>3, <1>4, <1>5, <1>6, <1>7, <1>8, ConnStep

LEMMA SucceedsKeepsInv ==
  ASSUME ConnInv, NEW c \in Connections, ConnectSucceeds(c)
  PROVE  ConnInv'
  <1>1. StepOK(c) /\ LiveOK(c) /\ step[c] = "connecting" /\ registry[c] = None /\ c \in saved
    BY DEF ConnInv, ConnectSucceeds, StepOK, Opening
  <1>2. /\ saved' = saved /\ password' = password /\ open' = open \cup {c}
        /\ registry' = [registry EXCEPT ![c] = pending[c]]
        /\ client' = [client EXCEPT ![pending[c]] = "open"]
        /\ losses' = losses \ {c} /\ inputBox' = inputBox /\ pending' = pending
        /\ capability' = capability /\ probes' = probes /\ ProbesOK'
        /\ LeaseOK' /\ Gate!GateTypeOK' /\ granted' = granted
    BY ProbesKept, GateKept DEF ConnectSucceeds, gateVars
  <1>3. /\ tails' = tails /\ step' \in [Connections -> Steps] /\ step'[c] = "recording"
        /\ \A d \in Connections \ {c} : step'[d] = step[d]
    BY GoOnStep DEF ConnectSucceeds, Steps
  <1>4. ConnTypeOK'
    BY <1>1, <1>2, <1>3, Typed DEF ConnTypeOK
  <1>5. StepOK(c)'
    BY <1>1, <1>2, <1>3 DEF StepOK, Opening, Ending
  <1>6. LiveOK(c)'
    BY <1>1, <1>2 DEF LiveOK
  <1>7. NoSessionLeft'
    <2> SUFFICES ASSUME NEW k \in Clients, client'[k] = "open"
                 PROVE  \E d \in Connections : registry'[d] = k
      BY DEF NoSessionLeft
    <2>1. CASE k = pending[c]
      BY <1>2, <2>1, Typed
    <2>2. CASE k # pending[c]
      <3>1. PICK d \in Connections : registry[d] = k
        BY <1>2, <2>2, Typed DEF ConnInv, NoSessionLeft
      <3>2. d # c
        BY <1>1, <3>1, OpenConnectionsAssumption DEF OpenConnectionsAssumption
      <3> QED BY <1>2, <3>1, <3>2, Typed
    <2> QED BY <2>1, <2>2
  <1>8. OthersKept(c)
    BY <1>2, <1>3, Typed DEF OthersKept
  <1> QED BY <1>2, <1>4, <1>5, <1>6, <1>7, <1>8, ConnStep

LEMMA RecordedKeepsInv ==
  ASSUME ConnInv, NEW c \in Connections, Recorded(c)
  PROVE  ConnInv'
  <1>1. StepOK(c) /\ LiveOK(c) /\ step[c] = "recording" /\ tails[c] # <<>>
    BY DEF ConnInv, Recorded, StepOK
  <1>2. /\ saved' = saved /\ password' = password /\ open' = open /\ registry' = registry
        /\ client' = client /\ losses' = losses /\ inputBox' = inputBox
        /\ Settle(c) /\ ProbeOf(c, registry[c])
    BY DEF Recorded, storeVars, liveVars
  <1>3. /\ ProbesOK' /\ probes' \subseteq Probe
        /\ capability' \in [Connections -> [status: {"unknown", "checking", "known"},
                                             of: Clients \cup {None}]]
        /\ capability'[c].of = registry[c]
        /\ \A d \in Connections \ {c} : capability'[d] = capability[d]
    BY <1>2, ProbeStep, Typed
  <1>4. ConnTypeOK'
    BY <1>1, <1>2, <1>3, SettleStep, Typed DEF ConnTypeOK
  <1>5. LiveOK(c)'
    BY <1>1, <1>2, <1>3 DEF LiveOK
  <1>6. OthersKept(c)
    BY <1>1, <1>2, <1>3, SettleStep DEF OthersKept
  <1> QED BY <1>1, <1>2, <1>3, <1>4, <1>5, <1>6, SettleStep, ClientsKept, ConnStep

LEMMA FailsKeepsInv ==
  ASSUME ConnInv, NEW c \in Connections, ConnectFails(c) \/ ConnectCancelled(c)
  PROVE  ConnInv'
  <1>1. StepOK(c) /\ LiveOK(c) /\ step[c] = "connecting" /\ tails[c] # <<>>
    BY DEF ConnInv, ConnectFails, ConnectCancelled, StepOK
  <1>2. /\ saved' = saved /\ password' = password /\ open' = open /\ registry' = registry
        /\ losses' = losses /\ inputBox' = inputBox /\ Settle(c)
        /\ capability' = capability /\ probes' = probes /\ ProbesOK'
    BY ProbesKept DEF ConnectFails, ConnectCancelled, storeVars
  <1>3. /\ client' \in [Clients -> {"free", "connecting", "late", "open", "ending"}]
        /\ \A k \in Clients : client'[k] = "open" => client[k] = "open"
    BY Typed DEF ConnectFails, ConnectCancelled
  <1>4. NoSessionLeft'
    BY <1>2, <1>3 DEF ConnInv, NoSessionLeft
  <1>5. ConnTypeOK'
    BY <1>1, <1>2, <1>3, SettleStep, Typed DEF ConnTypeOK
  <1>6. LiveOK(c)'
    BY <1>1, <1>2 DEF LiveOK
  <1>7. OthersKept(c)
    BY <1>1, <1>2, SettleStep DEF OthersKept
  <1> QED BY <1>1, <1>2, <1>4, <1>5, <1>6, <1>7, SettleStep, ConnStep

-----------------------------------------------------------------------------
(* What is taken away from the store *)

LEMMA ClosedKeepsInv ==
  ASSUME ConnInv, NEW c \in Connections, Closed(c)
  PROVE  ConnInv'
  <1>1. /\ StepOK(c) /\ LiveOK(c) /\ step[c] = "closing" /\ registry[c] = None
        /\ c \in granted /\ tails[c] # <<>>
    BY DEF ConnInv, Closed, StepOK, Ending
  <1>2. /\ saved' = saved /\ password' = password /\ open' = open \ {c} /\ registry' = registry
        /\ client' = client /\ inputBox' = inputBox /\ pending' = pending
        /\ LeaseOK' /\ Gate!GateTypeOK' /\ granted' = granted
    BY GateKept DEF Closed, gateVars
  <1>3. /\ tails' = tails /\ step' \in [Connections -> Steps] /\ step'[c] = "unopening"
        /\ \A d \in Connections \ {c} : step'[d] = step[d]
    BY GoOnStep DEF Closed, Steps
  <1>4. /\ ProbesOK' /\ probes' \subseteq Probe
        /\ capability' \in [Connections -> [status: {"unknown", "checking", "known"},
                                             of: Clients \cup {None}]]
        /\ Head(tails[c]) = "disconnect" => capability'[c].of = None
        /\ losses' \subseteq losses
        /\ \A d \in Connections \ {c} : /\ capability'[d] = capability[d]
                                        /\ d \in losses <=> d \in losses'
    <2>1. CASE Head(tails[c]) = "disconnect"
      BY <2>1, ForgetStep DEF Closed
    <2>2. CASE Head(tails[c]) # "disconnect"
      BY <2>2, ProbesKept, Typed DEF Closed
    <2> QED BY <2>1, <2>2
  <1>5. ConnTypeOK'
    BY <1>2, <1>3, <1>4, Typed DEF ConnTypeOK
  <1>6. StepOK(c)'
    BY <1>1, <1>2, <1>3, <1>4 DEF StepOK, Opening, Ending
  <1>7. LiveOK(c)'
    BY <1>1, <1>2, <1>3 DEF LiveOK
  <1>8. OthersKept(c)
    BY <1>2, <1>3, <1>4 DEF OthersKept
  <1> QED BY <1>2, <1>4, <1>5, <1>6, <1>7, <1>8, ClientsKept, ConnStep

LEMMA UnopenedKeepsInv ==
  ASSUME ConnInv, NEW c \in Connections, Unopened(c)
  PROVE  ConnInv'
  <1>1. /\ StepOK(c) /\ LiveOK(c) /\ step[c] = "unopening" /\ registry[c] = None
        /\ c \in granted /\ tails[c] # <<>> /\ c \notin open
    BY DEF ConnInv, Unopened, StepOK, Ending
  <1>2. CASE Head(tails[c]) = "disconnect" /\ Refuse(c)
    <2>1. capability[c].of = None
      BY <1>1, <1>2 DEF StepOK
    <2> QED BY <1>1, <1>2, <2>1, RefuseKeepsInv
  <1>3. ASSUME losses' = losses \ {c}, ForgetCapability(c),
               UNCHANGED <<password, open, registry, client, inputBox>>
        PROVE  /\ ProbesOK' /\ probes' \subseteq Probe /\ losses' \subseteq Connections
               /\ capability' \in [Connections -> [status: {"unknown", "checking", "known"},
                                                    of: Clients \cup {None}]]
               /\ capability'[c].of = None
               /\ \A d \in Connections \ {c} : /\ capability'[d] = capability[d]
                                               /\ d \in losses <=> d \in losses'
               /\ LiveOK(c)' /\ NoSessionLeft'
               /\ password' = password /\ open' = open /\ registry' = registry
               /\ client' = client /\ inputBox' = inputBox
    <2>1. LiveOK(c)'
      BY <1>1, <1>3, ForgetStep DEF LiveOK
    <2> QED BY <1>3, <2>1, ForgetStep, ClientsKept, Typed
  <1>4. CASE /\ losses' = losses \ {c} /\ ForgetCapability(c)
             /\ saved' = saved \ {c} /\ GoOn(c, "forgetting") /\ UNCHANGED <<pending, gateVars>>
             /\ UNCHANGED <<password, open, registry, client, inputBox>>
    <2>1. /\ tails' = tails /\ step' \in [Connections -> Steps] /\ step'[c] = "forgetting"
          /\ \A d \in Connections \ {c} : step'[d] = step[d]
      BY <1>4, GoOnStep DEF Steps
    <2>2. LeaseOK' /\ Gate!GateTypeOK' /\ granted' = granted /\ pending' = pending
      BY <1>4, GateKept DEF gateVars
    <2>3. ConnTypeOK'
      BY <1>3, <1>4, <2>1, <2>2, Typed DEF ConnTypeOK
    <2>4. StepOK(c)'
      BY <1>1, <1>3, <1>4, <2>1, <2>2 DEF StepOK, Opening, Ending
    <2>5. OthersKept(c)
      BY <1>3, <1>4, <2>1, <2>2 DEF OthersKept
    <2> QED BY <1>3, <1>4, <2>2, <2>3, <2>4, <2>5, ConnStep
  <1>5. CASE /\ losses' = losses \ {c} /\ ForgetCapability(c)
             /\ Settle(c) /\ saved' = saved
             /\ UNCHANGED <<password, open, registry, client, inputBox>>
    <2>1. ConnTypeOK'
      BY <1>1, <1>3, <1>5, SettleStep, Typed DEF ConnTypeOK
    <2>2. OthersKept(c)
      BY <1>1, <1>3, <1>5, SettleStep DEF OthersKept
    <2> QED BY <1>1, <1>3, <1>5, <2>1, <2>2, SettleStep, ConnStep
  <1> QED BY <1>2, <1>4, <1>5 DEF Unopened

LEMMA ForgottenKeepsInv ==
  ASSUME ConnInv, NEW c \in Connections, Forgotten(c)
  PROVE  ConnInv'
  <1>1. /\ StepOK(c) /\ LiveOK(c) /\ step[c] = "forgetting" /\ registry[c] = None
        /\ tails[c] # <<>>
    BY DEF ConnInv, Forgotten, StepOK, Ending
  <1>2. /\ saved' = saved /\ password' = password \ {c} /\ open' = open \ {c}
        /\ registry' = registry /\ client' = client /\ losses' = losses /\ inputBox' = inputBox
        /\ capability' = capability /\ probes' = probes /\ ProbesOK' /\ Settle(c)
    BY ProbesKept DEF Forgotten, liveVars
  <1>3. ConnTypeOK'
    BY <1>1, <1>2, SettleStep, Typed DEF ConnTypeOK
  <1>4. LiveOK(c)'
    BY <1>1, <1>2 DEF LiveOK
  <1>5. OthersKept(c)
    BY <1>1, <1>2, SettleStep DEF OthersKept
  <1> QED BY <1>1, <1>2, <1>3, <1>4, <1>5, SettleStep, ClientsKept, ConnStep

-----------------------------------------------------------------------------
(* Calls, lost sessions and work *)

\* A call joins a tail; the transition that runs stays first.
LEMMA EnqueueKeepsInv ==
  ASSUME ConnInv, NEW c \in Connections, NEW kind \in Transitions, Enqueue(c, kind),
         saved \subseteq saved', saved' \subseteq saved \cup {c}, password' \subseteq Connections,
         UNCHANGED <<open, step, pending, liveVars, probeVars, inputBox, gateVars>>
  PROVE  ConnInv'
  <1>1. StepOK(c) /\ LiveOK(c)
    BY DEF ConnInv
  <1>2. /\ open' = open /\ step' = step /\ pending' = pending /\ registry' = registry
        /\ client' = client /\ losses' = losses /\ capability' = capability /\ probes' = probes
        /\ inputBox' = inputBox /\ granted' = granted
        /\ ProbesOK' /\ LeaseOK' /\ Gate!GateTypeOK'
    BY ProbesKept, GateKept DEF liveVars, gateVars
  <1>3. /\ tails' \in [Connections -> Seq(Transitions)]
        /\ tails'[c] # <<>> /\ tails[c] # <<>> => Head(tails'[c]) = Head(tails[c])
        /\ \A d \in Connections \ {c} : tails'[d] = tails[d]
    <2>1. tails' = [tails EXCEPT ![c] = Append(@, kind)]
      BY DEF Enqueue
    <2>2. /\ Append(tails[c], kind) \in Seq(Transitions) /\ Append(tails[c], kind) # <<>>
          /\ tails[c] # <<>> => Head(Append(tails[c], kind)) = Head(tails[c])
      BY Typed, TailFacts
    <2>3. tails'[c] = Append(tails[c], kind) /\ \A d \in Connections \ {c} : tails'[d] = tails[d]
      BY <2>1, Typed
    <2> QED BY <2>1, <2>2, <2>3, Typed
  <1>4. ConnTypeOK'
    BY <1>2, <1>3, Typed DEF ConnTypeOK
  <1>5. StepOK(c)'
    <2>1. tails'[c] # <<>> /\ tails[c] # <<>> => Head(tails'[c]) = Head(tails[c])
      BY <1>3
    <2>2. CASE step[c] = "waiting"
      BY <1>2, <2>2 DEF StepOK, Opening, Ending
    <2>3. CASE step[c] # "waiting"
      <3>1. tails[c] # <<>>
        BY <1>1, <2>3 DEF StepOK
      <3>2. tails'[c] # <<>> /\ Head(tails'[c]) = Head(tails[c])
        BY <1>3, <3>1, TailFacts, Typed DEF Enqueue
      <3> QED BY <1>1, <1>2, <2>3, <3>1, <3>2 DEF StepOK
    <2> QED BY <2>2, <2>3
  <1>6. LiveOK(c)'
    BY <1>1, <1>2 DEF LiveOK
  <1>7. OthersKept(c)
    BY <1>2, <1>3 DEF OthersKept
  <1> QED BY <1>2, <1>4, <1>5, <1>6, <1>7, ClientsKept, ConnStep

LEMMA CallsKeepInv ==
  ASSUME ConnInv, NEW c \in Connections, UserCalls(c)
  PROVE  ConnInv'
  <1>1. CASE \E kind \in Transitions : Request(c, kind)
    <2>1. PICK kind \in Transitions : Request(c, kind)
      BY <1>1
    <2> QED BY <2>1, EnqueueKeepsInv, Typed DEF Request, storeVars
  <1>2. CASE Add(c)
    BY <1>2, EnqueueKeepsInv, Typed DEF Add, Transitions
  <1>3. ASSUME NEW command \in {"rename", "password"}, AskUser(c, command)
        PROVE  ConnInv'
    <2>1. /\ saved' = saved /\ password' = password /\ open' = open /\ tails' = tails
          /\ step' = step /\ pending' = pending /\ registry' = registry /\ client' = client
          /\ losses' = losses /\ capability' = capability /\ probes' = probes /\ granted' = granted
          /\ inputBox' = <<command, c>> /\ ProbesOK' /\ LeaseOK' /\ Gate!GateTypeOK'
      BY <1>3, ProbesKept, GateKept DEF AskUser, storeVars, tailVars, liveVars, gateVars
    <2>2. ConnTypeOK'
      BY <2>1, Typed DEF ConnTypeOK
    <2>3. (StepOK(c) /\ LiveOK(c))'
      BY <2>1 DEF ConnInv, StepOK, LiveOK
    <2>4. OthersKept(c)
      BY <2>1 DEF OthersKept
    <2> QED BY <2>1, <2>2, <2>3, <2>4, ClientsKept, ConnStep
  <1>4. CASE CheckRequirements(c)
    <2>1. /\ saved' = saved /\ password' = password /\ open' = open /\ tails' = tails
          /\ step' = step /\ pending' = pending /\ registry' = registry /\ client' = client
          /\ losses' = losses /\ granted' = granted /\ inputBox' = inputBox
          /\ LeaseOK' /\ Gate!GateTypeOK'
      BY <1>4, GateKept DEF CheckRequirements, storeVars, tailVars, liveVars, gateVars
    <2>2. /\ ProbesOK' /\ probes' \subseteq Probe
          /\ capability' \in [Connections -> [status: {"unknown", "checking", "known"},
                                               of: Clients \cup {None}]]
          /\ capability'[c].of = registry[c]
          /\ \A d \in Connections \ {c} : capability'[d] = capability[d]
      BY <1>4, ProbeStep, Typed DEF CheckRequirements
    <2>3. ConnTypeOK'
      BY <2>1, <2>2, Typed DEF ConnTypeOK
    <2>4. StepOK(c)'
      BY <2>1, <2>2 DEF ConnInv, StepOK, Ending
    <2>5. LiveOK(c)'
      BY <2>1, <2>2 DEF ConnInv, LiveOK
    <2>6. OthersKept(c)
      BY <2>1, <2>2 DEF OthersKept
    <2> QED BY <2>1, <2>2, <2>3, <2>4, <2>5, <2>6, ClientsKept, ConnStep
  <1> QED BY <1>1, <1>2, <1>3, <1>4 DEF UserCalls

LEMMA LostKeepsInv ==
  ASSUME ConnInv, NEW c \in Connections, ClientLost(c)
  PROVE  ConnInv'
  <1>1. StepOK(c) /\ LiveOK(c)
    BY DEF ConnInv
  <1>2. /\ saved' = saved /\ password' = password /\ open' = open /\ tails' = tails
        /\ step' = step /\ pending' = pending /\ granted' = granted /\ inputBox' = inputBox
        /\ registry' = [registry EXCEPT ![c] = None] /\ losses' = losses \cup {c}
        /\ client' = [client EXCEPT ![registry[c]] = "free"]
        /\ LeaseOK' /\ Gate!GateTypeOK'
    BY GateKept DEF ClientLost, storeVars, tailVars, gateVars
  <1>3. /\ ProbesOK' /\ probes' \subseteq Probe
        /\ capability' \in [Connections -> [status: {"unknown", "checking", "known"},
                                             of: Clients \cup {None}]]
        /\ capability'[c].of = None
        /\ \A d \in Connections \ {c} : capability'[d] = capability[d]
    BY ForgetStep DEF ClientLost
  <1>4. /\ registry' \in [Connections -> Clients \cup {None}] /\ registry'[c] = None
        /\ client' \in [Clients -> {"free", "connecting", "late", "open", "ending"}]
        /\ \A d \in Connections \ {c} : registry'[d] = registry[d]
    BY <1>2, Typed
  <1>5. ConnTypeOK'
    BY <1>2, <1>3, <1>4, Typed DEF ConnTypeOK
  <1>6. StepOK(c)'
    BY <1>1, <1>2, <1>3, <1>4 DEF StepOK
  <1>7. LiveOK(c)'
    BY <1>1, <1>2, <1>3, <1>4 DEF LiveOK
  <1>8. NoSessionLeft'
    <2> SUFFICES ASSUME NEW k \in Clients, client'[k] = "open"
                 PROVE  \E d \in Connections : registry'[d] = k
      BY DEF NoSessionLeft
    <2>1. client[k] = "open" /\ k # registry[c]
      BY <1>2, Typed
    <2>2. PICK d \in Connections : registry[d] = k
      BY <2>1 DEF ConnInv, NoSessionLeft
    <2> QED BY <1>4, <2>1, <2>2
  <1>9. OthersKept(c)
    BY <1>2, <1>3, <1>4 DEF OthersKept
  <1> QED BY <1>2, <1>3, <1>5, <1>6, <1>7, <1>8, <1>9, ConnStep

\* Nothing the invariant says of a Connection changes.
LEMMA IdleKeepsInv ==
  ASSUME ConnInv, ConnTypeOK', NoSessionLeft', LeaseOK', ProbesOK',
         saved \subseteq saved', open' = open, tails' = tails, step' = step, registry' = registry,
         losses' = losses, granted' = granted,
         \A c \in Connections : capability'[c].of = capability[c].of
  PROVE  ConnInv'
  <1> SUFFICES ASSUME NEW c \in Connections PROVE (StepOK(c) /\ LiveOK(c))'
    BY DEF ConnInv
  <1>1. StepOK(c)'
    BY DEF ConnInv, StepOK
  <1>2. LiveOK(c)'
    BY DEF ConnInv, LiveOK
  <1> QED BY <1>1, <1>2

LEMMA WorkKeepsInv ==
  ASSUME ConnInv, NEW s \in Scratchpads, NEW c \in Connections, WorkStarts(s, c) \/ WorkStops(s, c)
  PROVE  ConnInv'
  <1>1. /\ saved' = saved /\ password' = password /\ open' = open /\ tails' = tails
        /\ step' = step /\ pending' = pending /\ registry' = registry /\ client' = client
        /\ losses' = losses /\ capability' = capability /\ probes' = probes
        /\ inputBox' = inputBox /\ asked' = asked /\ granted' = granted /\ ProbesOK'
    BY ProbesKept DEF WorkStarts, WorkStops, Gate!StartWork, storeVars, tailVars, liveVars
  <1>2. work' \subseteq work \cup {<<s, c>>} /\ (asked[c] # None => work' \subseteq work)
    <2>1. CASE WorkStops(s, c)
      BY <2>1 DEF WorkStops
    <2>2. CASE WorkStarts(s, c)
      BY <2>2, OpenConnectionsAssumption
         DEF WorkStarts, Gate!StartWork, ConnInv, LeaseOK, OpenConnectionsAssumption
    <2> QED BY <2>1, <2>2
  <1>3. LeaseOK'
    <2>1. ASSUME NEW d \in granted, NEW z \in Scratchpads
          PROVE  asked'[d] = d /\ <<z, d>> \notin work'
      <3>1. asked[d] = d /\ <<z, d>> \notin work /\ d \in Connections
        BY Typed DEF ConnInv, LeaseOK
      <3>2. d = c => asked[c] # None
        BY <3>1, OpenConnectionsAssumption DEF OpenConnectionsAssumption
      <3>3. <<z, d>> = <<s, c>> => d = c
        OBVIOUS
      <3> QED BY <1>1, <1>2, <3>1, <3>2, <3>3
    <2> QED BY <1>1, <2>1 DEF ConnInv, LeaseOK
  <1>4. Gate!GateTypeOK'
    BY <1>1, <1>2, Typed DEF Gate!GateTypeOK
  <1>5. ConnTypeOK'
    BY <1>1, <1>4, Typed DEF ConnTypeOK
  <1> QED BY <1>1, <1>3, <1>5, ClientsKept, IdleKeepsInv

LEMMA SessionsKeepInv ==
  ASSUME ConnInv, NEW k \in Clients, LateClient(k) \/ ClientEnds(k)
  PROVE  ConnInv'
  <1>1. /\ saved' = saved /\ password' = password /\ open' = open /\ tails' = tails
        /\ step' = step /\ pending' = pending /\ registry' = registry
        /\ losses' = losses /\ capability' = capability /\ probes' = probes
        /\ inputBox' = inputBox /\ granted' = granted
        /\ ProbesOK' /\ LeaseOK' /\ Gate!GateTypeOK'
    BY ProbesKept, GateKept DEF LateClient, ClientEnds, storeVars, tailVars, gateVars
  <1>2. /\ client' \in [Clients -> {"free", "connecting", "late", "open", "ending"}]
        /\ \A j \in Clients : client'[j] = "open" => client[j] = "open"
    BY Typed DEF LateClient, ClientEnds
  <1>3. ConnTypeOK'
    BY <1>1, <1>2, Typed DEF ConnTypeOK
  <1>4. NoSessionLeft'
    BY <1>1, <1>2 DEF ConnInv, NoSessionLeft
  <1> QED BY <1>1, <1>3, <1>4, IdleKeepsInv

LEMMA ProbeKeepsInv ==
  ASSUME ConnInv, NEW p \in probes, ProbeAnswers(p)
  PROVE  ConnInv'
  <1>1. /\ saved' = saved /\ password' = password /\ open' = open /\ tails' = tails
        /\ step' = step /\ pending' = pending /\ registry' = registry /\ client' = client
        /\ losses' = losses /\ inputBox' = inputBox /\ granted' = granted
        /\ LeaseOK' /\ Gate!GateTypeOK'
    BY GateKept DEF ProbeAnswers, storeVars, tailVars, liveVars, gateVars
  <1>2. p \in Probe /\ probes' \subseteq probes
    BY Typed DEF ProbeAnswers
  <1>3. /\ capability' \in [Connections -> [status: {"unknown", "checking", "known"},
                                             of: Clients \cup {None}]]
        /\ \A c \in Connections : capability'[c].of = capability[c].of
    <2>1. CASE p.current /\ p.conn \in saved
      <3>1. /\ capability' = [capability EXCEPT ![p.conn] = [status |-> "known", of |-> p.of]]
            /\ p.conn \in Connections /\ p.of \in Clients \cup {None}
            /\ capability[p.conn].of = p.of
        BY <1>2, <2>1 DEF ProbeAnswers, Probe, ConnInv, ProbesOK
      <3> QED BY <3>1, Typed
    <2>2. CASE ~(p.current /\ p.conn \in saved)
      BY <2>2, Typed DEF ProbeAnswers
    <2> QED BY <2>1, <2>2
  <1>4. ProbesOK'
    BY <1>2, <1>3, Typed DEF ConnInv, ProbesOK, Probe
  <1>5. ConnTypeOK'
    BY <1>1, <1>2, <1>3, Typed DEF ConnTypeOK
  <1> QED BY <1>1, <1>3, <1>4, <1>5, ClientsKept, IdleKeepsInv

LEMMA AnswerKeepsInv ==
  ASSUME ConnInv, UserAnswers
  PROVE  ConnInv'
  <1>1. /\ open' = open /\ tails' = tails /\ inputBox' = None
        /\ step' = step /\ pending' = pending /\ registry' = registry /\ client' = client
        /\ losses' = losses /\ capability' = capability /\ probes' = probes /\ granted' = granted
        /\ ProbesOK' /\ LeaseOK' /\ Gate!GateTypeOK'
    BY ProbesKept, GateKept DEF UserAnswers, tailVars, liveVars, gateVars
  <1>2. inputBox[2] \in Connections
    BY Typed DEF UserAnswers
  <1>3. saved \subseteq saved' /\ saved' \subseteq Connections /\ password' \subseteq Connections
    BY <1>2, Typed DEF UserAnswers
  <1>4. ConnTypeOK'
    BY <1>1, <1>3, Typed DEF ConnTypeOK
  <1> QED BY <1>1, <1>3, <1>4, ClientsKept, IdleKeepsInv

-----------------------------------------------------------------------------
(* Theorems *)

LEMMA InitInv == Init => ConnInv
  <1> SUFFICES ASSUME Init PROVE ConnInv
    OBVIOUS
  <1>1. /\ NoCapability \in [status: {"unknown", "checking", "known"}, of: Clients \cup {None}]
        /\ NoCapability.of = None /\ <<>> \in Seq(Transitions)
    BY DEF NoCapability
  <1>2. Gate!GateTypeOK /\ LeaseOK
    BY DEF Init, Gate!GateInit, Gate!GateTypeOK, LeaseOK
  <1>3. ConnTypeOK
    BY <1>1, <1>2 DEF Init, ConnTypeOK, Steps
  <1>4. ASSUME NEW c \in Connections PROVE StepOK(c) /\ LiveOK(c)
    BY <1>1 DEF Init, StepOK, LiveOK, Opening, Ending
  <1>5. NoSessionLeft /\ ProbesOK
    BY DEF Init, NoSessionLeft, ProbesOK
  <1> QED BY <1>2, <1>3, <1>4, <1>5 DEF ConnInv

LEMMA NextKeepsInv == ConnInv /\ [Next]_vars => ConnInv'
  <1> SUFFICES ASSUME ConnInv, [Next]_vars PROVE ConnInv'
    OBVIOUS
  <1>1. CASE UNCHANGED vars
    <2>1. /\ saved' = saved /\ password' = password /\ open' = open /\ tails' = tails
          /\ step' = step /\ pending' = pending /\ registry' = registry /\ client' = client
          /\ losses' = losses /\ capability' = capability /\ probes' = probes
          /\ inputBox' = inputBox /\ granted' = granted
          /\ ProbesOK' /\ LeaseOK' /\ Gate!GateTypeOK'
      BY <1>1, ProbesKept, GateKept DEF vars, storeVars, tailVars, liveVars, gateVars
    <2>2. ConnTypeOK'
      BY <2>1, Typed DEF ConnTypeOK
    <2> QED BY <2>1, <2>2, ClientsKept, IdleKeepsInv
  <1>2. ASSUME NEW c \in Connections, TransitionStep(c)
        PROVE  ConnInv'
    BY <1>2, StartKeepsInv, LeaseTakenKeepsInv, PasswordKeepsInv, ReopenKeepsInv,
       SucceedsKeepsInv, RecordedKeepsInv, FailsKeepsInv, ClosedKeepsInv, UnopenedKeepsInv,
       ForgottenKeepsInv DEF TransitionStep
  <1> QED BY <1>1, <1>2, CallsKeepInv, LostKeepsInv, WorkKeepsInv, SessionsKeepInv,
             ProbeKeepsInv, AnswerKeepsInv DEF Next

LEMMA ConnInvariant == Spec => []ConnInv
  BY InitInv, NextKeepsInv, PTL DEF Spec

\* Every variable of the Connections keeps its type.
THEOREM ConnTypeCorrect == Spec => []ConnTypeOK
  <1>1. ConnInv => ConnTypeOK
    BY DEF ConnInv
  <1> QED BY <1>1, ConnInvariant, PTL

\* An open Connection is saved and known to be open, and what a reload would open again is saved:
\* every window starts from one of the stores that Init allows.
THEOREM OpenIsSaved == Spec => []ConnectedIsKept
  <1>1. ConnInv => ConnectedIsKept
    BY Typed DEF ConnInv, LiveOK, ConnectedIsKept
  <1> QED BY <1>1, ConnInvariant, PTL

\* No live session is left without its Connection.
THEOREM SessionsAreRegistered == Spec => []NoSessionLeft
  <1>1. ConnInv => NoSessionLeft
    BY DEF ConnInv
  <1> QED BY <1>1, ConnInvariant, PTL

\* A transition that has closed a session is leased and alone on its Connection until it is over.
THEOREM ChangesAreLeased == Spec => []ChangeUndisturbed
  <1>1. ConnInv => ChangeUndisturbed
    <2> SUFFICES ASSUME ConnInv, NEW c \in Connections,
                        step[c] \in {"reopening", "closing", "unopening", "forgetting"}
                 PROVE  c \in granted /\ \A s \in Scratchpads : <<s, c>> \notin work
      BY DEF ChangeUndisturbed
    <2>1. c \in granted
      BY DEF ConnInv, StepOK, Ending
    <2> QED BY <2>1 DEF ConnInv, LeaseOK
  <1> QED BY <1>1, ConnInvariant, PTL

\* The debugger's capability is that of the session there is, except while one is being closed.
THEOREM CapabilityIsCurrent == Spec => []CapabilityOfLiveSession
  <1>1. ConnInv => CapabilityOfLiveSession
    BY DEF ConnInv, LiveOK, CapabilityOfLiveSession
  <1> QED BY <1>1, ConnInvariant, PTL
=============================================================================
