--------------------------- MODULE OpenConnections ---------------------------
(***************************************************************************)
(* The saved Connections, their open sessions and what changes them        *)
(* (vscode-extension/src/connection: openConnections.ts,                   *)
(* savedConnections.ts, commands.ts; packages/catalog/src/                 *)
(* postgresConnectionRegistry.ts).                                         *)
(*                                                                         *)
(* Transitions of one Connection (connect, disconnect, remove, replace)    *)
(* queue on its tail; those that close its session first take a lease      *)
(* from the Scratchpads, whose contract is ConnectionGate.  Lost sessions, *)
(* dialogs and probes of the debugger come at any time, and a window may   *)
(* start from whatever store an earlier one left.                          *)
(***************************************************************************)
EXTENDS Naturals, Sequences, FiniteSets

CONSTANTS
  Connections,   \* Connection ids
  Clients,       \* identities of shared PostgreSQL sessions, reused once closed
  Scratchpads,   \* those that work on Connections
  MaxQueue,      \* bound: calls are made while fewer transitions are on a Connection's tail
  MaxProbes,     \* bound: checks are asked for while fewer are under way
  None           \* no Connection, no session

ASSUME OpenConnectionsAssumption ==
  None \notin Connections \cup Clients \cup Scratchpads /\ {MaxQueue, MaxProbes} \subseteq Nat

VARIABLES
  saved,       \* ConnectionStore: the configurations (globalState)
  password,    \* the Connections that have a saved password (secrets)
  open,        \* the Connections to open again after a reload (workspaceState)
  tails,       \* connectionTransitionTails: the transitions of a Connection, first one running
  step,        \* where the first transition of a Connection awaits
  pending,     \* the session the first transition is opening
  registry,    \* PostgresConnectionRegistry.clients
  client,      \* what became of each session
  losses,      \* connectionLosses
  capability,  \* debugCapabilities, with the session that was probed
  probes,      \* calls of refreshDebugCapability under way
  inputBox,    \* the command whose input box is shown, and its Connection
  work, asked, granted  \* the gate; the change of a Connection is named by it

storeVars == <<saved, password, open>>
tailVars == <<tails, step, pending>>
liveVars == <<registry, client, losses>>
probeVars == <<capability, probes>>
gateVars == <<work, asked, granted>>
vars == <<storeVars, tailVars, liveVars, probeVars, inputBox, gateVars>>

Gate == INSTANCE ConnectionGate WITH Workers <- Scratchpads, Changes <- Connections

-----------------------------------------------------------------------------
(* Types *)

Transitions == {"connect", "reconnect", "disconnect", "remove", "replace"}

Steps == {"waiting", "leasing", "password", "prompting", "reopening", "connecting", "recording",
          "closing", "unopening", "forgetting"}

Probe == [conn: Connections, of: Clients \cup {None}, current: BOOLEAN]

ConnTypeOK ==
  /\ saved \subseteq Connections /\ password \subseteq Connections /\ open \subseteq Connections
  /\ tails \in [Connections -> Seq(Transitions)]
  /\ step \in [Connections -> Steps]
  /\ pending \in [Connections -> Clients \cup {None}]
  /\ registry \in [Connections -> Clients \cup {None}]
  /\ client \in [Clients -> {"free", "connecting", "late", "open", "ending"}]
  /\ losses \subseteq Connections
  /\ capability \in [Connections -> [status: {"unknown", "checking", "known"},
                                     of: Clients \cup {None}]]
  /\ probes \subseteq Probe
  /\ inputBox \in ({"rename", "password"} \X Connections) \cup {None}
  /\ Gate!GateTypeOK

NoCapability == [status |-> "unknown", of |-> None]

\* A window starts, or is reloaded, with the store that earlier windows left at any of their steps:
\* ConnectedIsKept says that the store is always one of these.
Init ==
  /\ saved \in SUBSET Connections
  /\ password \in SUBSET Connections
  /\ open \in SUBSET saved
  /\ tails = [c \in Connections |-> <<>>]
  /\ step = [c \in Connections |-> "waiting"]
  /\ pending = [c \in Connections |-> None]
  /\ registry = [c \in Connections |-> None]
  /\ client = [k \in Clients |-> "free"]
  /\ losses = {}
  /\ capability = [c \in Connections |-> NoCapability]
  /\ probes = {}
  /\ inputBox = None
  /\ Gate!GateInit

-----------------------------------------------------------------------------
(* The tail of a Connection: runConnectionTransition, withConnectionChange *)

Room(c) == Len(tails[c]) < MaxQueue

Enqueue(c, kind) == tails' = [tails EXCEPT ![c] = Append(@, kind)]

\* The transition that runs is of one of these kinds and awaits in step p.
Running(c, kinds, p) ==
  /\ tails[c] # <<>>
  /\ Head(tails[c]) \in kinds
  /\ step[c] = p

GoOn(c, p) ==
  /\ step' = [step EXCEPT ![c] = p]
  /\ UNCHANGED tails

\* Release the lease, if one was taken, when the change is over.
Unlease(c) == IF asked[c] = None THEN UNCHANGED gateVars ELSE Gate!Withdraw(c)

\* The transition settles: its lease is disposed, the next transition may start.
Settle(c) ==
  /\ tails' = [tails EXCEPT ![c] = Tail(@)]
  /\ step' = [step EXCEPT ![c] = "waiting"]
  /\ pending' = [pending EXCEPT ![c] = None]
  /\ Unlease(c)

\* A transition that ends having closed nothing.
Refuse(c) == Settle(c) /\ UNCHANGED <<storeVars, liveVars, probeVars, inputBox>>

-----------------------------------------------------------------------------
(* The debug capability: refreshDebugCapability, forgetDebugCapability *)

Stale(c) == {[p EXCEPT !.current = @ /\ p.conn # c] : p \in probes}

ForgetCapability(c) ==
  /\ capability' = [capability EXCEPT ![c] = NoCapability]
  /\ probes' = Stale(c)

\* The shared session is asked, or a dedicated one when there is none.
ProbeOf(c, k) ==
  /\ capability' = [capability EXCEPT ![c] = [status |-> "checking", of |-> k]]
  /\ probes' = Stale(c) \cup {[conn |-> c, of |-> k, current |-> TRUE]}

CheckRequirements(c) ==
  /\ c \in saved
  /\ Cardinality(probes) < MaxProbes
  /\ ProbeOf(c, registry[c])
  /\ UNCHANGED <<storeVars, tailVars, liveVars, inputBox, gateVars>>

AnswerWhatever(p) ==
  /\ p \in probes
  /\ probes' = probes \ {p}
  /\ capability' = IF p.conn \in saved
                     THEN [capability EXCEPT ![p.conn] = [status |-> "known", of |-> p.of]]
                     ELSE capability
  /\ UNCHANGED <<storeVars, tailVars, liveVars, inputBox, gateVars>>

\* The answer, or an error, counts only while its epoch is the latest and the Connection saved.
ProbeAnswers(p) ==
  /\ p \in probes
  /\ probes' = probes \ {p}
  /\ capability' = IF p.current /\ p.conn \in saved
                     THEN [capability EXCEPT ![p.conn] = [status |-> "known", of |-> p.of]]
                     ELSE capability
  /\ UNCHANGED <<storeVars, tailVars, liveVars, inputBox, gateVars>>

-----------------------------------------------------------------------------
(* Calls *)

\* connectConnection, disconnect, removeConnectionConfiguration, replaceConnection.  What calls them: the user, the
\* notifications of a loss or of a failed connection (Reconnect, Retry), and tryReconnectSaved for
\* what was open when the window started.
Request(c, kind) ==
  /\ Room(c)
  /\ kind \in {"reconnect", "remove", "replace"} => c \in saved
  /\ Enqueue(c, kind)
  /\ UNCHANGED <<storeVars, step, pending, liveVars, probeVars, inputBox, gateVars>>

\* addConnection, an import without a password, or a replacement that gives another Connection this
\* identity: save, then connect.
Add(c) ==
  /\ Room(c)
  /\ c \notin saved
  /\ saved' = saved \cup {c}
  /\ password' \in {password, password \cup {c}}
  /\ Enqueue(c, "connect")
  /\ UNCHANGED <<open, step, pending, liveVars, probeVars, inputBox, gateVars>>

\* renameConnection and changePassword read the Connection, then wait for an input box, which takes
\* the place of the one that is shown.
AskUser(c, command) ==
  /\ c \in saved
  /\ inputBox' = <<command, c>>
  /\ UNCHANGED <<storeVars, tailVars, liveVars, probeVars, gateVars>>

\* What was typed is stored, whatever became of the Connection meanwhile: update() puts the
\* configuration back, setPassword the password.
UserAnswers ==
  /\ inputBox # None
  /\ inputBox' = None
  /\ \/ UNCHANGED <<saved, password>>
     \/ inputBox[1] = "rename" /\ saved' = saved \cup {inputBox[2]} /\ UNCHANGED password
     \/ inputBox[1] = "password" /\ password' = password \cup {inputBox[2]} /\ UNCHANGED saved
  /\ UNCHANGED <<open, tailVars, liveVars, probeVars, gateVars>>

-----------------------------------------------------------------------------
(* A transition starts, and takes the lease it needs *)

StartConnectUnleased(c) ==
  /\ Running(c, {"connect", "reconnect"}, "waiting")
  /\ \/ /\ c \notin saved \/ (registry[c] # None /\ Head(tails[c]) # "reconnect")
        /\ Refuse(c)
     \/ /\ c \in saved
        /\ GoOn(c, "password")
        /\ UNCHANGED <<storeVars, pending, liveVars, probeVars, inputBox, gateVars>>

\* Without a lease when nothing is open: a first connection disturbs nobody.
StartConnect(c) ==
  /\ Running(c, {"connect", "reconnect"}, "waiting")
  /\ LET force == Head(tails[c]) = "reconnect" IN
     \/ /\ c \notin saved \/ (registry[c] # None /\ ~force)
        /\ Refuse(c)
     \/ /\ c \in saved /\ registry[c] = None
        /\ GoOn(c, "password")
        /\ UNCHANGED <<storeVars, pending, liveVars, probeVars, inputBox, gateVars>>
     \/ /\ c \in saved /\ registry[c] # None /\ force
        /\ Gate!Ask(c, c)
        /\ GoOn(c, "leasing")
        /\ UNCHANGED <<storeVars, pending, liveVars, probeVars, inputBox>>

StartChange(c) ==
  /\ Running(c, {"disconnect", "remove", "replace"}, "waiting")
  /\ Gate!Ask(c, c)
  /\ GoOn(c, "leasing")
  /\ UNCHANGED <<storeVars, pending, liveVars, probeVars, inputBox>>

LeaseRefused(c) ==
  /\ step[c] = "leasing"
  /\ Refuse(c)

\* The registry forgets the session at once, the transition waits for its end.
CloseClient(c, p) ==
  /\ registry' = [registry EXCEPT ![c] = None]
  /\ client' = IF registry[c] = None THEN client
                                     ELSE [client EXCEPT ![registry[c]] = "ending"]
  /\ GoOn(c, p)
  /\ UNCHANGED losses

\* The change begins: it is alone on the Connection until its lease is disposed.
LeaseTaken(c) ==
  /\ step[c] = "leasing"
  /\ Gate!Allow(c)
  /\ \/ /\ Running(c, {"reconnect"}, "leasing")
        /\ GoOn(c, "password")
        /\ UNCHANGED <<pending, liveVars>>
     \/ /\ Running(c, {"disconnect", "remove", "replace"}, "leasing")
        /\ CloseClient(c, "closing")
        /\ pending' = [pending EXCEPT ![c] = registry[c]]
  /\ UNCHANGED <<storeVars, probeVars, inputBox>>

-----------------------------------------------------------------------------
(* connectConnectionTransition *)

\* Begin to connect with session k.
Connecting(c, k) ==
  /\ client[k] = "free"
  /\ client' = [client EXCEPT ![k] = "connecting"]
  /\ pending' = [pending EXCEPT ![c] = k]
  /\ GoOn(c, "connecting")

\* The password is known: a forced reconnection closes the session it still has.
HavePassword(c) ==
  IF Head(tails[c]) = "reconnect" /\ registry[c] # None
    THEN /\ CloseClient(c, "reopening")
         /\ pending' = [pending EXCEPT ![c] = registry[c]]
    ELSE /\ \E k \in Clients : Connecting(c, k)
         /\ UNCHANGED <<registry, losses>>

PasswordRead(c) ==
  /\ step[c] = "password"
  /\ IF c \in password THEN HavePassword(c)
                       ELSE GoOn(c, "prompting") /\ UNCHANGED <<pending, liveVars>>
  /\ UNCHANGED <<storeVars, probeVars, inputBox, gateVars>>

PasswordEntered(c) ==
  /\ step[c] = "prompting"
  /\ password' = password \cup {c}
  /\ HavePassword(c)
  /\ UNCHANGED <<saved, open, probeVars, inputBox, gateVars>>

PasswordRefused(c) ==
  /\ step[c] = "prompting"
  /\ Refuse(c)

\* The old session has ended.
Reopen(c) ==
  /\ step[c] = "reopening"
  /\ client[pending[c]] # "ending"
  /\ \E k \in Clients : Connecting(c, k)
  /\ ForgetCapability(c)
  /\ losses' = losses \ {c}
  /\ UNCHANGED <<storeVars, registry, inputBox, gateVars>>

ConnectSucceeds(c) ==
  /\ step[c] = "connecting"
  /\ registry' = [registry EXCEPT ![c] = pending[c]]
  /\ client' = [client EXCEPT ![pending[c]] = "open"]
  /\ losses' = losses \ {c}
  /\ open' = open \cup {c}
  /\ GoOn(c, "recording")
  /\ UNCHANGED <<saved, password, pending, probeVars, inputBox, gateVars>>

\* The open intent is stored: the Connection is announced and its debugger probed.
Recorded(c) ==
  /\ step[c] = "recording"
  /\ ProbeOf(c, registry[c])
  /\ Settle(c)
  /\ UNCHANGED <<storeVars, liveVars, inputBox>>

ConnectFailsAwaitingRetry(c) ==
  /\ step[c] = "connecting"
  /\ client' = [client EXCEPT ![pending[c]] = "free"]
  /\ step' = [step EXCEPT ![c] = "recovering"]
  /\ Enqueue(c, "connect")
  /\ UNCHANGED <<storeVars, pending, registry, losses, probeVars, inputBox, gateVars>>

\* The failure is reported by a notification the transition does not wait for (its Retry is a
\* Request).
ConnectFails(c) ==
  /\ step[c] = "connecting"
  /\ client' = [client EXCEPT ![pending[c]] = "free"]
  /\ Settle(c)
  /\ UNCHANGED <<storeVars, registry, losses, probeVars, inputBox>>

ConnectCancelledLeavingClient(c) ==
  /\ step[c] = "connecting"
  /\ client' = [client EXCEPT ![pending[c]] = "open"]
  /\ Settle(c)
  /\ UNCHANGED <<storeVars, registry, losses, probeVars, inputBox>>

\* The user cancels: the session that is still connecting is closed when it answers.
ConnectCancelled(c) ==
  /\ step[c] = "connecting"
  /\ client' = [client EXCEPT ![pending[c]] = "late"]
  /\ Settle(c)
  /\ UNCHANGED <<storeVars, registry, losses, probeVars, inputBox>>

-----------------------------------------------------------------------------
(* disconnect, removeConnectionConfiguration, replaceConnectionConfiguration *)

ClosedKeepingIntent(c) ==
  /\ step[c] = "closing"
  /\ pending[c] # None => client[pending[c]] # "ending"
  /\ IF Head(tails[c]) = "disconnect"
       THEN losses' = losses \ {c} /\ ForgetCapability(c)
       ELSE UNCHANGED <<losses, probeVars>>
  /\ GoOn(c, "unopening")
  /\ UNCHANGED <<storeVars, pending, registry, client, inputBox, gateVars>>

\* The session has ended.
Closed(c) ==
  /\ step[c] = "closing"
  /\ pending[c] # None => client[pending[c]] # "ending"
  /\ open' = open \ {c}
  /\ IF Head(tails[c]) = "disconnect"
       THEN losses' = losses \ {c} /\ ForgetCapability(c)
       ELSE UNCHANGED <<losses, probeVars>>
  /\ GoOn(c, "unopening")
  /\ UNCHANGED <<saved, password, pending, registry, client, inputBox, gateVars>>

\* The open intent is cleared: a disconnection is over, the configuration of a removed or
\* replaced Connection goes, unless the new identity has been saved by somebody else meanwhile.
Unopened(c) ==
  /\ step[c] = "unopening"
  /\ \/ /\ Head(tails[c]) = "disconnect"
        /\ Refuse(c)
     \/ /\ Head(tails[c]) # "disconnect"
        /\ losses' = losses \ {c}
        /\ ForgetCapability(c)
        /\ \/ saved' = saved \ {c} /\ GoOn(c, "forgetting") /\ UNCHANGED <<pending, gateVars>>
           \/ Head(tails[c]) = "replace" /\ Settle(c) /\ UNCHANGED saved
        /\ UNCHANGED <<password, open, registry, client, inputBox>>

\* The configuration is stored; the password of this identity is deleted last.
Forgotten(c) ==
  /\ step[c] = "forgetting"
  /\ password' = password \ {c}
  /\ open' = open \ {c}
  /\ Settle(c)
  /\ UNCHANGED <<saved, liveVars, probeVars, inputBox>>

-----------------------------------------------------------------------------
(* PostgreSQL and Scratchpads *)

\* A session that was cancelled connects after all and is closed, or fails.
LateClient(k) ==
  /\ client[k] = "late"
  /\ \E s \in {"ending", "free"} : client' = [client EXCEPT ![k] = s]
  /\ UNCHANGED <<storeVars, tailVars, registry, losses, probeVars, inputBox, gateVars>>

ClientEnds(k) ==
  /\ client[k] = "ending"
  /\ client' = [client EXCEPT ![k] = "free"]
  /\ UNCHANGED <<storeVars, tailVars, registry, losses, probeVars, inputBox, gateVars>>

\* The session of a Connection is lost: its error handler forgets it.
ClientLost(c) ==
  /\ registry[c] # None
  /\ client' = [client EXCEPT ![registry[c]] = "free"]
  /\ registry' = [registry EXCEPT ![c] = None]
  /\ losses' = losses \cup {c}
  /\ ForgetCapability(c)
  /\ UNCHANGED <<storeVars, tailVars, inputBox, gateVars>>

WorkStarts(s, c) ==
  /\ Gate!StartWork(s, c)
  /\ UNCHANGED <<storeVars, tailVars, liveVars, probeVars, inputBox>>

WorkStops(s, c) ==
  /\ <<s, c>> \in work
  /\ work' = work \ {<<s, c>>}
  /\ UNCHANGED <<asked, granted, storeVars, tailVars, liveVars, probeVars, inputBox>>

-----------------------------------------------------------------------------
(* Specification *)

TransitionStep(c) ==
  \/ StartConnect(c) \/ StartChange(c) \/ LeaseRefused(c) \/ LeaseTaken(c)
  \/ PasswordRead(c) \/ PasswordEntered(c) \/ PasswordRefused(c) \/ Reopen(c)
  \/ ConnectSucceeds(c) \/ Recorded(c) \/ ConnectFails(c) \/ ConnectCancelled(c)
  \/ Closed(c) \/ Unopened(c) \/ Forgotten(c)

UserCalls(c) ==
  \/ \E kind \in Transitions : Request(c, kind)
  \/ Add(c)
  \/ \E command \in {"rename", "password"} : AskUser(c, command)
  \/ CheckRequirements(c)

Next ==
  \/ \E c \in Connections : TransitionStep(c) \/ UserCalls(c) \/ ClientLost(c)
  \/ \E s \in Scratchpads, c \in Connections : WorkStarts(s, c) \/ WorkStops(s, c)
  \/ \E k \in Clients : LateClient(k) \/ ClientEnds(k)
  \/ \E p \in probes : ProbeAnswers(p)
  \/ UserAnswers

Spec == Init /\ [][Next]_vars

\* A transition that runs goes on: queries and connections answer or time out, input boxes are
\* answered or dismissed.  Scratchpads finish what they do, as ScratchpadTransactions shows
\* (LeaseProceeds).  Nothing is assumed of the user's calls.
FairSpec ==
  /\ Spec
  /\ \A c \in Connections : WF_vars(TransitionStep(c))
  /\ \A s \in Scratchpads, c \in Connections : WF_vars(WorkStops(s, c))
  /\ \A k \in Clients : WF_vars(LateClient(k) \/ ClientEnds(k))

-----------------------------------------------------------------------------
(* Properties *)

\* A Connection that is open is saved and will be opened again after a reload, whatever removals,
\* replacements and reconnections were queued when it connected; and what a reload would open again
\* is saved, also when it stops a removal or a replacement half way (setConnectionOpen, remove,
\* update, tryReconnectSaved).
ConnectedIsKept ==
  /\ \A c \in Connections : registry[c] # None => c \in open /\ c \notin losses
  /\ open \subseteq saved

\* A live session is the one of a Connection: cancelled, replaced and removed ones have
\* been told to end (connectConnectionTransition, PostgresConnectionRegistry).
NoSessionLeft ==
  \A k \in Clients : client[k] = "open" => \E c \in Connections : registry[c] = k

\* From the moment a transition closes a session to the moment it is over, it holds the lease of its
\* Connection and no Scratchpad works there: also a reconnection, which decides whether it needs a
\* lease before it asks for the password (withConnectionChange).
ChangeUndisturbed ==
  \A c \in Connections :
    step[c] \in {"reopening", "closing", "unopening", "forgetting"} =>
      c \in granted /\ \A s \in Scratchpads : <<s, c>> \notin work

\* The debugger is never presented as it was found on a session that is gone, except while that
\* session is being closed (refreshDebugCapability, forgetDebugCapability).
CapabilityOfLiveSession ==
  \A c \in Connections :
    capability[c].of \in {None, registry[c]} \/ step[c] \in {"reopening", "closing", "unopening"}

\* Whatever it awaits, a change gives the Connection back to the Scratchpads.
LeaseGivenBack == \A c \in Connections : asked[c] # None ~> asked[c] = None

=============================================================================
