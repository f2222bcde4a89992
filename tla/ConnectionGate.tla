--------------------------- MODULE ConnectionGate ---------------------------
(***************************************************************************)
(* What a Connection promises to whoever changes it: a change and the work *)
(* of Scratchpads on one Connection exclude each other.                    *)
(*                                                                         *)
(* This is the contract between the Scratchpads                            *)
(* (vscode-extension/src/scratchpad/transactions.ts) and the Connections   *)
(* (vscode-extension/src/connection/openConnections.ts), which is passed   *)
(* to them as the hook beforeConnectionChange.  ScratchpadTransactions     *)
(* implements it, and OpenConnections relies on it.                        *)
(***************************************************************************)

CONSTANTS
  Workers,      \* those that work on Connections: the Scratchpads
  Connections,  \* saved Connection ids
  Changes,      \* the calls of acquireConnectionChange
  None          \* no Connection

VARIABLES
  work,         \* who works on what
  asked,        \* the Connection each change has asked for
  granted       \* the changes that hold their Connection

gateVars == <<work, asked, granted>>

GateTypeOK ==
  /\ work \subseteq Workers \X Connections
  /\ asked \in [Changes -> Connections \cup {None}]
  /\ granted \subseteq Changes

GateInit ==
  /\ work = {}
  /\ asked = [l \in Changes |-> None]
  /\ granted = {}

\* Work starts only on a Connection nobody has asked to change.
StartWork(s, c) ==
  /\ \A l \in Changes : asked[l] # c
  /\ work' = work \cup {<<s, c>>}
  /\ UNCHANGED <<asked, granted>>

\* Work ends, possibly that of several Scratchpads at once (shutdown).
StopWork ==
  /\ work' \subseteq work
  /\ UNCHANGED <<asked, granted>>

Ask(l, c) ==
  /\ asked[l] = None
  /\ asked' = [asked EXCEPT ![l] = c]
  /\ UNCHANGED <<work, granted>>

\* The change is let in once nobody works on the Connection.
Allow(l) ==
  /\ asked[l] # None
  /\ l \notin granted
  /\ \A s \in Workers : <<s, asked[l]>> \notin work
  /\ granted' = granted \cup {l}
  /\ UNCHANGED <<work, asked>>

\* The lease is disposed, or the change gives up waiting.
Withdraw(l) ==
  /\ asked[l] # None
  /\ asked' = [asked EXCEPT ![l] = None]
  /\ granted' = granted \ {l}
  /\ UNCHANGED work

GateNext ==
  \/ \E s \in Workers, c \in Connections : StartWork(s, c)
  \/ StopWork
  \/ \E l \in Changes :
       \/ \E c \in Connections : Ask(l, c)
       \/ Allow(l)
       \/ Withdraw(l)

GateSpec == GateInit /\ [][GateNext]_gateVars

=============================================================================
