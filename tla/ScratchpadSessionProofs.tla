----------------------- MODULE ScratchpadSessionProofs -----------------------
(***************************************************************************)
(* No session of a Scratchpad is left behind, shutdown closes them all,    *)
(* and COMMIT is sound, for every value of the constants; under the cells  *)
(* of the notebook, what was cancelled can only be rolled back, and COMMIT *)
(* stays sound where one batch follows the other.                          *)
(***************************************************************************)
EXTENDS ScratchpadTransactionsProofs, ScratchpadCells

\* A Scratchpad opens a session only while it has no Transaction.
OpensWhenNone == \A s \in Scratchpads : phase[s] \in {"connecting", "beginning"} => tx[s] = None

\* The session a Scratchpad is opening is nobody else's.
OpensItsOwn ==
  \A s, r \in Scratchpads : phase[s] = "beginning" =>
    /\ tx[r] # cur[s]
    /\ r # s /\ phase[r] = "beginning" => cur[r] # cur[s]

\* How far shutdown has come, and what it has taken away by then.
ShutdownOrder ==
  /\ shutdown # "up" => ~accepting
  /\ shutdown \in {"up", "draining"} => doomed = {}
  /\ shutdown \in {"closing", "done"} => \A s \in Scratchpads : tx[s] = None
  /\ shutdown = "done" => doomed = {} /\ \A s \in Scratchpads : opening[s] = None

\* The inductive invariant behind NoOrphanSession and ShutdownClosesEverything.
SessionInv == NoOrphanSession /\ OpensWhenNone /\ OpensItsOwn /\ ShutdownOrder

-----------------------------------------------------------------------------
(* Steps that open no session *)

\* A step in which no Scratchpad begins to open a session it was not opening, no session becomes
\* live, and a live one stays with whoever has it.
NothingOpened ==
  /\ \A r \in Scratchpads :
       /\ tx'[r] \in {tx[r], None} /\ opening'[r] \in {opening[r], None}
       /\ \/ phase'[r] = phase[r] /\ cur'[r] = cur[r]
          \/ phase'[r] \notin {"connecting", "beginning"}
          \/ phase'[r] = "connecting" /\ tx[r] = None
  /\ \A k \in Clients : session'[k].state = "open" =>
       /\ session[k].state = "open"
       /\ \A r \in Scratchpads : /\ tx[r] = k => tx'[r] = k
                                 /\ opening[r] = k => opening'[r] = k
       /\ k \in doomed => k \in doomed'
  /\ doomed' \subseteq doomed
  /\ UNCHANGED <<accepting, shutdown>>

LEMMA NothingOpenedKeepsInv ==
  ASSUME CallsInv, SessionInv, ConstantsAssumption, NothingOpened
  PROVE  SessionInv'
  <1>1. NoOrphanSession'
    BY DEF SessionInv, NoOrphanSession, NothingOpened, ConstantsAssumption
  <1>2. OpensWhenNone'
    BY DEF SessionInv, OpensWhenNone, NothingOpened
  <1>3. OpensItsOwn'
    <2> SUFFICES ASSUME NEW s \in Scratchpads, NEW r \in Scratchpads, phase'[s] = "beginning"
                 PROVE  /\ tx'[r] # cur'[s]
                        /\ r # s /\ phase'[r] = "beginning" => cur'[r] # cur'[s]
      BY DEF OpensItsOwn
    <2>1. phase[s] = "beginning" /\ cur'[s] = cur[s]
      BY DEF NothingOpened
    <2>2. phase'[r] = "beginning" => phase[r] = "beginning" /\ cur'[r] = cur[r]
      BY DEF NothingOpened
    <2>3. tx'[r] # cur[s]
      <3>1. cur[s] # None
        BY <2>1, CallsParts DEF CurOK, ConstantsAssumption
      <3> QED BY <2>1, <3>1 DEF SessionInv, OpensItsOwn, NothingOpened
    <2> QED BY <2>1, <2>2, <2>3 DEF SessionInv, OpensItsOwn
  <1>4. ShutdownOrder'
    BY DEF SessionInv, ShutdownOrder, NothingOpened
  <1> QED BY <1>1, <1>2, <1>3, <1>4 DEF SessionInv

\* A step that leaves the sessions and whoever has them alone, and starts no opening.
LEMMA SameSessionsKeepInv ==
  ASSUME CallsInv, SessionInv, ConstantsAssumption, UNCHANGED <<tx, opening, session, stopVars>>,
         \A r \in Scratchpads : \/ phase'[r] = phase[r] /\ cur'[r] = cur[r]
                                \/ phase'[r] \notin {"connecting", "beginning"}
                                \/ phase'[r] = "connecting" /\ tx[r] = None
  PROVE  SessionInv'
  <1>1. NothingOpened
    BY DEF NothingOpened, stopVars
  <1> QED BY <1>1, NothingOpenedKeepsInv

\* Where a chain awaits after its head has settled or gone on.
LEMMA SettlePhase ==
  ASSUME CallsInv, NEW s \in Scratchpads, Settle(s)
  PROVE  \A r \in Scratchpads : \/ phase'[r] = phase[r] /\ cur'[r] = cur[r]
                                \/ r = s /\ phase'[r] = "waiting"
  <1>1. phase \in [Scratchpads -> Phases] /\ cur \in [Scratchpads -> Clients \cup {None}]
    BY CallsParts DEF Chains, ChainTypes
  <1> QED BY <1>1 DEF Settle

LEMMA GoOnPhase ==
  ASSUME CallsInv, NEW s \in Scratchpads, NEW p, NEW k, GoOn(s, p, k)
  PROVE  /\ \A r \in Scratchpads : r # s => phase'[r] = phase[r] /\ cur'[r] = cur[r]
         /\ phase'[s] = p /\ cur'[s] = k
  <1>1. phase \in [Scratchpads -> Phases] /\ cur \in [Scratchpads -> Clients \cup {None}]
    BY CallsParts DEF Chains, ChainTypes
  <1> QED BY <1>1 DEF GoOn

\* The steps at its turn of a head that leave Transactions and sessions alone.
LEMMA PlainTurnKeepsSessions ==
  ASSUME CallsInv, SessionInv, ConstantsAssumption, NEW s \in Scratchpads,
         \/ StartExecute(s) \/ ConnectFails(s) \/ ActionSucceeds(s) \/ ActionThrows(s)
         \/ StartResolve(s) \/ NothingToResolve(s) \/ Answer(s) \/ Ended(s) \/ Mutate(s)
  PROVE  SessionInv'
  <1>1. UNCHANGED <<tx, opening, session, stopVars>>
    BY DEF StartExecute, ConnectFails, ActionSucceeds, ActionThrows, StartResolve,
           NothingToResolve, Answer, Ended, Mutate
  <1>2. CASE Settle(s)
    BY <1>1, <1>2, SettlePhase, SameSessionsKeepInv
  <1>3. ASSUME NEW p, NEW k, GoOn(s, p, k),
               p # "beginning", p = "connecting" => tx[s] = None
        PROVE  SessionInv'
    BY <1>1, <1>3, GoOnPhase, SameSessionsKeepInv
  <1>4. CASE StartExecute(s)
    <2>1. CASE tx[s] = None /\ GoOn(s, "connecting", None)
      BY <1>3, <2>1
    <2>2. CASE GoOn(s, "running", tx[s])
      BY <1>3, <2>2
    <2> QED BY <1>2, <1>4, <2>1, <2>2 DEF StartExecute
  <1>5. CASE StartResolve(s) \/ Answer(s) \/ Ended(s)
    <2>1. ASSUME NEW p \in {"committing", "rollingBack", "asking", "askingRollback", "mutating"},
                 NEW k, GoOn(s, p, k)
          PROVE  SessionInv'
      BY <1>3, <2>1
    <2>2. CASE StartResolve(s)
      <3>1. \E p \in {"committing", "rollingBack", "asking", "askingRollback", "mutating"} :
              \E k \in {tx[s], Head(queue[s]).client, None} : GoOn(s, p, k)
        BY <2>2 DEF StartResolve
      <3> QED BY <2>1, <3>1
    <2>3. CASE Answer(s)
      <3>1. GoOn(s, "committing", cur[s]) \/ GoOn(s, "rollingBack", cur[s]) \/ Settle(s)
        BY <2>3 DEF Answer
      <3> QED BY <1>2, <2>1, <3>1
    <2>4. CASE Ended(s)
      <3>1. GoOn(s, "mutating", None) \/ Settle(s)
        BY <2>4 DEF Ended
      <3> QED BY <1>2, <2>1, <3>1
    <2> QED BY <1>5, <2>2, <2>3, <2>4
  <1>6. CASE ConnectFails(s) \/ ActionSucceeds(s) \/ ActionThrows(s) \/ NothingToResolve(s)
             \/ Mutate(s)
    BY <1>2, <1>6 DEF ConnectFails, ActionSucceeds, ActionThrows, NothingToResolve, Mutate
  <1> QED BY <1>4, <1>5, <1>6

\* close at the end of COMMIT or ROLLBACK: the session that leaves the map is told to end.
LEMMA CloseKeepsSessions ==
  ASSUME CallsInv, SessionInv, ConstantsAssumption, NEW s \in Scratchpads,
         NEW p \in {"ending", "endingFailed"}, NEW outcome, CloseTransaction(s, p, outcome),
         UNCHANGED <<opening, stopVars>>
  PROVE  SessionInv'
  <1>1. Chains /\ DataTypes
    BY CallsParts
  <1>2. /\ tx' = [tx EXCEPT ![s] = IF @ = cur[s] THEN None ELSE @]
        /\ session' = [session EXCEPT ![cur[s]].pg = outcome,
                                      ![cur[s]].state = IF @ = "open" THEN "ending" ELSE @]
        /\ GoOn(s, p, cur[s])
    BY DEF CloseTransaction
  <1>3. \A k \in Clients : session'[k].state = "open" => session[k].state = "open" /\ k # cur[s]
    BY <1>1, <1>2 DEF DataTypes, Session
  <1>4. \A r \in Scratchpads : tx'[r] # tx[r] => tx[r] = cur[s] /\ tx'[r] = None
    BY <1>1, <1>2 DEF DataTypes
  <1>5. \A r \in Scratchpads : r # s => phase'[r] = phase[r] /\ cur'[r] = cur[r]
    BY <1>2, GoOnPhase
  <1>6. phase'[s] \notin {"connecting", "beginning"}
    BY <1>2, GoOnPhase
  <1>7. NothingOpened
    BY <1>3, <1>4, <1>5, <1>6 DEF NothingOpened, stopVars
  <1> QED BY <1>7, NothingOpenedKeepsInv

\* The other steps that change what a session holds.
LEMMA SessionTurnKeepsSessions ==
  ASSUME CallsInv, SessionInv, ConstantsAssumption, NEW s \in Scratchpads,
         \/ ActionFails(s) \/ CommitSucceeds(s) \/ CommitFails(s)
         \/ RollbackSucceeds(s) \/ RollbackFails(s)
  PROVE  SessionInv'
  <1>1. Chains /\ DataTypes
    BY CallsParts
  <1>2. ASSUME UNCHANGED <<tx, opening, stopVars>>, Settle(s) \/ GoOn(s, "mutating", None),
               \A k \in Clients : session'[k].state = session[k].state
        PROVE  SessionInv'
    <2>1. \A r \in Scratchpads : \/ phase'[r] = phase[r] /\ cur'[r] = cur[r]
                                 \/ phase'[r] \notin {"connecting", "beginning"}
      BY <1>2, SettlePhase, GoOnPhase
    <2>2. NothingOpened
      BY <1>2, <2>1 DEF NothingOpened, stopVars
    <2> QED BY <2>2, NothingOpenedKeepsInv
  <1>3. CASE ActionFails(s)
    <2>1. \A k \in Clients : session'[k].state = session[k].state
      <3> SUFFICES ASSUME NEW k \in Clients
                   PROVE  session'[k].state = session[k].state
        OBVIOUS
      <3>1. session[k] \in Session
        BY <1>1 DEF DataTypes
      <3>2. \E status \in {session[k].status, "failed"}, pg \in {session[k].pg, "aborted"} :
              session'[k] = [session[k] EXCEPT !.status = status, !.pg = pg]
        BY <1>3 DEF ActionFails
      <3> QED BY <3>1, <3>2 DEF Session
    <2> QED BY <1>2, <1>3, <2>1 DEF ActionFails
  <1>4. CASE CommitFails(s)
    <2>1. \A k \in Clients : session'[k].state = session[k].state
      BY <1>1, <1>4 DEF CommitFails, DataTypes, Session
    <2> QED BY <1>2, <1>4, <2>1 DEF CommitFails
  <1>5. CASE RollbackSucceeds(s) \/ RollbackFails(s)
    BY <1>5, CloseKeepsSessions DEF RollbackSucceeds, RollbackFails
  <1>6. CASE CommitSucceeds(s) /\ ~Failed(cur[s])
    BY <1>6, CloseKeepsSessions DEF CommitSucceeds
  <1>7. CASE CommitSucceeds(s) /\ Failed(cur[s])
    <2>1. \A k \in Clients : session'[k].state = session[k].state
      BY <1>1, <1>7 DEF CommitSucceeds, DataTypes, Session
    <2> QED BY <1>2, <1>7, <2>1 DEF CommitSucceeds
  <1> QED BY <1>3, <1>4, <1>5, <1>6, <1>7

-----------------------------------------------------------------------------
(* Steps of a session that is being opened *)

LEMMA ConnectKeepsSessions ==
  ASSUME CallsInv, SessionInv, ConstantsAssumption, NEW s \in Scratchpads,
         NEW k \in Clients, ConnectSucceeds(s, k)
  PROVE  SessionInv'
  <1>1. Chains /\ DataTypes /\ (\A r \in Scratchpads : CurOK(r))
    BY CallsParts
  <1>2. /\ phase[s] = "connecting" /\ Forgotten(k)
        /\ session' = [session EXCEPT ![k] =
             [state |-> IF accepting THEN "open" ELSE "ending", conn |-> Head(queue[s]).conn,
              status |-> "in-progress", pg |-> "none"]]
        /\ opening' = [opening EXCEPT ![s] = IF accepting THEN k ELSE None]
        /\ GoOn(s, IF accepting THEN "beginning" ELSE "endingFailed", k)
        /\ UNCHANGED <<tx, stopVars>>
    BY DEF ConnectSucceeds, AtTurn
  <1>3. opening[s] = None /\ tx[s] = None
    BY <1>1, <1>2 DEF CurOK, SessionInv, OpensWhenNone
  <1>4. k # None /\ \A r \in Scratchpads : k \notin {tx[r], opening[r], cur[r]}
    BY <1>2 DEF Forgotten, ConstantsAssumption
  <1>5. /\ \A r \in Scratchpads : r # s => /\ phase'[r] = phase[r] /\ cur'[r] = cur[r]
                                           /\ opening'[r] = opening[r]
        /\ phase'[s] = (IF accepting THEN "beginning" ELSE "endingFailed") /\ cur'[s] = k
        /\ opening'[s] = IF accepting THEN k ELSE None
    BY <1>1, <1>2, GoOnPhase DEF DataTypes
  <1>6. /\ \A j \in Clients : j # k => session'[j] = session[j]
        /\ session'[k].state = "open" => accepting
    BY <1>1, <1>2 DEF DataTypes
  <1>7. NoOrphanSession'
    <2>1. ASSUME NEW j \in Clients, session'[j].state = "open"
          PROVE  \/ \E r \in Scratchpads : j \in {tx'[r], opening'[r]}
                 \/ j \in doomed'
      <3>1. CASE j = k
        BY <1>5, <1>6, <2>1, <3>1
      <3>2. CASE j # k
        <4>1. \/ \E r \in Scratchpads : j \in {tx[r], opening[r]}
              \/ j \in doomed
          BY <1>6, <2>1, <3>2 DEF SessionInv, NoOrphanSession
        <4>2. \A r \in Scratchpads : j = opening[r] => r # s
          BY <1>3 DEF ConstantsAssumption
        <4> QED BY <1>2, <1>5, <4>1, <4>2 DEF stopVars
      <3> QED BY <3>1, <3>2
    <2> QED BY <1>2, <2>1 DEF SessionInv, NoOrphanSession
  <1>8. OpensWhenNone' /\ OpensItsOwn'
    BY <1>2, <1>3, <1>4, <1>5 DEF SessionInv, OpensWhenNone, OpensItsOwn
  <1>9. ShutdownOrder'
    BY <1>2, <1>3, <1>5 DEF SessionInv, ShutdownOrder, stopVars
  <1> QED BY <1>7, <1>8, <1>9 DEF SessionInv

LEMMA BeginKeepsSessions ==
  ASSUME CallsInv, SessionInv, ConstantsAssumption, NEW s \in Scratchpads, BeginSucceeds(s)
  PROVE  SessionInv'
  <1>1. Chains /\ DataTypes /\ (\A r \in Scratchpads : CurOK(r))
    BY CallsParts
  <1>2. /\ phase[s] = "beginning" /\ accepting
        /\ session' = [session EXCEPT ![cur[s]].pg = "active"]
        /\ opening' = [opening EXCEPT ![s] = None]
        /\ tx' = [tx EXCEPT ![s] = cur[s]]
        /\ GoOn(s, "running", cur[s])
        /\ UNCHANGED stopVars
    BY DEF BeginSucceeds, AtTurn
  <1>3. /\ \A k \in Clients : session'[k].state = session[k].state
        /\ \A r \in Scratchpads : r # s => /\ phase'[r] = phase[r] /\ cur'[r] = cur[r]
                                           /\ opening'[r] = opening[r] /\ tx'[r] = tx[r]
        /\ phase'[s] = "running" /\ opening'[s] = None /\ tx'[s] = cur[s]
    BY <1>1, <1>2, GoOnPhase DEF DataTypes, Session
  <1>4. /\ tx[s] = None /\ opening[s] \in {cur[s], None} /\ cur[s] # None
        /\ \A r \in Scratchpads : tx[r] # cur[s]
    BY <1>1, <1>2 DEF SessionInv, OpensWhenNone, OpensItsOwn, CurOK, ConstantsAssumption
  <1>5. NoOrphanSession'
    <2>1. ASSUME NEW j \in Clients, session'[j].state = "open"
          PROVE  \/ \E r \in Scratchpads : j \in {tx'[r], opening'[r]}
                 \/ j \in doomed'
      <3>1. \/ \E r \in Scratchpads : j \in {tx[r], opening[r]}
            \/ j \in doomed
        BY <1>3, <2>1 DEF SessionInv, NoOrphanSession
      <3>2. j # None
        BY DEF ConstantsAssumption
      <3> QED BY <1>2, <1>3, <1>4, <3>1, <3>2 DEF stopVars
    <2>2. \A r, q \in Scratchpads : r # q /\ tx'[r] # None => tx'[r] # tx'[q]
      BY <1>3, <1>4 DEF SessionInv, NoOrphanSession
    <2> QED BY <2>1, <2>2 DEF NoOrphanSession
  <1>6. OpensWhenNone' /\ OpensItsOwn'
    BY <1>2, <1>3 DEF SessionInv, OpensWhenNone, OpensItsOwn
  <1>7. ShutdownOrder'
    BY <1>2 DEF SessionInv, ShutdownOrder, stopVars
  <1> QED BY <1>5, <1>6, <1>7 DEF SessionInv

LEMMA BeginFailsKeepsSessions ==
  ASSUME CallsInv, SessionInv, ConstantsAssumption, NEW s \in Scratchpads, BeginFails(s)
  PROVE  SessionInv'
  <1>1. Chains /\ DataTypes /\ (\A r \in Scratchpads : CurOK(r))
    BY CallsParts
  <1>2. /\ phase[s] = "beginning"
        /\ session' = [session EXCEPT ![cur[s]].state = "ending"]
        /\ opening' = [opening EXCEPT ![s] = None]
        /\ GoOn(s, "endingFailed", cur[s])
        /\ UNCHANGED <<tx, stopVars>>
    BY DEF BeginFails, AtTurn
  <1>3. opening[s] \in {cur[s], None} /\ cur[s] \in Clients
    BY <1>1, <1>2 DEF CurOK
  <1>4. \A k \in Clients : session'[k].state = "open" => session[k].state = "open" /\ k # cur[s]
    BY <1>1, <1>2 DEF DataTypes, Session
  <1>5. \A r \in Scratchpads : opening'[r] # opening[r] => opening[r] = cur[s] /\ opening'[r] = None
    BY <1>1, <1>2, <1>3 DEF DataTypes
  <1>6. \A r \in Scratchpads : \/ phase'[r] = phase[r] /\ cur'[r] = cur[r]
                               \/ phase'[r] \notin {"connecting", "beginning"}
    BY <1>2, GoOnPhase
  <1>7. NothingOpened
    BY <1>2, <1>4, <1>5, <1>6 DEF NothingOpened, stopVars
  <1> QED BY <1>7, NothingOpenedKeepsInv

-----------------------------------------------------------------------------
(* Calls, leases, shutdown and PostgreSQL *)

\* markFailed, whatever Connection it is called with.
LEMMA MarkFailedKeepsSessions ==
  ASSUME CallsInv, SessionInv, ConstantsAssumption, NEW s \in Scratchpads, NEW c, MarkFailed(s, c)
  PROVE  SessionInv'
  <1>1. DataTypes
    BY CallsParts
  <1>2. \A k \in Clients : session'[k].state = session[k].state
    BY <1>1 DEF MarkFailed, DataTypes, Session
  <1>3. UNCHANGED <<tx, opening, phase, cur, stopVars>>
    BY DEF MarkFailed, chainVars
  <1>4. NothingOpened
    BY <1>2, <1>3 DEF NothingOpened, stopVars
  <1> QED BY <1>4, NothingOpenedKeepsInv

LEMMA CallKeepsSessions ==
  ASSUME CallsInv, SessionInv, ConstantsAssumption, NEW s \in Scratchpads, Call(s)
  PROVE  SessionInv'
  <1>1. Chains /\ DataTypes
    BY CallsParts
  <1>2. CASE \E c \in Connections : MarkFailed(s, c)
    BY <1>2, MarkFailedKeepsSessions
  <1>3. CASE ~\E c \in Connections : MarkFailed(s, c)
    <2>1. UNCHANGED <<tx, opening, session, phase, cur, stopVars>>
      BY <1>3 DEF Call, Execute, Resolve, CloseScratchpad, ChangeScratchpad
    <2> QED BY <2>1, SameSessionsKeepInv
  <1> QED BY <1>2, <1>3

LEMMA LeaseKeepsSessions ==
  ASSUME CallsInv, SessionInv, ConstantsAssumption, NEW l \in Leases,
         LeaseStep(l) \/ \E c \in Connections : Acquire(l, c)
  PROVE  SessionInv'
  <1>1. UNCHANGED <<tx, opening, session, phase, cur, stopVars>>
    BY DEF LeaseStep, Drained, RollNext, Grant, Release, Acquire
  <1> QED BY <1>1, SameSessionsKeepInv

\* The drain ends: every Transaction is handed over to be rolled back, or told to end.
LEMMA DrainEndsKeepsSessions ==
  ASSUME CallsInv, SessionInv, ConstantsAssumption, DrainEnds
  PROVE  SessionInv'
  <1> DEFINE open == {tx[s] : s \in Scratchpads} \ {None}
  <1>1. DataTypes
    BY CallsParts
  <1>2. /\ shutdown = "draining" /\ shutdown' = "closing" /\ tx' = [s \in Scratchpads |-> None]
        /\ UNCHANGED <<phase, cur, opening, accepting>>
        /\ \/ doomed' = open /\ UNCHANGED session
           \/ /\ doomed' = {}
              /\ session' = [k \in Clients |->
                   [session[k] EXCEPT !.state = IF k \in open /\ @ = "open" THEN "ending" ELSE @]]
    BY DEF DrainEnds, chainVars
  <1>3. \A s \in Scratchpads : tx'[s] = None
    BY <1>2
  <1>4. doomed = {} /\ ~accepting
    BY <1>2 DEF SessionInv, ShutdownOrder
  <1>5. ASSUME NEW k \in Clients, session'[k].state = "open"
        PROVE  \/ \E s \in Scratchpads : k \in {tx'[s], opening'[s]}
               \/ k \in doomed'
    <2>1. k # None
      BY DEF ConstantsAssumption
    <2>2. CASE doomed' = open /\ UNCHANGED session
      <3>1. \E s \in Scratchpads : k \in {tx[s], opening[s]}
        BY <1>4, <1>5, <2>2 DEF SessionInv, NoOrphanSession
      <3> QED BY <1>2, <2>1, <2>2, <3>1
    <2>3. CASE session' = [j \in Clients |->
                 [session[j] EXCEPT !.state = IF j \in open /\ @ = "open" THEN "ending" ELSE @]]
      <3> HIDE DEF open
      <3>1. session[k] \in Session
        BY <1>1 DEF DataTypes
      <3>2. session[k].state = "open" /\ k \notin open
        BY <1>5, <2>3, <3>1 DEF Session
      <3>3. \E s \in Scratchpads : k \in {tx[s], opening[s]}
        BY <1>4, <3>2 DEF SessionInv, NoOrphanSession
      <3>4. \A s \in Scratchpads : k # tx[s]
        BY <2>1, <3>2 DEF open
      <3> QED BY <1>2, <3>3, <3>4
    <2> QED BY <1>2, <2>2, <2>3
  <1>6. NoOrphanSession'
    BY <1>3, <1>5 DEF NoOrphanSession
  <1>7. OpensWhenNone'
    BY <1>3 DEF OpensWhenNone
  <1>8. OpensItsOwn'
    <2>1. \A s \in Scratchpads : phase[s] = "beginning" => cur[s] # None
      BY CallsParts DEF CurOK, ConstantsAssumption
    <2> QED BY <1>2, <1>3, <2>1 DEF SessionInv, OpensItsOwn
  <1>9. ShutdownOrder'
    BY <1>2, <1>3, <1>4 DEF ShutdownOrder
  <1> QED BY <1>6, <1>7, <1>8, <1>9 DEF SessionInv

LEMMA ShutdownKeepsSessions ==
  ASSUME CallsInv, SessionInv, ConstantsAssumption, BeginShutdown \/ ShutdownStep
  PROVE  SessionInv'
  <1>1. DataTypes
    BY CallsParts
  <1>2. CASE BeginShutdown
    <2>1. /\ shutdown = "up" /\ accepting' = FALSE /\ shutdown' = "draining"
          /\ UNCHANGED <<phase, cur, tx, opening, session, doomed>>
      BY <1>2 DEF BeginShutdown, chainVars
    <2> QED BY <2>1 DEF SessionInv, NoOrphanSession, OpensWhenNone, OpensItsOwn, ShutdownOrder
  <1>3. ASSUME NEW k \in Clients, RollbackDoomed(k) PROVE SessionInv'
    <2>1. PICK pg \in {"rolledback", session[k].pg} :
            session' = [session EXCEPT ![k].pg = IF @ = "active" THEN pg ELSE @,
                                       ![k].state = IF @ = "open" THEN "ending" ELSE @]
      BY <1>3 DEF RollbackDoomed
    <2>2. /\ doomed' = doomed \ {k}
          /\ UNCHANGED <<phase, cur, tx, opening, accepting, shutdown>>
      BY <1>3 DEF RollbackDoomed, chainVars
    <2>3. \A j \in Clients : session'[j].state = "open" => session[j].state = "open" /\ j # k
      BY <1>1, <2>1 DEF DataTypes, Session
    <2>4. NothingOpened
      BY <2>2, <2>3 DEF NothingOpened
    <2> QED BY <2>4, NothingOpenedKeepsInv
  <1>4. CASE SweepOpening
    <2>1. /\ shutdown = "closing" /\ doomed = {}
          /\ session' = [k \in Clients |->
               [session[k] EXCEPT !.state =
                  IF @ = "open" /\ \E s \in Scratchpads : opening[s] = k THEN "ending" ELSE @]]
          /\ opening' = [s \in Scratchpads |-> None] /\ shutdown' = "done"
          /\ UNCHANGED <<phase, cur, tx, accepting, doomed>>
      BY <1>4 DEF SweepOpening, chainVars
    <2>2. \A s \in Scratchpads : tx[s] = None /\ opening'[s] = None
      BY <2>1 DEF SessionInv, ShutdownOrder
    <2>3. ASSUME NEW k \in Clients PROVE session'[k].state # "open"
      <3>1. session[k] \in Session
        BY <1>1 DEF DataTypes
      <3>2. k # None
        BY DEF ConstantsAssumption
      <3>3. session[k].state = "open" => \E s \in Scratchpads : opening[s] = k
        BY <2>1, <2>2, <3>2 DEF SessionInv, NoOrphanSession
      <3> QED BY <2>1, <3>1, <3>3 DEF Session
    <2>4. NoOrphanSession'
      BY <2>1, <2>2, <2>3 DEF NoOrphanSession
    <2>5. OpensWhenNone' /\ OpensItsOwn'
      BY <2>1 DEF SessionInv, OpensWhenNone, OpensItsOwn
    <2>6. ShutdownOrder'
      BY <2>1, <2>2 DEF SessionInv, ShutdownOrder
    <2> QED BY <2>4, <2>5, <2>6 DEF SessionInv
  <1> QED BY <1>2, <1>3, <1>4, DrainEndsKeepsSessions DEF ShutdownStep

LEMMA PostgresKeepsSessions ==
  ASSUME CallsInv, SessionInv, ConstantsAssumption,
         NEW k \in Clients, SessionEnds(k) \/ SessionLost(k)
  PROVE  SessionInv'
  <1>1. \A j \in Clients : session'[j].state = "open" => session[j].state = "open"
    BY CallsParts DEF SessionEnds, SessionLost, FreeSession, DataTypes, Session
  <1>2. UNCHANGED <<phase, cur, tx, opening, stopVars>>
    BY DEF SessionEnds, SessionLost, chainVars
  <1>3. NothingOpened
    BY <1>1, <1>2 DEF NothingOpened, stopVars
  <1> QED BY <1>3, NothingOpenedKeepsInv

-----------------------------------------------------------------------------
(* What COMMIT is sent to *)

\* The awaits in which an operation works with the Transaction it found, or is opening one.
Using == {"beginning", "running", "asking", "committing"}

\* What an operation works with is no other Scratchpad's, so that only its own Statements abort it.
UsesItsOwn ==
  \A s \in Scratchpads : phase[s] \in Using =>
    /\ cur[s] \in Clients
    /\ \A r \in Scratchpads : r # s => tx[r] # cur[s] /\ (phase[r] \in Using => cur[r] # cur[s])

\* The inductive invariant behind CommitMeansCommitted: what is aborted is marked failed for as
\* long as it is a Transaction.
CommitInv ==
  /\ UsesItsOwn
  /\ \A s \in Scratchpads :
       /\ phase[s] = "running" => tx[s] \in {cur[s], None}
       /\ tx[s] # None /\ session[tx[s]].pg = "aborted" => Failed(tx[s])
       /\ phase[s] \in {"asking", "committing"} => session[cur[s]].pg # "aborted"

\* A step that aborts nothing, and in which an operation starts to work with the Transaction of its
\* Scratchpad only, and with one it has seen not to have failed if it may commit it.
NothingAborted ==
  /\ \A k \in Clients : session'[k].pg = "aborted" =>
       session[k].pg = "aborted" /\ (Failed(k) => session'[k].status = "failed")
  /\ \A r \in Scratchpads :
       /\ tx'[r] \in {tx[r], None}
       /\ \/ phase'[r] = phase[r] /\ cur'[r] = cur[r]
          \/ phase'[r] \notin Using
          \/ phase'[r] = "committing" /\ phase[r] = "asking" /\ cur'[r] = cur[r]
          \/ /\ phase'[r] \in {"running", "asking", "committing"}
             /\ tx[r] # None /\ cur'[r] = tx[r]
             /\ phase'[r] # "running" => ~Failed(tx[r])

LEMMA NothingAbortedKeepsInv ==
  ASSUME CallsInv, SessionInv, CommitInv, ConstantsAssumption, NothingAborted
  PROVE  CommitInv'
  <1>1. tx \in [Scratchpads -> Clients \cup {None}] /\ None \notin Clients
    BY CallsParts DEF DataTypes, ConstantsAssumption
  <1>2. ASSUME NEW s \in Scratchpads, phase'[s] \in Using
        PROVE  /\ cur'[s] \in Clients
               /\ \/ phase[s] \in Using /\ cur'[s] = cur[s]
                  \/ tx[s] # None /\ cur'[s] = tx[s]
    BY <1>1, <1>2 DEF NothingAborted, CommitInv, UsesItsOwn, Using
  <1>3. UsesItsOwn'
    <2> SUFFICES ASSUME NEW s \in Scratchpads, phase'[s] \in Using,
                        NEW r \in Scratchpads, r # s
                 PROVE  tx'[r] # cur'[s] /\ (phase'[r] \in Using => cur'[r] # cur'[s])
      BY <1>2 DEF UsesItsOwn
    <2>1. tx[r] # cur'[s]
      BY <1>1, <1>2 DEF CommitInv, UsesItsOwn, SessionInv, NoOrphanSession
    <2>2. tx'[r] # cur'[s]
      BY <1>1, <1>2, <2>1 DEF NothingAborted
    <2>3. phase'[r] \in Using => cur'[r] # cur'[s]
      BY <1>1, <1>2, <2>1 DEF CommitInv, UsesItsOwn, SessionInv, NoOrphanSession
    <2> QED BY <2>2, <2>3
  <1>4. ASSUME NEW s \in Scratchpads
        PROVE  phase'[s] = "running" => tx'[s] \in {cur'[s], None}
    BY <1>4 DEF NothingAborted, CommitInv, Using
  <1>5. ASSUME NEW s \in Scratchpads, tx'[s] # None, session'[tx'[s]].pg = "aborted"
        PROVE  session'[tx'[s]].status = "failed"
    <2>1. tx'[s] = tx[s] /\ tx[s] \in Clients
      BY <1>1, <1>5 DEF NothingAborted
    <2> QED BY <1>5, <2>1 DEF NothingAborted, CommitInv, Failed
  <1>6. ASSUME NEW s \in Scratchpads, phase'[s] \in {"asking", "committing"}
        PROVE  session'[cur'[s]].pg # "aborted"
    <2>1. cur'[s] \in Clients
      BY <1>2, <1>6 DEF Using
    <2>2. session[cur'[s]].pg # "aborted"
      BY <1>6 DEF NothingAborted, CommitInv, Using
    <2> QED BY <2>1, <2>2 DEF NothingAborted
  <1> QED BY <1>3, <1>4, <1>5, <1>6 DEF CommitInv, Failed

\* The steps that leave Transactions and sessions alone.
LEMMA SameSessionsKeepCommits ==
  ASSUME CallsInv, SessionInv, CommitInv, ConstantsAssumption, UNCHANGED <<tx, session>>,
         \A r \in Scratchpads :
           \/ phase'[r] = phase[r] /\ cur'[r] = cur[r]
           \/ phase'[r] \notin Using
           \/ phase'[r] = "committing" /\ phase[r] = "asking" /\ cur'[r] = cur[r]
           \/ /\ phase'[r] \in {"running", "asking", "committing"}
              /\ tx[r] # None /\ cur'[r] = tx[r]
              /\ phase'[r] # "running" => ~Failed(tx[r])
  PROVE  CommitInv'
  <1>1. NothingAborted
    BY DEF NothingAborted, Failed
  <1> QED BY <1>1, NothingAbortedKeepsInv

LEMMA PlainTurnKeepsCommits ==
  ASSUME CallsInv, SessionInv, CommitInv, ConstantsAssumption, NEW s \in Scratchpads,
         \/ StartExecute(s) \/ ConnectFails(s) \/ ActionSucceeds(s) \/ ActionThrows(s)
         \/ StartResolve(s) \/ NothingToResolve(s) \/ Answer(s) \/ Ended(s) \/ Mutate(s)
  PROVE  CommitInv'
  <1>1. UNCHANGED <<tx, session>>
    BY DEF StartExecute, ConnectFails, ActionSucceeds, ActionThrows, StartResolve,
           NothingToResolve, Answer, Ended, Mutate
  <1>2. CASE Settle(s)
    BY <1>1, <1>2, SettlePhase, SameSessionsKeepCommits DEF Using
  <1>3. ASSUME NEW p, NEW k, GoOn(s, p, k),
               \/ p \notin Using
               \/ p = "committing" /\ phase[s] = "asking" /\ k = cur[s]
               \/ /\ p \in {"running", "asking", "committing"} /\ tx[s] # None /\ k = tx[s]
                  /\ p # "running" => Usable(s)
        PROVE  CommitInv'
    BY <1>1, <1>3, GoOnPhase, SameSessionsKeepCommits DEF Usable
  <1>4. CASE StartExecute(s)
    <2>1. CASE GoOn(s, "connecting", None)
      BY <1>3, <2>1 DEF Using
    <2>2. CASE Usable(s) /\ GoOn(s, "running", tx[s])
      BY <1>3, <2>2 DEF Usable
    <2> QED BY <1>2, <1>4, <2>1, <2>2 DEF StartExecute
  <1>5. CASE StartResolve(s)
    <2>1. \/ Usable(s) /\ GoOn(s, "committing", tx[s])
          \/ Usable(s) /\ GoOn(s, "asking", tx[s])
          \/ \E p \in {"rollingBack", "askingRollback", "mutating"} :
               \E k \in {tx[s], Head(queue[s]).client, None} : GoOn(s, p, k)
      BY <1>5 DEF StartResolve
    <2> QED BY <1>3, <2>1 DEF Usable, Using
  <1>6. CASE Answer(s)
    <2>1. \/ phase[s] = "asking" /\ GoOn(s, "committing", cur[s])
          \/ GoOn(s, "rollingBack", cur[s])
          \/ Settle(s)
      BY <1>6 DEF Answer
    <2> QED BY <1>2, <1>3, <2>1 DEF Using
  <1>7. CASE Ended(s)
    <2>1. GoOn(s, "mutating", None) \/ Settle(s)
      BY <1>7 DEF Ended
    <2> QED BY <1>2, <1>3, <2>1 DEF Using
  <1>8. CASE ConnectFails(s) \/ ActionSucceeds(s) \/ ActionThrows(s) \/ NothingToResolve(s)
             \/ Mutate(s)
    BY <1>2, <1>8 DEF ConnectFails, ActionSucceeds, ActionThrows, NothingToResolve, Mutate
  <1> QED BY <1>4, <1>5, <1>6, <1>7, <1>8

\* COMMIT and ROLLBACK end, a session is opened or is not: nothing starts to be used.
LEMMA SessionTurnKeepsCommits ==
  ASSUME CallsInv, SessionInv, CommitInv, ConstantsAssumption, NEW s \in Scratchpads,
         \/ CommitSucceeds(s) \/ CommitFails(s) \/ RollbackSucceeds(s) \/ RollbackFails(s)
         \/ BeginFails(s)
  PROVE  CommitInv'
  <1>1. tx \in [Scratchpads -> Clients \cup {None}] /\ session \in [Clients -> Session]
    BY CallsParts DEF DataTypes
  <1>2. ASSUME NEW p \in {"ending", "endingFailed"}, NEW outcome, CloseTransaction(s, p, outcome),
               outcome = "aborted" => session[cur[s]].pg = "aborted"
        PROVE  CommitInv'
    <2>1. \A k \in Clients : session'[k].pg = "aborted" =>
            session[k].pg = "aborted" /\ (Failed(k) => session'[k].status = "failed")
      BY <1>1, <1>2 DEF CloseTransaction, Session, Failed
    <2>2. \A r \in Scratchpads : tx'[r] \in {tx[r], None}
      BY <1>1, <1>2 DEF CloseTransaction
    <2>3. GoOn(s, p, cur[s])
      BY <1>2 DEF CloseTransaction
    <2>4. NothingAborted
      BY <2>1, <2>2, <2>3, GoOnPhase DEF NothingAborted, Using
    <2> QED BY <2>4, NothingAbortedKeepsInv
  <1>3. ASSUME UNCHANGED tx, Settle(s) \/ \E p \in {"mutating", "endingFailed"}, k \in Clients \cup {None} : GoOn(s, p, k),
               \A k \in Clients : session'[k].pg = "aborted" =>
                 session[k].pg = "aborted" /\ (Failed(k) => session'[k].status = "failed")
        PROVE  CommitInv'
    <2>1. \A r \in Scratchpads : \/ phase'[r] = phase[r] /\ cur'[r] = cur[r]
                                 \/ phase'[r] \notin Using
      BY <1>3, SettlePhase, GoOnPhase DEF Using
    <2>2. NothingAborted
      BY <1>3, <2>1 DEF NothingAborted
    <2> QED BY <2>2, NothingAbortedKeepsInv
  <1>4. CASE CommitSucceeds(s)
    <2>1. CASE ~Failed(cur[s])
      BY <1>2, <1>4, <2>1 DEF CommitSucceeds
    <2>2. CASE Failed(cur[s])
      <3>1. \A k \in Clients : session'[k].pg = "aborted" =>
              session[k].pg = "aborted" /\ (Failed(k) => session'[k].status = "failed")
        BY <1>1, <1>4, <2>2 DEF CommitSucceeds, Session, Failed
      <3> QED BY <1>3, <1>4, <2>2, <3>1 DEF CommitSucceeds
    <2> QED BY <2>1, <2>2
  <1>5. CASE CommitFails(s)
    <2>1. \A k \in Clients : session'[k].pg = "aborted" =>
            session[k].pg = "aborted" /\ (Failed(k) => session'[k].status = "failed")
      BY <1>1, <1>5 DEF CommitFails, Session, Failed
    <2> QED BY <1>3, <1>5, <2>1 DEF CommitFails
  <1>6. CASE RollbackSucceeds(s)
    BY <1>2, <1>6 DEF RollbackSucceeds
  <1>7. CASE RollbackFails(s)
    BY <1>2, <1>7 DEF RollbackFails
  <1>8. CASE BeginFails(s)
    <2>1. \A k \in Clients : session'[k].pg = "aborted" =>
            session[k].pg = "aborted" /\ (Failed(k) => session'[k].status = "failed")
      BY <1>1, <1>8 DEF BeginFails, Session, Failed
    <2>2. cur[s] \in Clients \cup {None}
      BY CallsParts DEF Chains, ChainTypes
    <2> QED BY <1>3, <1>8, <2>1, <2>2 DEF BeginFails
  <1> QED BY <1>4, <1>5, <1>6, <1>7, <1>8

LEMMA ConnectKeepsCommits ==
  ASSUME CallsInv, SessionInv, CommitInv, ConstantsAssumption, NEW s \in Scratchpads,
         NEW k \in Clients, ConnectSucceeds(s, k)
  PROVE  CommitInv'
  <1>1. tx \in [Scratchpads -> Clients \cup {None}] /\ session \in [Clients -> Session]
        /\ None \notin Clients
    BY CallsParts DEF DataTypes, ConstantsAssumption
  <1>2. /\ UNCHANGED tx
        /\ \A r \in Scratchpads : k \notin {tx[r], cur[r]}
        /\ \A j \in Clients : j # k => session'[j] = session[j]
        /\ \A r \in Scratchpads : r # s => phase'[r] = phase[r] /\ cur'[r] = cur[r]
        /\ phase'[s] \in {"beginning", "endingFailed"} /\ cur'[s] = k
    BY <1>1, GoOnPhase DEF ConnectSucceeds, Forgotten
  <1>3. UsesItsOwn'
    BY <1>1, <1>2 DEF CommitInv, UsesItsOwn
  <1>4. \A r \in Scratchpads : phase[r] \in {"asking", "committing"} => cur[r] \in Clients
    BY DEF CommitInv, UsesItsOwn, Using
  <1> QED BY <1>1, <1>2, <1>3, <1>4 DEF CommitInv, Failed

LEMMA BeginKeepsCommits ==
  ASSUME CallsInv, SessionInv, CommitInv, ConstantsAssumption, NEW s \in Scratchpads,
         BeginSucceeds(s)
  PROVE  CommitInv'
  <1>1. tx \in [Scratchpads -> Clients \cup {None}] /\ session \in [Clients -> Session]
        /\ None \notin Clients
    BY CallsParts DEF DataTypes, ConstantsAssumption
  <1>2. phase[s] = "beginning" /\ cur[s] \in Clients
        /\ \A r \in Scratchpads : r # s => tx[r] # cur[s] /\ (phase[r] \in Using => cur[r] # cur[s])
    BY DEF BeginSucceeds, AtTurn, CommitInv, UsesItsOwn, Using
  <1>3. /\ \A j \in Clients : j # cur[s] => session'[j] = session[j]
        /\ session'[cur[s]].pg = "active"
        /\ \A r \in Scratchpads : r # s => /\ phase'[r] = phase[r] /\ cur'[r] = cur[r]
                                           /\ tx'[r] = tx[r]
        /\ phase'[s] = "running" /\ cur'[s] = cur[s] /\ tx'[s] = cur[s]
    BY <1>1, <1>2, GoOnPhase DEF BeginSucceeds, Session
  <1>4. UsesItsOwn'
    BY <1>2, <1>3 DEF CommitInv, UsesItsOwn, Using
  <1>5. \A r \in Scratchpads : phase[r] \in {"asking", "committing"} => cur[r] \in Clients
    BY DEF CommitInv, UsesItsOwn, Using
  <1> QED BY <1>1, <1>2, <1>3, <1>4, <1>5 DEF CommitInv, Failed, Using

\* A failing cell aborts what it works with, and that is marked failed unless it left the map.
LEMMA ActionFailsKeepsCommits ==
  ASSUME CallsInv, SessionInv, CommitInv, ConstantsAssumption, NEW s \in Scratchpads,
         ActionFails(s)
  PROVE  CommitInv'
  <1>1. tx \in [Scratchpads -> Clients \cup {None}] /\ session \in [Clients -> Session]
        /\ None \notin Clients
    BY CallsParts DEF DataTypes, ConstantsAssumption
  <1>2. phase[s] = "running" /\ cur[s] \in Clients /\ tx[s] \in {cur[s], None}
        /\ \A r \in Scratchpads : r # s => tx[r] # cur[s] /\ (phase[r] \in Using => cur[r] # cur[s])
    BY DEF ActionFails, AtTurn, CommitInv, UsesItsOwn, Using
  <1>3. UNCHANGED tx /\ Settle(s)
    BY DEF ActionFails
  <1>4. \A k \in Clients : /\ k # cur[s] => session'[k].pg = session[k].pg
                           /\ session'[k].status = IF k = tx[s] THEN "failed" ELSE session[k].status
    <2> SUFFICES ASSUME NEW k \in Clients
                 PROVE  /\ k # cur[s] => session'[k].pg = session[k].pg
                        /\ session'[k].status = IF k = tx[s] THEN "failed" ELSE session[k].status
      OBVIOUS
    <2>1. session[k] \in Session
      BY <1>1
    <2>2. PICK aborted \in BOOLEAN :
            session'[k] = [session[k] EXCEPT
              !.status = IF k = tx[s] THEN "failed" ELSE @,
              !.pg = IF k = cur[s] /\ aborted /\ @ = "active" THEN "aborted" ELSE @]
      BY DEF ActionFails
    <2> QED BY <2>1, <2>2 DEF Session
  <1>5. \A r \in Scratchpads : \/ r # s /\ phase'[r] = phase[r] /\ cur'[r] = cur[r]
                               \/ phase'[r] = "waiting"
    <2>1. phase \in [Scratchpads -> Phases]
      BY CallsParts DEF Chains, ChainTypes
    <2>2. phase'[s] = "waiting"
      BY <1>3, <2>1 DEF Settle
    <2> QED BY <1>3, <2>2, SettlePhase
  <1>6. UsesItsOwn'
    BY <1>3, <1>5 DEF CommitInv, UsesItsOwn, Using
  <1>7. ASSUME NEW r \in Scratchpads, tx'[r] # None, session'[tx'[r]].pg = "aborted"
        PROVE  session'[tx'[r]].status = "failed"
    <2>1. tx'[r] = tx[r] /\ tx[r] \in Clients
      BY <1>1, <1>3, <1>7
    <2>2. CASE tx[r] = tx[s]
      BY <1>4, <2>1, <2>2
    <2>3. CASE tx[r] # tx[s]
      <3>1. tx[r] # cur[s]
        BY <1>2, <2>3
      <3> QED BY <1>4, <1>7, <2>1, <3>1 DEF CommitInv, Failed
    <2> QED BY <2>2, <2>3
  <1>8. ASSUME NEW r \in Scratchpads, phase'[r] \in {"asking", "committing"}
        PROVE  session'[cur'[r]].pg # "aborted"
    <2>1. r # s /\ phase[r] = phase'[r] /\ cur'[r] = cur[r]
      BY <1>5, <1>8
    <2>2. cur[r] # cur[s] /\ cur[r] \in Clients
      BY <1>2, <1>8, <2>1 DEF CommitInv, UsesItsOwn, Using
    <2> QED BY <1>4, <1>8, <2>1, <2>2 DEF CommitInv
  <1>9. ASSUME NEW r \in Scratchpads, phase'[r] = "running"
        PROVE  tx'[r] \in {cur'[r], None}
    BY <1>3, <1>5, <1>9 DEF CommitInv
  <1> QED BY <1>6, <1>7, <1>8, <1>9 DEF CommitInv, Failed

\* markFailed, whatever Connection it is called with.
LEMMA MarkFailedKeepsCommits ==
  ASSUME CallsInv, SessionInv, CommitInv, ConstantsAssumption, NEW s \in Scratchpads, NEW c,
         MarkFailed(s, c)
  PROVE  CommitInv'
  <1>1. session \in [Clients -> Session]
    BY CallsParts DEF DataTypes
  <1>2. UNCHANGED <<phase, cur, tx>>
    BY DEF MarkFailed, chainVars
  <1>3. \A k \in Clients : /\ session'[k].pg = session[k].pg
                           /\ Failed(k) => session'[k].status = "failed"
    BY <1>1 DEF MarkFailed, Session, Failed
  <1>4. NothingAborted
    BY <1>2, <1>3 DEF NothingAborted
  <1> QED BY <1>4, NothingAbortedKeepsInv

\* Calls, leases, shutdown and PostgreSQL: nothing starts to be used, nothing is aborted.
LEMMA OutsideKeepsCommits ==
  ASSUME CallsInv, SessionInv, CommitInv, ConstantsAssumption,
         \/ \E s \in Scratchpads : Call(s)
         \/ \E l \in Leases : LeaseStep(l) \/ \E c \in Connections : Acquire(l, c)
         \/ BeginShutdown \/ ShutdownStep
         \/ \E k \in Clients : SessionEnds(k) \/ SessionLost(k)
  PROVE  CommitInv'
  <1>1. tx \in [Scratchpads -> Clients \cup {None}] /\ session \in [Clients -> Session]
    BY CallsParts DEF DataTypes
  <1>2. UNCHANGED <<phase, cur>>
    BY DEF Call, Execute, Resolve, CloseScratchpad, ChangeScratchpad, MarkFailed, LeaseStep,
           Drained, RollNext, Grant, Release, Acquire, BeginShutdown, ShutdownStep, DrainEnds,
           RollbackDoomed, SweepOpening, SessionEnds, SessionLost, chainVars
  <1>3. ASSUME \A r \in Scratchpads : tx'[r] \in {tx[r], None},
               \A k \in Clients : session'[k].pg = "aborted" =>
                 session[k].pg = "aborted" /\ (Failed(k) => session'[k].status = "failed")
        PROVE  CommitInv'
    <2>1. NothingAborted
      BY <1>2, <1>3 DEF NothingAborted
    <2> QED BY <2>1, NothingAbortedKeepsInv
  <1>4. ASSUME NEW s \in Scratchpads, Call(s)
        PROVE  CommitInv'
    <2>1. CASE \E c \in Connections : MarkFailed(s, c)
      BY <2>1, MarkFailedKeepsCommits
    <2>2. CASE ~\E c \in Connections : MarkFailed(s, c)
      <3>1. UNCHANGED <<tx, session>>
        BY <1>4, <2>2 DEF Call, Execute, Resolve, CloseScratchpad, ChangeScratchpad
      <3> QED BY <1>3, <3>1 DEF Failed
    <2> QED BY <2>1, <2>2
  <1>5. ASSUME NEW l \in Leases, LeaseStep(l) \/ \E c \in Connections : Acquire(l, c)
        PROVE  CommitInv'
    <2>1. UNCHANGED <<tx, session>>
      BY <1>5 DEF LeaseStep, Drained, RollNext, Grant, Release, Acquire
    <2> QED BY <1>3, <2>1 DEF Failed
  <1>6. CASE BeginShutdown
    <2>1. UNCHANGED <<tx, session>>
      BY <1>6 DEF BeginShutdown
    <2> QED BY <1>3, <2>1 DEF Failed
  <1>7. CASE DrainEnds
    <2>1. \A k \in Clients : session'[k].pg = session[k].pg /\ session'[k].status = session[k].status
      <3> SUFFICES ASSUME NEW k \in Clients
                   PROVE  session'[k].pg = session[k].pg /\ session'[k].status = session[k].status
        OBVIOUS
      <3>1. session[k] \in Session
        BY <1>1
      <3>2. \E state : session'[k] = session[k] \/ session'[k] = [session[k] EXCEPT !.state = state]
        BY <1>7 DEF DrainEnds
      <3> QED BY <3>1, <3>2 DEF Session
    <2>2. \A r \in Scratchpads : tx'[r] = None
      BY <1>7 DEF DrainEnds
    <2> QED BY <1>3, <2>1, <2>2 DEF Failed
  <1>8. ASSUME NEW k \in Clients, RollbackDoomed(k)
        PROVE  CommitInv'
    <2>1. PICK pg \in {"rolledback", session[k].pg} :
            session' = [session EXCEPT ![k].pg = IF @ = "active" THEN pg ELSE @,
                                       ![k].state = IF @ = "open" THEN "ending" ELSE @]
      BY <1>8 DEF RollbackDoomed
    <2>2. UNCHANGED tx
      BY <1>8 DEF RollbackDoomed
    <2> QED BY <1>1, <1>3, <2>1, <2>2 DEF Session, Failed
  <1>9. CASE SweepOpening
    <2>1. \A k \in Clients : session'[k].pg = session[k].pg /\ session'[k].status = session[k].status
      <3> SUFFICES ASSUME NEW k \in Clients
                   PROVE  session'[k].pg = session[k].pg /\ session'[k].status = session[k].status
        OBVIOUS
      <3>1. session[k] \in Session
        BY <1>1
      <3>2. \E state : session'[k] = [session[k] EXCEPT !.state = state]
        BY <1>9 DEF SweepOpening
      <3> QED BY <3>1, <3>2 DEF Session
    <2>2. UNCHANGED tx
      BY <1>9 DEF SweepOpening
    <2> QED BY <1>3, <2>1, <2>2 DEF Failed
  <1>10. ASSUME NEW k \in Clients, SessionEnds(k) \/ SessionLost(k)
         PROVE  CommitInv'
    <2>1. UNCHANGED tx
      BY <1>10 DEF SessionEnds, SessionLost
    <2> QED BY <1>1, <1>3, <1>10, <2>1 DEF SessionEnds, SessionLost, FreeSession, Session, Failed
  <1> QED BY <1>4, <1>5, <1>6, <1>7, <1>8, <1>9, <1>10 DEF ShutdownStep

LEMMA NextKeepsCommits ==
  ASSUME CallsInv, SessionInv, CommitInv, ConstantsAssumption, [Next]_vars
  PROVE  CommitInv'
  <1>1. ASSUME NEW s \in Scratchpads, Turn(s)
        PROVE  CommitInv'
    BY <1>1, PlainTurnKeepsCommits, SessionTurnKeepsCommits, ConnectKeepsCommits,
       BeginKeepsCommits, ActionFailsKeepsCommits DEF Turn
  <1>2. CASE Stopped \/ UNCHANGED vars
    <2>1. UNCHANGED <<phase, cur, tx, session>>
      BY <1>2 DEF Stopped, vars
    <2> QED BY <2>1, SameSessionsKeepCommits
  <1> QED BY <1>1, <1>2, OutsideKeepsCommits DEF Next

-----------------------------------------------------------------------------
(* Theorems *)

LEMMA InitSessions ==
  ASSUME Init, ConstantsAssumption
  PROVE  SessionInv
  BY DEF Init, FreeSession, SessionInv, NoOrphanSession, OpensWhenNone, OpensItsOwn, ShutdownOrder

LEMMA NextKeepsSessions ==
  ASSUME CallsInv, SessionInv, ConstantsAssumption, [Next]_vars
  PROVE  SessionInv'
  <1>1. ASSUME NEW s \in Scratchpads, Call(s) \/ Turn(s) PROVE SessionInv'
    BY <1>1, CallKeepsSessions, PlainTurnKeepsSessions, SessionTurnKeepsSessions,
       ConnectKeepsSessions, BeginKeepsSessions, BeginFailsKeepsSessions DEF Turn
  <1>2. CASE Stopped \/ UNCHANGED vars
    <2>1. UNCHANGED <<phase, cur, tx, opening, session, stopVars>>
      BY <1>2 DEF Stopped, vars, stopVars
    <2> QED BY <2>1, SameSessionsKeepInv
  <1> QED BY <1>1, <1>2, LeaseKeepsSessions, ShutdownKeepsSessions, PostgresKeepsSessions DEF Next

LEMMA CallsHold == Spec => []CallsInv
  <1>1. ChainInv => CallsInv
    BY DEF ChainInv
  <1> QED BY <1>1, InvHolds, PTL

LEMMA SessionsHold == Spec => []SessionInv
  <1>1. Init => SessionInv
    BY InitSessions, ConstantsAssumption
  <1>2. CallsInv /\ SessionInv /\ [Next]_vars => SessionInv'
    BY NextKeepsSessions, ConstantsAssumption
  <1> QED BY <1>1, <1>2, CallsHold, PTL DEF Spec

\* No live session is left behind, and no two Scratchpads share one, whatever fails, is lost or is
\* cancelled while sessions are opened, begun, committed, rolled back and closed (close,
\* closeForShutdown).
THEOREM NoSessionOrphaned == Spec => []NoOrphanSession
  <1>1. SessionInv => NoOrphanSession
    BY DEF SessionInv
  <1> QED BY <1>1, SessionsHold, PTL

\* Once shutdown is done every session has been told to end, and no answer that was under way
\* publishes another one (finishOperationsAndRollback).
THEOREM ShutdownComplete == Spec => []ShutdownClosesEverything
  <1>1. SessionInv => ShutdownClosesEverything
    <2> SUFFICES ASSUME SessionInv, shutdown = "done"
                 PROVE  /\ \A k \in Clients : session[k].state # "open"
                        /\ \A s \in Scratchpads : tx[s] = None /\ opening[s] = None
      BY DEF ShutdownClosesEverything
    <2>1. doomed = {} /\ \A s \in Scratchpads : tx[s] = None /\ opening[s] = None
      BY DEF SessionInv, ShutdownOrder
    <2>2. None \notin Clients
      BY ConstantsAssumption DEF ConstantsAssumption
    <2> QED BY <2>1, <2>2 DEF SessionInv, NoOrphanSession
  <1> QED BY <1>1, SessionsHold, PTL

\* COMMIT is never sent on a Transaction PostgreSQL has aborted, as long as what fails in a cell is
\* recorded before its chain goes on (commit, resolveOpenTransaction, markFailed).
THEOREM CommitsAreSound == Spec => []CommitMeansCommitted
  <1>1. Init => CommitInv
    BY ConstantsAssumption
    DEF Init, FreeSession, CommitInv, UsesItsOwn, Using, ConstantsAssumption
  <1>2. CallsInv /\ SessionInv /\ CommitInv /\ [Next]_vars => CommitInv'
    BY NextKeepsCommits, ConstantsAssumption
  <1>3. CommitInv => CommitMeansCommitted
    BY DEF CommitInv, CommitMeansCommitted
  <1> QED BY <1>1, <1>2, <1>3, CallsHold, SessionsHold, PTL DEF Spec

-----------------------------------------------------------------------------
(* Whose session it is *)

\* Session k is the Transaction of Scratchpad s, or the one its head is beginning.
Holds(s, k) == tx[s] = k \/ (phase[s] = "beginning" /\ cur[s] = k)

\* Nothing that is under way on Scratchpad r, or will be for a lease, refers to session k.
Clear(r, k) ==
  /\ cur[r] # k
  /\ \A i \in DOMAIN queue[r] : queue[r][i].client # k
  /\ \A l \in Leases : <<r, k>> \notin lease[l].todo

\* What one Scratchpad holds no other one works with, or is going to roll back.
Owned == \A s, r \in Scratchpads : \A k \in Clients : Holds(s, k) /\ r # s => Clear(r, k)

\* A Transaction is one of a session nobody has told to end; so is the session being begun, unless
\* shutdown has.
Live ==
  \A s \in Scratchpads :
    /\ tx[s] # None => session[tx[s]].state = "open"
    /\ accepting /\ phase[s] = "beginning" => session[cur[s]].state = "open"

\* A step in which no Scratchpad gets hold of a session.
NoneTaken ==
  \A r \in Scratchpads : /\ tx'[r] \in {tx[r], None}
                         /\ phase'[r] = "beginning" => phase[r] = "beginning" /\ cur'[r] = cur[r]

\* A step in which no Scratchpad starts to work with what another one holds.
StaysClear ==
  \A s, r \in Scratchpads : \A k \in Clients :
    Holds(s, k) /\ r # s /\ Clear(r, k) => Clear(r, k)'

LEMMA OwnedStep ==
  ASSUME Owned, ConstantsAssumption, NoneTaken, StaysClear
  PROVE  Owned'
  <1> SUFFICES ASSUME NEW s \in Scratchpads, NEW r \in Scratchpads, NEW k \in Clients,
                      Holds(s, k)', r # s
               PROVE  Clear(r, k)'
    BY DEF Owned
  <1>1. Holds(s, k)
    BY DEF Holds, NoneTaken, ConstantsAssumption
  <1> QED BY <1>1 DEF Owned, StaysClear

\* The moves of a chain.
LEMMA SettleStaysClear ==
  ASSUME CallsInv, ConstantsAssumption, NEW s \in Scratchpads, queue[s] # <<>>, Settle(s)
  PROVE  StaysClear
  <1>1. Chains
    BY CallsParts
  <1>2. /\ queue' = [queue EXCEPT ![s] = Tail(@)]
        /\ cur' = [cur EXCEPT ![s] = None]
        /\ \A l \in Leases : lease'[l].todo \subseteq lease[l].todo
    BY DEF Settle
  <1>3. \A r \in Scratchpads : \A i \in DOMAIN queue'[r] :
          \E j \in DOMAIN queue[r] : queue'[r][i] = queue[r][j]
    <2>1. /\ \A r \in Scratchpads : r # s => queue'[r] = queue[r]
          /\ \A i \in DOMAIN queue'[s] :
               i + 1 \in DOMAIN queue[s] /\ queue'[s][i] = queue[s][i + 1]
      BY <1>1, <1>2, SettleIndex
    <2> QED BY <2>1
  <1>4. \A r \in Scratchpads : cur'[r] \in {cur[r], None}
    BY <1>1, <1>2 DEF Chains, ChainTypes
  <1>5. ASSUME NEW r \in Scratchpads, NEW k \in Clients, Clear(r, k)
        PROVE  Clear(r, k)'
    <2>1. cur'[r] # k
      BY <1>4, <1>5 DEF Clear, ConstantsAssumption
    <2>2. \A i \in DOMAIN queue'[r] : queue'[r][i].client # k
      BY <1>3, <1>5 DEF Clear
    <2>3. \A l \in Leases : <<r, k>> \notin lease'[l].todo
      BY <1>2, <1>5 DEF Clear
    <2> QED BY <2>1, <2>2, <2>3 DEF Clear
  <1> QED BY <1>5 DEF StaysClear

LEMMA GoOnStaysClear ==
  ASSUME CallsInv, SessionInv, ConstantsAssumption, NEW s \in Scratchpads, queue[s] # <<>>,
         NEW p, NEW x \in {None, tx[s], cur[s], Head(queue[s]).client}, GoOn(s, p, x)
  PROVE  StaysClear
  <1>1. /\ \A r \in Scratchpads : r # s => cur'[r] = cur[r]
        /\ cur'[s] = x
        /\ UNCHANGED <<queue, lease>>
    <2>1. UNCHANGED <<queue, lease>>
      BY DEF GoOn
    <2> QED BY <2>1, GoOnPhase
  <1>2. Head(queue[s]) = queue[s][1] /\ 1 \in DOMAIN queue[s]
    BY CallsParts, TailIndex DEF Chains, ChainTypes
  <1>3. ASSUME NEW q \in Scratchpads, q # s, NEW k \in Clients, Holds(q, k), Clear(s, k)
        PROVE  x # k
    <2>1. k # None
      BY DEF ConstantsAssumption
    <2>2. tx[s] # k
      BY <1>3, <2>1 DEF Holds, SessionInv, NoOrphanSession, OpensItsOwn
    <2>3. cur[s] # k /\ Head(queue[s]).client # k
      BY <1>2, <1>3 DEF Clear
    <2> QED BY <2>1, <2>2, <2>3
  <1> QED BY <1>1, <1>3 DEF StaysClear, Clear

\* A step that appends nothing but what nobody holds, and hands no lease anything.
LEMMA AppendStaysClear ==
  ASSUME CallsInv, ConstantsAssumption, NEW s \in Scratchpads, NEW op \in Operation,
         RunExclusive(s, op), UNCHANGED cur,
         \A l \in Leases : lease'[l].todo = lease[l].todo,
         \/ op.client = None
         \/ \E l \in Leases : <<s, op.client>> \in lease[l].todo
  PROVE  StaysClear
  <1>1. queue' = [queue EXCEPT ![s] = Append(@, op)]
    BY DEF RunExclusive
  <1>2. \A r \in Scratchpads : \A i \in DOMAIN queue'[r] :
          \/ i \in DOMAIN queue[r] /\ queue'[r][i] = queue[r][i]
          \/ r = s /\ queue'[r][i] = op
    BY <1>1, AppendedAt, CallsParts DEF Chains, ChainTypes
  <1>3. ASSUME NEW r \in Scratchpads, NEW k \in Clients, Clear(r, k)
        PROVE  Clear(r, k)'
    <2>1. r = s => op.client # k
      BY <1>3 DEF Clear, ConstantsAssumption
    <2>2. \A i \in DOMAIN queue'[r] : queue'[r][i].client # k
      BY <1>2, <1>3, <2>1 DEF Clear
    <2> QED BY <1>3, <2>2 DEF Clear
  <1> QED BY <1>3 DEF StaysClear

LEMMA SameStaysClear ==
  ASSUME UNCHANGED <<queue, cur>>, \A l \in Leases : lease'[l].todo \subseteq lease[l].todo
  PROVE  StaysClear
  BY DEF StaysClear, Clear

\* What a head does at its turn: it settles, goes on with a session its Scratchpad already works
\* with, or opens one.
LEMMA TurnParts ==
  ASSUME CallsInv, NEW s \in Scratchpads, Turn(s)
  PROVE  /\ queue[s] # <<>>
         /\ \/ Settle(s)
            \/ \E p \in Phases \ {"beginning"} :
                 \E x \in {None, tx[s], cur[s], Head(queue[s]).client} : GoOn(s, p, x)
            \/ \E k \in Clients : ConnectSucceeds(s, k)
  <1>1. phase[s] # "waiting" => queue[s] # <<>>
    BY PhaseKinds, CallsParts
  <1> DEFINE Later == Phases \ {"beginning"}
             Known == {None, tx[s], cur[s], Head(queue[s]).client}
             Goes == \E p \in Later : \E x \in Known : GoOn(s, p, x)
  <1>2. /\ \A p, x : p \in Later /\ x \in Known /\ GoOn(s, p, x) => Goes
        /\ "connecting" \in Later /\ "running" \in Later /\ "committing" \in Later
        /\ "rollingBack" \in Later /\ "asking" \in Later /\ "askingRollback" \in Later
        /\ "mutating" \in Later /\ "ending" \in Later /\ "endingFailed" \in Later
        /\ None \in Known /\ tx[s] \in Known /\ cur[s] \in Known
        /\ Head(queue[s]).client \in Known
    BY DEF Phases
  <1> HIDE DEF Later, Known, Goes
  <1> SUFFICES queue[s] # <<>> /\ (Settle(s) \/ Goes \/ \E k \in Clients : ConnectSucceeds(s, k))
    BY DEF Later, Known, Goes
  <1>3. CASE StartExecute(s)
    BY <1>2, <1>3 DEF StartExecute, AtTurn
  <1>4. CASE \/ ConnectFails(s) \/ ActionSucceeds(s) \/ ActionThrows(s) \/ ActionFails(s)
             \/ NothingToResolve(s) \/ CommitFails(s) \/ Mutate(s)
    BY <1>1, <1>4 DEF ConnectFails, ActionSucceeds, ActionThrows, ActionFails, NothingToResolve,
                      CommitFails, Mutate, AtTurn
  <1>5. CASE StartResolve(s)
    <2>1. queue[s] # <<>>
      BY <1>5 DEF StartResolve, AtTurn
    <2>2. \/ GoOn(s, "committing", tx[s]) \/ GoOn(s, "rollingBack", tx[s])
          \/ GoOn(s, "rollingBack", Head(queue[s]).client) \/ GoOn(s, "askingRollback", tx[s])
          \/ GoOn(s, "asking", tx[s]) \/ GoOn(s, "mutating", None)
      BY <1>5 DEF StartResolve
    <2> QED BY <1>2, <2>1, <2>2
  <1>6. CASE Answer(s)
    <2>1. queue[s] # <<>>
      BY <1>6 DEF Answer, AtTurn
    <2>2. GoOn(s, "committing", cur[s]) \/ GoOn(s, "rollingBack", cur[s]) \/ Settle(s)
      BY <1>6 DEF Answer
    <2> QED BY <1>2, <2>1, <2>2
  <1>7. CASE Ended(s)
    <2>1. GoOn(s, "mutating", None) \/ Settle(s)
      BY <1>7 DEF Ended
    <2> QED BY <1>1, <1>2, <1>7, <2>1 DEF Ended
  <1>8. CASE BeginSucceeds(s) \/ BeginFails(s)
    <2>1. queue[s] # <<>> /\ (GoOn(s, "running", cur[s]) \/ GoOn(s, "endingFailed", cur[s]))
      BY <1>8 DEF BeginSucceeds, BeginFails, AtTurn
    <2> QED BY <1>2, <2>1
  <1>9. CASE CommitSucceeds(s) \/ RollbackSucceeds(s) \/ RollbackFails(s)
    <2>1. \/ GoOn(s, "ending", cur[s]) \/ GoOn(s, "endingFailed", cur[s])
          \/ GoOn(s, "mutating", None) \/ Settle(s)
      BY <1>9 DEF CommitSucceeds, RollbackSucceeds, RollbackFails, CloseTransaction
    <2>2. phase[s] # "waiting"
      BY <1>9 DEF CommitSucceeds, RollbackSucceeds, RollbackFails
    <2> QED BY <1>1, <1>2, <2>1, <2>2
  <1>10. CASE \E k \in Clients : ConnectSucceeds(s, k)
    BY <1>10 DEF ConnectSucceeds, AtTurn
  <1> QED BY <1>3, <1>4, <1>5, <1>6, <1>7, <1>8, <1>9, <1>10 DEF Turn

\* The Transactions after a turn: a Scratchpad gets one only when its BEGIN is answered.
LEMMA TurnTransactions ==
  ASSUME CallsInv, NEW s \in Scratchpads, Turn(s)
  PROVE  /\ \A r \in Scratchpads : r # s => tx'[r] = tx[r]
         /\ ~BeginSucceeds(s) => tx'[s] \in {tx[s], None}
  <1>1. tx \in [Scratchpads -> Clients \cup {None}]
    BY CallsParts DEF DataTypes
  <1>2. CASE \/ StartExecute(s) \/ ConnectFails(s) \/ ActionSucceeds(s) \/ ActionThrows(s)
             \/ ActionFails(s) \/ StartResolve(s) \/ NothingToResolve(s) \/ Answer(s) \/ Ended(s)
             \/ Mutate(s) \/ CommitFails(s) \/ BeginFails(s)
    BY <1>2 DEF StartExecute, ConnectFails, ActionSucceeds, ActionThrows, ActionFails,
                StartResolve, NothingToResolve, Answer, Ended, Mutate, CommitFails, BeginFails
  <1>3. CASE CommitSucceeds(s) \/ RollbackSucceeds(s) \/ RollbackFails(s)
    <2>1. tx' = tx \/ tx' = [tx EXCEPT ![s] = IF @ = cur[s] THEN None ELSE @]
      BY <1>3 DEF CommitSucceeds, RollbackSucceeds, RollbackFails, CloseTransaction
    <2> QED BY <1>1, <2>1
  <1>4. CASE \E k \in Clients : ConnectSucceeds(s, k)
    BY <1>4 DEF ConnectSucceeds
  <1>5. CASE BeginSucceeds(s)
    BY <1>1, <1>5 DEF BeginSucceeds
  <1> QED BY <1>2, <1>3, <1>4, <1>5 DEF Turn

LEMMA TurnKeepsOwned ==
  ASSUME CallsInv, SessionInv, Owned, ConstantsAssumption, NEW s \in Scratchpads, Turn(s)
  PROVE  Owned'
  <1>1. Chains /\ DataTypes
    BY CallsParts
  <1>2. ASSUME NEW k \in Clients, ConnectSucceeds(s, k) PROVE Owned'
    <2>1. /\ Forgotten(k) /\ UNCHANGED <<queue, lease, tx>>
          /\ GoOn(s, IF accepting THEN "beginning" ELSE "endingFailed", k)
      BY <1>2 DEF ConnectSucceeds, GoOn
    <2>2. /\ \A r \in Scratchpads : r # s => cur'[r] = cur[r] /\ phase'[r] = phase[r]
          /\ cur'[s] = k
      BY <2>1, GoOnPhase
    <2>3. \A r \in Scratchpads : /\ r # s => Clear(r, k)'
                                 /\ ~Holds(r, k)
      BY <2>1, <2>2 DEF Forgotten, Clear, Holds
    <2>4. \A r \in Scratchpads : \A j \in Clients : j # k /\ Clear(r, j) => Clear(r, j)'
      BY <2>1, <2>2 DEF Clear
    <2>5. \A r \in Scratchpads : \A j \in Clients : j # k /\ Holds(r, j)' => Holds(r, j)
      BY <2>1, <2>2 DEF Holds
    <2>6. \A r \in Scratchpads : Holds(r, k)' => r = s
      BY <2>1, <2>2, <2>3 DEF Holds
    <2> QED BY <2>3, <2>4, <2>5, <2>6 DEF Owned
  <1>3. StaysClear \/ \E k \in Clients : ConnectSucceeds(s, k)
    BY TurnParts, SettleStaysClear, GoOnStaysClear
  <1>4. ASSUME ~\E k \in Clients : ConnectSucceeds(s, k)
        PROVE  \A r \in Scratchpads :
                 phase'[r] = "beginning" => phase[r] = "beginning" /\ cur'[r] = cur[r]
    BY <1>4, TurnParts, SettlePhase, GoOnPhase
  <1>5. CASE BeginSucceeds(s)
    <2>1. /\ phase[s] = "beginning" /\ tx' = [tx EXCEPT ![s] = cur[s]]
          /\ GoOn(s, "running", cur[s])
      BY <1>5 DEF BeginSucceeds, AtTurn
    <2>2. /\ \A r \in Scratchpads : r # s => cur'[r] = cur[r] /\ phase'[r] = phase[r]
          /\ phase'[s] = "running"
      BY <2>1, GoOnPhase
    <2>3. \A r \in Scratchpads : \A k \in Clients : Holds(r, k)' => Holds(r, k)
      BY <1>1, <2>1, <2>2 DEF Holds, DataTypes
    <2>4. StaysClear
      BY <2>1, GoOnStaysClear, TurnParts
    <2> QED BY <2>3, <2>4 DEF Owned, StaysClear
  <1>6. CASE ~BeginSucceeds(s) /\ ~\E k \in Clients : ConnectSucceeds(s, k)
    <2>1. NoneTaken
      BY <1>4, <1>6, TurnTransactions DEF NoneTaken
    <2> QED BY <1>3, <1>6, <2>1, OwnedStep
  <1> QED BY <1>2, <1>5, <1>6

\* execute, whatever Connection it is called with, and the other calls.
LEMMA CallKeepsOwned ==
  ASSUME CallsInv, SessionInv, Owned, ConstantsAssumption, NEW s \in Scratchpads,
         \/ \E c \in Connections : \E b \in Cells : Execute(s, c, b)
         \/ Call(s)
  PROVE  Owned'
  <1>1. UNCHANGED <<phase, cur, tx, lease>>
    BY DEF Call, Execute, Resolve, CloseScratchpad, ChangeScratchpad, MarkFailed, chainVars
  <1>2. NoneTaken
    BY <1>1 DEF NoneTaken
  <1>3. ASSUME NEW kind \in OpKinds, NEW c \in Connections \cup {None},
               NEW who \in Changers \cup Leases \cup Cells \cup {None},
               RunExclusive(s, Op(kind, c, None, who))
        PROVE  Owned'
    <2>1. Op(kind, c, None, who) \in Operation /\ Op(kind, c, None, who).client = None
      BY OpFields
    <2>2. StaysClear
      BY <1>1, <1>3, <2>1, AppendStaysClear
    <2> QED BY <1>2, <2>2, OwnedStep
  <1>4. ASSUME NEW c \in Connections, NEW b \in Cells, Execute(s, c, b) PROVE Owned'
    BY <1>3, <1>4 DEF Execute, OpKinds
  <1>5. ASSUME NEW kind \in {"commit", "rollback"}, Resolve(s, kind) PROVE Owned'
    BY <1>3, <1>5 DEF Resolve, OpKinds
  <1>6. ASSUME CloseScratchpad(s) PROVE Owned'
    BY <1>3, <1>6 DEF CloseScratchpad, OpKinds
  <1>7. ASSUME NEW h \in Changers, ChangeScratchpad(s, h) PROVE Owned'
    BY <1>3, <1>7 DEF ChangeScratchpad, OpKinds
  <1>8. ASSUME NEW c \in Connections, MarkFailed(s, c) PROVE Owned'
    <2>1. UNCHANGED <<queue, cur, lease>>
      BY <1>8 DEF MarkFailed, chainVars
    <2>2. StaysClear
      BY <2>1, SameStaysClear
    <2> QED BY <1>2, <2>2, OwnedStep
  <1>9. ASSUME Call(s) PROVE Owned'
    BY <1>4, <1>5, <1>6, <1>7, <1>8, <1>9, Zenon DEF Call
  <1> QED BY <1>4, <1>9, Zenon

LEMMA LeaseKeepsOwned ==
  ASSUME CallsInv, SessionInv, Owned, ConstantsAssumption, NEW l \in Leases,
         LeaseStep(l) \/ \E c \in Connections : Acquire(l, c)
  PROVE  Owned'
  <1>1. UNCHANGED <<phase, cur, tx, session>> /\ Chains
    BY CallsParts DEF LeaseStep, Drained, RollNext, Grant, Release, Acquire
  <1>2. NoneTaken
    BY <1>1 DEF NoneTaken
  <1>3. CASE Drained(l)
    <2>1. /\ UNCHANGED queue
          /\ lease' = [lease EXCEPT ![l].phase = "rolling", ![l].todo = OpenOn(lease[l].conn)]
      BY <1>3 DEF Drained
    <2>2. \A m \in Leases : lease'[m].todo = IF m = l THEN OpenOn(lease[l].conn) ELSE lease[m].todo
      BY <1>1, <2>1 DEF Chains, ChainTypes, Lease
    <2>3. ASSUME NEW r \in Scratchpads, NEW q \in Scratchpads, NEW k \in Clients,
                 Holds(q, k), r # q, Clear(r, k)
          PROVE  Clear(r, k)'
      <3>1. tx[r] # k
        BY <2>3 DEF Holds, SessionInv, NoOrphanSession, OpensItsOwn, ConstantsAssumption
      <3>2. <<r, k>> \notin OpenOn(lease[l].conn)
        BY <3>1 DEF OpenOn
      <3> QED BY <1>1, <2>1, <2>2, <2>3, <3>2 DEF Clear
    <2>4. StaysClear
      BY <2>3 DEF StaysClear
    <2> QED BY <1>2, <2>4, OwnedStep
  <1>4. CASE RollNext(l)
    <2>1. PICK todo \in lease[l].todo : RunExclusive(todo[1], Op("settle", None, todo[2], l))
      BY <1>4 DEF RollNext
    <2>2. lease[l].todo \in SUBSET (Scratchpads \X Clients)
      BY <1>1 DEF Chains, ChainTypes, Lease
    <2>3. todo[1] \in Scratchpads /\ todo[2] \in Clients /\ todo = <<todo[1], todo[2]>>
      BY <2>2
    <2> DEFINE op == Op("settle", None, todo[2], l)
    <2>4. op \in Operation /\ op.client = todo[2]
      BY <2>3, OpFields DEF OpKinds
    <2>5. \A m \in Leases : lease'[m].todo = lease[m].todo
      BY <1>1, <1>4 DEF RollNext, Chains, ChainTypes, Lease
    <2>6. RunExclusive(todo[1], op) /\ <<todo[1], op.client>> \in lease[l].todo
      BY <2>1, <2>3, <2>4
    <2> HIDE DEF op
    <2>7. StaysClear
      BY <1>1, <2>3, <2>4, <2>5, <2>6, AppendStaysClear
    <2> QED BY <1>2, <2>7, OwnedStep
  <1>5. CASE Grant(l) \/ Release(l) \/ \E c \in Connections : Acquire(l, c)
    <2>1. UNCHANGED queue
      BY <1>5 DEF Grant, Release, Acquire
    <2>2. \A m \in Leases : lease'[m].todo \subseteq lease[m].todo
      <3>1. lease \in [Leases -> Lease]
        BY <1>1 DEF Chains, ChainTypes
      <3>2. CASE Grant(l)
        BY <3>1, <3>2 DEF Grant, Lease
      <3>3. CASE Release(l)
        BY <3>1, <3>3 DEF Release, IdleLease
      <3>4. ASSUME NEW c \in Connections, Acquire(l, c)
            PROVE  \A m \in Leases : lease'[m].todo \subseteq lease[m].todo
        BY <3>1, <3>4 DEF Acquire
      <3> QED BY <1>5, <3>2, <3>3, <3>4
    <2>3. StaysClear
      BY <1>1, <2>1, <2>2, SameStaysClear
    <2> QED BY <1>2, <2>3, OwnedStep
  <1> QED BY <1>3, <1>4, <1>5 DEF LeaseStep

\* Shutdown and PostgreSQL, and the steps that move no chain.
LEMMA QuietKeepsOwned ==
  ASSUME Owned, ConstantsAssumption, DataKept, UNCHANGED <<phase, cur, queue, lease>>
  PROVE  Owned'
  <1>1. NoneTaken
    BY DEF NoneTaken, DataKept
  <1>2. StaysClear
    BY SameStaysClear
  <1> QED BY <1>1, <1>2, OwnedStep

LEMMA NextKeepsOwned ==
  ASSUME CallsInv, SessionInv, Owned, ConstantsAssumption, [Next]_vars
  PROVE  Owned'
  <1>1. CASE \/ BeginShutdown \/ ShutdownStep
             \/ \E k \in Clients : SessionEnds(k) \/ SessionLost(k)
    <2>1. DataKept /\ UNCHANGED chainVars
      BY <1>1, ShutdownData, PostgresData
    <2> QED BY <2>1, QuietKeepsOwned DEF chainVars
  <1>2. CASE Stopped \/ UNCHANGED vars
    <2>1. UNCHANGED <<phase, cur, queue, lease, tx, opening, session>>
      BY <1>2 DEF Stopped, vars
    <2>2. DataKept
      BY <2>1 DEF DataKept
    <2> QED BY <2>1, <2>2, QuietKeepsOwned
  <1> QED BY <1>1, <1>2, CallKeepsOwned, TurnKeepsOwned, LeaseKeepsOwned DEF Next

-----------------------------------------------------------------------------
(* What is live *)

\* A step in which no Scratchpad gets hold of a session, and a session that is told to end or ends
\* is held by none.
LEMMA LiveStep ==
  ASSUME Live, CallsInv, ConstantsAssumption, NoneTaken, accepting' => accepting,
         \A k \in Clients : session[k].state = "open" /\ session'[k].state # "open" =>
           \A r \in Scratchpads : tx'[r] # k /\ (accepting' => ~Holds(r, k)')
  PROVE  Live'
  <1>1. tx \in [Scratchpads -> Clients \cup {None}]
    BY CallsParts DEF DataTypes
  <1>2. \A r \in Scratchpads : phase[r] = "beginning" => cur[r] \in Clients
    BY CallsParts DEF CurOK
  <1>3. ASSUME NEW r \in Scratchpads, tx'[r] # None PROVE session'[tx'[r]].state = "open"
    <2>1. tx'[r] = tx[r] /\ tx[r] \in Clients /\ session[tx[r]].state = "open"
      BY <1>1, <1>3 DEF NoneTaken, Live
    <2> QED BY <2>1
  <1>4. ASSUME NEW r \in Scratchpads, accepting', phase'[r] = "beginning"
        PROVE  session'[cur'[r]].state = "open"
    <2>1. accepting /\ phase[r] = "beginning" /\ cur'[r] = cur[r]
      BY <1>4 DEF NoneTaken
    <2>2. cur[r] \in Clients /\ session[cur[r]].state = "open"
      BY <1>2, <2>1 DEF Live
    <2>3. Holds(r, cur[r])'
      BY <1>4, <2>1 DEF Holds
    <2> QED BY <1>4, <2>1, <2>2, <2>3
  <1> QED BY <1>3, <1>4 DEF Live

\* A turn gets hold of a session only when one has been opened, or its BEGIN is answered.
LEMMA TurnTakesNone ==
  ASSUME CallsInv, NEW s \in Scratchpads, Turn(s), ~BeginSucceeds(s),
         ~\E k \in Clients : ConnectSucceeds(s, k)
  PROVE  NoneTaken
  <1>1. \A r \in Scratchpads :
          phase'[r] = "beginning" => phase[r] = "beginning" /\ cur'[r] = cur[r]
    BY TurnParts, SettlePhase, GoOnPhase
  <1> QED BY <1>1, TurnTransactions DEF NoneTaken

\* A turn tells no session to end but its own, which it lets go of.
LEMMA TurnEndsItsOwn ==
  ASSUME CallsInv, SessionInv, ConstantsAssumption, NEW s \in Scratchpads, Turn(s),
         ~\E k \in Clients : ConnectSucceeds(s, k),
         NEW k \in Clients, session'[k].state # session[k].state
  PROVE  k = cur[s] /\ tx'[s] # k /\ phase'[s] # "beginning"
  <1>1. Chains /\ DataTypes
    BY CallsParts
  <1>2. session \in [Clients -> Session] /\ tx \in [Scratchpads -> Clients \cup {None}]
    BY <1>1 DEF DataTypes
  <1>3. ASSUME NEW p \in {"ending", "endingFailed"}, NEW outcome, CloseTransaction(s, p, outcome)
        PROVE  k = cur[s] /\ tx'[s] # k /\ phase'[s] # "beginning"
    <2>1. /\ tx' = [tx EXCEPT ![s] = IF @ = cur[s] THEN None ELSE @]
          /\ session' = [session EXCEPT ![cur[s]].pg = outcome,
                                        ![cur[s]].state = IF @ = "open" THEN "ending" ELSE @]
          /\ GoOn(s, p, cur[s])
      BY <1>3 DEF CloseTransaction
    <2>2. k = cur[s]
      BY <1>2, <2>1
    <2>3. tx'[s] # k
      BY <1>2, <2>1, <2>2 DEF ConstantsAssumption
    <2>4. phase'[s] = p
      BY <2>1, GoOnPhase
    <2> QED BY <2>2, <2>3, <2>4
  <1>4. CASE \/ StartExecute(s) \/ ConnectFails(s) \/ ActionSucceeds(s) \/ ActionThrows(s)
             \/ StartResolve(s) \/ NothingToResolve(s) \/ Answer(s) \/ Ended(s) \/ Mutate(s)
    BY <1>4 DEF StartExecute, ConnectFails, ActionSucceeds, ActionThrows, StartResolve,
                NothingToResolve, Answer, Ended, Mutate
  <1>5. CASE BeginSucceeds(s)
    BY <1>2, <1>5 DEF BeginSucceeds, Session
  <1>6. CASE ActionFails(s)
    <2>1. session[k] \in Session
      BY <1>2
    <2>2. \E status \in {session[k].status, "failed"}, pg \in {session[k].pg, "aborted"} :
            session'[k] = [session[k] EXCEPT !.status = status, !.pg = pg]
      BY <1>6 DEF ActionFails
    <2> QED BY <2>1, <2>2 DEF Session
  <1>7. CASE CommitFails(s)
    BY <1>2, <1>7 DEF CommitFails, Session
  <1>8. CASE RollbackSucceeds(s)
    BY <1>3, <1>8 DEF RollbackSucceeds
  <1>9. CASE RollbackFails(s)
    BY <1>3, <1>9 DEF RollbackFails
  <1>10. CASE CommitSucceeds(s)
    <2>1. CASE ~Failed(cur[s])
      BY <1>3, <1>10, <2>1 DEF CommitSucceeds
    <2>2. CASE Failed(cur[s])
      BY <1>2, <1>10, <2>2 DEF CommitSucceeds, Session
    <2> QED BY <2>1, <2>2
  <1>11. CASE BeginFails(s)
    <2>1. /\ phase[s] = "beginning" /\ UNCHANGED tx
          /\ session' = [session EXCEPT ![cur[s]].state = "ending"]
          /\ GoOn(s, "endingFailed", cur[s])
      BY <1>11 DEF BeginFails, AtTurn
    <2>2. k = cur[s]
      BY <1>2, <2>1
    <2>3. tx[s] # cur[s]
      BY <2>1 DEF SessionInv, OpensItsOwn
    <2>4. phase'[s] = "endingFailed"
      BY <2>1, GoOnPhase
    <2> QED BY <2>1, <2>2, <2>3, <2>4
  <1> QED BY <1>4, <1>5, <1>6, <1>7, <1>8, <1>9, <1>10, <1>11 DEF Turn

LEMMA TurnKeepsLive ==
  ASSUME CallsInv, SessionInv, Owned, Live, ConstantsAssumption, NEW s \in Scratchpads, Turn(s)
  PROVE  Live'
  <1>1. session \in [Clients -> Session] /\ tx \in [Scratchpads -> Clients \cup {None}]
    BY CallsParts DEF DataTypes
  <1>2. \A r \in Scratchpads : phase[r] = "beginning" => cur[r] \in Clients
    BY CallsParts DEF CurOK
  <1>3. ASSUME NEW k \in Clients, ConnectSucceeds(s, k) PROVE Live'
    <2>1. /\ Forgotten(k) /\ UNCHANGED <<tx, accepting>>
          /\ GoOn(s, IF accepting THEN "beginning" ELSE "endingFailed", k)
          /\ session' = [session EXCEPT ![k] =
               [state |-> IF accepting THEN "open" ELSE "ending", conn |-> Head(queue[s]).conn,
                status |-> "in-progress", pg |-> "none"]]
      BY <1>3 DEF ConnectSucceeds, stopVars
    <2>2. /\ \A r \in Scratchpads : r # s => cur'[r] = cur[r] /\ phase'[r] = phase[r]
          /\ cur'[s] = k
      BY <2>1, GoOnPhase
    <2>3. \A r \in Scratchpads : tx[r] # k /\ cur[r] # k
      BY <2>1 DEF Forgotten
    <2>4. \A j \in Clients : j # k => session'[j] = session[j]
      BY <1>1, <2>1
    <2>5. accepting => session'[k].state = "open"
      BY <1>1, <2>1
    <2> QED BY <1>1, <1>2, <2>1, <2>2, <2>3, <2>4, <2>5 DEF Live
  <1>4. CASE BeginSucceeds(s)
    <2>1. /\ phase[s] = "beginning" /\ accepting /\ UNCHANGED accepting
          /\ session' = [session EXCEPT ![cur[s]].pg = "active"]
          /\ tx' = [tx EXCEPT ![s] = cur[s]]
          /\ GoOn(s, "running", cur[s])
      BY <1>4 DEF BeginSucceeds, AtTurn, stopVars
    <2>2. /\ \A r \in Scratchpads : r # s => cur'[r] = cur[r] /\ phase'[r] = phase[r]
          /\ phase'[s] = "running"
      BY <2>1, GoOnPhase
    <2>3. \A k \in Clients : session'[k].state = session[k].state
      BY <1>1, <2>1 DEF Session
    <2>4. \A r \in Scratchpads : tx'[r] = IF r = s THEN cur[s] ELSE tx[r]
      BY <1>1, <2>1
    <2> QED BY <1>1, <1>2, <2>1, <2>2, <2>3, <2>4 DEF Live
  <1>5. CASE ~BeginSucceeds(s) /\ ~\E k \in Clients : ConnectSucceeds(s, k)
    <2>1. NoneTaken
      BY <1>5, TurnTakesNone
    <2>2. UNCHANGED accepting
      BY <1>5 DEF Turn, StartExecute, ConnectFails, ActionSucceeds, ActionThrows, StartResolve,
                  NothingToResolve, Answer, Ended, Mutate, BeginFails, ActionFails,
                  CommitSucceeds, CommitFails, RollbackSucceeds, RollbackFails, stopVars
    <2>3. ASSUME NEW k \in Clients, session[k].state = "open", session'[k].state # "open",
                 NEW r \in Scratchpads, Holds(r, k)'
          PROVE  FALSE
      <3>1. k = cur[s] /\ tx'[s] # k /\ phase'[s] # "beginning"
        BY <1>5, <2>3, TurnEndsItsOwn
      <3>2. r # s
        BY <2>3, <3>1 DEF Holds
      <3>3. Holds(r, k)
        BY <2>1, <2>3 DEF Holds, NoneTaken, ConstantsAssumption
      <3> QED BY <3>1, <3>2, <3>3 DEF Owned, Clear
    <2> QED BY <2>1, <2>2, <2>3, LiveStep DEF Holds
  <1> QED BY <1>3, <1>4, <1>5

\* A step that moves no chain and no Transaction, and tells no session to end.
LEMMA QuietKeepsLive ==
  ASSUME CallsInv, Live, ConstantsAssumption, UNCHANGED <<phase, cur, tx>>,
         accepting' => accepting,
         \A k \in Clients : session[k].state = "open" => session'[k].state = "open"
  PROVE  Live'
  <1>1. NoneTaken
    BY DEF NoneTaken
  <1> QED BY <1>1, LiveStep

LEMMA CallKeepsLive ==
  ASSUME CallsInv, Live, ConstantsAssumption, NEW s \in Scratchpads,
         \/ \E c \in Connections : \E b \in Cells : Execute(s, c, b)
         \/ Call(s)
  PROVE  Live'
  <1>1. UNCHANGED <<phase, cur, tx, accepting>>
    BY DEF Call, Execute, Resolve, CloseScratchpad, ChangeScratchpad, MarkFailed, chainVars, stopVars
  <1>2. session \in [Clients -> Session]
    BY CallsParts DEF DataTypes
  <1>3. ASSUME NEW c, MarkFailed(s, c)
        PROVE  \A k \in Clients : session[k].state = "open" => session'[k].state = "open"
    BY <1>2, <1>3 DEF MarkFailed, Session
  <1>4. CASE ~\E c : MarkFailed(s, c)
    <2>1. UNCHANGED session
      BY <1>4 DEF Call, Execute, Resolve, CloseScratchpad, ChangeScratchpad
    <2> QED BY <1>1, <2>1, QuietKeepsLive
  <1> QED BY <1>1, <1>3, <1>4, QuietKeepsLive

LEMMA NextKeepsLive ==
  ASSUME CallsInv, SessionInv, Owned, Live, ConstantsAssumption, [Next]_vars
  PROVE  Live'
  <1>1. session \in [Clients -> Session]
    BY CallsParts DEF DataTypes
  <1>2. ASSUME NEW l \in Leases, LeaseStep(l) \/ \E c \in Connections : Acquire(l, c) PROVE Live'
    <2>1. UNCHANGED <<phase, cur, tx, session, accepting>>
      BY <1>2 DEF LeaseStep, Drained, RollNext, Grant, Release, Acquire, stopVars
    <2> QED BY <2>1, QuietKeepsLive
  <1>3. CASE BeginShutdown
    <2>1. UNCHANGED <<phase, cur, tx, session>> /\ accepting' = FALSE
      BY <1>3 DEF BeginShutdown, chainVars
    <2> QED BY <2>1, QuietKeepsLive
  <1>4. CASE ShutdownStep
    <2>1. ~accepting' /\ \A s \in Scratchpads : tx'[s] = None
      <3>1. CASE DrainEnds
        BY <3>1 DEF DrainEnds, SessionInv, ShutdownOrder
      <3>2. CASE SweepOpening
        BY <3>2 DEF SweepOpening, SessionInv, ShutdownOrder
      <3>3. ASSUME NEW k \in Clients, RollbackDoomed(k)
            PROVE  ~accepting' /\ \A s \in Scratchpads : tx'[s] = None
        <4>1. shutdown \in {"up", "draining", "closing", "done"}
          BY CallsParts DEF DataTypes
        <4>2. doomed # {} /\ UNCHANGED <<tx, accepting>>
          BY <3>3 DEF RollbackDoomed
        <4> QED BY <4>1, <4>2 DEF SessionInv, ShutdownOrder
      <3> QED BY <1>4, <3>1, <3>2, <3>3 DEF ShutdownStep
    <2> QED BY <2>1 DEF Live
  <1>5. ASSUME NEW k \in Clients, SessionEnds(k) \/ SessionLost(k) PROVE Live'
    <2>1. UNCHANGED <<phase, cur, tx, accepting>>
      BY <1>5 DEF SessionEnds, SessionLost, chainVars, stopVars
    <2>2. \A j \in Clients : session[j].state = "open" => session'[j].state = "open"
      BY <1>1, <1>5 DEF SessionEnds, SessionLost, Session
    <2> QED BY <2>1, <2>2, QuietKeepsLive
  <1>6. CASE Stopped \/ UNCHANGED vars
    <2>1. UNCHANGED <<phase, cur, tx, session, accepting>>
      BY <1>6 DEF Stopped, vars
    <2> QED BY <2>1, QuietKeepsLive
  <1> QED BY <1>2, <1>3, <1>4, <1>5, <1>6, CallKeepsLive, TurnKeepsLive DEF Next

-----------------------------------------------------------------------------
(* The cells: what their steps are to the chains *)

\* What holds of the chains and their sessions under the cells.
ChainsHold == CallsInv /\ SessionInv /\ Owned /\ Live

\* A cancellation ends the query of the execution at its turn on Scratchpad s.
QueryCancelled(s) ==
  /\ AtTurn(s, {"execute"}, "running")
  /\ session' = [session EXCEPT ![cur[s]].pg = "aborted"]
  /\ Settle(s)
  /\ UNCHANGED <<tx, opening, blockedConns, stopVars>>

LEMMA CancelledKeepsChains ==
  ASSUME ChainsHold, ConstantsAssumption, NEW s \in Scratchpads, QueryCancelled(s)
  PROVE  ChainsHold'
  <1>1. /\ queue[s] # <<>> /\ Head(queue[s]).kind = "execute" /\ phase[s] = "running"
        /\ Settle(s) /\ session' = [session EXCEPT ![cur[s]].pg = "aborted"]
        /\ UNCHANGED <<tx, opening, blockedConns, stopVars>>
    BY DEF QueryCancelled, AtTurn
  <1>2. Chains /\ DataTypes /\ CallsInv /\ SessionInv /\ Owned /\ Live
    BY CallsParts DEF ChainsHold
  <1>3. \A k \in Clients : /\ session'[k] \in Session /\ session'[k].state = session[k].state
                           /\ session'[k].conn = session[k].conn
    BY <1>1, <1>2 DEF DataTypes, Session
  <1>4. DataTypes' /\ DataKept
    <2>1. session' \in [Clients -> Session]
      BY <1>1, <1>2, <1>3 DEF DataTypes
    <2> QED BY <1>1, <1>2, <1>3, <2>1 DEF DataTypes, DataKept, stopVars
  <1>5. CallsInv'
    BY <1>1, <1>2, <1>4, SettleStep DEF Keeps
  <1>6. \A r \in Scratchpads : \/ phase'[r] = phase[r] /\ cur'[r] = cur[r]
                               \/ phase'[r] = "waiting"
    BY <1>1, <1>2, SettlePhase
  <1>7. SessionInv'
    <2>1. NothingOpened
      BY <1>1, <1>3, <1>6 DEF NothingOpened, stopVars
    <2> QED BY <1>2, <2>1, NothingOpenedKeepsInv
  <1>8. NoneTaken
    BY <1>1, <1>6 DEF NoneTaken
  <1>9. Owned'
    BY <1>1, <1>2, <1>8, SettleStaysClear, OwnedStep
  <1>10. Live'
    BY <1>1, <1>2, <1>3, <1>8, LiveStep DEF stopVars
  <1> QED BY <1>5, <1>7, <1>9, <1>10 DEF ChainsHold

\* A step of the manager, or an execute on whatever Connection its batch was started with.
CallerStep ==
  \/ [Next]_vars
  \/ \E s \in Scratchpads : \E c \in Connections : \E b \in Cells : Execute(s, c, b)

LEMMA CallerStepKeepsChains ==
  ASSUME ChainsHold, ConstantsAssumption, CallerStep
  PROVE  ChainsHold'
  <1>1. CallsInv /\ SessionInv /\ Owned /\ Live
    BY DEF ChainsHold
  <1>2. CASE [Next]_vars
    BY <1>1, <1>2, NextKeeps, NextKeepsSessions, NextKeepsOwned, NextKeepsLive DEF Keeps, ChainsHold
  <1>3. ASSUME NEW s \in Scratchpads, NEW c \in Connections, NEW b \in Cells, Execute(s, c, b)
        PROVE  ChainsHold'
    <2>1. UNCHANGED <<phase, cur, tx, opening, session, stopVars>>
      BY <1>3 DEF Execute
    <2>2. SessionInv'
      BY <1>1, <2>1, SameSessionsKeepInv
    <2> QED BY <1>1, <1>3, <2>2, ExecuteKeepsInv, CallKeepsOwned, CallKeepsLive DEF ChainsHold
  <1> QED BY <1>2, <1>3 DEF CallerStep

\* COMMIT stays sound in every one of these steps.
LEMMA CallerStepKeepsCommits ==
  ASSUME ChainsHold, CommitInv, ConstantsAssumption, CallerStep
  PROVE  CommitInv'
  <1>1. CallsInv /\ SessionInv
    BY DEF ChainsHold
  <1>2. CASE [Next]_vars
    BY <1>1, <1>2, NextKeepsCommits
  <1>3. ASSUME NEW s \in Scratchpads, NEW c \in Connections, NEW b \in Cells, Execute(s, c, b)
        PROVE  CommitInv'
    <2>1. UNCHANGED <<phase, cur, tx, session>>
      BY <1>3 DEF Execute
    <2> QED BY <1>1, <2>1, SameSessionsKeepCommits
  <1> QED BY <1>2, <1>3 DEF CallerStep

-----------------------------------------------------------------------------
(* What holds of the batches *)

CellsTypes ==
  /\ habit \in Habits
  /\ assoc \in [Scratchpads -> Connections]
  /\ mode \in [Scratchpads -> Modes]
  /\ batch \in [Cells -> Batch]

\* The executions on the chains are those of the batches that are queued.
BatchOps ==
  \A s \in Scratchpads : \A i \in DOMAIN queue[s] :
    /\ queue[s][i].kind = "execute" <=> queue[s][i].by \in Cells
    /\ queue[s][i].by \in Cells =>
         batch[queue[s][i].by].phase = "queued" /\ batch[queue[s][i].by].pad = s

\* A batch has one execution under way.
OneOp ==
  \A s, r \in Scratchpads : \A i \in DOMAIN queue[s], j \in DOMAIN queue[r] :
    queue[s][i].by = queue[r][j].by /\ queue[s][i].by \in Cells => s = r /\ i = j

\* A batch that goes on has a Scratchpad.
StartedOK(b) ==
  batch[b].phase # "idle" => batch[b].pad \in Scratchpads /\ batch[b].conn \in Connections

\* While its execution runs, a cell is bound to the session that execution works with.
BoundOK(b) ==
  batch[b].client # None =>
    /\ batch[b].phase \in {"queued", "reporting", "settling"}
    /\ batch[b].phase = "queued" =>
         /\ AtHead(b, batch[b].pad) /\ phase[batch[b].pad] = "running"
         /\ cur[batch[b].pad] = batch[b].client

\* Only a cell that is over shows something, and only a batch that goes on is being cancelled.
ShownOK(b) ==
  /\ batch[b].shown # "nothing" => batch[b].phase \in {"reporting", "settling"}
  /\ batch[b].cancel = "sent" => batch[b].phase # "idle"

\* What a cell says was cancelled can only be rolled back.
RolledBackOnly(b) ==
  batch[b].phase # "idle" /\ batch[b].shown = "cancelled" /\ batch[b].client # None =>
    tx[batch[b].pad] # batch[b].client \/ Failed(tx[batch[b].pad])

\* A session that is being opened is none a cell is still bound to.
NotReopened == \A s \in Scratchpads : phase[s] = "beginning" => \A b \in Cells : batch[b].client # cur[s]

\* Who starts no batch while another goes on has one at a time.
OneBatch ==
  ~habit.overlaps =>
    \A b, other \in Cells : b # other => batch[b].phase = "idle" \/ batch[other].phase = "idle"

\* The inductive invariant behind CancelledNeedsRollback, over ChainsHold.
BatchesHold ==
  /\ CellsTypes /\ BatchOps /\ OneOp /\ NotReopened /\ OneBatch
  /\ \A b \in Cells : StartedOK(b) /\ BoundOK(b) /\ ShownOK(b) /\ RolledBackOnly(b)

LEMMA ReportFields ==
  ASSUME NEW b \in Cells, batch[b] \in Batch
  PROVE  /\ Report(b) \in Batch
         /\ Report(b).phase = "reporting" /\ Report(b).pad = batch[b].pad
         /\ Report(b).conn = batch[b].conn /\ Report(b).client = batch[b].client
         /\ Report(b).cancel = batch[b].cancel
         /\ Report(b).shown = IF batch[b].requested THEN "cancelled" ELSE "result"
  BY DEF Report, Batch

LEMMA IdleFields ==
  /\ IdleBatch \in Batch
  /\ IdleBatch.phase = "idle" /\ IdleBatch.client = None /\ IdleBatch.cancel = "no"
  /\ IdleBatch.shown = "nothing"
  <1>1. 0 \in 0..MaxCells
    BY CellsAssumption DEF CellsAssumption
  <1> QED BY <1>1 DEF IdleBatch, Batch, Modes

\* The record StartCell gives a batch.
LEMMA StartFields ==
  ASSUME CellsTypes, NEW b \in Cells, NEW s \in Scratchpads, NEW c \in Connections,
         NEW n \in 1..MaxCells, StartCell(b, s, c, n)
  PROVE  \E new \in Batch :
           /\ batch' = [batch EXCEPT ![b] = new]
           /\ new.phase = "planning" /\ new.pad = s /\ new.conn = c /\ new.client = None
           /\ new.cancel = "no" /\ new.shown = "nothing"
  <1> DEFINE new == [IdleBatch EXCEPT !.phase = "planning", !.pad = s, !.conn = c,
                                      !.mode = mode[s], !.left = n]
  <1>1. batch' = [batch EXCEPT ![b] = new]
    BY DEF StartCell
  <1>2. n \in 0..MaxCells /\ mode[s] \in Modes
    BY CellsAssumption DEF CellsTypes, CellsAssumption
  <1>3. new \in Batch
    BY <1>2, IdleFields DEF Batch
  <1>4. /\ new.phase = "planning" /\ new.pad = s /\ new.conn = c /\ new.client = None
        /\ new.cancel = "no" /\ new.shown = "nothing"
    BY IdleFields DEF Batch
  <1> HIDE DEF new
  <1> QED BY <1>1, <1>3, <1>4

\* Whether a user starts a batch now.
MayStart == habit.overlaps \/ \A b \in Cells : batch[b].phase = "idle"

\* A batch goes on by itself.
LEMMA MoveKeepsBatches ==
  ASSUME ChainsHold, BatchesHold, ConstantsAssumption,
         UNCHANGED <<queue, phase, cur, tx, padVars>>,
         \A k \in Clients : Failed(k) => Failed(k)',
         NEW b \in Cells, NEW new \in Batch, batch' = [batch EXCEPT ![b] = new],
         new.phase # "idle" => new.pad \in Scratchpads /\ new.conn \in Connections,
         batch[b].phase = "queued" \/ new.phase = "queued" =>
           new.phase = batch[b].phase /\ new.pad = batch[b].pad,
         new.client # None => /\ new.client = batch[b].client
                              /\ new.phase \in {"queued", "reporting", "settling"},
         new.shown # "nothing" => new.phase \in {"reporting", "settling"},
         new.cancel = "sent" => new.phase # "idle",
         batch[b].phase = "idle" /\ new.phase # "idle" => MayStart,
         new.shown = "cancelled" /\ new.client # None =>
           batch[b].phase # "idle" /\ batch[b].shown = "cancelled" /\ new.pad = batch[b].pad
  PROVE  BatchesHold'
  <1>1. /\ batch \in [Cells -> Batch] /\ batch'[b] = new
        /\ \A other \in Cells : other # b => batch'[other] = batch[other]
    BY DEF BatchesHold, CellsTypes
  <1>2. CellsTypes'
    BY <1>1 DEF BatchesHold, CellsTypes, padVars
  <1>3. BatchOps' /\ OneOp'
    BY <1>1 DEF BatchesHold, BatchOps, OneOp
  <1>4. \A other \in Cells : batch'[other].client \in {batch[other].client, None}
    BY <1>1
  <1>5. NotReopened'
    <2> SUFFICES ASSUME NEW s \in Scratchpads, phase[s] = "beginning", NEW other \in Cells
                 PROVE  batch'[other].client # cur[s]
      BY DEF NotReopened
    <2>1. batch[other].client # cur[s]
      BY DEF BatchesHold, NotReopened
    <2>2. cur[s] # None
      BY CallsParts DEF ChainsHold, CurOK, ConstantsAssumption
    <2> QED BY <1>4, <2>1, <2>2
  <1>6. OneBatch'
    BY <1>1 DEF BatchesHold, OneBatch, MayStart, padVars
  <1>7. ASSUME NEW other \in Cells, other # b
        PROVE  (StartedOK(other) /\ BoundOK(other) /\ ShownOK(other) /\ RolledBackOnly(other))'
    <2>1. tx \in [Scratchpads -> Clients \cup {None}]
      BY CallsParts DEF ChainsHold, DataTypes
    <2> QED BY <1>1, <1>7, <2>1 DEF BatchesHold, StartedOK, BoundOK, ShownOK, RolledBackOnly, AtHead
  <1>8. StartedOK(b)' /\ ShownOK(b)'
    BY <1>1 DEF StartedOK, ShownOK
  <1>9. BoundOK(b)'
    BY <1>1 DEF BatchesHold, BoundOK, AtHead
  <1>10. RolledBackOnly(b)'
    <2>1. tx \in [Scratchpads -> Clients \cup {None}]
      BY CallsParts DEF ChainsHold, DataTypes
    <2> QED BY <1>1, <2>1 DEF BatchesHold, StartedOK, RolledBackOnly
  <1> QED BY <1>2, <1>3, <1>5, <1>6, <1>7, <1>8, <1>9, <1>10 DEF BatchesHold

LEMMA StepsOfABatch ==
  ASSUME ChainsHold, BatchesHold, ConstantsAssumption, NEW b \in Cells,
         \/ \E s \in Scratchpads : StartBatch(b, s)
         \/ NextCell(b)
  PROVE  BatchesHold' /\ UNCHANGED <<vars, habit>>
  <1>1. CellsTypes /\ StartedOK(b)
    BY DEF BatchesHold
  <1>2. UNCHANGED <<vars, padVars>> /\ UNCHANGED habit
    BY DEF StartBatch, NextCell, padVars
  <1>3. UNCHANGED <<queue, phase, cur, tx, session, padVars>>
    BY <1>2 DEF vars
  <1>4. \A k \in Clients : Failed(k) => Failed(k)'
    BY <1>3 DEF Failed
  <1>5. ASSUME NEW s \in Scratchpads, NEW c \in Connections, NEW n \in 1..MaxCells,
               StartCell(b, s, c, n), batch[b].phase # "queued",
               batch[b].phase = "idle" => MayStart
        PROVE  BatchesHold'
    BY <1>1, <1>3, <1>4, <1>5, StartFields, MoveKeepsBatches DEF ConstantsAssumption
  <1>6. ASSUME NEW s \in Scratchpads, StartBatch(b, s) PROVE BatchesHold'
    <2>1. assoc[s] \in Connections
      BY <1>1 DEF CellsTypes
    <2>2. 1..habit.cells \subseteq 1..MaxCells
      BY <1>1, CellsAssumption DEF CellsTypes, CellsAssumption
    <2>3. PICK n \in 1..habit.cells : StartCell(b, s, assoc[s], n)
      BY <1>6 DEF StartBatch
    <2>4. n \in 1..MaxCells
      BY <2>2
    <2> QED BY <1>5, <1>6, <2>1, <2>3, <2>4 DEF StartBatch, MayStart
  <1>7. ASSUME NextCell(b) PROVE BatchesHold'
    <2>1. batch[b].phase = "settling"
      BY <1>7 DEF NextCell
    <2>2. batch[b].pad \in Scratchpads /\ batch[b].conn \in Connections
      BY <1>1, <2>1 DEF StartedOK
    <2>3. CASE batch[b].left > 1 /\ StartCell(b, batch[b].pad, batch[b].conn, batch[b].left - 1)
      <3>1. batch[b].left - 1 \in 1..MaxCells
        BY <1>1, <2>3, CellsAssumption DEF CellsTypes, Batch, CellsAssumption
      <3> QED BY <1>5, <2>1, <2>2, <2>3, <3>1
    <2>4. CASE batch' = [batch EXCEPT ![b] = IdleBatch]
      BY <1>3, <1>4, <2>1, <2>4, IdleFields, MoveKeepsBatches
    <2> QED BY <1>7, <2>3, <2>4 DEF NextCell
  <1> QED BY <1>2, <1>6, <1>7

\* A cell that is over reports, whether or not it has to mark the Transaction failed.
LEMMA ReportKeepsBatches ==
  ASSUME ChainsHold, BatchesHold, ConstantsAssumption, NEW b \in Cells,
         PlanEndsCell(b) \/ RefuseManual(b) \/ AutoEnds(b)
  PROVE  BatchesHold' /\ UNCHANGED habit
         /\ (UNCHANGED vars \/ \E c \in Connections : MarkFailed(batch[b].pad, c))
         /\ batch[b].pad \in Scratchpads
  <1>1. batch[b] \in Batch /\ StartedOK(b) /\ BoundOK(b)
    BY DEF BatchesHold, CellsTypes
  <1>2. /\ batch[b].phase \in {"planning", "auto"}
        /\ batch' = [batch EXCEPT ![b] = Report(b)]
        /\ UNCHANGED padVars /\ UNCHANGED habit
        /\ UNCHANGED vars \/ MarkFailed(batch[b].pad, batch[b].conn)
    BY DEF PlanEndsCell, RefuseManual, AutoEnds, padVars
  <1>3. UNCHANGED <<queue, phase, cur, tx>>
    BY <1>2 DEF vars, MarkFailed, chainVars
  <1>4. ASSUME NEW k \in Clients, Failed(k) PROVE Failed(k)'
    <2>1. CASE UNCHANGED vars
      BY <1>4, <2>1 DEF vars, Failed
    <2>2. CASE MarkFailed(batch[b].pad, batch[b].conn)
      <3>1. session \in [Clients -> Session]
        BY CallsParts DEF ChainsHold, DataTypes
      <3> QED BY <1>4, <2>2, <3>1 DEF MarkFailed, Failed, Session
    <2> QED BY <1>2, <2>1, <2>2
  <1>5. batch[b].client = None /\ batch[b].pad \in Scratchpads /\ batch[b].conn \in Connections
    BY <1>1, <1>2 DEF BoundOK, StartedOK
  <1>6. BatchesHold'
    BY <1>1, <1>2, <1>3, <1>4, <1>5, ReportFields, MoveKeepsBatches
  <1> QED BY <1>2, <1>5, <1>6

\* The steps in which a cell goes on, is asked to stop, or its cancellation ends.
LEMMA CellStepKeepsBatches ==
  ASSUME ChainsHold, BatchesHold, ConstantsAssumption, NEW b \in Cells,
         ExecuteAuto(b) \/ Reported(b) \/ RequestCancel(b) \/ CancelMisses(b)
           \/ CancelDestroysSocket(b)
  PROVE  BatchesHold' /\ UNCHANGED habit
         /\ (UNCHANGED vars \/ \E k \in Clients : SessionLost(k))
  <1>1. /\ batch[b] \in Batch /\ batch \in [Cells -> Batch]
        /\ StartedOK(b) /\ BoundOK(b) /\ ShownOK(b)
    BY DEF BatchesHold, CellsTypes
  <1>2. UNCHANGED padVars /\ UNCHANGED habit /\ (UNCHANGED vars \/ SessionLost(batch[b].client))
    BY DEF ExecuteAuto, Reported, RequestCancel, CancelMisses, CancelDestroysSocket, padVars
  <1>3. UNCHANGED <<queue, phase, cur, tx>>
    BY <1>2 DEF vars, SessionLost, chainVars
  <1>4. ASSUME NEW k \in Clients, Failed(k) PROVE Failed(k)'
    <2>1. CASE UNCHANGED vars
      BY <1>4, <2>1 DEF vars, Failed
    <2>2. CASE SessionLost(batch[b].client)
      <3>1. session \in [Clients -> Session]
        BY CallsParts DEF ChainsHold, DataTypes
      <3> QED BY <1>4, <2>2, <3>1 DEF SessionLost, Failed, Session
    <2> QED BY <1>2, <2>1, <2>2
  <1>5. ASSUME NEW new \in Batch, batch' = [batch EXCEPT ![b] = new],
               new.pad = batch[b].pad, new.conn = batch[b].conn, new.client = batch[b].client,
               new.shown = batch[b].shown, batch[b].phase # "idle",
               \/ new.phase = batch[b].phase
               \/ batch[b].phase = "planning" /\ new.phase = "auto"
               \/ batch[b].phase = "reporting" /\ new.phase = "settling"
        PROVE  BatchesHold'
    BY <1>1, <1>2, <1>3, <1>4, <1>5, MoveKeepsBatches DEF StartedOK, BoundOK, ShownOK
  <1>6. ASSUME ExecuteAuto(b) PROVE BatchesHold'
    <2> DEFINE new == [batch[b] EXCEPT !.phase = "auto"]
    <2>1. batch' = [batch EXCEPT ![b] = new] /\ batch[b].phase = "planning"
      BY <1>6 DEF ExecuteAuto
    <2>2. /\ new \in Batch /\ new.phase = "auto" /\ new.pad = batch[b].pad
          /\ new.conn = batch[b].conn /\ new.client = batch[b].client /\ new.shown = batch[b].shown
      BY <1>1 DEF Batch
    <2> HIDE DEF new
    <2> QED BY <1>5, <2>1, <2>2
  <1>7. ASSUME Reported(b) PROVE BatchesHold'
    <2> DEFINE new == [batch[b] EXCEPT !.phase = "settling"]
    <2>1. batch' = [batch EXCEPT ![b] = new] /\ batch[b].phase = "reporting"
      BY <1>7 DEF Reported
    <2>2. /\ new \in Batch /\ new.phase = "settling" /\ new.pad = batch[b].pad
          /\ new.conn = batch[b].conn /\ new.client = batch[b].client /\ new.shown = batch[b].shown
      BY <1>1 DEF Batch
    <2> HIDE DEF new
    <2> QED BY <1>5, <2>1, <2>2
  <1>8. ASSUME RequestCancel(b) PROVE BatchesHold'
    <2> DEFINE sent == IF batch[b].cancel = "no" /\ (batch[b].client # None
                                                       \/ batch[b].phase = "auto")
                         THEN "sent" ELSE batch[b].cancel
               new == [batch[b] EXCEPT !.requested = TRUE, !.cancel = sent]
    <2>1. batch' = [batch EXCEPT ![b] = new] /\ batch[b].phase # "idle"
      BY <1>1, <1>8 DEF RequestCancel, Batch
    <2>2. sent \in {"no", "sent", "done"}
      BY <1>1 DEF Batch
    <2> HIDE DEF sent
    <2>3. /\ new \in Batch /\ new.phase = batch[b].phase /\ new.pad = batch[b].pad
          /\ new.conn = batch[b].conn /\ new.client = batch[b].client /\ new.shown = batch[b].shown
      BY <1>1, <2>2 DEF Batch
    <2> HIDE DEF new
    <2> QED BY <1>5, <2>1, <2>3
  <1>9. ASSUME CancelMisses(b) \/ CancelDestroysSocket(b) PROVE BatchesHold'
    <2> DEFINE new == [batch[b] EXCEPT !.cancel = "done"]
    <2>1. batch' = [batch EXCEPT ![b] = new] /\ batch[b].phase # "idle"
      BY <1>1, <1>9 DEF CancelMisses, CancelDestroysSocket, ShownOK
    <2>2. /\ new \in Batch /\ new.phase = batch[b].phase /\ new.pad = batch[b].pad
          /\ new.conn = batch[b].conn /\ new.client = batch[b].client /\ new.shown = batch[b].shown
      BY <1>1 DEF Batch
    <2> HIDE DEF new
    <2> QED BY <1>5, <2>1, <2>2
  <1>10. UNCHANGED vars \/ \E k \in Clients : SessionLost(k)
    <2>1. ASSUME ~UNCHANGED vars PROVE SessionLost(batch[b].client) /\ batch[b].client # None
      BY <2>1 DEF ExecuteAuto, Reported, RequestCancel, CancelMisses, CancelDestroysSocket
    <2>2. batch[b].client \in Clients \cup {None}
      BY <1>1 DEF Batch
    <2> QED BY <2>1, <2>2
  <1> QED BY <1>2, <1>6, <1>7, <1>8, <1>9, <1>10

\* The chains after an append: what was on them is where it was.
LEMMA AppendedQueue ==
  ASSUME CallsInv, NEW s \in Scratchpads, NEW op \in Operation,
         queue' = [queue EXCEPT ![s] = Append(@, op)]
  PROVE  /\ \A r \in Scratchpads : \A i \in DOMAIN queue'[r] :
              \/ i \in DOMAIN queue[r] /\ queue'[r][i] = queue[r][i]
              \/ r = s /\ i = Len(queue[s]) + 1 /\ queue'[r][i] = op
         /\ \A r \in Scratchpads : queue[r] # <<>> =>
              queue'[r] # <<>> /\ Head(queue'[r]) = Head(queue[r])
  <1>1. queue \in [Scratchpads -> Seq(Operation)]
    BY CallsParts DEF Chains, ChainTypes
  <1>2. \A r \in Scratchpads : queue'[r] = IF r = s THEN Append(queue[s], op) ELSE queue[r]
    BY <1>1
  <1>3. queue[s] \in Seq(Operation)
    BY <1>1
  <1>4. /\ DOMAIN queue[s] = 1..Len(queue[s]) /\ Len(queue[s]) \in Nat
        /\ DOMAIN Append(queue[s], op) = 1..(Len(queue[s]) + 1)
        /\ \A i \in DOMAIN queue[s] : Append(queue[s], op)[i] = queue[s][i]
        /\ Append(queue[s], op)[Len(queue[s]) + 1] = op
        /\ Append(queue[s], op) # <<>>
        /\ queue[s] # <<>> => Head(Append(queue[s], op)) = Head(queue[s])
    BY <1>3, AppendIndex
  <1>5. ASSUME NEW r \in Scratchpads, NEW i \in DOMAIN queue'[r]
        PROVE  \/ i \in DOMAIN queue[r] /\ queue'[r][i] = queue[r][i]
               \/ r = s /\ i = Len(queue[s]) + 1 /\ queue'[r][i] = op
    <2>1. CASE r = s
      <3>1. i \in 1..(Len(queue[s]) + 1) /\ queue'[r] = Append(queue[s], op)
        BY <1>2, <1>4, <1>5, <2>1
      <3>2. i \in 1..Len(queue[s]) \/ i = Len(queue[s]) + 1
        BY <1>4, <3>1, UpToSuccessor
      <3> QED BY <1>4, <2>1, <3>1, <3>2
    <2>2. CASE r # s
      BY <1>2, <1>5, <2>2
    <2> QED BY <2>1, <2>2
  <1>6. \A r \in Scratchpads : queue[r] # <<>> =>
          queue'[r] # <<>> /\ Head(queue'[r]) = Head(queue[r])
    BY <1>2, <1>4
  <1> QED BY <1>5, <1>6

\* Stop may have been pressed since the plan was checked; the execution is queued all the same.
LEMMA ExecuteKeepsBatches ==
  ASSUME ChainsHold, BatchesHold, ConstantsAssumption, NEW b \in Cells, ExecuteManual(b)
  PROVE  /\ BatchesHold' /\ UNCHANGED habit
         /\ batch[b].pad \in Scratchpads /\ batch[b].conn \in Connections
         /\ Execute(batch[b].pad, batch[b].conn, b)
         /\ habit.overlaps \/ Agreed(batch[b].pad, batch[b].conn)
  <1> DEFINE s == batch[b].pad
             op == Op("execute", batch[b].conn, None, b)
             new == [batch[b] EXCEPT !.phase = "queued"]
  <1>1. /\ batch[b] \in Batch /\ batch \in [Cells -> Batch]
        /\ StartedOK(b) /\ BoundOK(b) /\ ShownOK(b)
    BY DEF BatchesHold, CellsTypes
  <1>2. /\ batch[b].phase = "planning" /\ Execute(s, batch[b].conn, b)
        /\ batch' = [batch EXCEPT ![b] = new]
        /\ UNCHANGED <<habit, assoc, mode>>
    BY DEF ExecuteManual, padVars
  <1>3. s \in Scratchpads /\ batch[b].conn \in Connections
    BY <1>1, <1>2 DEF StartedOK
  <1>4. op \in Operation /\ op.kind = "execute" /\ op.by = b
    BY <1>3, OpFields DEF OpKinds
  <1>5. /\ \A r \in Scratchpads : \A i \in DOMAIN queue[r] : queue[r][i].by # b
        /\ queue' = [queue EXCEPT ![s] = Append(@, op)]
        /\ UNCHANGED <<phase, cur, tx, session>>
    BY <1>2 DEF Execute, RunExclusive, Executing
  <1>6. /\ new \in Batch /\ new.phase = "queued" /\ new.pad = s /\ new.conn = batch[b].conn
        /\ new.client = None /\ new.shown = "nothing" /\ new.cancel = batch[b].cancel
    <2>1. batch[b].client = None /\ batch[b].shown = "nothing"
      BY <1>1, <1>2 DEF BoundOK, ShownOK
    <2> QED BY <1>1, <2>1 DEF Batch
  <1> HIDE DEF op, new
  <1>7. /\ batch'[b] = new
        /\ \A other \in Cells : other # b => batch'[other] = batch[other]
    BY <1>1, <1>2
  <1>8. /\ \A r \in Scratchpads : \A i \in DOMAIN queue'[r] :
             \/ i \in DOMAIN queue[r] /\ queue'[r][i] = queue[r][i]
             \/ r = s /\ i = Len(queue[s]) + 1 /\ queue'[r][i] = op
        /\ \A r \in Scratchpads : queue[r] # <<>> =>
             queue'[r] # <<>> /\ Head(queue'[r]) = Head(queue[r])
    BY <1>3, <1>4, <1>5, AppendedQueue DEF ChainsHold
  <1> HIDE DEF s
  <1>9. CellsTypes'
    BY <1>1, <1>2, <1>6 DEF BatchesHold, CellsTypes
  <1>10. BatchOps'
    BY <1>4, <1>5, <1>6, <1>7, <1>8 DEF BatchesHold, BatchOps
  <1>11. OneOp'
    BY <1>4, <1>5, <1>8 DEF BatchesHold, OneOp
  <1>12. NotReopened'
    <2>1. \A other \in Cells : batch'[other].client = batch[other].client
      BY <1>1, <1>2, <1>6, <1>7 DEF BoundOK
    <2> QED BY <1>5, <2>1 DEF BatchesHold, NotReopened
  <1>13. OneBatch'
    BY <1>2, <1>7 DEF BatchesHold, OneBatch
  <1>14. ASSUME NEW other \in Cells, other # b
         PROVE  (StartedOK(other) /\ BoundOK(other) /\ ShownOK(other) /\ RolledBackOnly(other))'
    <2>1. StartedOK(other) /\ BoundOK(other) /\ ShownOK(other) /\ RolledBackOnly(other)
      BY DEF BatchesHold
    <2>2. batch'[other] = batch[other]
      BY <1>7, <1>14
    <2>3. StartedOK(other)' /\ ShownOK(other)' /\ RolledBackOnly(other)'
      BY <1>5, <2>1, <2>2 DEF StartedOK, ShownOK, RolledBackOnly, Failed
    <2>4. BoundOK(other)'
      BY <1>5, <1>8, <2>1, <2>2 DEF StartedOK, BoundOK, AtHead
    <2> QED BY <2>3, <2>4
  <1>15. (StartedOK(b) /\ BoundOK(b) /\ ShownOK(b) /\ RolledBackOnly(b))'
    BY <1>3, <1>6, <1>7 DEF StartedOK, BoundOK, ShownOK, RolledBackOnly, s
  <1>16. BatchesHold'
    BY <1>9, <1>10, <1>11, <1>12, <1>13, <1>14, <1>15 DEF BatchesHold
  <1>17. ASSUME ~habit.overlaps, NEW i \in DOMAIN queue[s]
         PROVE  queue[s][i].kind # "execute"
    <2> SUFFICES ASSUME queue[s][i].kind = "execute" PROVE FALSE
      OBVIOUS
    <2>1. queue[s][i].by \in Cells /\ batch[queue[s][i].by].phase = "queued"
      BY <1>3 DEF BatchesHold, BatchOps
    <2>2. queue[s][i].by = b
      BY <1>2, <1>17, <2>1 DEF BatchesHold, OneBatch
    <2> QED BY <1>2, <2>1, <2>2
  <1>18. habit.overlaps \/ Agreed(s, batch[b].conn)
    BY <1>17 DEF Agreed
  <1> QED BY <1>2, <1>3, <1>16, <1>18 DEF s

\* What the cells have no part in: nothing is appended for them, and what failed stays failed for
\* as long as it is a Transaction.
LEMMA OutsideKeepsBatches ==
  ASSUME ChainsHold, BatchesHold, ConstantsAssumption, UNCHANGED <<phase, cur, cellVars>>,
         \/ UNCHANGED queue
         \/ \E s \in Scratchpads : \E op \in Operation :
              /\ op.kind # "execute" /\ op.by \notin Cells
              /\ queue' = [queue EXCEPT ![s] = Append(@, op)],
         \A r \in Scratchpads : tx'[r] \in {tx[r], None},
         \A r \in Scratchpads : tx[r] # None /\ tx'[r] = tx[r] /\ Failed(tx[r]) => Failed(tx[r])'
  PROVE  BatchesHold'
  <1>1. UNCHANGED <<habit, assoc, mode, batch>>
    BY DEF cellVars, padVars
  <1>2. /\ \A r \in Scratchpads : \A i \in DOMAIN queue'[r] :
             \/ i \in DOMAIN queue[r] /\ queue'[r][i] = queue[r][i]
             \/ queue'[r][i].kind # "execute" /\ queue'[r][i].by \notin Cells
        /\ \A r \in Scratchpads : queue[r] # <<>> =>
             queue'[r] # <<>> /\ Head(queue'[r]) = Head(queue[r])
    <2>1. CASE UNCHANGED queue
      BY <2>1
    <2>2. ASSUME NEW s \in Scratchpads, NEW op \in Operation,
                 op.kind # "execute" /\ op.by \notin Cells,
                 queue' = [queue EXCEPT ![s] = Append(@, op)]
          PROVE  /\ \A r \in Scratchpads : \A i \in DOMAIN queue'[r] :
                      \/ i \in DOMAIN queue[r] /\ queue'[r][i] = queue[r][i]
                      \/ queue'[r][i].kind # "execute" /\ queue'[r][i].by \notin Cells
                 /\ \A r \in Scratchpads : queue[r] # <<>> =>
                      queue'[r] # <<>> /\ Head(queue'[r]) = Head(queue[r])
      BY <2>2, AppendedQueue DEF ChainsHold
    <2> QED BY <2>1, <2>2
  <1>3. CellsTypes' /\ OneBatch'
    BY <1>1 DEF BatchesHold, CellsTypes, OneBatch
  <1>4. BatchOps' /\ OneOp'
    BY <1>1, <1>2 DEF BatchesHold, BatchOps, OneOp
  <1>5. NotReopened'
    BY <1>1 DEF BatchesHold, NotReopened
  <1>6. ASSUME NEW b \in Cells
        PROVE  (StartedOK(b) /\ BoundOK(b) /\ ShownOK(b) /\ RolledBackOnly(b))'
    <2>1. StartedOK(b) /\ BoundOK(b) /\ ShownOK(b) /\ RolledBackOnly(b)
      BY DEF BatchesHold
    <2>2. StartedOK(b)' /\ ShownOK(b)'
      BY <1>1, <2>1 DEF StartedOK, ShownOK
    <2>3. BoundOK(b)'
      BY <1>1, <1>2, <2>1 DEF StartedOK, BoundOK, AtHead
    <2>4. RolledBackOnly(b)'
      BY <1>1, <2>1 DEF StartedOK, RolledBackOnly, Failed
    <2> QED BY <2>2, <2>3, <2>4
  <1> QED BY <1>3, <1>4, <1>5, <1>6 DEF BatchesHold

\* What is no cell's is the manager's.
LEMMA SurroundingsAreSteps ==
  ASSUME CellsTypes, Surroundings
  PROVE  Next
  <1>1. habit.changes \subseteq Changers
    BY CellsAssumption DEF CellsTypes, CellsAssumption
  <1>2. \A s \in Scratchpads : OtherCall(s) => Call(s)
    BY <1>1 DEF OtherCall, Call
  <1> QED BY <1>2 DEF Surroundings, Next

LEMMA SurroundingsKeepBatches ==
  ASSUME ChainsHold, BatchesHold, ConstantsAssumption, Surroundings, UNCHANGED cellVars
  PROVE  BatchesHold'
  <1>1. /\ tx \in [Scratchpads -> Clients \cup {None}] /\ session \in [Clients -> Session]
        /\ lease \in [Leases -> Lease]
    BY CallsParts DEF ChainsHold, DataTypes, Chains, ChainTypes
  <1>2. Cells \cap (Changers \cup Leases \cup {None}) = {}
    BY CellsAssumption DEF CellsAssumption, ConstantsAssumption
  <1>3. ASSUME UNCHANGED <<phase, cur, tx, session>>, NEW s \in Scratchpads,
               NEW kind \in OpKinds \ {"execute"}, NEW k \in Clients \cup {None},
               NEW who \in Changers \cup Leases \cup {None}, RunExclusive(s, Op(kind, None, k, who))
        PROVE  BatchesHold'
    <2> DEFINE op == Op(kind, None, k, who)
    <2>1. op \in Operation /\ op.kind = kind /\ op.by = who
      BY OpFields
    <2>2. queue' = [queue EXCEPT ![s] = Append(@, op)]
      BY <1>3 DEF RunExclusive
    <2> HIDE DEF op
    <2>3. op.kind # "execute" /\ op.by \notin Cells
      BY <1>2, <2>1
    <2> QED BY <1>3, <2>1, <2>2, <2>3, OutsideKeepsBatches DEF Failed
  <1>4. ASSUME NEW s \in Scratchpads, OtherCall(s) PROVE BatchesHold'
    <2>1. UNCHANGED <<phase, cur, tx, session>>
      BY <1>4 DEF OtherCall, Resolve, CloseScratchpad, ChangeScratchpad
    <2>2. ASSUME NEW kind \in {"commit", "rollback"}, Resolve(s, kind) PROVE BatchesHold'
      BY <1>3, <2>1, <2>2 DEF Resolve, OpKinds
    <2>3. ASSUME CloseScratchpad(s) PROVE BatchesHold'
      BY <1>3, <2>1, <2>3 DEF CloseScratchpad, OpKinds
    <2>4. ASSUME NEW h \in Changers, ChangeScratchpad(s, h) PROVE BatchesHold'
      BY <1>3, <2>1, <2>4 DEF ChangeScratchpad, OpKinds
    <2>5. habit.changes \subseteq Changers
      BY CellsAssumption DEF BatchesHold, CellsTypes, CellsAssumption
    <2> QED BY <1>4, <2>2, <2>3, <2>4, <2>5 DEF OtherCall
  <1>5. ASSUME NEW l \in Leases, LeaseStep(l) \/ \E c \in Connections : Acquire(l, c)
        PROVE  BatchesHold'
    <2>1. UNCHANGED <<phase, cur, tx, session>>
      BY <1>5 DEF LeaseStep, Drained, RollNext, Grant, Release, Acquire
    <2>2. ASSUME RollNext(l) PROVE BatchesHold'
      <3>1. PICK todo \in lease[l].todo : RunExclusive(todo[1], Op("settle", None, todo[2], l))
        BY <2>2 DEF RollNext
      <3>2. lease[l].todo \in SUBSET (Scratchpads \X Clients)
        BY <1>1 DEF Lease
      <3>3. todo[1] \in Scratchpads /\ todo[2] \in Clients
        BY <3>2
      <3> QED BY <1>3, <2>1, <3>1, <3>3 DEF OpKinds
    <2>3. ASSUME ~RollNext(l) PROVE BatchesHold'
      <3>1. UNCHANGED queue
        BY <1>5, <2>3 DEF LeaseStep, Drained, Grant, Release, Acquire
      <3> QED BY <2>1, <3>1, OutsideKeepsBatches DEF Failed
    <2> QED BY <2>2, <2>3
  <1>6. ASSUME UNCHANGED <<queue, phase, cur>>, \A r \in Scratchpads : tx'[r] \in {tx[r], None},
               \A k \in Clients : Failed(k) => session[k].state # "open" \/ session'[k].status = "failed"
        PROVE  BatchesHold'
    <2>1. ASSUME NEW r \in Scratchpads, tx[r] # None, tx'[r] = tx[r], Failed(tx[r])
          PROVE  Failed(tx[r])'
      <3>1. tx[r] \in Clients /\ session[tx[r]].state = "open"
        BY <1>1, <2>1 DEF ChainsHold, Live
      <3> QED BY <1>6, <2>1, <3>1 DEF Failed
    <2> QED BY <1>6, <2>1, OutsideKeepsBatches
  <1>7. ASSUME BeginShutdown \/ Stopped PROVE BatchesHold'
    <2>1. UNCHANGED <<queue, phase, cur, tx, session>>
      BY <1>7 DEF BeginShutdown, Stopped, chainVars, vars
    <2> QED BY <1>6, <2>1 DEF Failed
  <1>8. ASSUME DrainEnds PROVE BatchesHold'
    <2>1. UNCHANGED <<queue, phase, cur>> /\ \A r \in Scratchpads : tx'[r] = None
      BY <1>8 DEF DrainEnds, chainVars
    <2> QED BY <2>1, OutsideKeepsBatches
  <1>9. ASSUME NEW k \in Clients, RollbackDoomed(k) PROVE BatchesHold'
    <2>1. UNCHANGED <<queue, phase, cur, tx>>
      BY <1>9 DEF RollbackDoomed, chainVars
    <2>2. PICK pg \in {"rolledback", session[k].pg} :
            session' = [session EXCEPT ![k].pg = IF @ = "active" THEN pg ELSE @,
                                       ![k].state = IF @ = "open" THEN "ending" ELSE @]
      BY <1>9 DEF RollbackDoomed
    <2>3. \A j \in Clients : session'[j].status = session[j].status
      BY <1>1, <2>2 DEF Session
    <2> QED BY <1>6, <2>1, <2>3 DEF Failed
  <1>10. ASSUME SweepOpening PROVE BatchesHold'
    <2>1. UNCHANGED <<queue, phase, cur, tx>>
      BY <1>10 DEF SweepOpening, chainVars
    <2>2. \A j \in Clients : session'[j].status = session[j].status
      BY <1>1, <1>10 DEF SweepOpening, Session
    <2> QED BY <1>6, <2>1, <2>2 DEF Failed
  <1>11. ASSUME NEW k \in Clients, SessionEnds(k) \/ SessionLost(k) PROVE BatchesHold'
    <2>1. UNCHANGED <<queue, phase, cur, tx>>
      BY <1>11 DEF SessionEnds, SessionLost, chainVars
    <2>2. \A j \in Clients :
            Failed(j) => session[j].state # "open" \/ session'[j].status = "failed"
      BY <1>1, <1>11 DEF SessionEnds, SessionLost, Session, Failed
    <2> QED BY <1>6, <2>1, <2>2
  <1> QED BY <1>4, <1>5, <1>7, <1>8, <1>9, <1>10, <1>11 DEF Surroundings, ShutdownStep

-----------------------------------------------------------------------------
(* What a turn is to the batches *)

\* The chains after a head has settled: what was behind it moved up, the others stay.
LEMMA SettledQueue ==
  ASSUME ChainsHold, BatchesHold, ConstantsAssumption, NEW s \in Scratchpads, queue[s] # <<>>,
         Settle(s),
         \A b \in Cells : ~AtHead(b, s) =>
           batch'[b].phase = batch[b].phase /\ batch'[b].pad = batch[b].pad
  PROVE  BatchOps' /\ OneOp' /\ queue'[s] # queue[s]
  <1>1. Chains
    BY CallsParts DEF ChainsHold
  <1>2. queue' = [queue EXCEPT ![s] = Tail(@)]
    BY DEF Settle
  <1>3. /\ queue[s][1] = Head(queue[s]) /\ 1 \in DOMAIN queue[s]
        /\ \A r \in Scratchpads : r # s => queue'[r] = queue[r]
        /\ \A i \in DOMAIN queue'[s] :
             i + 1 \in DOMAIN queue[s] /\ queue'[s][i] = queue[s][i + 1] /\ i + 1 # 1
        /\ queue' \in [Scratchpads -> Seq(Operation)]
    BY <1>1, <1>2, SettleIndex
  <1>4. ASSUME NEW r \in Scratchpads, NEW i \in DOMAIN queue'[r]
        PROVE  \E j \in DOMAIN queue[r] : /\ queue'[r][i] = queue[r][j]
                                          /\ j = (IF r = s THEN i + 1 ELSE i)
                                          /\ r = s => j # 1
    BY <1>3
  <1>5. ASSUME NEW r \in Scratchpads, NEW j \in DOMAIN queue[r], queue[r][j].by \in Cells,
               r = s => j # 1
        PROVE  ~AtHead(queue[r][j].by, s)
    BY <1>3, <1>5 DEF AtHead, BatchesHold, OneOp
  <1>6. BatchOps'
    <2> SUFFICES ASSUME NEW r \in Scratchpads, NEW i \in DOMAIN queue'[r]
                 PROVE  /\ queue'[r][i].kind = "execute" <=> queue'[r][i].by \in Cells
                        /\ queue'[r][i].by \in Cells =>
                             /\ batch'[queue'[r][i].by].phase = "queued"
                             /\ batch'[queue'[r][i].by].pad = r
      BY DEF BatchOps
    <2>1. PICK j \in DOMAIN queue[r] : queue'[r][i] = queue[r][j] /\ (r = s => j # 1)
      BY <1>4
    <2> QED BY <1>5, <2>1 DEF BatchesHold, BatchOps
  <1>7. OneOp'
    <2> SUFFICES ASSUME NEW r \in Scratchpads, NEW q \in Scratchpads,
                        NEW i \in DOMAIN queue'[r], NEW j \in DOMAIN queue'[q],
                        queue'[r][i].by = queue'[q][j].by, queue'[r][i].by \in Cells
                 PROVE  r = q /\ i = j
      BY DEF OneOp
    <2>1. PICK m \in DOMAIN queue[r] : queue'[r][i] = queue[r][m] /\ m = IF r = s THEN i + 1 ELSE i
      BY <1>4
    <2>2. PICK n \in DOMAIN queue[q] : queue'[q][j] = queue[q][n] /\ n = IF q = s THEN j + 1 ELSE j
      BY <1>4
    <2>3. r = q /\ m = n
      BY <2>1, <2>2 DEF BatchesHold, OneOp
    <2>4. i \in Nat /\ j \in Nat
      <3>1. queue'[r] \in Seq(Operation) /\ queue'[q] \in Seq(Operation)
        BY <1>3
      <3> QED BY <3>1, LenProperties
    <2> QED BY <2>1, <2>2, <2>3, <2>4
  <1>8. queue'[s] # queue[s]
    <2>1. queue[s] \in Seq(Operation) /\ queue'[s] = Tail(queue[s])
      BY <1>1, <1>2 DEF Chains, ChainTypes
    <2>2. /\ Len(queue[s]) \in Nat \ {0} /\ DOMAIN queue[s] = 1..Len(queue[s])
          /\ DOMAIN queue'[s] = 1..(Len(queue[s]) - 1)
      BY <2>1, TailIndex
    <2>3. Len(queue[s]) \in DOMAIN queue[s] /\ Len(queue[s]) \notin DOMAIN queue'[s]
      BY <2>2
    <2> QED BY <2>3
  <1> QED BY <1>6, <1>7, <1>8

\* A cell that is not the one at its turn, and stays as it is.
LEMMA OtherCellsStay ==
  ASSUME ChainsHold, BatchesHold, ConstantsAssumption, NEW s \in Scratchpads,
         NEW b \in Cells, ~AtHead(b, s),
         \A r \in Scratchpads : r # s => /\ queue'[r] = queue[r] /\ phase'[r] = phase[r]
                                         /\ cur'[r] = cur[r],
         batch'[b].phase = batch[b].phase, batch'[b].pad = batch[b].pad,
         batch'[b].conn = batch[b].conn, batch'[b].client = batch[b].client,
         batch'[b].shown = batch[b].shown, batch'[b].cancel \in {batch[b].cancel, "done"}
  PROVE  (StartedOK(b) /\ BoundOK(b) /\ ShownOK(b))'
  <1>1. StartedOK(b) /\ BoundOK(b) /\ ShownOK(b)
    BY DEF BatchesHold
  <1>2. StartedOK(b)' /\ ShownOK(b)'
    BY <1>1 DEF StartedOK, ShownOK
  <1>3. ASSUME batch[b].client # None, batch[b].phase = "queued"
        PROVE  batch[b].pad \in Scratchpads /\ batch[b].pad # s /\ AtHead(b, batch[b].pad)
    BY <1>1, <1>3 DEF StartedOK, BoundOK
  <1>4. BoundOK(b)'
    BY <1>1, <1>3 DEF BoundOK, AtHead
  <1> QED BY <1>2, <1>4

\* The cancellation of a batch ends the execution of another one, which reports what it has.
LEMMA HitKeepsBatches ==
  ASSUME ChainsHold, BatchesHold, ConstantsAssumption, NEW b \in Cells, NEW s \in Scratchpads,
         CancelHitsOther(b, s)
  PROVE  BatchesHold' /\ UNCHANGED habit /\ QueryCancelled(s) /\ habit.overlaps
  <1>1. PICK other : /\ other = Head(queue[s]).by
                     /\ batch[b].cancel = "sent" /\ AtTurn(s, {"execute"}, "running") /\ other # b
                     /\ ~batch[other].requested /\ cur[s] = batch[b].client
                     /\ session' = [session EXCEPT ![cur[s]].pg = "aborted"]
                     /\ Settle(s)
                     /\ batch' = [batch EXCEPT ![b].cancel = "done", ![other] = Report(other)]
                     /\ UNCHANGED <<tx, opening, blockedConns, stopVars, habit, assoc, mode>>
    BY DEF CancelHitsOther, padVars
  <1> DEFINE mine == [batch[b] EXCEPT !.cancel = "done"]
  <1>2. QueryCancelled(s)
    BY <1>1 DEF QueryCancelled
  <1>3. Chains /\ queue[s] # <<>> /\ Head(queue[s]).kind = "execute"
    BY <1>1, CallsParts DEF ChainsHold, AtTurn
  <1>4. other \in Cells /\ batch[other].phase = "queued" /\ AtHead(other, s)
    <2>1. 1 \in DOMAIN queue[s] /\ Head(queue[s]) = queue[s][1]
      BY <1>3, TailIndex DEF Chains, ChainTypes
    <2> QED BY <1>1, <1>3, <2>1 DEF BatchesHold, BatchOps, AtHead
  <1>5. \A c \in Cells : AtHead(c, s) <=> c = other
    BY <1>1, <1>3 DEF AtHead
  <1>6. /\ batch[b] \in Batch /\ batch[other] \in Batch /\ batch \in [Cells -> Batch]
        /\ StartedOK(other) /\ ShownOK(b)
    BY <1>4 DEF BatchesHold, CellsTypes
  <1>7. /\ Report(other) \in Batch
        /\ Report(other).phase = "reporting" /\ Report(other).pad = batch[other].pad
        /\ Report(other).conn = batch[other].conn /\ Report(other).client = batch[other].client
        /\ Report(other).shown = "result"
    BY <1>1, <1>4, <1>6, ReportFields
  <1>8. /\ mine \in Batch /\ mine.phase = batch[b].phase /\ mine.pad = batch[b].pad
        /\ mine.conn = batch[b].conn /\ mine.client = batch[b].client
        /\ mine.shown = batch[b].shown /\ mine.cancel = "done"
    BY <1>6 DEF Batch
  <1>9. batch' = [batch EXCEPT ![b] = mine, ![other] = Report(other)]
    BY <1>1
  <1> HIDE DEF mine
  <1>10. /\ batch' \in [Cells -> Batch] /\ batch'[b] = mine /\ batch'[other] = Report(other)
         /\ \A c \in Cells : c # b /\ c # other => batch'[c] = batch[c]
    BY <1>1, <1>4, <1>6, <1>7, <1>8, <1>9
  <1>11. \A c \in Cells : ~AtHead(c, s) =>
           /\ batch'[c].phase = batch[c].phase /\ batch'[c].pad = batch[c].pad
           /\ batch'[c].conn = batch[c].conn /\ batch'[c].client = batch[c].client
           /\ batch'[c].shown = batch[c].shown /\ batch'[c].cancel \in {batch[c].cancel, "done"}
    BY <1>5, <1>8, <1>10
  <1>12. BatchOps' /\ OneOp'
    BY <1>1, <1>3, <1>11, SettledQueue
  <1>13. \A r \in Scratchpads : r # s => /\ queue'[r] = queue[r] /\ phase'[r] = phase[r]
                                         /\ cur'[r] = cur[r]
    BY <1>1, <1>3, SettlePhase DEF Settle, ChainsHold, Chains, ChainTypes
  <1>14. phase'[s] # "beginning"
    <2>1. phase \in [Scratchpads -> Phases]
      BY <1>3 DEF Chains, ChainTypes
    <2> QED BY <1>1, <2>1 DEF Settle
  <1>15. \A c \in Cells : batch'[c].client = batch[c].client
    BY <1>4, <1>7, <1>10, <1>11, <1>5
  <1>16. NotReopened'
    BY <1>13, <1>14, <1>15 DEF BatchesHold, NotReopened
  <1>17. habit.overlaps
    <2>1. batch[b].phase # "idle"
      BY <1>1, <1>6 DEF ShownOK
    <2> QED BY <1>1, <1>4, <2>1 DEF BatchesHold, OneBatch
  <1>18. CellsTypes' /\ OneBatch'
    BY <1>1, <1>10, <1>17 DEF BatchesHold, CellsTypes, OneBatch
  <1>19. \A k \in Clients : Failed(k) => session'[k].status = "failed"
    <2>1. session \in [Clients -> Session]
      BY CallsParts DEF ChainsHold, DataTypes
    <2> QED BY <1>1, <2>1 DEF Failed, Session
  <1>20. ASSUME NEW c \in Cells, c # other
         PROVE  (StartedOK(c) /\ BoundOK(c) /\ ShownOK(c) /\ RolledBackOnly(c))'
    <2>1. ~AtHead(c, s)
      BY <1>5, <1>20
    <2>2. (StartedOK(c) /\ BoundOK(c) /\ ShownOK(c))'
      BY <1>11, <1>13, <2>1, OtherCellsStay
    <2>3. RolledBackOnly(c) /\ tx \in [Scratchpads -> Clients \cup {None}] /\ StartedOK(c)
      BY CallsParts DEF BatchesHold, ChainsHold, DataTypes
    <2>4. ASSUME batch'[c].phase # "idle", batch'[c].shown = "cancelled", batch'[c].client # None,
                 tx'[batch'[c].pad] = batch'[c].client
          PROVE  session'[tx'[batch'[c].pad]].status = "failed"
      <3>1. /\ batch[c].phase # "idle" /\ batch[c].shown = "cancelled" /\ batch[c].client # None
            /\ tx[batch[c].pad] = batch[c].client
            /\ tx'[batch'[c].pad] = tx[batch[c].pad]
        BY <1>1, <1>11, <2>1, <2>4
      <3>2. batch[c].pad \in Scratchpads /\ Failed(tx[batch[c].pad])
        BY <2>3, <3>1 DEF RolledBackOnly, StartedOK
      <3>3. tx[batch[c].pad] \in Clients
        BY <2>3, <3>1, <3>2
      <3> QED BY <1>19, <3>1, <3>2, <3>3
    <2>5. RolledBackOnly(c)'
      BY <2>4 DEF RolledBackOnly, Failed
    <2> QED BY <2>2, <2>5
  <1>21. (StartedOK(other) /\ BoundOK(other) /\ ShownOK(other) /\ RolledBackOnly(other))'
    BY <1>4, <1>6, <1>7, <1>10 DEF StartedOK, BoundOK, ShownOK, RolledBackOnly
  <1>22. BatchesHold'
    BY <1>12, <1>16, <1>18, <1>20, <1>21 DEF BatchesHold
  <1> QED BY <1>1, <1>2, <1>17, <1>22

\* What runs works with the Transaction of its Scratchpad.
LEMMA TurnRuns ==
  ASSUME CallsInv, NEW s \in Scratchpads, Turn(s), phase'[s] = "running"
  PROVE  cur'[s] = tx'[s]
  <1>1. ASSUME Settle(s) PROVE FALSE
    <2>1. phase \in [Scratchpads -> Phases]
      BY CallsParts DEF Chains, ChainTypes
    <2> QED BY <1>1, <2>1 DEF Settle
  <1>2. ASSUME NEW p, p # "running", NEW x, GoOn(s, p, x) PROVE FALSE
    BY <1>2, GoOnPhase
  <1>3. CASE StartExecute(s)
    <2>1. CASE GoOn(s, "running", tx[s])
      <3>1. cur'[s] = tx[s]
        BY <2>1, GoOnPhase
      <3> QED BY <1>3, <3>1 DEF StartExecute
    <2>2. CASE GoOn(s, "connecting", None)
      BY <1>2, <2>2
    <2> QED BY <1>1, <1>3, <2>1, <2>2 DEF StartExecute
  <1>4. CASE BeginSucceeds(s)
    <2>1. GoOn(s, "running", cur[s]) /\ tx' = [tx EXCEPT ![s] = cur[s]]
      BY <1>4 DEF BeginSucceeds
    <2>2. tx \in [Scratchpads -> Clients \cup {None}]
      BY CallsParts DEF DataTypes
    <2>3. cur'[s] = cur[s]
      BY <2>1, GoOnPhase
    <2> QED BY <2>1, <2>2, <2>3
  <1>5. CASE \/ ConnectFails(s) \/ ActionSucceeds(s) \/ ActionThrows(s) \/ ActionFails(s)
             \/ NothingToResolve(s) \/ CommitFails(s) \/ Mutate(s)
    BY <1>1, <1>5 DEF ConnectFails, ActionSucceeds, ActionThrows, ActionFails, NothingToResolve,
                      CommitFails, Mutate
  <1>6. CASE StartResolve(s)
    <2>1. \/ GoOn(s, "committing", tx[s]) \/ GoOn(s, "rollingBack", tx[s])
          \/ GoOn(s, "rollingBack", Head(queue[s]).client) \/ GoOn(s, "askingRollback", tx[s])
          \/ GoOn(s, "asking", tx[s]) \/ GoOn(s, "mutating", None)
      BY <1>6 DEF StartResolve
    <2> QED BY <1>2, <2>1
  <1>7. CASE Answer(s)
    <2>1. GoOn(s, "committing", cur[s]) \/ GoOn(s, "rollingBack", cur[s]) \/ Settle(s)
      BY <1>7 DEF Answer
    <2> QED BY <1>1, <1>2, <2>1
  <1>8. CASE Ended(s) \/ CommitSucceeds(s) \/ RollbackSucceeds(s) \/ RollbackFails(s)
    <2>1. \/ GoOn(s, "ending", cur[s]) \/ GoOn(s, "endingFailed", cur[s])
          \/ GoOn(s, "mutating", None) \/ Settle(s)
      BY <1>8 DEF Ended, CommitSucceeds, RollbackSucceeds, RollbackFails, CloseTransaction
    <2> QED BY <1>1, <1>2, <2>1
  <1>9. CASE BeginFails(s)
    BY <1>2, <1>9 DEF BeginFails
  <1>10. CASE \E k \in Clients : ConnectSucceeds(s, k)
    <2>1. \E k \in Clients : GoOn(s, "beginning", k) \/ GoOn(s, "endingFailed", k)
      BY <1>10 DEF ConnectSucceeds
    <2> QED BY <1>2, <2>1
  <1> QED BY <1>3, <1>4, <1>5, <1>6, <1>7, <1>8, <1>9, <1>10 DEF Turn

\* What runs settles at its next turn, and the Transactions stay.
LEMMA RunningSettles ==
  ASSUME NEW s \in Scratchpads, Turn(s), phase[s] = "running"
  PROVE  Settle(s) /\ UNCHANGED tx
  <1>1. ActionSucceeds(s) \/ ActionFails(s) \/ ActionThrows(s)
    BY DEF Turn, AtTurn, StartExecute, ConnectFails, ConnectSucceeds, BeginSucceeds, BeginFails,
           StartResolve, NothingToResolve, Answer, CommitSucceeds, CommitFails, RollbackSucceeds,
           RollbackFails, Ended, Mutate
  <1> QED BY <1>1 DEF ActionSucceeds, ActionFails, ActionThrows

\* A turn forgets no failure, unless it opens a session anew.
LEMMA TurnKeepsFailed ==
  ASSUME CallsInv, NEW s \in Scratchpads, Turn(s),
         NEW k \in Clients, Failed(k), ~ConnectSucceeds(s, k)
  PROVE  Failed(k)'
  <1>1. session \in [Clients -> Session]
    BY CallsParts DEF DataTypes
  <1>2. CASE \/ StartExecute(s) \/ ConnectFails(s) \/ ActionSucceeds(s) \/ ActionThrows(s)
             \/ StartResolve(s) \/ NothingToResolve(s) \/ Answer(s) \/ Ended(s) \/ Mutate(s)
    BY <1>2 DEF StartExecute, ConnectFails, ActionSucceeds, ActionThrows, StartResolve,
                NothingToResolve, Answer, Ended, Mutate, Failed
  <1>3. CASE BeginSucceeds(s) \/ BeginFails(s) \/ CommitFails(s)
    BY <1>1, <1>3 DEF BeginSucceeds, BeginFails, CommitFails, Session, Failed
  <1>4. CASE ActionFails(s)
    <2>1. session[k] \in Session
      BY <1>1
    <2>2. \E status \in {session[k].status, "failed"}, pg \in {session[k].pg, "aborted"} :
            session'[k] = [session[k] EXCEPT !.status = status, !.pg = pg]
      BY <1>4 DEF ActionFails
    <2> QED BY <2>1, <2>2 DEF Session, Failed
  <1>5. ASSUME NEW p, NEW outcome, CloseTransaction(s, p, outcome) PROVE Failed(k)'
    BY <1>1, <1>5 DEF CloseTransaction, Session, Failed
  <1>6. CASE CommitSucceeds(s)
    <2>1. CASE ~Failed(cur[s])
      BY <1>5, <1>6, <2>1 DEF CommitSucceeds
    <2>2. CASE Failed(cur[s])
      BY <1>1, <1>6, <2>2 DEF CommitSucceeds, Session, Failed
    <2> QED BY <2>1, <2>2
  <1>7. CASE RollbackSucceeds(s) \/ RollbackFails(s)
    BY <1>5, <1>7 DEF RollbackSucceeds, RollbackFails
  <1>8. ASSUME NEW j \in Clients, ConnectSucceeds(s, j) PROVE Failed(k)'
    <2>1. j # k
      BY <1>8
    <2> QED BY <1>1, <1>8, <2>1 DEF ConnectSucceeds, Failed
  <1> QED BY <1>2, <1>3, <1>4, <1>6, <1>7, <1>8 DEF Turn

\* The cell whose operation is at its turn, where the chain goes on.
LEMMA FollowFields ==
  ASSUME NEW b \in Cells, NEW s \in Scratchpads, batch[b] \in Batch, queue'[s] = queue[s],
         cur'[s] \in Clients \cup {None}
  PROVE  /\ Follow(b, s) \in Batch
         /\ Follow(b, s).phase = batch[b].phase /\ Follow(b, s).pad = batch[b].pad
         /\ Follow(b, s).conn = batch[b].conn /\ Follow(b, s).shown = batch[b].shown
         /\ Follow(b, s).client = IF phase'[s] = "running" THEN cur'[s] ELSE batch[b].client
  <1> DEFINE cancel == IF batch[b].requested /\ batch[b].cancel = "no" THEN "sent" ELSE batch[b].cancel
  <1>1. Follow(b, s) = IF phase'[s] = "running"
                         THEN [batch[b] EXCEPT !.client = cur'[s], !.cancel = cancel]
                         ELSE batch[b]
    BY DEF Follow
  <1>2. cancel \in {"no", "sent", "done"}
    BY DEF Batch
  <1> HIDE DEF cancel
  <1> QED BY <1>1, <1>2 DEF Batch

\* What a cell said was cancelled stays to be rolled back while chains move.
LEMMA TurnKeepsRolledBack ==
  ASSUME ChainsHold, BatchesHold, ConstantsAssumption, NEW s \in Scratchpads, Turn(s),
         NEW b \in Cells, batch[b].phase # "idle", batch[b].shown = "cancelled",
         batch[b].client # None, tx'[batch[b].pad] = batch[b].client
  PROVE  session'[batch[b].client].status = "failed"
  <1> DEFINE k == batch[b].client
             r == batch[b].pad
  <1>1. CallsInv /\ tx \in [Scratchpads -> Clients \cup {None}]
    BY CallsParts DEF ChainsHold, DataTypes
  <1>2. r \in Scratchpads /\ k \in Clients
    BY DEF BatchesHold, CellsTypes, Batch, StartedOK
  <1>3. ASSUME BeginSucceeds(s), r = s PROVE FALSE
    <2>1. phase[s] = "beginning" /\ tx' = [tx EXCEPT ![s] = cur[s]]
      BY <1>3 DEF BeginSucceeds, AtTurn
    <2>2. tx'[r] = cur[s]
      BY <1>1, <1>3, <2>1
    <2> QED BY <2>1, <2>2 DEF BatchesHold, NotReopened
  <1>4. tx[r] = k
    BY <1>1, <1>2, <1>3, TurnTransactions
  <1>5. Failed(k)
    BY <1>4 DEF BatchesHold, RolledBackOnly
  <1>6. ~ConnectSucceeds(s, k)
    BY <1>2, <1>4 DEF ConnectSucceeds, Forgotten
  <1>7. \A j \in Clients : Failed(j) /\ ~ConnectSucceeds(s, j) => session'[j].status = "failed"
    BY <1>1, TurnKeepsFailed DEF Failed
  <1> QED BY <1>2, <1>5, <1>6, <1>7

LEMMA CellTurnKeepsBatches ==
  ASSUME ChainsHold, ChainsHold', BatchesHold, ConstantsAssumption, NEW s \in Scratchpads,
         CellTurn(s)
  PROVE  BatchesHold'
  <1>1. /\ Turn(s) /\ CancelledMarksFailed(s) /\ IdentitiesKept /\ UNCHANGED habit
        /\ batch' = [b \in Cells |-> IF AtHead(b, s) THEN Follow(b, s) ELSE batch[b]]
    BY DEF CellTurn
  <1>2. CallsInv /\ Chains /\ queue[s] # <<>>
    BY <1>1, CallsParts, TurnParts DEF ChainsHold
  <1>3. /\ batch \in [Cells -> Batch] /\ mode' \in [Scratchpads -> Modes]
        /\ assoc' \in [Scratchpads -> Connections]
        /\ tx \in [Scratchpads -> Clients \cup {None}]
    <2>1. /\ mode \in [Scratchpads -> Modes] /\ assoc \in [Scratchpads -> Connections]
          /\ batch \in [Cells -> Batch]
      BY DEF BatchesHold, CellsTypes
    <2>2. mode' = mode \/ \E m \in Modes : mode' = [mode EXCEPT ![s] = m]
      BY DEF CellTurn
    <2>3. assoc' = assoc \/ \E c \in Connections : assoc' = [assoc EXCEPT ![s] = c]
      BY DEF CellTurn
    <2> QED BY <2>1, <2>2, <2>3, CallsParts DEF ChainsHold, DataTypes
  <1>4. ASSUME NEW b \in Cells, AtHead(b, s)
        PROVE  batch[b].phase = "queued" /\ batch[b].pad = s /\ Head(queue[s]).by = b
    <2>1. 1 \in DOMAIN queue[s] /\ Head(queue[s]) = queue[s][1]
      BY <1>2, TailIndex DEF Chains, ChainTypes
    <2> QED BY <1>4, <2>1 DEF BatchesHold, BatchOps, AtHead
  <1>5. ASSUME NEW b \in Cells
        PROVE  /\ StartedOK(b) /\ BoundOK(b) /\ ShownOK(b) /\ RolledBackOnly(b)
               /\ ~AtHead(b, s) => batch'[b] = batch[b]
               /\ AtHead(b, s) => batch'[b] = Follow(b, s)
    BY <1>1 DEF BatchesHold
  <1>6. \A r \in Scratchpads : r # s => /\ queue'[r] = queue[r] /\ phase'[r] = phase[r]
                                        /\ cur'[r] = cur[r]
    <2>1. CASE Settle(s)
      BY <1>2, <2>1, SettlePhase DEF Settle, Chains, ChainTypes
    <2>2. ASSUME NEW p, NEW x, GoOn(s, p, x)
          PROVE  \A r \in Scratchpads : r # s => /\ queue'[r] = queue[r] /\ phase'[r] = phase[r]
                                                 /\ cur'[r] = cur[r]
      <3>1. UNCHANGED queue
        BY <2>2 DEF GoOn
      <3> QED BY <1>2, <2>2, <3>1, GoOnPhase
    <2>3. ASSUME NEW k \in Clients, ConnectSucceeds(s, k)
          PROVE  \E p \in {"beginning", "endingFailed"} : GoOn(s, p, k)
      BY <2>3 DEF ConnectSucceeds
    <2> QED BY <1>1, <1>2, <2>1, <2>2, <2>3, TurnParts
  <1>7. ASSUME NEW b \in Cells, ~AtHead(b, s)
        PROVE  (StartedOK(b) /\ BoundOK(b) /\ ShownOK(b) /\ RolledBackOnly(b))'
    <2>1. batch'[b] = batch[b]
      BY <1>5, <1>7
    <2>2. (StartedOK(b) /\ BoundOK(b) /\ ShownOK(b))'
      BY <1>6, <1>7, <2>1, OtherCellsStay
    <2>3. RolledBackOnly(b)'
      BY <1>1, <2>1, TurnKeepsRolledBack DEF RolledBackOnly, Failed
    <2> QED BY <2>2, <2>3
  <1>8. OneBatch'
    <2>1. \A b \in Cells : batch[b].phase = "idle" => batch'[b].phase = "idle"
      BY <1>4, <1>5
    <2> QED BY <1>1, <2>1 DEF BatchesHold, OneBatch
  <1>9. ASSUME Settle(s) PROVE BatchesHold'
    <2>1. BatchOps' /\ OneOp' /\ queue'[s] # queue[s]
      BY <1>2, <1>5, <1>9, SettledQueue
    <2>2. ASSUME NEW b \in Cells, AtHead(b, s)
          PROVE  /\ batch'[b] = Report(b) /\ Report(b) \in Batch
                 /\ Report(b).phase = "reporting" /\ Report(b).pad = batch[b].pad
                 /\ Report(b).conn = batch[b].conn /\ Report(b).client = batch[b].client
                 /\ Report(b).shown = IF batch[b].requested THEN "cancelled" ELSE "result"
      BY <1>3, <1>5, <2>1, <2>2, ReportFields DEF Follow
    <2>3. \A b \in Cells : batch'[b] \in Batch /\ batch'[b].client = batch[b].client
      BY <1>3, <1>5, <2>2
    <2>4. CellsTypes'
      BY <1>1, <1>3, <2>3 DEF BatchesHold, CellsTypes
    <2>5. NotReopened'
      <3>1. \A r \in Scratchpads : phase'[r] = "beginning" => phase[r] = "beginning" /\ cur'[r] = cur[r]
        BY <1>2, <1>9, SettlePhase
      <3> QED BY <2>3, <3>1 DEF BatchesHold, NotReopened
    <2>6. ASSUME NEW b \in Cells, AtHead(b, s)
          PROVE  (StartedOK(b) /\ BoundOK(b) /\ ShownOK(b) /\ RolledBackOnly(b))'
      <3>1. (StartedOK(b) /\ BoundOK(b) /\ ShownOK(b))'
        BY <1>4, <1>5, <2>2, <2>6 DEF StartedOK, BoundOK, ShownOK
      <3>2. ASSUME batch[b].requested, batch[b].client # None, tx'[s] = batch[b].client
            PROVE  session'[tx'[s]].status = "failed"
        <4>1. phase[s] = "running" /\ Head(queue[s]).by = b
          BY <1>4, <1>5, <2>6, <3>2 DEF BoundOK
        <4>2. UNCHANGED tx
          BY <1>1, <4>1, RunningSettles
        <4>3. tx[s] # None /\ tx'[s] = tx[s]
          BY <3>2, <4>2
        <4>4. session'[tx[s]].status = "failed"
          BY <1>1, <3>2, <4>1, <4>3 DEF CancelledMarksFailed
        <4> QED BY <4>3, <4>4
      <3>3. RolledBackOnly(b)'
        BY <1>4, <2>2, <2>6, <3>2 DEF RolledBackOnly, Failed
      <3> QED BY <3>1, <3>3
    <2> QED BY <1>7, <1>8, <2>1, <2>4, <2>5, <2>6 DEF BatchesHold
  <1>10. ASSUME ~Settle(s) PROVE BatchesHold'
    <2>1. /\ UNCHANGED queue
          /\ \A r \in Scratchpads : phase'[r] = "beginning" =>
               \/ phase[r] = "beginning" /\ cur'[r] = cur[r]
               \/ \E k \in Clients : ConnectSucceeds(s, k) /\ cur'[r] = k
      <3>1. ASSUME NEW k \in Clients, ConnectSucceeds(s, k)
            PROVE  UNCHANGED queue /\ cur'[s] = k
        <4>1. \E p \in {"beginning", "endingFailed"} : GoOn(s, p, k)
          BY <3>1 DEF ConnectSucceeds
        <4>2. UNCHANGED queue
          BY <4>1 DEF GoOn
        <4> QED BY <1>2, <4>1, <4>2, GoOnPhase
      <3>2. ASSUME NEW p \in Phases \ {"beginning"}, NEW x, GoOn(s, p, x)
            PROVE  UNCHANGED queue /\ phase'[s] # "beginning"
        <4>1. UNCHANGED queue
          BY <3>2 DEF GoOn
        <4> QED BY <1>2, <3>2, <4>1, GoOnPhase
      <3> QED BY <1>1, <1>2, <1>6, <1>10, <3>1, <3>2, TurnParts
    <2>2. phase[s] # "running"
      BY <1>1, <1>10, RunningSettles
    <2>3. cur'[s] \in Clients \cup {None}
      BY DEF ChainsHold, CallsInv, TypeOK
    <2>4. ASSUME NEW b \in Cells, AtHead(b, s)
          PROVE  /\ batch'[b] \in Batch
                 /\ batch'[b].phase = batch[b].phase /\ batch'[b].pad = batch[b].pad
                 /\ batch'[b].conn = batch[b].conn /\ batch'[b].shown = batch[b].shown
                 /\ batch'[b].client = IF phase'[s] = "running" THEN cur'[s] ELSE batch[b].client
      BY <1>3, <1>5, <2>1, <2>3, <2>4, FollowFields
    <2>5. \A b \in Cells : batch'[b] \in Batch /\ batch'[b].phase = batch[b].phase
                           /\ batch'[b].pad = batch[b].pad
      BY <1>3, <1>5, <2>4
    <2>6. CellsTypes'
      BY <1>1, <1>3, <2>5 DEF BatchesHold, CellsTypes
    <2>7. BatchOps' /\ OneOp'
      BY <2>1, <2>5 DEF BatchesHold, BatchOps, OneOp
    <2>8. ASSUME NEW b \in Cells, AtHead(b, s)
          PROVE  batch[b].client = None /\ batch[b].shown = "nothing"
      BY <1>4, <1>5, <2>2, <2>8 DEF BoundOK, ShownOK
    <2>9. NotReopened'
      <3> SUFFICES ASSUME NEW r \in Scratchpads, phase'[r] = "beginning", NEW b \in Cells
                   PROVE  batch'[b].client # cur'[r]
        BY DEF NotReopened
      <3>1. batch[b].client # cur'[r]
        <4>1. ASSUME NEW k \in Clients, ConnectSucceeds(s, k), cur'[r] = k
              PROVE  batch[b].client # k
          <5>1. session[k].state = "free" /\ session'[k].state # "free" /\ k # None
            BY <1>2, <4>1, CallsParts DEF ConnectSucceeds, Forgotten, DataTypes, ConstantsAssumption
          <5> QED BY <1>1, <5>1 DEF IdentitiesKept
        <4> QED BY <2>1, <4>1 DEF BatchesHold, NotReopened
      <3>2. CASE AtHead(b, s) /\ phase'[s] = "running"
        <4>1. cur'[s] = tx'[s]
          BY <1>1, <1>2, <3>2, TurnRuns
        <4>2. tx'[s] # cur'[r]
          BY DEF ChainsHold, SessionInv, OpensItsOwn
        <4> QED BY <2>4, <3>2, <4>1, <4>2
      <3>3. CASE ~(AtHead(b, s) /\ phase'[s] = "running")
        BY <1>5, <2>4, <3>1, <3>3
      <3> QED BY <3>2, <3>3
    <2>10. ASSUME NEW b \in Cells, AtHead(b, s)
           PROVE  (StartedOK(b) /\ BoundOK(b) /\ ShownOK(b) /\ RolledBackOnly(b))'
      <3>1. batch[b].phase = "queued" /\ batch[b].pad = s /\ batch[b].client = None
            /\ batch[b].shown = "nothing" /\ AtHead(b, s)'
        BY <1>4, <2>1, <2>8, <2>10 DEF AtHead
      <3>2. StartedOK(b)' /\ ShownOK(b)' /\ RolledBackOnly(b)'
        BY <1>5, <2>4, <2>10, <3>1 DEF StartedOK, ShownOK, RolledBackOnly
      <3>3. BoundOK(b)'
        BY <2>4, <2>10, <3>1 DEF BoundOK, AtHead
      <3> QED BY <3>2, <3>3
    <2> QED BY <1>7, <1>8, <2>6, <2>7, <2>9, <2>10 DEF BatchesHold
  <1> QED BY <1>9, <1>10

-----------------------------------------------------------------------------
(* Theorems about the cells *)

\* What holds of the cells and the chains under them; COMMIT is sound, and leases exclude work,
\* where batches do not overlap.
CellsInv == ChainsHold /\ BatchesHold /\ (~habit.overlaps => CommitInv /\ ChainInv)

LEMMA InitCells ==
  ASSUME CellsInit, ConstantsAssumption
  PROVE  CellsInv
  <1>1. /\ Init /\ habit \in Habits /\ mode \in [Scratchpads -> Modes]
        /\ assoc \in [Scratchpads -> Connections]
        /\ batch = [b \in Cells |-> IdleBatch]
    BY DEF CellsInit
  <1>2. CallsInv /\ SessionInv /\ ChainInv
    BY <1>1, InitInv, InitSessions DEF ChainInv
  <1>3. /\ \A s \in Scratchpads : phase[s] = "waiting" /\ tx[s] = None
        /\ \A s \in Scratchpads : queue[s] = <<>>
    BY <1>1 DEF Init
  <1>4. Owned /\ Live
    BY <1>3 DEF Owned, Live, Holds, ConstantsAssumption
  <1>5. /\ batch \in [Cells -> Batch]
        /\ \A b \in Cells : /\ batch[b].phase = "idle" /\ batch[b].client = None
                            /\ batch[b].cancel = "no" /\ batch[b].shown = "nothing"
    BY <1>1, IdleFields
  <1>6. CellsTypes /\ OneBatch /\ NotReopened
    BY <1>1, <1>3, <1>5 DEF CellsTypes, OneBatch, NotReopened
  <1>7. BatchOps /\ OneOp
    <2>1. \A s \in Scratchpads : DOMAIN queue[s] = {}
      BY <1>3
    <2> QED BY <2>1 DEF BatchOps, OneOp
  <1>8. \A b \in Cells : StartedOK(b) /\ BoundOK(b) /\ ShownOK(b) /\ RolledBackOnly(b)
    BY <1>5 DEF StartedOK, BoundOK, ShownOK, RolledBackOnly
  <1>9. CommitInv
    BY <1>1 DEF Init, FreeSession, CommitInv, UsesItsOwn, Using, ConstantsAssumption
  <1> QED BY <1>2, <1>4, <1>6, <1>7, <1>8, <1>9 DEF CellsInv, ChainsHold, BatchesHold

\* Every step of the cells is one the manager assumes, but for two that take batches that overlap:
\* an execute on another Connection than what is queued, and a cancellation that ends the query of
\* another batch.
LEMMA CellsStep ==
  ASSUME ChainsHold, BatchesHold, ConstantsAssumption, [CellsNext]_allVars
  PROVE  /\ BatchesHold' /\ UNCHANGED habit
         /\ [Next]_vars
            \/ (habit.overlaps /\ (CallerStep \/ \E s \in Scratchpads : QueryCancelled(s)))
  <1> DEFINE Overlap == habit.overlaps /\ (CallerStep \/ \E s \in Scratchpads : QueryCancelled(s))
             Result == BatchesHold' /\ UNCHANGED habit /\ ([Next]_vars \/ Overlap)
  <1>1. ASSUME BatchesHold', UNCHANGED habit, [Next]_vars PROVE Result
    BY <1>1
  <1>2. ASSUME NEW b \in Cells, (\E s \in Scratchpads : StartBatch(b, s)) \/ NextCell(b)
        PROVE  Result
    BY <1>1, <1>2, StepsOfABatch
  <1>3. ASSUME NEW b \in Cells, PlanEndsCell(b) \/ RefuseManual(b) \/ AutoEnds(b)
        PROVE  Result
    <2>1. BatchesHold' /\ UNCHANGED habit
      BY <1>3, ReportKeepsBatches
    <2>2. UNCHANGED vars \/ \E s \in Scratchpads : \E c \in Connections : MarkFailed(s, c)
      BY <1>3, ReportKeepsBatches
    <2> QED BY <1>1, <2>1, <2>2 DEF Next, Call
  <1>4. ASSUME NEW b \in Cells,
               ExecuteAuto(b) \/ Reported(b) \/ RequestCancel(b) \/ CancelMisses(b)
                 \/ CancelDestroysSocket(b)
        PROVE  Result
    <2>1. BatchesHold' /\ UNCHANGED habit
      BY <1>4, CellStepKeepsBatches
    <2>2. [Next]_vars
      BY <1>4, CellStepKeepsBatches DEF Next
    <2> QED BY <1>1, <2>1, <2>2
  <1>5. ASSUME NEW b \in Cells, ExecuteManual(b) PROVE Result
    <2>1. BatchesHold' /\ UNCHANGED habit
      BY <1>5, ExecuteKeepsBatches
    <2>2. /\ batch[b].pad \in Scratchpads /\ batch[b].conn \in Connections
          /\ Execute(batch[b].pad, batch[b].conn, b)
          /\ habit.overlaps \/ Agreed(batch[b].pad, batch[b].conn)
      BY <1>5, ExecuteKeepsBatches
    <2>3. CASE habit.overlaps
      BY <2>1, <2>2, <2>3 DEF CallerStep
    <2>4. CASE Agreed(batch[b].pad, batch[b].conn)
      <3>1. Call(batch[b].pad)
        BY <2>2, <2>4 DEF Call
      <3> QED BY <1>1, <2>1, <2>2, <3>1 DEF Next
    <2> QED BY <2>2, <2>3, <2>4
  <1>6. ASSUME NEW b \in Cells, NEW s \in Scratchpads, CancelHitsOther(b, s) PROVE Result
    BY <1>6, HitKeepsBatches
  <1>7. ASSUME NEW s \in Scratchpads, CellTurn(s) PROVE Result
    <2>1. Next /\ UNCHANGED habit
      BY <1>7 DEF CellTurn, Next
    <2>2. ChainsHold'
      BY <2>1, CallerStepKeepsChains DEF CallerStep
    <2> QED BY <1>1, <1>7, <2>1, <2>2, CellTurnKeepsBatches
  <1>8. ASSUME Surroundings, UNCHANGED cellVars PROVE Result
    <2>1. Next /\ UNCHANGED habit
      BY <1>8, SurroundingsAreSteps DEF BatchesHold, cellVars, padVars
    <2> QED BY <1>1, <1>8, <2>1, SurroundingsKeepBatches
  <1>9. ASSUME UNCHANGED allVars PROVE Result
    <2>1. UNCHANGED <<vars, queue, phase, cur, tx, session, cellVars>> /\ UNCHANGED habit
      BY <1>9 DEF allVars, vars, cellVars, padVars
    <2>2. BatchesHold'
      BY <2>1, OutsideKeepsBatches DEF Failed
    <2> QED BY <1>1, <2>1, <2>2
  <1> HIDE DEF Result
  <1>10. Result
    BY <1>2, <1>3, <1>4, <1>5, <1>6, <1>7, <1>8, <1>9, Zenon
       DEF CellsNext, CellGoesOn, CancelLands
  <1> QED BY <1>10 DEF Result

LEMMA CellsNextKeepsInv ==
  ASSUME CellsInv, ConstantsAssumption, [CellsNext]_allVars
  PROVE  CellsInv'
  <1>1. ChainsHold /\ BatchesHold
    BY DEF CellsInv
  <1>2. BatchesHold' /\ UNCHANGED habit
    BY <1>1, CellsStep
  <1>3. \/ [Next]_vars
        \/ habit.overlaps /\ (CallerStep \/ \E s \in Scratchpads : QueryCancelled(s))
    BY <1>1, CellsStep
  <1>4. ChainsHold'
    BY <1>1, <1>3, CallerStepKeepsChains, CancelledKeepsChains DEF CallerStep
  <1>5. ASSUME ~habit.overlaps PROVE CommitInv' /\ ChainInv'
    <2>1. [Next]_vars /\ CommitInv /\ ChainInv
      BY <1>3, <1>5 DEF CellsInv
    <2> QED BY <1>1, <2>1, NextKeepsCommits, NextKeepsInv DEF ChainsHold
  <1> QED BY <1>2, <1>4, <1>5 DEF CellsInv

LEMMA CellsHold == CellsSpec => []CellsInv
  <1>1. CellsInit => CellsInv
    BY InitCells, ConstantsAssumption
  <1>2. CellsInv /\ [CellsNext]_allVars => CellsInv'
    BY CellsNextKeepsInv, ConstantsAssumption
  <1> QED BY <1>1, <1>2, PTL DEF CellsSpec

\* The variables of the notebook controller and of the manager under it stay in their types,
\* whatever batches are started and cancelled (registerCommands.ts, notebookClient.ts).
THEOREM CellTypes == CellsSpec => []CellsTypeOK
  <1>1. CellsInv => CellsTypeOK
    BY DEF CellsInv, ChainsHold, CallsInv, BatchesHold, CellsTypes, CellsTypeOK
  <1> QED BY <1>1, CellsHold, PTL

\* What a cell shows as cancelled can only be rolled back, however many batches run at the same
\* time and wherever their cancellations land (runCellExecution, markFailed).
THEOREM CancelledIsRolledBack == CellsSpec => []CancelledNeedsRollback
  <1>1. CellsInv => CancelledNeedsRollback
    BY DEF CellsInv, BatchesHold, RolledBackOnly, CancelledNeedsRollback
  <1> QED BY <1>1, CellsHold, PTL

\* Where a batch is started once the one before is over, COMMIT is never sent on a Transaction
\* PostgreSQL has aborted, although a cell keeps the Association its batch was started with and a
\* cancellation arrives whenever PostgreSQL gets to it (settle, commit).
THEOREM SequentialCommits == CellsSpec => []SequentialCommitsAreSound
  <1>1. CellsInv => SequentialCommitsAreSound
    BY DEF CellsInv, CommitInv, CommitMeansCommitted, SequentialCommitsAreSound
  <1> QED BY <1>1, CellsHold, PTL

\* Batches that follow one another are callers of the manager as ScratchpadTransactions takes them
\* to be: what is queued executes on one Connection, although a batch keeps the Association it was
\* started with while changes give its Scratchpad others.  So all that is proved of the manager holds
\* of it under these callers (execute).
THEOREM SequentialCallers == CellsSpec /\ ~habit.overlaps => Spec
  <1>1. CellsInit => Init
    BY DEF CellsInit
  <1> DEFINE Sequential == ~habit.overlaps
  <1>2. CellsInv /\ Sequential /\ [CellsNext]_allVars => [Next]_vars /\ Sequential'
    BY CellsStep, ConstantsAssumption DEF CellsInv
  <1> HIDE DEF Sequential
  <1>3. CellsSpec /\ Sequential => Spec
    BY <1>1, <1>2, CellsHold, PTL DEF CellsSpec, Spec
  <1> QED BY <1>3 DEF Sequential

\* Where a batch is started once the one before is over, a Connection change that has its lease works
\* alone on the Connection, also on one a Scratchpad was associated with when a batch started and has
\* left since (execute, acquireConnectionChange).
THEOREM SequentialLeases == CellsSpec => [](~habit.overlaps => LeaseExcludesWork)
  <1>1. CellsInv => (~habit.overlaps => LeaseExcludesWork)
    BY InvExcludesWork, ConstantsAssumption DEF CellsInv
  <1> QED BY <1>1, CellsHold, PTL

=============================================================================
