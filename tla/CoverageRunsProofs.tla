-------------------------- MODULE CoverageRunsProofs --------------------------
(* Theorems of CoverageRuns, for any number of runs, runners and routines. *)
EXTENDS CoverageRuns, SequenceTheorems, TLAPS

-----------------------------------------------------------------------------
(* The inductive invariant *)

Statements == OwnStatements \cup {"test", "restore", "rollback"}

\* Where the code of a run awaits while its transaction is open and it has not begun to clean up.
InTransaction == {"locking", "reading", "analyzing", "instrumenting", "testing"}

\* Where it awaits while it cleans up.
Cleaning == {"settling", "rollingBack", "forcing", "disconnecting", "ending"}

\* Where nothing of it is on the wire.
Silent == {"connecting", "analyzing", "releasing", "done"}

\* A run awaits its own statement exactly while it is the only one on the wire, and sends the next
\* one on an empty wire.
WireOK(R, L) ==
  /\ R.pc \in OwnStatements => L.wire = <<R.pc>>
  /\ \A i \in DOMAIN L.wire : L.wire[i] \in OwnStatements => L.wire = <<R.pc>>
  /\ R.pc \in Silent \/ L.client \in {"opening", "ended"} => L.wire = <<>>

\* No statement of the test callback is behind ROLLBACK, or on the wire outside the transaction.
TestsOK(R, L) ==
  /\ R.pc \in InTransaction => L.pg \notin {"none", "idle"} /\ L.client # "opening"
  /\ L.pg = "idle" => \A i \in DOMAIN L.wire : L.wire[i] # "test"
  /\ R.pc = "testing" => \A i \in DOMAIN L.wire : L.wire[i] # "rollback"
  /\ \A i, j \in DOMAIN L.wire : L.wire[i] = "rollback" /\ i < j => L.wire[j] # "test"
  /\ R.tests = "checking" => R.pc = "testing"
  /\ R.tests # "off" /\ R.pc # "testing" => R.aborted /\ R.pc \in Cleaning

\* The callback awaits the one statement it has on the wire.
CallbackOK(tests, wire) ==
  /\ \A i \in DOMAIN wire : wire[i] = "test" => tests = "querying"
  /\ \A i \in DOMAIN wire : wire[i] = "restore" => tests = "restoring"
  /\ \A i, j \in DOMAIN wire :
       wire[i] \in {"test", "restore"} /\ wire[j] \in {"test", "restore"} => i = j

\* A transaction has the lock of every routine it has gone past, and of those it instruments.
LocksOK(R, L) ==
  /\ R.todo \subseteq R.oids
  /\ R.pc = "locking" /\ L.pg = "tx" => R.oids \ R.todo \subseteq L.locks
  /\ R.pc \in InTransaction \ {"locking"} /\ L.pg = "tx" => R.oids \subseteq L.locks
  /\ L.instrumented \subseteq L.locks

RunOK(R, L) ==
  /\ R \in Run /\ L \in Link
  /\ WireOK(R, L) /\ TestsOK(R, L) /\ CallbackOK(R.tests, L.wire) /\ LocksOK(R, L)

\* The advisory locks of two transactions are never the same.
LocksApart == \A r, q \in Runs : r # q => link[r].locks \cap link[q].locks = {}

\* A run that has not been asked for belongs to no runner; the targets of a runner are those of its
\* runs that are not over, which have none in common.
TargetsOK ==
  /\ \A r \in Runs : run[r].pc # "idle" <=> run[r].runner \in Runners
  /\ active \in [Runners -> SUBSET Routines]
  /\ \A u \in Runners : \A p \in Routines :
       p \in active[u] <=>
         \E r \in Runs : run[r].runner = u /\ run[r].pc # "done" /\ p \in run[r].oids
  /\ \A r, q \in Runs : r # q /\ run[r].runner = run[q].runner /\ run[r].pc # "done"
                        /\ run[q].pc # "done" => run[r].oids \cap run[q].oids = {}

CoverageInv ==
  /\ run \in [Runs -> Run]
  /\ link \in [Runs -> Link]
  /\ \A r \in Runs : RunOK(run[r], link[r])
  /\ LocksApart
  /\ TargetsOK
  /\ persisted = {}

-----------------------------------------------------------------------------
(* Statements on the wire *)

LEMMA LinkFields ==
  ASSUME NEW L \in Link, NEW wire \in Seq(Statements)
  PROVE  /\ [L EXCEPT !.wire = wire] \in Link
         /\ [L EXCEPT !.wire = wire].wire = wire
         /\ [L EXCEPT !.wire = wire].client = L.client
         /\ [L EXCEPT !.wire = wire].pg = L.pg
         /\ [L EXCEPT !.wire = wire].locks = L.locks
         /\ [L EXCEPT !.wire = wire].instrumented = L.instrumented
  BY DEF Link, Statements

\* The head of the wire has been answered.
LEMMA AnsweredLink ==
  ASSUME NEW L \in Link, L.wire # <<>>
  PROVE  /\ Answered(L) \in Link
         /\ Answered(L).client = L.client /\ Answered(L).pg = L.pg
         /\ Answered(L).locks = L.locks /\ Answered(L).instrumented = L.instrumented
         /\ \A i \in DOMAIN Answered(L).wire :
              /\ i + 1 \in DOMAIN L.wire /\ i \in Nat
              /\ Answered(L).wire[i] = L.wire[i + 1]
         /\ 1 \in DOMAIN L.wire /\ Head(L.wire) = L.wire[1]
         /\ \A x : L.wire = <<x>> => Answered(L).wire = <<>>
  <1>1. L.wire \in Seq(Statements)
    BY DEF Link, Statements
  <1>2. /\ Tail(L.wire) \in Seq(Statements) /\ Len(Tail(L.wire)) = Len(L.wire) - 1
        /\ Len(L.wire) \in Nat \ {0} /\ DOMAIN L.wire = 1..Len(L.wire)
        /\ Head(L.wire) = L.wire[1]
    BY <1>1, EmptySeq, LenProperties, HeadTailProperties
  <1>3. /\ DOMAIN Tail(L.wire) = 1..(Len(L.wire) - 1)
        /\ \A i \in 1..Len(Tail(L.wire)) : Tail(L.wire)[i] = L.wire[i + 1]
    BY <1>1, <1>2, LenProperties, HeadTailProperties
  <1>4. ASSUME NEW i \in DOMAIN Tail(L.wire)
        PROVE  i + 1 \in DOMAIN L.wire /\ i \in Nat /\ Tail(L.wire)[i] = L.wire[i + 1]
    BY <1>2, <1>3
  <1>5. ASSUME NEW x, L.wire = <<x>> PROVE Tail(L.wire) = <<>>
    BY <1>5
  <1>6. Answered(L) \in Link /\ Answered(L).wire = Tail(L.wire)
        /\ Answered(L).client = L.client /\ Answered(L).pg = L.pg
        /\ Answered(L).locks = L.locks /\ Answered(L).instrumented = L.instrumented
    BY <1>2, LinkFields DEF Answered
  <1> QED BY <1>2, <1>4, <1>5, <1>6

\* A statement has been sent behind those that are on the wire.
LEMMA SendingLink ==
  ASSUME NEW L \in Link, NEW st \in Statements
  PROVE  /\ Sending(L, st) \in Link
         /\ Sending(L, st).client = L.client /\ Sending(L, st).pg = L.pg
         /\ Sending(L, st).locks = L.locks /\ Sending(L, st).instrumented = L.instrumented
         /\ \A i \in DOMAIN Sending(L, st).wire :
              \/ i \in DOMAIN L.wire /\ Sending(L, st).wire[i] = L.wire[i]
              \/ Sending(L, st).wire[i] = st /\ \A j \in DOMAIN L.wire : j < i
         /\ L.wire = <<>> => Sending(L, st).wire = <<st>>
  <1>1. L.wire \in Seq(Statements)
    BY DEF Link, Statements
  <1>2. /\ Append(L.wire, st) \in Seq(Statements)
        /\ Len(L.wire) \in Nat /\ DOMAIN L.wire = 1..Len(L.wire)
        /\ Len(Append(L.wire, st)) = Len(L.wire) + 1
        /\ \A i \in 1..Len(L.wire) : Append(L.wire, st)[i] = L.wire[i]
        /\ Append(L.wire, st)[Len(L.wire) + 1] = st
    BY <1>1, LenProperties, AppendProperties
  <1>3. DOMAIN Append(L.wire, st) = 1..(Len(L.wire) + 1)
    BY <1>2, LenProperties
  <1>4. ASSUME NEW i \in DOMAIN Append(L.wire, st)
        PROVE  \/ i \in DOMAIN L.wire /\ Append(L.wire, st)[i] = L.wire[i]
               \/ Append(L.wire, st)[i] = st /\ \A j \in DOMAIN L.wire : j < i
    <2>1. i \in 1..Len(L.wire) \/ i = Len(L.wire) + 1
      BY <1>2, <1>3
    <2> QED BY <1>2, <2>1
  <1>5. L.wire = <<>> => Append(L.wire, st) = <<st>>
    OBVIOUS
  <1>6. Sending(L, st) \in Link /\ Sending(L, st).wire = Append(L.wire, st)
        /\ Sending(L, st).client = L.client /\ Sending(L, st).pg = L.pg
        /\ Sending(L, st).locks = L.locks /\ Sending(L, st).instrumented = L.instrumented
    BY <1>2, LinkFields DEF Sending
  <1> QED BY <1>4, <1>5, <1>6

-----------------------------------------------------------------------------
(* Runs that clean up *)

\* Nothing on the wire is a statement of the run itself, and no test is where it must not be.
CalmWire(L) ==
  /\ \A i \in DOMAIN L.wire : L.wire[i] \notin OwnStatements
  /\ L.client \in {"opening", "ended"} => L.wire = <<>>
  /\ L.pg = "idle" => \A i \in DOMAIN L.wire : L.wire[i] # "test"
  /\ \A i, j \in DOMAIN L.wire : L.wire[i] = "rollback" /\ i < j => L.wire[j] # "test"

LEMMA EmptyCalm ==
  ASSUME NEW L \in Link, L.wire = <<>>
  PROVE  CalmWire(L) /\ \A t : CallbackOK(t, L.wire)
  BY DEF CalmWire, CallbackOK

\* A run that does not await a statement of its own has none on the wire.
LEMMA UnawaitedCalm ==
  ASSUME NEW R, NEW L, RunOK(R, L), R.pc \notin OwnStatements
  PROVE  CalmWire(L)
  <1>1. \A i \in DOMAIN L.wire : L.wire[i] \notin OwnStatements
    <2> SUFFICES ASSUME NEW i \in DOMAIN L.wire, L.wire[i] \in OwnStatements
                 PROVE  FALSE
      OBVIOUS
    <2>1. L.wire = <<R.pc>>
      BY DEF RunOK, WireOK
    <2>2. i = 1 /\ L.wire[i] = R.pc
      BY <2>1
    <2> QED BY <2>2
  <1> QED BY <1>1 DEF RunOK, WireOK, TestsOK, CalmWire

LEMMA AnsweredCalm ==
  ASSUME NEW L \in Link, CalmWire(L), L.wire # <<>>
  PROVE  CalmWire(Answered(L))
  <1>1. \A i \in DOMAIN Answered(L).wire :
          /\ i + 1 \in DOMAIN L.wire /\ i \in Nat
          /\ Answered(L).wire[i] = L.wire[i + 1]
    BY AnsweredLink
  <1>2. Answered(L).client = L.client /\ Answered(L).pg = L.pg
    BY AnsweredLink
  <1>3. ASSUME NEW i \in DOMAIN Answered(L).wire, NEW j \in DOMAIN Answered(L).wire,
               Answered(L).wire[i] = "rollback", i < j
        PROVE  Answered(L).wire[j] # "test"
    <2>1. i + 1 < j + 1
      BY <1>1, <1>3
    <2> QED BY <1>1, <1>3, <2>1 DEF CalmWire
  <1> QED BY <1>1, <1>2, <1>3 DEF CalmWire

LEMMA SendingCalm ==
  ASSUME NEW L \in Link, CalmWire(L), L.client = "open", NEW st \in {"test", "restore", "rollback"},
         st = "test" => L.pg # "idle" /\ \A i \in DOMAIN L.wire : L.wire[i] # "rollback"
  PROVE  CalmWire(Sending(L, st))
  <1>1. st \in Statements /\ st \notin OwnStatements
    BY DEF Statements, OwnStatements
  <1>2. \A i \in DOMAIN Sending(L, st).wire :
          \/ i \in DOMAIN L.wire /\ Sending(L, st).wire[i] = L.wire[i]
          \/ Sending(L, st).wire[i] = st /\ \A j \in DOMAIN L.wire : j < i
    BY <1>1, SendingLink
  <1>3. Sending(L, st).client = "open" /\ Sending(L, st).pg = L.pg
    BY <1>1, SendingLink
  <1>4. ASSUME NEW i \in DOMAIN Sending(L, st).wire, NEW j \in DOMAIN Sending(L, st).wire,
               Sending(L, st).wire[i] = "rollback", i < j, Sending(L, st).wire[j] = "test"
        PROVE  FALSE
    <2>1. DOMAIN L.wire \subseteq Nat /\ i \in Nat /\ j \in Nat
      <3>1. L.wire \in Seq(Statements) /\ Sending(L, st).wire \in Seq(Statements)
        BY <1>1, SendingLink DEF Link, Statements
      <3> QED BY <3>1, LenProperties
    <2>2. CASE i \in DOMAIN L.wire /\ L.wire[i] = "rollback"
      <3>1. st # "test"
        BY <2>2
      <3>2. j \in DOMAIN L.wire /\ L.wire[j] = "test"
        BY <1>2, <1>4, <3>1
      <3> QED BY <1>4, <2>2, <3>2 DEF CalmWire
    <2>3. CASE st = "rollback" /\ \A k \in DOMAIN L.wire : k < i
      <3>1. j \in DOMAIN L.wire
        BY <1>2, <1>4, <2>3
      <3>2. j < i
        BY <2>3, <3>1
      <3> QED BY <1>4, <2>1, <3>2
    <2> QED BY <1>2, <1>4, <2>2, <2>3
  <1> QED BY <1>1, <1>2, <1>3, <1>4 DEF CalmWire

\* A run outside its transaction and the statements of its own, with a callback left behind only
\* when it was aborted.
LEMMA OutsideOK ==
  ASSUME NEW R \in Run, NEW L \in Link, R.pc \notin OwnStatements, R.pc \notin InTransaction,
         CalmWire(L), CallbackOK(R.tests, L.wire),
         R.tests # "checking", R.tests # "off" => R.aborted /\ R.pc \in Cleaning,
         R.pc \in Silent => L.wire = <<>>,
         R.todo \subseteq R.oids, L.instrumented \subseteq L.locks
  PROVE  RunOK(R, L)
  <1>1. R.pc # "analyzing" /\ R.pc # "testing"
    BY DEF InTransaction
  <1>2. WireOK(R, L)
    BY <1>1 DEF WireOK, CalmWire
  <1>3. TestsOK(R, L)
    BY <1>1 DEF TestsOK, CalmWire
  <1>4. LocksOK(R, L)
    BY <1>1 DEF LocksOK, InTransaction
  <1> QED BY <1>2, <1>3, <1>4 DEF RunOK

LEMMA CleaningOK ==
  ASSUME NEW R \in Run, NEW L \in Link, R.pc \in Cleaning,
         CalmWire(L), CallbackOK(R.tests, L.wire),
         R.tests # "checking", R.tests # "off" => R.aborted,
         R.todo \subseteq R.oids, L.instrumented \subseteq L.locks
  PROVE  RunOK(R, L)
  <1>1. R.pc \notin OwnStatements /\ R.pc \notin InTransaction /\ R.pc \notin Silent
    BY DEF Cleaning, OwnStatements, InTransaction, Silent
  <1> QED BY <1>1, OutsideOK

\* execute has thrown.
LEMMA FailingFields ==
  ASSUME NEW R \in Run
  PROVE  /\ Failing(R) \in Run
         /\ Failing(R).pc = IF R.pc = "connecting" THEN "releasing" ELSE "settling"
         /\ Failing(R).runner = R.runner /\ Failing(R).oids = R.oids /\ Failing(R).todo = R.todo
         /\ Failing(R).aborted = R.aborted /\ Failing(R).tests = R.tests
  <1>1. CASE R.pc = "connecting"
    BY <1>1 DEF Failing, Run
  <1>2. CASE R.pc # "connecting"
    BY <1>2 DEF Failing, Run
  <1> QED BY <1>1, <1>2

LEMMA FailingOK ==
  ASSUME NEW R \in Run, NEW L \in Link, CalmWire(L), CallbackOK(R.tests, L.wire),
         R.tests # "checking", R.tests # "off" => R.aborted,
         R.pc = "connecting" => R.tests = "off" /\ L.wire = <<>>,
         R.todo \subseteq R.oids, L.instrumented \subseteq L.locks
  PROVE  RunOK(Failing(R), L)
  <1>1. CASE R.pc = "connecting"
    BY <1>1, FailingFields, OutsideOK DEF OwnStatements, InTransaction
  <1>2. CASE R.pc # "connecting"
    BY <1>2, FailingFields, CleaningOK DEF Cleaning
  <1> QED BY <1>1, <1>2

-----------------------------------------------------------------------------
(* One run takes a step *)

\* Run r keeps its runner and its targets, and neither begins nor ends.
SameTargets(r, R) ==
  /\ R.runner = run[r].runner /\ R.oids = run[r].oids
  /\ R.pc = "idle" <=> run[r].pc = "idle"
  /\ R.pc = "done" <=> run[r].pc = "done"

LEMMA Becomes ==
  ASSUME CoverageInv, NEW r \in Runs, NEW R, NEW L, Become(r, R, L)
  PROVE  /\ run'[r] = R /\ link'[r] = L
         /\ \A q \in Runs : q # r => run'[q] = run[q] /\ link'[q] = link[q]
         /\ R \in Run => run' \in [Runs -> Run]
         /\ L \in Link => link' \in [Runs -> Link]
  BY DEF CoverageInv, Become

LEMMA RunStep ==
  ASSUME CoverageInv, NEW r \in Runs, NEW R, NEW L, Become(r, R, L), RunOK(R, L),
         SameTargets(r, R), \A q \in Runs \ {r} : L.locks \cap link[q].locks = {},
         active' = active, persisted' = {}
  PROVE  CoverageInv'
  <1>1. /\ run'[r] = R /\ link'[r] = L
        /\ \A q \in Runs : q # r => run'[q] = run[q] /\ link'[q] = link[q]
        /\ run' \in [Runs -> Run] /\ link' \in [Runs -> Link]
    BY Becomes DEF RunOK
  <1>2. \A q \in Runs : RunOK(run'[q], link'[q])
    BY <1>1 DEF CoverageInv
  <1>3. LocksApart'
    <2> SUFFICES ASSUME NEW p \in Runs, NEW q \in Runs, p # q
                 PROVE  link'[p].locks \cap link'[q].locks = {}
      BY DEF LocksApart
    <2>1. CASE p = r
      BY <1>1, <2>1
    <2>2. CASE q = r
      BY <1>1, <2>2
    <2>3. CASE p # r /\ q # r
      BY <1>1, <2>3 DEF CoverageInv, LocksApart
    <2> QED BY <2>1, <2>2, <2>3
  <1>4. TargetsOK'
    <2>1. \A q \in Runs : /\ run'[q].runner = run[q].runner /\ run'[q].oids = run[q].oids
                          /\ run'[q].pc = "idle" <=> run[q].pc = "idle"
                          /\ run'[q].pc = "done" <=> run[q].pc = "done"
      BY <1>1 DEF SameTargets
    <2> QED BY <2>1 DEF CoverageInv, TargetsOK
  <1> QED BY <1>1, <1>2, <1>3, <1>4 DEF CoverageInv

\* A run that takes no new lock.
LEMMA PlainRunStep ==
  ASSUME CoverageInv, NEW r \in Runs, NEW R, NEW L, Become(r, R, L), RunOK(R, L),
         SameTargets(r, R), L.locks \subseteq link[r].locks,
         active' = active, persisted' = {}
  PROVE  CoverageInv'
  <1>1. \A q \in Runs \ {r} : L.locks \cap link[q].locks = {}
    BY DEF CoverageInv, LocksApart
  <1> QED BY <1>1, RunStep

\* A run that gives up: execute throws.
LEMMA FailStep ==
  ASSUME CoverageInv, NEW r \in Runs, NEW R \in Run, NEW L \in Link, Become(r, Failing(R), L),
         SameTargets(r, R), R.pc \notin {"idle", "done"},
         CalmWire(L), CallbackOK(R.tests, L.wire),
         R.tests # "checking", R.tests # "off" => R.aborted,
         R.pc = "connecting" => R.tests = "off" /\ L.wire = <<>>,
         R.todo \subseteq R.oids, L.instrumented \subseteq L.locks,
         L.locks \subseteq link[r].locks,
         active' = active, persisted' = {}
  PROVE  CoverageInv'
  <1>1. RunOK(Failing(R), L)
    BY FailingOK
  <1>2. SameTargets(r, Failing(R))
    BY FailingFields DEF SameTargets
  <1> QED BY <1>1, <1>2, PlainRunStep

LEMMA Current ==
  ASSUME CoverageInv, NEW r \in Runs
  PROVE  /\ run[r] \in Run /\ link[r] \in Link /\ RunOK(run[r], link[r])
         /\ WireOK(run[r], link[r]) /\ TestsOK(run[r], link[r]) /\ LocksOK(run[r], link[r])
         /\ CallbackOK(run[r].tests, link[r].wire) /\ persisted = {}
  BY DEF CoverageInv, RunOK

\* A run whose own statement is being executed awaits it, and nothing else is on the wire.
LEMMA OwnExecuting ==
  ASSUME CoverageInv, NEW r \in Runs, NEW st \in OwnStatements, Executing(r, st)
  PROVE  /\ run[r].pc = st
         /\ link[r].client = "open" /\ link[r].pg \notin {"none", "gone"}
         /\ Answered(link[r]) \in Link /\ Answered(link[r]).wire = <<>>
         /\ Answered(link[r]).client = "open" /\ Answered(link[r]).pg = link[r].pg
         /\ Answered(link[r]).locks = link[r].locks
         /\ Answered(link[r]).instrumented = link[r].instrumented
         /\ \A next \in OwnStatements :
              /\ Sending(Answered(link[r]), next) \in Link
              /\ Sending(Answered(link[r]), next).wire = <<next>>
              /\ Sending(Answered(link[r]), next).client = "open"
              /\ Sending(Answered(link[r]), next).pg = link[r].pg
              /\ Sending(Answered(link[r]), next).locks = link[r].locks
              /\ Sending(Answered(link[r]), next).instrumented = link[r].instrumented
  <1>1. /\ link[r].wire # <<>> /\ Head(link[r].wire) = st
        /\ link[r].client = "open" /\ link[r].pg \notin {"none", "gone"}
    BY DEF Executing, Alive
  <1>2. /\ Answered(link[r]) \in Link
        /\ Answered(link[r]).client = link[r].client /\ Answered(link[r]).pg = link[r].pg
        /\ Answered(link[r]).locks = link[r].locks
        /\ Answered(link[r]).instrumented = link[r].instrumented
        /\ 1 \in DOMAIN link[r].wire /\ Head(link[r].wire) = link[r].wire[1]
        /\ \A x : link[r].wire = <<x>> => Answered(link[r]).wire = <<>>
    BY <1>1, Current, AnsweredLink
  <1>3. link[r].wire = <<run[r].pc>>
    BY <1>1, <1>2, Current DEF WireOK
  <1>4. run[r].pc = st
    BY <1>1, <1>2, <1>3
  <1>5. \A next \in OwnStatements :
          /\ Sending(Answered(link[r]), next) \in Link
          /\ Sending(Answered(link[r]), next).wire = <<next>>
          /\ Sending(Answered(link[r]), next).client = "open"
          /\ Sending(Answered(link[r]), next).pg = link[r].pg
          /\ Sending(Answered(link[r]), next).locks = link[r].locks
          /\ Sending(Answered(link[r]), next).instrumented = link[r].instrumented
    BY <1>1, <1>2, <1>3, SendingLink DEF Statements
  <1> QED BY <1>1, <1>2, <1>3, <1>4, <1>5

\* A run that awaits its own next statement, sent on an empty wire.
LEMMA AwaitingOK ==
  ASSUME NEW R \in Run, NEW L \in Link, R.pc \in OwnStatements, L.wire = <<R.pc>>,
         L.client = "open", R.tests = "off",
         R.pc \in InTransaction => L.pg \notin {"none", "idle"},
         LocksOK(R, L)
  PROVE  RunOK(R, L)
  <1>1. /\ R.pc \notin {"testing", "test", "rollback"} /\ R.pc \notin Silent
        /\ \A i \in DOMAIN L.wire : i = 1 /\ L.wire[i] = R.pc
    BY DEF OwnStatements, Silent
  <1>2. WireOK(R, L)
    BY <1>1 DEF WireOK
  <1>3. TestsOK(R, L)
    BY <1>1 DEF TestsOK
  <1>4. CallbackOK(R.tests, L.wire)
    BY <1>1 DEF CallbackOK, OwnStatements
  <1> QED BY <1>2, <1>3, <1>4 DEF RunOK

-----------------------------------------------------------------------------
(* admit, the connection and the end *)

LEMMA NoLinkType ==
  /\ NoLink \in Link /\ NoLink.wire = <<>> /\ NoLink.locks = {} /\ NoLink.instrumented = {}
  /\ NoLink.pg = "none"
  <1>1. <<>> \in Seq(Statements)
    OBVIOUS
  <1> QED BY <1>1 DEF NoLink, Link, Statements

LEMMA AdmitKeepsInv ==
  ASSUME CoverageInv, NoneAssumption, NEW r \in Runs, NEW u \in Runners,
         NEW oids \in SUBSET Routines, Admit(r, u, oids)
  PROVE  CoverageInv'
  <1> DEFINE R == [IdleRun EXCEPT !.pc = "connecting", !.runner = u, !.oids = oids]
             L == [NoLink EXCEPT !.client = "opening"]
  <1>1. /\ run[r].pc = "idle" /\ active[u] \cap oids = {}
        /\ Become(r, R, L)
        /\ active' = [active EXCEPT ![u] = @ \cup oids] /\ persisted' = persisted
    BY DEF Admit
  <1>2. /\ R \in Run /\ R.pc = "connecting" /\ R.runner = u /\ R.oids = oids /\ R.todo = {}
        /\ R.tests = "off"
    BY DEF IdleRun, Run, Raced
  <1>3. /\ L \in Link /\ L.client = "opening" /\ L.wire = <<>> /\ L.pg = "none"
        /\ L.locks = {} /\ L.instrumented = {}
    <2>1. NoLink \in Link /\ NoLink.wire = <<>>
      BY NoLinkType
    <2> QED BY <2>1 DEF NoLink, Link
  <1> HIDE DEF R, L
  <1>4. RunOK(R, L)
    BY <1>2, <1>3, EmptyCalm DEF RunOK, WireOK, TestsOK, LocksOK, InTransaction, OwnStatements
  <1>5. /\ run'[r] = R /\ link'[r] = L
        /\ \A q \in Runs : q # r => run'[q] = run[q] /\ link'[q] = link[q]
        /\ run' \in [Runs -> Run] /\ link' \in [Runs -> Link]
    BY <1>1, <1>2, <1>3, Becomes
  <1>6. \A q \in Runs : RunOK(run'[q], link'[q])
    BY <1>4, <1>5 DEF CoverageInv
  <1>7. LocksApart'
    BY <1>3, <1>5 DEF CoverageInv, LocksApart
  <1>8. TargetsOK'
    <2>1. \A q \in Runs : run'[q].pc # "idle" <=> run'[q].runner \in Runners
      BY <1>2, <1>5 DEF CoverageInv, TargetsOK
    <2>2. active' \in [Runners -> SUBSET Routines]
      BY <1>1 DEF CoverageInv, TargetsOK
    <2>3. run[r].runner \notin Runners
      BY <1>1 DEF CoverageInv, TargetsOK
    <2>4. ASSUME NEW v \in Runners, NEW p \in Routines
          PROVE  p \in active'[v] <=>
                   \E q \in Runs : run'[q].runner = v /\ run'[q].pc # "done" /\ p \in run'[q].oids
      <3>1. active'[v] = IF v = u THEN active[u] \cup oids ELSE active[v]
        BY <1>1 DEF CoverageInv, TargetsOK
      <3>2. p \in active[v] <=>
              \E q \in Runs : run[q].runner = v /\ run[q].pc # "done" /\ p \in run[q].oids
        BY DEF CoverageInv, TargetsOK
      <3> QED BY <1>2, <1>5, <2>3, <3>1, <3>2
    <2>5. ASSUME NEW q \in Runs, q # r, run[q].runner = u, run[q].pc # "done"
          PROVE  run[q].oids \cap oids = {}
      <3>1. run[q].oids \subseteq active[u]
        BY <2>5 DEF CoverageInv, TargetsOK, Run
      <3> QED BY <1>1, <3>1
    <2>6. \A q, w \in Runs : q # w /\ run'[q].runner = run'[w].runner /\ run'[q].pc # "done"
                             /\ run'[w].pc # "done" => run'[q].oids \cap run'[w].oids = {}
      BY <1>2, <1>5, <2>5 DEF CoverageInv, TargetsOK
    <2> QED BY <2>1, <2>2, <2>4, <2>6 DEF TargetsOK
  <1> QED BY <1>1, <1>5, <1>6, <1>7, <1>8 DEF CoverageInv

LEMMA FinishKeepsInv ==
  ASSUME CoverageInv, NEW r \in Runs, Finish(r)
  PROVE  CoverageInv'
  <1> DEFINE R == [IdleRun EXCEPT !.pc = "done", !.runner = run[r].runner, !.oids = run[r].oids]
  <1>1. /\ run[r].pc \in {"releasing", "ending"}
        /\ Become(r, R, link[r])
        /\ active' = [active EXCEPT ![run[r].runner] = @ \ run[r].oids] /\ persisted' = persisted
    BY DEF Finish
  <1>2. /\ run[r] \in Run /\ link[r] \in Link /\ RunOK(run[r], link[r])
        /\ link[r].instrumented \subseteq link[r].locks
    BY Current DEF LocksOK
  <1>3. /\ R \in Run /\ R.pc = "done" /\ R.runner = run[r].runner /\ R.oids = run[r].oids
        /\ R.todo = {} /\ R.tests = "off"
    BY <1>2 DEF IdleRun, Run
  <1> HIDE DEF R
  <1>4. link[r].wire = <<>> /\ CalmWire(link[r]) /\ CallbackOK("off", link[r].wire)
    BY <1>1, <1>2, UnawaitedCalm, EmptyCalm DEF OwnStatements, WireOK, RunOK, Silent, Finish
  <1>5. RunOK(R, link[r])
    BY <1>2, <1>3, <1>4, OutsideOK DEF OwnStatements, InTransaction
  <1>6. /\ run'[r] = R /\ link'[r] = link[r]
        /\ \A q \in Runs : q # r => run'[q] = run[q] /\ link'[q] = link[q]
        /\ run' \in [Runs -> Run] /\ link' \in [Runs -> Link]
    BY <1>1, <1>2, <1>3, Becomes
  <1>7. \A q \in Runs : RunOK(run'[q], link'[q])
    BY <1>5, <1>6 DEF CoverageInv
  <1>8. LocksApart'
    BY <1>6 DEF CoverageInv, LocksApart
  <1>9. TargetsOK'
    <2>1. run[r].runner \in Runners
      BY <1>1 DEF CoverageInv, TargetsOK
    <2>2. \A q \in Runs : run'[q].pc # "idle" <=> run'[q].runner \in Runners
      BY <1>3, <1>6, <2>1 DEF CoverageInv, TargetsOK
    <2>3. active' \in [Runners -> SUBSET Routines]
      BY <1>1 DEF CoverageInv, TargetsOK
    <2>4. ASSUME NEW v \in Runners, NEW p \in Routines
          PROVE  p \in active'[v] <=>
                   \E q \in Runs : run'[q].runner = v /\ run'[q].pc # "done" /\ p \in run'[q].oids
      <3>1. active'[v] = IF v = run[r].runner THEN active[v] \ run[r].oids ELSE active[v]
        BY <1>1 DEF CoverageInv, TargetsOK
      <3>2. p \in active[v] <=>
              \E q \in Runs : run[q].runner = v /\ run[q].pc # "done" /\ p \in run[q].oids
        BY DEF CoverageInv, TargetsOK
      <3>3. \A q \in Runs : q # r /\ run[q].runner = run[r].runner /\ run[q].pc # "done"
                            => run[q].oids \cap run[r].oids = {}
        BY <1>1 DEF CoverageInv, TargetsOK
      <3> QED BY <1>1, <1>3, <1>6, <3>1, <3>2, <3>3
    <2>5. \A q, w \in Runs : q # w /\ run'[q].runner = run'[w].runner /\ run'[q].pc # "done"
                             /\ run'[w].pc # "done" => run'[q].oids \cap run'[w].oids = {}
      BY <1>3, <1>6 DEF CoverageInv, TargetsOK
    <2> QED BY <2>2, <2>3, <2>4, <2>5 DEF TargetsOK
  <1> QED BY <1>1, <1>6, <1>7, <1>8, <1>9 DEF CoverageInv

LEMMA OpeningKeepsInv ==
  ASSUME CoverageInv, NEW r \in Runs, Opening(r)
  PROVE  CoverageInv'
  <1>1. /\ run[r] \in Run /\ link[r] \in Link /\ link[r].client = "opening" /\ link[r].wire = <<>>
        /\ run[r].pc \notin InTransaction /\ run[r].pc \notin OwnStatements
        /\ run[r].todo \subseteq run[r].oids /\ run[r].tests # "checking"
        /\ run[r].tests # "off" => run[r].aborted /\ run[r].pc \in Cleaning
        /\ link[r].instrumented \subseteq link[r].locks
    <2>1. link[r].client = "opening"
      BY DEF Opening, Connected, LateClient, ConnectFails
    <2> QED BY <2>1, Current DEF WireOK, TestsOK, LocksOK, InTransaction
  <1>2. active' = active /\ persisted' = {}
    BY Current DEF Opening, Connected, LateClient, ConnectFails
  <1>3. CASE Connected(r)
    <2> DEFINE R == [run[r] EXCEPT !.pc = "pid"]
               L == [link[r] EXCEPT !.client = "open", !.pg = "idle", !.wire = <<"pid">>]
    <2>1. Become(r, R, L) /\ run[r].pc = "connecting"
      BY <1>3 DEF Connected
    <2>2. /\ R \in Run /\ R.pc = "pid" /\ R.runner = run[r].runner /\ R.oids = run[r].oids
          /\ R.todo = run[r].todo /\ R.tests = run[r].tests /\ R.aborted = run[r].aborted
      BY <1>1 DEF Run, OwnStatements
    <2>3. <<"pid">> \in Seq(Statements)
      BY DEF Statements, OwnStatements
    <2>4. /\ L \in Link /\ L.client = "open" /\ L.wire = <<"pid">> /\ L.locks = link[r].locks
          /\ L.instrumented = link[r].instrumented
      BY <1>1, <2>3 DEF Link, Statements
    <2> HIDE DEF R, L
    <2>5. LocksOK(R, L)
      BY <1>1, <2>2, <2>4 DEF LocksOK, InTransaction
    <2>6. RunOK(R, L)
      BY <1>1, <2>1, <2>2, <2>4, <2>5, AwaitingOK DEF OwnStatements, InTransaction, Cleaning
    <2>7. SameTargets(r, R)
      BY <2>1, <2>2 DEF SameTargets
    <2> QED BY <1>2, <2>1, <2>4, <2>6, <2>7, PlainRunStep
  <1>4. CASE LateClient(r)
    <2> DEFINE L == [link[r] EXCEPT !.client = "ending", !.pg = "idle"]
    <2>1. Become(r, run[r], L) /\ run[r].pc \in {"releasing", "done"}
      BY <1>4 DEF LateClient
    <2>2. L \in Link /\ L.wire = <<>> /\ L.locks = link[r].locks
          /\ L.instrumented = link[r].instrumented
      BY <1>1 DEF Link
    <2> HIDE DEF L
    <2>3. RunOK(run[r], L)
      BY <1>1, <2>1, <2>2, EmptyCalm, OutsideOK DEF OwnStatements, InTransaction
    <2>4. SameTargets(r, run[r])
      BY DEF SameTargets
    <2> QED BY <1>2, <2>1, <2>2, <2>3, <2>4, PlainRunStep
  <1>5. CASE ConnectFails(r)
    <2>1. NoLink \in Link /\ NoLink.wire = <<>> /\ NoLink.locks = {} /\ NoLink.instrumented = {}
          /\ NoLink.pg = "none"
      BY NoLinkType
    <2>2. CASE run[r].pc = "connecting"
      <3>1. Become(r, Failing(run[r]), NoLink)
        BY <1>5, <2>2 DEF ConnectFails
      <3>2. SameTargets(r, run[r])
        BY DEF SameTargets
      <3>3. CalmWire(NoLink) /\ CallbackOK(run[r].tests, NoLink.wire) /\ run[r].tests = "off"
        BY <1>1, <2>1, <2>2, EmptyCalm DEF Cleaning
      <3> QED BY <1>1, <1>2, <2>1, <2>2, <3>1, <3>2, <3>3, FailStep
    <2>3. CASE run[r].pc # "connecting"
      <3>1. Become(r, run[r], NoLink)
        BY <1>5, <2>3 DEF ConnectFails
      <3>2. RunOK(run[r], NoLink)
        BY <1>1, <2>1, EmptyCalm DEF RunOK, WireOK, TestsOK, LocksOK, InTransaction
      <3>3. SameTargets(r, run[r])
        BY DEF SameTargets
      <3> QED BY <1>2, <2>1, <3>1, <3>2, <3>3, PlainRunStep
    <2> QED BY <2>2, <2>3
  <1> QED BY <1>3, <1>4, <1>5 DEF Opening

-----------------------------------------------------------------------------
(* The run's own statements are answered *)

\* What a run that awaits a statement of its own has.
LEMMA OwnRun ==
  ASSUME CoverageInv, NEW r \in Runs, run[r].pc \in OwnStatements \cup {"analyzing"}
  PROVE  /\ run[r].pc \notin {"idle", "done", "connecting", "testing"}
         /\ run[r].tests = "off"
         /\ run[r].todo \subseteq run[r].oids
         /\ link[r].instrumented \subseteq link[r].locks
         /\ SameTargets(r, run[r])
  BY Current DEF OwnStatements, Cleaning, TestsOK, LocksOK, SameTargets

LEMMA PidKeepsInv ==
  ASSUME CoverageInv, NEW r \in Runs, PidAnswered(r)
  PROVE  CoverageInv'
  <1> DEFINE R == [run[r] EXCEPT !.pc = "pgtap",
                     !.cancellation = IF run[r].aborted THEN "cancelling" ELSE "armed"]
             L == Sending(Answered(link[r]), "pgtap")
  <1>1. /\ Become(r, R, L) /\ Executing(r, "pid") /\ active' = active /\ persisted' = {}
        /\ run[r] \in Run
    BY Current DEF PidAnswered
  <1>2. {"pid", "pgtap"} \subseteq OwnStatements
    BY DEF OwnStatements
  <1>3. /\ L \in Link /\ L.wire = <<"pgtap">> /\ L.client = "open"
        /\ L.locks = link[r].locks /\ L.instrumented = link[r].instrumented
        /\ run[r].pc = "pid"
    BY <1>1, <1>2, OwnExecuting
  <1>4. /\ R \in Run /\ R.pc = "pgtap" /\ R.runner = run[r].runner /\ R.oids = run[r].oids
        /\ R.todo = run[r].todo /\ R.tests = run[r].tests /\ R.aborted = run[r].aborted
    BY <1>1, <1>2 DEF Run
  <1> HIDE DEF R, L
  <1>5. LocksOK(R, L)
    BY <1>2, <1>3, <1>4, OwnRun DEF LocksOK, InTransaction
  <1>6. RunOK(R, L)
    BY <1>2, <1>3, <1>4, <1>5, OwnRun, AwaitingOK DEF InTransaction
  <1>7. SameTargets(r, R)
    BY <1>3, <1>4 DEF SameTargets
  <1> QED BY <1>1, <1>3, <1>6, <1>7, PlainRunStep

LEMMA PgTapKeepsInv ==
  ASSUME CoverageInv, NEW r \in Runs, PgTapAnswered(r)
  PROVE  CoverageInv'
  <1>1. /\ Executing(r, "pgtap") /\ active' = active /\ persisted' = {} /\ run[r] \in Run
    BY Current DEF PgTapAnswered
  <1>2. {"pgtap", "begin"} \subseteq OwnStatements
    BY DEF OwnStatements
  <1>3. run[r].pc = "pgtap"
    BY <1>1, <1>2, OwnExecuting
  <1>4. CASE Become(r, [run[r] EXCEPT !.pc = "begin"], Sending(Answered(link[r]), "begin"))
    <2> DEFINE R == [run[r] EXCEPT !.pc = "begin"]
               L == Sending(Answered(link[r]), "begin")
    <2>1. /\ L \in Link /\ L.wire = <<"begin">> /\ L.client = "open"
          /\ L.locks = link[r].locks /\ L.instrumented = link[r].instrumented
      BY <1>1, <1>2, OwnExecuting
    <2>2. /\ R \in Run /\ R.pc = "begin" /\ R.runner = run[r].runner /\ R.oids = run[r].oids
          /\ R.todo = run[r].todo /\ R.tests = run[r].tests /\ R.aborted = run[r].aborted
      BY <1>1, <1>2 DEF Run
    <2>3. Become(r, R, L)
      BY <1>4
    <2> HIDE DEF R, L
    <2>4. LocksOK(R, L)
      BY <1>2, <1>3, <2>1, <2>2, OwnRun DEF LocksOK, InTransaction
    <2>5. RunOK(R, L)
      BY <1>2, <1>3, <2>1, <2>2, <2>4, OwnRun, AwaitingOK DEF InTransaction
    <2>6. SameTargets(r, R)
      BY <1>3, <2>2 DEF SameTargets
    <2> QED BY <1>1, <2>1, <2>3, <2>5, <2>6, PlainRunStep
  <1>5. CASE Become(r, Failing(run[r]), Answered(link[r]))
    <2>1. /\ Answered(link[r]) \in Link /\ CalmWire(Answered(link[r]))
          /\ CallbackOK(run[r].tests, Answered(link[r]).wire)
          /\ Answered(link[r]).locks = link[r].locks
          /\ Answered(link[r]).instrumented = link[r].instrumented
      BY <1>1, <1>2, OwnExecuting, EmptyCalm
    <2> QED BY <1>1, <1>2, <1>3, <1>5, <2>1, OwnRun, FailStep
  <1> QED BY <1>4, <1>5 DEF PgTapAnswered

LEMMA BeginKeepsInv ==
  ASSUME CoverageInv, NEW r \in Runs, BeginAnswered(r)
  PROVE  CoverageInv'
  <1> DEFINE R == [run[r] EXCEPT !.pc = "locking", !.todo = run[r].oids, !.txOpen = TRUE]
             L == [Sending(Answered(link[r]), "locking") EXCEPT !.pg = "tx"]
  <1>1. /\ Become(r, R, L) /\ Executing(r, "begin") /\ active' = active /\ persisted' = {}
        /\ run[r] \in Run
    BY Current DEF BeginAnswered
  <1>2. {"begin", "locking"} \subseteq OwnStatements
    BY DEF OwnStatements
  <1>3. /\ run[r].pc = "begin"
        /\ Sending(Answered(link[r]), "locking") \in Link
        /\ Sending(Answered(link[r]), "locking").wire = <<"locking">>
        /\ Sending(Answered(link[r]), "locking").client = "open"
        /\ Sending(Answered(link[r]), "locking").locks = link[r].locks
        /\ Sending(Answered(link[r]), "locking").instrumented = link[r].instrumented
    BY <1>1, <1>2, OwnExecuting
  <1>4. /\ L \in Link /\ L.wire = <<"locking">> /\ L.client = "open" /\ L.pg = "tx"
        /\ L.locks = link[r].locks /\ L.instrumented = link[r].instrumented
    BY <1>3 DEF Link
  <1>5. /\ R \in Run /\ R.pc = "locking" /\ R.runner = run[r].runner /\ R.oids = run[r].oids
        /\ R.todo = run[r].oids /\ R.tests = run[r].tests /\ R.aborted = run[r].aborted
    BY <1>1, <1>2 DEF Run
  <1> HIDE DEF R, L
  <1>6. LocksOK(R, L)
    BY <1>2, <1>3, <1>4, <1>5, OwnRun DEF LocksOK
  <1>7. RunOK(R, L)
    BY <1>2, <1>3, <1>4, <1>5, <1>6, OwnRun, AwaitingOK
  <1>8. SameTargets(r, R)
    BY <1>3, <1>5 DEF SameTargets
  <1> QED BY <1>1, <1>4, <1>7, <1>8, PlainRunStep

LEMMA LockKeepsInv ==
  ASSUME CoverageInv, NEW r \in Runs, LockAnswered(r)
  PROVE  CoverageInv'
  <1>1. /\ Executing(r, "locking") /\ active' = active /\ persisted' = {} /\ run[r] \in Run
    BY Current DEF LockAnswered
  <1>2. {"locking", "reading"} \subseteq OwnStatements \cap InTransaction
    BY DEF OwnStatements, InTransaction
  <1>3. /\ run[r].pc = "locking" /\ link[r].pg = "tx"
        /\ Answered(link[r]) \in Link /\ Answered(link[r]).wire = <<>>
        /\ Answered(link[r]).client = "open" /\ Answered(link[r]).pg = link[r].pg
        /\ Answered(link[r]).locks = link[r].locks
        /\ Answered(link[r]).instrumented = link[r].instrumented
    <2>1. run[r].pc = "locking" /\ link[r].pg \notin {"none", "gone"}
      BY <1>1, <1>2, OwnExecuting
    <2>2. link[r].pg # "idle" /\ link[r] \in Link
      BY <1>2, <2>1, Current DEF TestsOK
    <2>3. link[r].pg = "tx"
      BY <2>1, <2>2 DEF Link
    <2> QED BY <1>1, <1>2, <2>1, <2>3, OwnExecuting
  <1>4. PICK p \in run[r].todo :
          LET rest == run[r].todo \ {p}
              taken == [Answered(link[r]) EXCEPT !.locks = @ \cup {p}]
          IN IF \E q \in Runs \ {r} : p \in link[q].locks
               THEN Become(r, Failing(run[r]), Answered(link[r]))
               ELSE IF rest # {}
                 THEN Become(r, [run[r] EXCEPT !.todo = rest], Sending(taken, "locking"))
                 ELSE Become(r, [run[r] EXCEPT !.pc = "reading", !.todo = run[r].oids],
                                Sending(taken, "reading"))
    BY DEF LockAnswered
  <1> DEFINE taken == [Answered(link[r]) EXCEPT !.locks = @ \cup {p}]
  <1>5. CASE \E q \in Runs \ {r} : p \in link[q].locks
    <2>1. Become(r, Failing(run[r]), Answered(link[r]))
      BY <1>4, <1>5
    <2>2. CalmWire(Answered(link[r])) /\ CallbackOK(run[r].tests, Answered(link[r]).wire)
      BY <1>3, EmptyCalm
    <2> QED BY <1>1, <1>2, <1>3, <2>1, <2>2, OwnRun, FailStep
  <1>6. CASE ~\E q \in Runs \ {r} : p \in link[q].locks
    <2>1. /\ taken \in Link /\ taken.wire = <<>> /\ taken.client = "open" /\ taken.pg = "tx"
          /\ taken.locks = link[r].locks \cup {p} /\ taken.instrumented = link[r].instrumented
      BY <1>1, <1>3 DEF Link, Run
    <2> HIDE DEF taken
    <2>2. ASSUME NEW st \in {"locking", "reading"}
          PROVE  /\ Sending(taken, st) \in Link /\ Sending(taken, st).wire = <<st>>
                 /\ Sending(taken, st).client = "open" /\ Sending(taken, st).pg = "tx"
                 /\ Sending(taken, st).locks = link[r].locks \cup {p}
                 /\ Sending(taken, st).instrumented = link[r].instrumented
      BY <1>2, <2>1, SendingLink DEF Statements
    <2>3. \A q \in Runs \ {r} : (link[r].locks \cup {p}) \cap link[q].locks = {}
      BY <1>6 DEF CoverageInv, LocksApart
    <2>4. run[r].oids \ run[r].todo \subseteq link[r].locks
      BY <1>3, Current DEF LocksOK
    <2>5. CASE run[r].todo \ {p} # {}
      <3> DEFINE R == [run[r] EXCEPT !.todo = run[r].todo \ {p}]
                 L == Sending(taken, "locking")
      <3>1. Become(r, R, L)
        BY <1>4, <1>6, <2>5 DEF taken
      <3>2. /\ R \in Run /\ R.pc = "locking" /\ R.runner = run[r].runner /\ R.oids = run[r].oids
            /\ R.todo = run[r].todo \ {p} /\ R.tests = run[r].tests /\ R.aborted = run[r].aborted
        BY <1>1, <1>3 DEF Run
      <3>3. /\ L \in Link /\ L.wire = <<"locking">> /\ L.client = "open" /\ L.pg = "tx"
            /\ L.locks = link[r].locks \cup {p} /\ L.instrumented = link[r].instrumented
        BY <2>2
      <3> HIDE DEF R, L
      <3>4. LocksOK(R, L)
        BY <1>2, <1>3, <2>4, <3>2, <3>3, OwnRun DEF LocksOK
      <3>5. RunOK(R, L)
        BY <1>2, <1>3, <3>2, <3>3, <3>4, OwnRun, AwaitingOK
      <3>6. SameTargets(r, R)
        BY <1>3, <3>2 DEF SameTargets
      <3>7. \A q \in Runs \ {r} : L.locks \cap link[q].locks = {}
        BY <2>3, <3>3
      <3> QED BY <1>1, <3>1, <3>5, <3>6, <3>7, RunStep
    <2>6. CASE run[r].todo \ {p} = {}
      <3> DEFINE R == [run[r] EXCEPT !.pc = "reading", !.todo = run[r].oids]
                 L == Sending(taken, "reading")
      <3>1. Become(r, R, L)
        BY <1>4, <1>6, <2>6 DEF taken
      <3>2. /\ R \in Run /\ R.pc = "reading" /\ R.runner = run[r].runner /\ R.oids = run[r].oids
            /\ R.todo = run[r].oids /\ R.tests = run[r].tests /\ R.aborted = run[r].aborted
        BY <1>1, <1>2 DEF Run
      <3>3. /\ L \in Link /\ L.wire = <<"reading">> /\ L.client = "open" /\ L.pg = "tx"
            /\ L.locks = link[r].locks \cup {p} /\ L.instrumented = link[r].instrumented
        BY <2>2
      <3> HIDE DEF R, L
      <3>4. LocksOK(R, L)
        BY <1>2, <1>3, <2>4, <2>6, <3>2, <3>3, OwnRun DEF LocksOK
      <3>5. RunOK(R, L)
        BY <1>2, <1>3, <3>2, <3>3, <3>4, OwnRun, AwaitingOK
      <3>6. SameTargets(r, R)
        BY <1>3, <3>2 DEF SameTargets
      <3>7. \A q \in Runs \ {r} : L.locks \cap link[q].locks = {}
        BY <2>3, <3>3
      <3> QED BY <1>1, <3>1, <3>5, <3>6, <3>7, RunStep
    <2> QED BY <2>5, <2>6
  <1> QED BY <1>5, <1>6

LEMMA RoutineKeepsInv ==
  ASSUME CoverageInv, NEW r \in Runs, RoutineAnswered(r)
  PROVE  CoverageInv'
  <1>1. /\ Executing(r, "reading") /\ active' = active /\ persisted' = {} /\ run[r] \in Run
    BY Current DEF RoutineAnswered
  <1>2. "reading" \in OwnStatements \cap InTransaction /\ "analyzing" \notin OwnStatements
    BY DEF OwnStatements, InTransaction
  <1>3. /\ run[r].pc = "reading" /\ link[r].pg \notin {"none", "idle"}
        /\ Answered(link[r]) \in Link /\ Answered(link[r]).wire = <<>>
        /\ Answered(link[r]).client = "open" /\ Answered(link[r]).pg = link[r].pg
        /\ Answered(link[r]).locks = link[r].locks
        /\ Answered(link[r]).instrumented = link[r].instrumented
        /\ link[r].pg = "tx" => run[r].oids \subseteq link[r].locks
    BY <1>1, <1>2, OwnExecuting, Current DEF TestsOK, LocksOK
  <1>4. PICK p \in run[r].todo, coverable \in BOOLEAN :
          LET next == [run[r] EXCEPT !.pc = "analyzing", !.todo = @ \ {p}] IN
          Become(r, IF coverable /\ ~run[r].aborted THEN next ELSE Failing(next),
                 Answered(link[r]))
    BY DEF RoutineAnswered
  <1> DEFINE R == [run[r] EXCEPT !.pc = "analyzing", !.todo = @ \ {p}]
  <1>5. /\ R \in Run /\ R.pc = "analyzing" /\ R.runner = run[r].runner /\ R.oids = run[r].oids
        /\ R.todo \subseteq run[r].todo /\ R.tests = run[r].tests /\ R.aborted = run[r].aborted
    BY <1>1 DEF Run, Raced
  <1>6. Become(r, R, Answered(link[r])) \/ Become(r, Failing(R), Answered(link[r]))
    BY <1>4
  <1> HIDE DEF R
  <1>7. SameTargets(r, R)
    BY <1>3, <1>5 DEF SameTargets
  <1>8. CASE Become(r, R, Answered(link[r]))
    <2>1. WireOK(R, Answered(link[r]))
      BY <1>2, <1>3, <1>5 DEF WireOK
    <2>2. TestsOK(R, Answered(link[r]))
      BY <1>2, <1>3, <1>5, OwnRun DEF TestsOK
    <2>3. LocksOK(R, Answered(link[r])) /\ CallbackOK(R.tests, Answered(link[r]).wire)
      BY <1>2, <1>3, <1>5, OwnRun, EmptyCalm DEF LocksOK
    <2> QED BY <1>1, <1>3, <1>5, <1>7, <1>8, <2>1, <2>2, <2>3, PlainRunStep DEF RunOK
  <1>9. CASE Become(r, Failing(R), Answered(link[r]))
    <2>1. CalmWire(Answered(link[r])) /\ CallbackOK(R.tests, Answered(link[r]).wire)
      BY <1>3, EmptyCalm
    <2>2. /\ R.tests # "checking"
          /\ R.tests # "off" => R.aborted
          /\ R.todo \subseteq R.oids
          /\ Answered(link[r]).instrumented \subseteq Answered(link[r]).locks
      BY <1>2, <1>3, <1>5, OwnRun
    <2> QED BY <1>1, <1>3, <1>5, <1>7, <1>9, <2>1, <2>2, FailStep
  <1> QED BY <1>6, <1>8, <1>9

LEMMA AnalysisKeepsInv ==
  ASSUME CoverageInv, NEW r \in Runs, AnalysisDone(r)
  PROVE  CoverageInv'
  <1>1. /\ run[r].pc = "analyzing" /\ active' = active /\ persisted' = {}
        /\ run[r] \in Run /\ link[r] \in Link
    BY Current DEF AnalysisDone
  <1>2. /\ "analyzing" \in InTransaction \ {"locking"}
        /\ {"reading", "instrumenting"} \subseteq OwnStatements \cap InTransaction
    BY DEF OwnStatements, InTransaction
  <1>3. /\ link[r].wire = <<>> /\ link[r].pg \notin {"none", "idle"}
        /\ link[r].pg = "tx" => run[r].oids \subseteq link[r].locks
    BY <1>1, <1>2, Current DEF WireOK, TestsOK, LocksOK, Silent
  <1>4. CASE Become(r, Failing(run[r]), link[r])
    <2>1. CalmWire(link[r]) /\ CallbackOK(run[r].tests, link[r].wire)
      BY <1>1, <1>3, EmptyCalm
    <2> QED BY <1>1, <1>4, <2>1, OwnRun, FailStep
  <1>5. ASSUME link[r].client = "open", NEW pc \in {"reading", "instrumenting"},
               NEW todo \in SUBSET run[r].oids, NEW R, R = [run[r] EXCEPT !.pc = pc, !.todo = todo],
               Become(r, R, Sending(link[r], pc))
        PROVE  CoverageInv'
    <2> DEFINE L == Sending(link[r], pc)
    <2>1. /\ R \in Run /\ R.pc = pc /\ R.runner = run[r].runner /\ R.oids = run[r].oids
          /\ R.todo = todo /\ R.tests = run[r].tests /\ R.aborted = run[r].aborted
      BY <1>1, <1>2, <1>5 DEF Run
    <2>2. /\ L \in Link /\ L.wire = <<pc>> /\ L.client = "open" /\ L.pg = link[r].pg
          /\ L.locks = link[r].locks /\ L.instrumented = link[r].instrumented
      BY <1>1, <1>2, <1>3, <1>5, SendingLink DEF Statements
    <2> HIDE DEF L
    <2>3. LocksOK(R, L)
      BY <1>1, <1>3, <2>1, <2>2, OwnRun DEF LocksOK
    <2>4. RunOK(R, L)
      BY <1>1, <1>2, <1>3, <2>1, <2>2, <2>3, OwnRun, AwaitingOK
    <2>5. SameTargets(r, R)
      BY <1>1, <2>1 DEF SameTargets
    <2> QED BY <1>1, <1>5, <2>2, <2>4, <2>5, PlainRunStep DEF L
  <1>6. CASE /\ link[r].client = "open"
             /\ LET next == IF run[r].todo # {} THEN [run[r] EXCEPT !.pc = "reading"]
                            ELSE [run[r] EXCEPT !.pc = "instrumenting", !.todo = run[r].oids]
                IN Become(r, next, Sending(link[r], next.pc))
    <2>1. CASE run[r].todo # {}
      <3> DEFINE R == [run[r] EXCEPT !.pc = "reading"]
      <3>1. R = [run[r] EXCEPT !.pc = "reading", !.todo = run[r].todo] /\ R.pc = "reading"
        BY <1>1 DEF Run
      <3>2. Become(r, R, Sending(link[r], R.pc))
        BY <1>6, <2>1
      <3>3. run[r].todo \in SUBSET run[r].oids
        BY <1>1, OwnRun
      <3> HIDE DEF R
      <3> QED BY <1>5, <1>6, <3>1, <3>2, <3>3
    <2>2. CASE run[r].todo = {}
      <3> DEFINE R == [run[r] EXCEPT !.pc = "instrumenting", !.todo = run[r].oids]
      <3>1. R.pc = "instrumenting"
        BY <1>1 DEF Run
      <3>2. Become(r, R, Sending(link[r], R.pc))
        BY <1>6, <2>2
      <3> QED BY <1>5, <1>6, <3>1, <3>2
    <2> QED BY <2>1, <2>2
  <1> QED BY <1>4, <1>6 DEF AnalysisDone

LEMMA DdlKeepsInv ==
  ASSUME CoverageInv, NEW r \in Runs, DdlAnswered(r)
  PROVE  CoverageInv'
  <1>1. Executing(r, "instrumenting") /\ active' = active /\ run[r] \in Run /\ link[r] \in Link
    BY Current DEF DdlAnswered
  <1>2. "instrumenting" \in OwnStatements \cap (InTransaction \ {"locking"})
    BY DEF OwnStatements, InTransaction
  <1>3. /\ run[r].pc = "instrumenting"
        /\ Answered(link[r]) \in Link /\ Answered(link[r]).wire = <<>>
        /\ Answered(link[r]).client = "open" /\ Answered(link[r]).pg = link[r].pg
        /\ Answered(link[r]).locks = link[r].locks
        /\ Answered(link[r]).instrumented = link[r].instrumented
        /\ link[r].pg \notin {"none", "gone"}
    BY <1>1, <1>2, OwnExecuting
  <1>4. link[r].pg = "tx"
    <2>1. link[r].pg # "idle"
      BY <1>2, <1>3, Current DEF TestsOK
    <2> QED BY <1>1, <1>3, <2>1 DEF Link
  <1>5. persisted' = {} /\ run[r].oids \subseteq link[r].locks
    BY <1>2, <1>3, <1>4, Current DEF DdlAnswered, LocksOK
  <1>6. PICK p \in run[r].todo :
          LET rest == run[r].todo \ {p}
              done == [Answered(link[r]) EXCEPT !.instrumented = @ \cup {p}]
          IN IF run[r].aborted
               THEN Become(r, Failing(run[r]), done)
               ELSE IF rest # {}
                 THEN Become(r, [run[r] EXCEPT !.todo = rest], Sending(done, "instrumenting"))
                 ELSE Become(r, [run[r] EXCEPT !.pc = "testing", !.todo = {}, !.tests = "ready"],
                                done)
    BY DEF DdlAnswered
  <1> DEFINE done == [Answered(link[r]) EXCEPT !.instrumented = @ \cup {p}]
  <1>7. /\ done \in Link /\ done.wire = <<>> /\ done.client = "open" /\ done.pg = "tx"
        /\ done.locks = link[r].locks /\ done.instrumented \subseteq link[r].locks
    <2>1. /\ done.instrumented = link[r].instrumented \cup {p}
          /\ done \in Link /\ done.wire = <<>> /\ done.client = "open" /\ done.pg = "tx"
          /\ done.locks = link[r].locks
      BY <1>1, <1>3, <1>4 DEF Link, Run
    <2>2. p \in link[r].locks /\ link[r].instrumented \subseteq link[r].locks
      BY <1>2, <1>3, <1>5, OwnRun
    <2> QED BY <2>1, <2>2
  <1>8. CASE run[r].aborted
    <2>1. Become(r, Failing(run[r]), done)
      BY <1>6, <1>8
    <2> HIDE DEF done
    <2>2. CalmWire(done) /\ CallbackOK(run[r].tests, done.wire)
      BY <1>7, EmptyCalm
    <2> QED BY <1>1, <1>2, <1>3, <1>5, <1>7, <2>1, <2>2, OwnRun, FailStep
  <1>9. CASE ~run[r].aborted /\ run[r].todo \ {p} # {}
    <2> DEFINE R == [run[r] EXCEPT !.todo = run[r].todo \ {p}]
               L == Sending(done, "instrumenting")
    <2>1. Become(r, R, L)
      BY <1>6, <1>9
    <2>2. /\ R \in Run /\ R.pc = "instrumenting" /\ R.runner = run[r].runner
          /\ R.oids = run[r].oids /\ R.todo \subseteq run[r].todo
          /\ R.tests = run[r].tests /\ R.aborted = run[r].aborted
      BY <1>1, <1>3 DEF Run
    <2> HIDE DEF done
    <2>3. /\ L \in Link /\ L.wire = <<"instrumenting">> /\ L.client = "open" /\ L.pg = "tx"
          /\ L.locks = link[r].locks /\ L.instrumented \subseteq link[r].locks
      BY <1>2, <1>7, SendingLink DEF Statements
    <2> HIDE DEF R, L
    <2>4. LocksOK(R, L)
      BY <1>2, <1>3, <1>5, <2>2, <2>3, OwnRun DEF LocksOK
    <2>5. RunOK(R, L)
      BY <1>2, <1>3, <2>2, <2>3, <2>4, OwnRun, AwaitingOK
    <2>6. SameTargets(r, R)
      BY <1>3, <2>2 DEF SameTargets
    <2> QED BY <1>1, <1>5, <2>1, <2>3, <2>5, <2>6, PlainRunStep
  <1>10. CASE ~run[r].aborted /\ run[r].todo \ {p} = {}
    <2> DEFINE R == [run[r] EXCEPT !.pc = "testing", !.todo = {}, !.tests = "ready"]
    <2>1. Become(r, R, done)
      BY <1>6, <1>10
    <2>2. /\ R \in Run /\ R.pc = "testing" /\ R.runner = run[r].runner /\ R.oids = run[r].oids
          /\ R.todo = {} /\ R.tests = "ready"
      BY <1>1 DEF Run, Raced
    <2> HIDE DEF R, done
    <2>3. WireOK(R, done)
      BY <1>7, <2>2 DEF WireOK, OwnStatements, Silent
    <2>4. TestsOK(R, done)
      BY <1>7, <2>2 DEF TestsOK
    <2>5. LocksOK(R, done)
      BY <1>5, <1>7, <2>2 DEF LocksOK
    <2>6. RunOK(R, done)
      BY <1>7, <2>2, <2>3, <2>4, <2>5, EmptyCalm DEF RunOK
    <2>7. SameTargets(r, R)
      BY <1>3, <2>2 DEF SameTargets
    <2> QED BY <1>1, <1>5, <1>7, <2>1, <2>6, <2>7, PlainRunStep
  <1> QED BY <1>8, <1>9, <1>10

-----------------------------------------------------------------------------
(* The test callback *)

\* Nothing of what the invariant relates changes.
LEMMA SameOK ==
  ASSUME NEW R, NEW L, RunOK(R, L), NEW R2 \in Run, NEW L2 \in Link,
         R2.pc = R.pc, R2.oids = R.oids, R2.todo = R.todo, R2.aborted = R.aborted,
         R2.tests = R.tests,
         L2.wire = L.wire, L2.pg = L.pg, L2.locks = L.locks, L2.instrumented = L.instrumented,
         L2.client = L.client \/ L2.client = "ending"
  PROVE  RunOK(R2, L2)
  BY DEF RunOK, WireOK, TestsOK, LocksOK

\* A callback that awaits no statement, and goes on to await none.
LEMMA CallbackMoves ==
  ASSUME NEW t, NEW wire, CallbackOK(t, wire), t \notin {"querying", "restoring"}
  PROVE  /\ \A i \in DOMAIN wire : wire[i] \notin {"test", "restore"}
         /\ \A t2 : CallbackOK(t2, wire)
  BY DEF CallbackOK

LEMMA TestsStep ==
  ASSUME CoverageInv, NEW r \in Runs, NEW R \in Run,
         R.pc = run[r].pc, R.oids = run[r].oids, R.todo = run[r].todo,
         R.aborted = run[r].aborted, R.runner = run[r].runner,
         run[r].tests # "off", R.tests # "off", R.tests = "checking" => R.pc = "testing",
         NEW L \in Link, Become(r, R, L), CallbackOK(R.tests, L.wire),
         CalmWire(L), R.pc = "testing" => \A i \in DOMAIN L.wire : L.wire[i] # "rollback",
         L.client = link[r].client, L.pg = link[r].pg, L.locks = link[r].locks,
         L.instrumented = link[r].instrumented,
         active' = active, persisted' = {}
  PROVE  CoverageInv'
  <1>1. /\ WireOK(run[r], link[r]) /\ TestsOK(run[r], link[r]) /\ LocksOK(run[r], link[r])
        /\ R.pc \in Cleaning \cup {"testing"}
    BY Current DEF TestsOK
  <1>2. R.pc \notin OwnStatements /\ R.pc \notin Silent
    BY <1>1 DEF Cleaning, OwnStatements, Silent
  <1>3. WireOK(R, L)
    BY <1>2 DEF WireOK, CalmWire
  <1>4. TestsOK(R, L)
    BY <1>1, <1>2 DEF TestsOK, CalmWire
  <1>5. LocksOK(R, L)
    BY <1>1 DEF LocksOK
  <1>6. SameTargets(r, R)
    BY DEF SameTargets
  <1> QED BY <1>3, <1>4, <1>5, <1>6, PlainRunStep DEF RunOK

\* Where a callback can be: in its run, or left behind by it.
LEMMA CallbackRun ==
  ASSUME CoverageInv, NEW r \in Runs, run[r].tests # "off"
  PROVE  /\ run[r] \in Run /\ link[r] \in Link
         /\ run[r].pc \in Cleaning \cup {"testing"} /\ run[r].pc \notin OwnStatements
         /\ run[r].pc # "testing" => run[r].aborted
         /\ run[r].pc = "testing" =>
              /\ link[r].pg # "idle"
              /\ \A i \in DOMAIN link[r].wire : link[r].wire[i] # "rollback"
         /\ CalmWire(link[r]) /\ CallbackOK(run[r].tests, link[r].wire)
         /\ run[r].todo \subseteq run[r].oids /\ link[r].instrumented \subseteq link[r].locks
  <1>1. /\ run[r].pc \in Cleaning \cup {"testing"}
        /\ run[r].pc # "testing" => run[r].aborted
    BY Current DEF TestsOK
  <1>2. run[r].pc \notin OwnStatements
    BY <1>1 DEF Cleaning, OwnStatements
  <1>3. CalmWire(link[r])
    BY <1>2, Current, UnawaitedCalm
  <1> QED BY <1>1, <1>2, <1>3, Current DEF TestsOK, LocksOK, InTransaction

\* A statement that is not the run's own has been answered.
LEMMA ForeignAnswered ==
  ASSUME CoverageInv, NEW r \in Runs, NEW st \in {"test", "restore", "rollback"}, Executing(r, st)
  PROVE  /\ run[r].pc \notin OwnStatements /\ run[r].pc \notin Silent
         /\ link[r].wire # <<>> /\ link[r].client = "open" /\ link[r].pg \notin {"none", "gone"}
         /\ Answered(link[r]) \in Link /\ CalmWire(Answered(link[r]))
         /\ \A t : (st = "rollback" /\ t = run[r].tests) \/ st # "rollback"
                     => CallbackOK(t, Answered(link[r]).wire)
         /\ st = "test" => run[r].tests = "querying" /\ link[r].pg # "idle"
         /\ st = "restore" => run[r].tests = "restoring"
         /\ st = "rollback" =>
              \A i \in DOMAIN Answered(link[r]).wire : Answered(link[r]).wire[i] # "test"
         /\ run[r].pc = "testing" =>
              /\ st # "rollback"
              /\ \A i \in DOMAIN Answered(link[r]).wire : Answered(link[r]).wire[i] # "rollback"
         /\ Answered(link[r]).client = link[r].client /\ Answered(link[r]).pg = link[r].pg
         /\ Answered(link[r]).locks = link[r].locks
         /\ Answered(link[r]).instrumented = link[r].instrumented
  <1> DEFINE L == link[r]
  <1>1. /\ L \in Link /\ L.wire # <<>> /\ Head(L.wire) = st
        /\ L.client = "open" /\ L.pg \notin {"none", "gone"}
        /\ WireOK(run[r], L) /\ TestsOK(run[r], L) /\ CallbackOK(run[r].tests, L.wire)
    BY Current DEF Executing, Alive
  <1> HIDE DEF L
  <1>2. /\ Answered(L) \in Link
        /\ Answered(L).client = L.client /\ Answered(L).pg = L.pg
        /\ Answered(L).locks = L.locks /\ Answered(L).instrumented = L.instrumented
        /\ \A i \in DOMAIN Answered(L).wire :
             /\ i + 1 \in DOMAIN L.wire /\ i \in Nat
             /\ Answered(L).wire[i] = L.wire[i + 1]
        /\ 1 \in DOMAIN L.wire /\ L.wire[1] = st
    BY <1>1, AnsweredLink
  <1>3. run[r].pc \notin OwnStatements
    <2> SUFFICES ASSUME run[r].pc \in OwnStatements PROVE FALSE
      OBVIOUS
    <2>1. L.wire = <<run[r].pc>>
      BY <1>1 DEF WireOK
    <2>2. st \in OwnStatements
      BY <1>2, <2>1
    <2> QED BY <2>2 DEF OwnStatements
  <1>4. run[r].pc \notin Silent
    BY <1>1 DEF WireOK
  <1>5. CalmWire(Answered(L))
    <2>1. CalmWire(L)
      BY <1>3, Current, UnawaitedCalm DEF L
    <2> QED BY <1>1, <2>1, AnsweredCalm
  <1>6. ASSUME st # "rollback", NEW t
        PROVE  CallbackOK(t, Answered(L).wire)
    <2>1. ASSUME NEW i \in DOMAIN Answered(L).wire, Answered(L).wire[i] \in {"test", "restore"}
          PROVE  FALSE
      <3>1. i + 1 = 1
        BY <1>1, <1>2, <1>6, <2>1 DEF CallbackOK
      <3>2. i \in Nat /\ i # 0
        <4>1. Answered(L).wire \in Seq(Statements)
          BY <1>2 DEF Link, Statements
        <4>2. DOMAIN Answered(L).wire = 1..Len(Answered(L).wire) /\ Len(Answered(L).wire) \in Nat
          BY <4>1, LenProperties
        <4> QED BY <4>2
      <3> QED BY <3>1, <3>2
    <2> QED BY <2>1 DEF CallbackOK
  <1>7. CallbackOK(run[r].tests, Answered(L).wire)
    <2>1. ASSUME NEW i \in DOMAIN Answered(L).wire, NEW j \in DOMAIN Answered(L).wire,
                 i + 1 = j + 1
          PROVE  i = j
      BY <1>2, <2>1
    <2> QED BY <1>1, <1>2, <2>1 DEF CallbackOK
  <1>8. st = "rollback" => \A i \in DOMAIN Answered(L).wire : Answered(L).wire[i] # "test"
    <2> SUFFICES ASSUME st = "rollback", NEW i \in DOMAIN Answered(L).wire
                 PROVE  Answered(L).wire[i] # "test"
      OBVIOUS
    <2>1. 1 < i + 1
      <3>1. Answered(L).wire \in Seq(Statements)
        BY <1>2 DEF Link, Statements
      <3>2. DOMAIN Answered(L).wire = 1..Len(Answered(L).wire) /\ Len(Answered(L).wire) \in Nat
        BY <3>1, LenProperties
      <3> QED BY <3>2
    <2> QED BY <1>1, <1>2, <2>1 DEF TestsOK
  <1>9. /\ st = "test" => run[r].tests = "querying" /\ L.pg # "idle"
        /\ st = "restore" => run[r].tests = "restoring"
        /\ run[r].pc = "testing" =>
              /\ st # "rollback"
              /\ \A i \in DOMAIN Answered(L).wire : Answered(L).wire[i] # "rollback"
    BY <1>1, <1>2 DEF TestsOK, CallbackOK
  <1> QED BY <1>1, <1>2, <1>3, <1>4, <1>5, <1>6, <1>7, <1>8, <1>9 DEF L

\* The callback sends a statement, or the run sends ROLLBACK behind one.
LEMMA SendingCallback ==
  ASSUME NEW L \in Link
  PROVE  /\ (\A i \in DOMAIN L.wire : L.wire[i] \notin {"test", "restore"}) =>
              /\ CallbackOK("querying", Sending(L, "test").wire)
              /\ CallbackOK("restoring", Sending(L, "restore").wire)
         /\ \A t : CallbackOK(t, L.wire) => CallbackOK(t, Sending(L, "rollback").wire)
  <1>1. L.wire \in Seq(Statements) /\ Len(L.wire) \in Nat /\ DOMAIN L.wire = 1..Len(L.wire)
    BY LenProperties DEF Link, Statements
  <1>2. ASSUME NEW st \in {"test", "restore", "rollback"}
        PROVE  /\ DOMAIN Sending(L, st).wire = 1..(Len(L.wire) + 1)
               /\ \A k \in DOMAIN L.wire : Sending(L, st).wire[k] = L.wire[k]
               /\ Sending(L, st).wire[Len(L.wire) + 1] = st
    <2>1. Sending(L, st).wire = Append(L.wire, st)
      BY DEF Sending, Link
    <2> QED BY <1>1, <2>1, AppendProperties, LenProperties DEF Statements
  <1>3. \A i \in 1..(Len(L.wire) + 1) : i \in DOMAIN L.wire \/ i = Len(L.wire) + 1
    BY <1>1
  <1> QED BY <1>2, <1>3 DEF CallbackOK

LEMMA CallbackKeepsInv ==
  ASSUME CoverageInv, NEW r \in Runs, Callback(r)
  PROVE  CoverageInv'
  <1>1. ASSUME NEW t \in {"ready", "checking", "querying", "broken", "restoring"}, run[r] \in Run
        PROVE  LET R == [run[r] EXCEPT !.tests = t] IN
               /\ R \in Run /\ R.tests = t /\ R.pc = run[r].pc /\ R.oids = run[r].oids
               /\ R.todo = run[r].todo /\ R.aborted = run[r].aborted /\ R.runner = run[r].runner
    BY <1>1 DEF Run
  <1>2. CASE TestCalls(r)
    <2> DEFINE R == [run[r] EXCEPT !.tests = "checking"]
    <2>1. /\ Become(r, R, link[r]) /\ run[r].tests = "ready" /\ ~run[r].aborted
          /\ active' = active /\ persisted' = {}
      BY <1>2, Current DEF TestCalls
    <2>2. /\ R \in Run /\ R.tests = "checking" /\ R.pc = run[r].pc /\ R.oids = run[r].oids
          /\ R.todo = run[r].todo /\ R.aborted = run[r].aborted /\ R.runner = run[r].runner
      BY <1>1, Current
    <2> HIDE DEF R
    <2>3. CallbackOK("checking", link[r].wire) /\ run[r].pc = "testing"
      BY <2>1, CallbackRun, CallbackMoves
    <2> QED BY <2>1, <2>2, <2>3, CallbackRun, TestsStep
  <1>3. CASE TestChecked(r)
    <2>1. run[r].tests = "checking" /\ active' = active /\ persisted' = {} /\ run[r] \in Run
      BY <1>3, Current DEF TestChecked
    <2>2. /\ run[r].pc = "testing" /\ link[r].pg \notin {"none", "idle"}
          /\ \A i \in DOMAIN link[r].wire : link[r].wire[i] \notin {"test", "restore", "rollback"}
          /\ \A t : CallbackOK(t, link[r].wire)
      BY <2>1, Current, CallbackMoves DEF TestsOK, InTransaction
    <2>3. CASE Become(r, [run[r] EXCEPT !.tests = "broken"], link[r])
      <3> DEFINE R == [run[r] EXCEPT !.tests = "broken"]
      <3>1. /\ R \in Run /\ R.tests = "broken" /\ R.pc = run[r].pc /\ R.oids = run[r].oids
            /\ R.todo = run[r].todo /\ R.aborted = run[r].aborted /\ R.runner = run[r].runner
        BY <1>1, <2>1
      <3>2. Become(r, R, link[r])
        BY <2>3
      <3> HIDE DEF R
      <3> QED BY <2>1, <2>2, <3>1, <3>2, CallbackRun, TestsStep
    <2>4. CASE /\ link[r].client = "open"
               /\ Become(r, [run[r] EXCEPT !.tests = "querying"], Sending(link[r], "test"))
      <3> DEFINE R == [run[r] EXCEPT !.tests = "querying"]
                 L == Sending(link[r], "test")
      <3>1. /\ R \in Run /\ R.tests = "querying" /\ R.pc = run[r].pc /\ R.oids = run[r].oids
            /\ R.todo = run[r].todo /\ R.aborted = run[r].aborted /\ R.runner = run[r].runner
        BY <1>1, <2>1
      <3>2. Become(r, R, L)
        BY <2>4
      <3>3. /\ L \in Link /\ L.client = link[r].client /\ L.pg = link[r].pg
            /\ L.locks = link[r].locks /\ L.instrumented = link[r].instrumented
            /\ \A i \in DOMAIN L.wire :
                 \/ i \in DOMAIN link[r].wire /\ L.wire[i] = link[r].wire[i]
                 \/ L.wire[i] = "test" /\ \A j \in DOMAIN link[r].wire : j < i
        BY Current, SendingLink DEF Statements
      <3>4. CalmWire(L)
        BY <2>1, <2>2, <2>4, CallbackRun, SendingCalm
      <3> HIDE DEF R
      <3>5. \A i \in DOMAIN L.wire : L.wire[i] # "rollback" /\ L.wire[i] # "restore"
        BY <2>2, <3>3
      <3>6. CallbackOK(R.tests, L.wire)
        BY <2>2, <3>1, Current, SendingCallback
      <3> QED BY <2>1, <2>2, <3>1, <3>2, <3>3, <3>4, <3>5, <3>6, TestsStep
    <2> QED BY <1>3, <2>3, <2>4 DEF TestChecked
  <1>4. ASSUME NEW st \in {"test", "restore"}, Executing(r, st),
               Become(r, [run[r] EXCEPT !.tests = "ready"], Answered(link[r])),
               active' = active, persisted' = {}
        PROVE  CoverageInv'
    <2> DEFINE R == [run[r] EXCEPT !.tests = "ready"]
    <2>1. /\ R \in Run /\ R.tests = "ready" /\ R.pc = run[r].pc /\ R.oids = run[r].oids
          /\ R.todo = run[r].todo /\ R.aborted = run[r].aborted /\ R.runner = run[r].runner
      BY <1>1, Current
    <2>2. Become(r, R, Answered(link[r]))
      BY <1>4
    <2>3. /\ run[r].tests # "off"
          /\ Answered(link[r]) \in Link /\ CalmWire(Answered(link[r]))
          /\ CallbackOK("ready", Answered(link[r]).wire)
          /\ run[r].pc = "testing" =>
               \A i \in DOMAIN Answered(link[r]).wire : Answered(link[r]).wire[i] # "rollback"
          /\ Answered(link[r]).client = link[r].client /\ Answered(link[r]).pg = link[r].pg
          /\ Answered(link[r]).locks = link[r].locks
          /\ Answered(link[r]).instrumented = link[r].instrumented
      BY <1>4, ForeignAnswered
    <2> HIDE DEF R
    <2> QED BY <1>4, <2>1, <2>2, <2>3, TestsStep
  <1>5. CASE TestAnswered(r)
    <2>1. Executing(r, "test") /\ active' = active
          /\ Become(r, [run[r] EXCEPT !.tests = "ready"], Answered(link[r]))
      BY <1>5 DEF TestAnswered
    <2>2. link[r].pg # "idle"
      BY <2>1, ForeignAnswered
    <2>3. persisted' = {}
      BY <1>5, <2>2, Current DEF TestAnswered
    <2> QED BY <1>4, <2>1, <2>3
  <1>6. CASE RestoreAnswered(r)
    BY <1>4, <1>6, Current DEF RestoreAnswered
  <1>7. CASE TestBroken(r)
    <2>1. run[r].tests = "broken" /\ active' = active /\ persisted' = {} /\ run[r] \in Run
      BY <1>7, Current DEF TestBroken
    <2>2. /\ \A i \in DOMAIN link[r].wire : link[r].wire[i] \notin {"test", "restore"}
          /\ \A t : CallbackOK(t, link[r].wire)
      BY <2>1, Current, CallbackMoves
    <2>3. CASE Become(r, [run[r] EXCEPT !.tests = "ready"], link[r])
      <3> DEFINE R == [run[r] EXCEPT !.tests = "ready"]
      <3>1. /\ R \in Run /\ R.tests = "ready" /\ R.pc = run[r].pc /\ R.oids = run[r].oids
            /\ R.todo = run[r].todo /\ R.aborted = run[r].aborted /\ R.runner = run[r].runner
        BY <1>1, <2>1
      <3>2. Become(r, R, link[r])
        BY <2>3
      <3> HIDE DEF R
      <3> QED BY <2>1, <2>2, <3>1, <3>2, CallbackRun, TestsStep
    <2>4. CASE /\ link[r].client = "open"
               /\ Become(r, [run[r] EXCEPT !.tests = "restoring"], Sending(link[r], "restore"))
      <3> DEFINE R == [run[r] EXCEPT !.tests = "restoring"]
                 L == Sending(link[r], "restore")
      <3>1. /\ R \in Run /\ R.tests = "restoring" /\ R.pc = run[r].pc /\ R.oids = run[r].oids
            /\ R.todo = run[r].todo /\ R.aborted = run[r].aborted /\ R.runner = run[r].runner
        BY <1>1, <2>1
      <3>2. Become(r, R, L)
        BY <2>4
      <3>3. /\ L \in Link /\ L.client = link[r].client /\ L.pg = link[r].pg
            /\ L.locks = link[r].locks /\ L.instrumented = link[r].instrumented
            /\ \A i \in DOMAIN L.wire :
                 \/ i \in DOMAIN link[r].wire /\ L.wire[i] = link[r].wire[i]
                 \/ L.wire[i] = "restore" /\ \A j \in DOMAIN link[r].wire : j < i
        BY Current, SendingLink DEF Statements
      <3>4. CalmWire(L)
        BY <2>1, <2>2, <2>4, CallbackRun, SendingCalm
      <3> HIDE DEF R
      <3>5. /\ \A i \in DOMAIN L.wire : L.wire[i] # "test"
            /\ run[r].pc = "testing" => \A i \in DOMAIN L.wire : L.wire[i] # "rollback"
        BY <2>1, <2>2, <3>3, CallbackRun
      <3>6. CallbackOK(R.tests, L.wire)
        BY <2>2, <3>1, Current, SendingCallback
      <3> QED BY <2>1, <2>2, <3>1, <3>2, <3>3, <3>4, <3>5, <3>6, TestsStep
    <2> QED BY <1>7, <2>3, <2>4 DEF TestBroken
  <1>8. CASE TestsEnd(r)
    <2> DEFINE over == [run[r] EXCEPT !.tests = "off"]
    <2>1. /\ run[r].tests = "ready" /\ active' = active /\ persisted' = {}
          /\ run[r] \in Run /\ link[r] \in Link
      BY <1>8, Current DEF TestsEnd
    <2>2. /\ CalmWire(link[r]) /\ CallbackOK("off", link[r].wire)
          /\ run[r].pc \in Cleaning \cup {"testing"}
          /\ run[r].todo \subseteq run[r].oids /\ link[r].instrumented \subseteq link[r].locks
      BY <2>1, CallbackRun, CallbackMoves
    <2>3. /\ over \in Run /\ over.tests = "off" /\ over.pc = run[r].pc /\ over.oids = run[r].oids
          /\ over.todo = run[r].todo /\ over.runner = run[r].runner
      BY <2>1 DEF Run
    <2>4. SameTargets(r, over)
      BY <2>3 DEF SameTargets
    <2>5. CASE Become(r, Failing(over), link[r]) /\ run[r].pc = "testing"
      <3> HIDE DEF over
      <3> QED BY <2>1, <2>2, <2>3, <2>4, <2>5, FailStep
    <2>6. CASE Become(r, [over EXCEPT !.pc = "settling", !.cancellation = "none"], link[r])
               /\ run[r].pc = "testing"
      <3> DEFINE R == [over EXCEPT !.pc = "settling", !.cancellation = "none"]
      <3> HIDE DEF over
      <3>1. /\ R \in Run /\ R.pc = "settling" /\ R.tests = "off" /\ R.oids = over.oids
            /\ R.todo = over.todo /\ R.runner = over.runner
        BY <2>3 DEF Run
      <3>2. Become(r, R, link[r])
        BY <2>6
      <3> HIDE DEF R
      <3>3. RunOK(R, link[r])
        BY <2>1, <2>2, <2>3, <3>1, CleaningOK DEF Cleaning
      <3>4. SameTargets(r, R)
        BY <2>3, <2>6, <3>1 DEF SameTargets
      <3> QED BY <2>1, <3>2, <3>3, <3>4, PlainRunStep
    <2>7. CASE Become(r, over, link[r]) /\ run[r].pc # "testing"
      <3> HIDE DEF over
      <3>1. RunOK(over, link[r])
        BY <2>1, <2>2, <2>3, <2>7, CleaningOK
      <3> QED BY <2>1, <2>4, <2>7, <3>1, PlainRunStep
    <2> QED BY <1>8, <2>5, <2>6, <2>7 DEF TestsEnd
  <1> QED BY <1>2, <1>3, <1>5, <1>6, <1>7, <1>8 DEF Callback

-----------------------------------------------------------------------------
(* Abort, and sessions that are lost *)

LEMMA AbortKeepsInv ==
  ASSUME CoverageInv, NEW r \in Runs, Abort(r)
  PROVE  CoverageInv'
  <1> DEFINE R == [run[r] EXCEPT
                     !.aborted = TRUE,
                     !.cancellation = IF @ = "armed" THEN "cancelling" ELSE @,
                     !.tests = IF @ = "checking" THEN "broken" ELSE @]
  <1>1. /\ run[r].pc \in OwnStatements \cup Raced /\ active' = active /\ persisted' = {}
        /\ run[r] \in Run /\ link[r] \in Link
        /\ Become(r, IF R.pc \in Raced THEN Failing(R) ELSE R, link[r])
    BY Current DEF Abort
  <1>2. /\ R \in Run /\ R.pc = run[r].pc /\ R.oids = run[r].oids /\ R.todo = run[r].todo
        /\ R.runner = run[r].runner /\ R.aborted
        /\ R.tests = IF run[r].tests = "checking" THEN "broken" ELSE run[r].tests
    BY <1>1 DEF Run
  <1> HIDE DEF R
  <1>3. SameTargets(r, R)
    BY <1>2 DEF SameTargets
  <1>4. /\ WireOK(run[r], link[r]) /\ TestsOK(run[r], link[r]) /\ LocksOK(run[r], link[r])
        /\ CallbackOK(R.tests, link[r].wire)
    BY <1>2, Current, CallbackMoves
  <1>5. CASE R.pc \in Raced
    <2>1. R.pc \notin OwnStatements /\ R.pc \notin {"idle", "done"}
      BY <1>5 DEF Raced, OwnStatements
    <2>2. CalmWire(link[r])
      BY <1>2, <2>1, Current, UnawaitedCalm
    <2>3. R.pc = "connecting" => R.tests = "off" /\ link[r].wire = <<>>
      BY <1>2, <1>4 DEF WireOK, TestsOK, Cleaning, Silent
    <2>4. R.todo \subseteq R.oids /\ link[r].instrumented \subseteq link[r].locks
      BY <1>2, <1>4 DEF LocksOK
    <2> QED BY <1>1, <1>2, <1>3, <1>4, <1>5, <2>1, <2>2, <2>3, <2>4, FailStep
  <1>6. CASE R.pc \notin Raced
    <2>1. WireOK(R, link[r])
      BY <1>2, <1>4 DEF WireOK
    <2>2. TestsOK(R, link[r])
      BY <1>2, <1>4 DEF TestsOK
    <2>3. LocksOK(R, link[r])
      BY <1>2, <1>4 DEF LocksOK
    <2> QED BY <1>1, <1>2, <1>3, <1>4, <1>6, <2>1, <2>2, <2>3, PlainRunStep DEF RunOK
  <1> QED BY <1>5, <1>6

\* Every statement in flight has been rejected.
LEMMA RejectedOK ==
  ASSUME CoverageInv, NEW r \in Runs, NEW L \in Link, L.wire = <<>>,
         L.client # "opening", L.pg \notin {"none", "idle"} \/ run[r].pc \notin InTransaction,
         L.instrumented \subseteq L.locks, L.pg = "tx" => L.locks = link[r].locks /\ link[r].pg = "tx"
  PROVE  /\ RunOK(Rejected(run[r]), L) /\ SameTargets(r, Rejected(run[r]))
         /\ run[r].pc = "forcing" =>
              Rejected(run[r]).tests = "off" /\ Rejected(run[r]).pc = "forcing"
  <1> DEFINE C == [run[r] EXCEPT !.tests = IF run[r].pc # "testing" THEN "off"
                                           ELSE IF @ = "querying" THEN "broken"
                                           ELSE IF @ = "restoring" THEN "ready" ELSE @]
  <1>1. /\ run[r] \in Run /\ TestsOK(run[r], link[r]) /\ LocksOK(run[r], link[r])
        /\ CalmWire(L) /\ \A t : CallbackOK(t, L.wire)
    BY Current, EmptyCalm
  <1>2. /\ C \in Run /\ C.pc = run[r].pc /\ C.oids = run[r].oids /\ C.todo = run[r].todo
        /\ C.runner = run[r].runner
        /\ run[r].pc # "testing" => C.tests = "off"
        /\ C.tests = "checking" => run[r].tests = "checking"
    BY <1>1 DEF Run
  <1>3. Rejected(run[r]) = IF run[r].pc \in OwnStatements THEN Failing(C)
                           ELSE [C EXCEPT !.pc = IF @ = "rollingBack" THEN "forcing" ELSE @]
    BY DEF Rejected
  <1> HIDE DEF C
  <1>4. SameTargets(r, C) /\ C.todo \subseteq C.oids
    BY <1>1, <1>2 DEF SameTargets, LocksOK
  <1>5. CASE run[r].pc \in OwnStatements
    <2>1. run[r].pc \notin {"testing", "connecting", "idle", "done", "forcing"}
      BY <1>5 DEF OwnStatements
    <2>2. Rejected(run[r]) = Failing(C)
      BY <1>3, <1>5
    <2>3. RunOK(Failing(C), L)
      BY <1>1, <1>2, <1>4, <2>1, FailingOK
    <2>4. SameTargets(r, Failing(C))
      BY <1>2, <1>4, <2>1, FailingFields DEF SameTargets
    <2> QED BY <2>1, <2>2, <2>3, <2>4
  <1>6. CASE run[r].pc = "rollingBack"
    <2> DEFINE R == [C EXCEPT !.pc = "forcing"]
    <2>1. Rejected(run[r]) = R
      BY <1>2, <1>3, <1>6 DEF OwnStatements
    <2>2. /\ R \in Run /\ R.pc = "forcing" /\ R.oids = C.oids /\ R.todo = C.todo
          /\ R.runner = C.runner /\ R.tests = "off"
      BY <1>2, <1>6 DEF Run
    <2> HIDE DEF R
    <2>3. RunOK(R, L)
      BY <1>1, <1>4, <2>2, CleaningOK DEF Cleaning
    <2>4. SameTargets(r, R)
      BY <1>2, <1>6, <2>2 DEF SameTargets
    <2> QED BY <2>1, <2>2, <2>3, <2>4
  <1>7. CASE run[r].pc \notin OwnStatements \cup {"rollingBack"}
    <2>1. Rejected(run[r]) = C
      BY <1>2, <1>3, <1>7 DEF Run
    <2>2. WireOK(C, L)
      BY <1>2, <1>7 DEF WireOK
    <2>3. TestsOK(C, L)
      BY <1>1, <1>2 DEF TestsOK
    <2>4. LocksOK(C, L)
      BY <1>1, <1>2, <1>7 DEF LocksOK, OwnStatements
    <2> QED BY <1>1, <1>2, <1>4, <2>1, <2>2, <2>3, <2>4 DEF RunOK
  <1> QED BY <1>5, <1>6, <1>7

LEMMA SeveredLink ==
  ASSUME NEW L \in Link
  PROVE  /\ Severed(L) \in Link /\ Severed(L).wire = <<>> /\ Severed(L).client = "ended"
         /\ Severed(L).pg = "gone" /\ Severed(L).locks = {} /\ Severed(L).instrumented = {}
  <1>1. <<>> \in Seq(Statements)
    OBVIOUS
  <1> QED BY <1>1 DEF Severed, OutsideTransaction, Link, Statements

LEMMA SeveredOK ==
  ASSUME CoverageInv, NEW r \in Runs
  PROVE  /\ RunOK(Rejected(run[r]), Severed(link[r])) /\ SameTargets(r, Rejected(run[r]))
         /\ Severed(link[r]).locks = {}
         /\ run[r].pc = "forcing" =>
              Rejected(run[r]).tests = "off" /\ Rejected(run[r]).pc = "forcing"
  <1>1. /\ Severed(link[r]) \in Link /\ Severed(link[r]).wire = <<>>
        /\ Severed(link[r]).client = "ended" /\ Severed(link[r]).pg = "gone"
        /\ Severed(link[r]).locks = {} /\ Severed(link[r]).instrumented = {}
    BY Current, SeveredLink
  <1> QED BY <1>1, RejectedOK

LEMMA BackendKeepsInv ==
  ASSUME CoverageInv, NEW r \in Runs, BackendEnds(r)
  PROVE  CoverageInv'
  BY SeveredOK, PlainRunStep, Current DEF BackendEnds

LEMMA ClientKeepsInv ==
  ASSUME CoverageInv, NEW r \in Runs, ClientEnds(r)
  PROVE  CoverageInv'
  <1> DEFINE L == [link[r] EXCEPT !.client = "ended", !.wire = <<>>]
  <1>1. /\ Become(r, Rejected(run[r]), L) /\ active' = active /\ persisted' = {}
        /\ link[r] \in Link /\ TestsOK(run[r], link[r]) /\ LocksOK(run[r], link[r])
    BY Current DEF ClientEnds
  <1>2. <<>> \in Seq(Statements)
    OBVIOUS
  <1>3. /\ L \in Link /\ L.wire = <<>> /\ L.client = "ended" /\ L.pg = link[r].pg
        /\ L.locks = link[r].locks /\ L.instrumented = link[r].instrumented
    BY <1>1, <1>2 DEF Link, Statements
  <1> HIDE DEF L
  <1>4. RunOK(Rejected(run[r]), L) /\ SameTargets(r, Rejected(run[r]))
    <2>1. L.pg \notin {"none", "idle"} \/ run[r].pc \notin InTransaction
      BY <1>1, <1>3 DEF TestsOK
    <2>2. L.instrumented \subseteq L.locks
      BY <1>1, <1>3 DEF LocksOK
    <2> QED BY <1>3, <2>1, <2>2, RejectedOK
  <1> QED BY <1>1, <1>3, <1>4, PlainRunStep

-----------------------------------------------------------------------------
(* The ladder *)

LEMMA EndingLink ==
  ASSUME NEW L \in Link
  PROVE  /\ Ending(L) \in Link /\ Ending(L).wire = L.wire /\ Ending(L).pg = L.pg
         /\ Ending(L).locks = L.locks /\ Ending(L).instrumented = L.instrumented
         /\ Ending(L).client = L.client \/ Ending(L).client = "ending"
  BY DEF Ending, Link

LEMMA LadderKeepsInv ==
  ASSUME CoverageInv, NEW r \in Runs, Ladder(r)
  PROVE  CoverageInv'
  <1>1. active' = active /\ persisted' = {} /\ run[r] \in Run /\ link[r] \in Link
    BY Current DEF Ladder, CancelBackend, TerminateBackend, Disconnected
  <1>2. ASSUME NEW R \in Run, NEW L \in Link, RunOK(R, L), SameTargets(r, R),
               NEW c \in {"terminating", "disconnecting", "cancelled", "forced", "stuck"},
               NEW L2 \in Link, Become(r, [R EXCEPT !.cancellation = c], L2),
               L2.wire = L.wire, L2.pg = L.pg, L2.locks = L.locks,
               L2.instrumented = L.instrumented, L2.client = L.client \/ L2.client = "ending",
               L.locks \subseteq link[r].locks
        PROVE  CoverageInv'
    <2> DEFINE R2 == [R EXCEPT !.cancellation = c]
    <2>1. /\ R2 \in Run /\ R2.pc = R.pc /\ R2.oids = R.oids /\ R2.todo = R.todo
          /\ R2.aborted = R.aborted /\ R2.tests = R.tests /\ R2.runner = R.runner
      BY DEF Run
    <2>2. Become(r, R2, L2)
      BY <1>2
    <2> HIDE DEF R2
    <2>3. RunOK(R2, L2)
      BY <1>2, <2>1, SameOK
    <2>4. SameTargets(r, R2)
      BY <1>2, <2>1 DEF SameTargets
    <2> QED BY <1>1, <1>2, <2>2, <2>3, <2>4, PlainRunStep
  <1>3. RunOK(run[r], link[r]) /\ SameTargets(r, run[r])
    BY Current DEF SameTargets
  <1>4. CASE CancelBackend(r)
    <2>1. PICK c \in {"cancelled", "terminating"} :
            Become(r, [run[r] EXCEPT !.cancellation = c], link[r])
      BY <1>4 DEF CancelBackend
    <2> QED BY <1>1, <1>2, <1>3, <2>1
  <1>5. CASE TerminateBackend(r)
    <2>1. CASE Become(r, [Rejected(run[r]) EXCEPT !.cancellation = "forced"], Severed(link[r]))
      <3>1. /\ RunOK(Rejected(run[r]), Severed(link[r])) /\ SameTargets(r, Rejected(run[r]))
            /\ Severed(link[r]).locks = {}
            /\ Rejected(run[r]) \in Run /\ Severed(link[r]) \in Link
        BY SeveredOK DEF RunOK
      <3> QED BY <1>2, <2>1, <3>1
    <2>2. CASE Become(r, [run[r] EXCEPT !.cancellation = "disconnecting"], Ending(link[r]))
      BY <1>1, <1>2, <1>3, <2>2, EndingLink
    <2> QED BY <1>5, <2>1, <2>2 DEF TerminateBackend
  <1>6. CASE Disconnected(r)
    <2>1. \/ Become(r, [run[r] EXCEPT !.cancellation = "forced"], link[r])
          \/ Become(r, [run[r] EXCEPT !.cancellation = "stuck"], link[r])
      BY <1>6 DEF Disconnected
    <2> QED BY <1>1, <1>2, <1>3, <2>1
  <1> QED BY <1>4, <1>5, <1>6 DEF Ladder

-----------------------------------------------------------------------------
(* cleanup, and statements that fail *)

\* A run that goes on cleaning up.
LEMMA CleanupStep ==
  ASSUME CoverageInv, NEW r \in Runs, run[r].pc \in Cleaning, NEW R \in Run, R.pc \in Cleaning,
         R.oids = run[r].oids, R.todo = run[r].todo, R.runner = run[r].runner,
         R.aborted = run[r].aborted, R.tests = run[r].tests,
         NEW L \in Link, CalmWire(L), CallbackOK(run[r].tests, L.wire),
         L.instrumented \subseteq L.locks, L.locks \subseteq link[r].locks, Become(r, R, L),
         active' = active, persisted' = {}
  PROVE  CoverageInv'
  <1>1. /\ run[r].pc # "testing" /\ run[r].pc \notin {"idle", "done"}
        /\ R.pc \notin {"idle", "done"}
    BY DEF Cleaning
  <1>2. /\ run[r].tests # "checking"
        /\ run[r].tests # "off" => run[r].aborted
        /\ run[r].todo \subseteq run[r].oids
    BY <1>1, Current DEF TestsOK, LocksOK
  <1>3. RunOK(R, L)
    BY <1>2, CleaningOK
  <1>4. SameTargets(r, R)
    BY <1>1 DEF SameTargets
  <1> QED BY <1>3, <1>4, PlainRunStep

LEMMA CleaningCalm ==
  ASSUME CoverageInv, NEW r \in Runs, run[r].pc \in Cleaning
  PROVE  /\ run[r] \in Run /\ link[r] \in Link
         /\ CalmWire(link[r]) /\ CallbackOK(run[r].tests, link[r].wire)
         /\ link[r].instrumented \subseteq link[r].locks
         /\ Ending(link[r]) \in Link /\ CalmWire(Ending(link[r]))
         /\ CallbackOK(run[r].tests, Ending(link[r]).wire)
         /\ Ending(link[r]).locks = link[r].locks
         /\ Ending(link[r]).instrumented = link[r].instrumented
  <1>1. CalmWire(link[r])
    BY Current, UnawaitedCalm DEF Cleaning, OwnStatements
  <1>2. /\ Ending(link[r]) \in Link /\ Ending(link[r]).wire = link[r].wire
        /\ Ending(link[r]).pg = link[r].pg
        /\ Ending(link[r]).locks = link[r].locks
        /\ Ending(link[r]).instrumented = link[r].instrumented
        /\ Ending(link[r]).client = link[r].client \/ Ending(link[r]).client = "ending"
    BY Current, EndingLink
  <1>3. CalmWire(Ending(link[r]))
    BY <1>1, <1>2 DEF CalmWire
  <1> QED BY <1>1, <1>2, <1>3, Current DEF LocksOK

LEMMA SettleKeepsInv ==
  ASSUME CoverageInv, NEW r \in Runs, Settle(r)
  PROVE  CoverageInv'
  <1> DEFINE R == [run[r] EXCEPT !.txOpen = @ /\ run[r].cancellation # "forced",
                                 !.cancellation = "none"]
  <1>1. /\ run[r].pc = "settling" /\ run[r].pc \in Cleaning
        /\ active' = active /\ persisted' = {} /\ run[r] \in Run /\ link[r] \in Link
        /\ IF ~R.txOpen
             THEN Become(r, [R EXCEPT !.pc = "ending"], Ending(link[r]))
             ELSE IF link[r].client = "open"
               THEN Become(r, [R EXCEPT !.pc = "rollingBack"], Sending(link[r], "rollback"))
               ELSE Become(r, [R EXCEPT !.pc = "forcing"], link[r])
    BY Current DEF Settle, Cleaning
  <1>2. ASSUME NEW pc \in {"ending", "rollingBack", "forcing"}
        PROVE  LET Q == [R EXCEPT !.pc = pc] IN
               /\ Q \in Run /\ Q.pc \in Cleaning /\ Q.oids = run[r].oids /\ Q.todo = run[r].todo
               /\ Q.runner = run[r].runner /\ Q.aborted = run[r].aborted
               /\ Q.tests = run[r].tests
    <2>1. R \in Run
      <3>1. (run[r].txOpen /\ run[r].cancellation # "forced") \in BOOLEAN
        OBVIOUS
      <3> QED BY <1>1, <3>1 DEF Run
    <2>2. /\ R.oids = run[r].oids /\ R.todo = run[r].todo /\ R.runner = run[r].runner
          /\ R.aborted = run[r].aborted /\ R.tests = run[r].tests
      BY <1>1 DEF Run
    <2> HIDE DEF R
    <2> QED BY <2>1, <2>2 DEF Run, Cleaning
  <1>3. ASSUME NEW pc \in {"ending", "rollingBack", "forcing"}, NEW L \in Link, CalmWire(L),
               CallbackOK(run[r].tests, L.wire), L.instrumented = link[r].instrumented,
               L.locks = link[r].locks, Become(r, [R EXCEPT !.pc = pc], L)
        PROVE  CoverageInv'
    <2> DEFINE Q == [R EXCEPT !.pc = pc]
    <2>1. /\ Q \in Run /\ Q.pc \in Cleaning /\ Q.oids = run[r].oids /\ Q.todo = run[r].todo
          /\ Q.runner = run[r].runner /\ Q.aborted = run[r].aborted
          /\ Q.tests = run[r].tests
      BY <1>2
    <2>2. Become(r, Q, L)
      BY <1>3
    <2> HIDE DEF Q
    <2> QED BY <1>1, <1>3, <2>1, <2>2, CleaningCalm, CleanupStep
  <1>4. CASE Become(r, [R EXCEPT !.pc = "ending"], Ending(link[r]))
    <2> HIDE DEF R
    <2> QED BY <1>1, <1>3, <1>4, CleaningCalm
  <1>5. CASE /\ link[r].client = "open"
             /\ Become(r, [R EXCEPT !.pc = "rollingBack"], Sending(link[r], "rollback"))
    <2>1. /\ Sending(link[r], "rollback") \in Link
          /\ Sending(link[r], "rollback").locks = link[r].locks
          /\ Sending(link[r], "rollback").instrumented = link[r].instrumented
          /\ CalmWire(Sending(link[r], "rollback"))
          /\ CallbackOK(run[r].tests, Sending(link[r], "rollback").wire)
      BY <1>1, <1>5, CleaningCalm, SendingLink, SendingCalm, SendingCallback DEF Statements
    <2> HIDE DEF R
    <2> QED BY <1>3, <1>5, <2>1
  <1>6. CASE Become(r, [R EXCEPT !.pc = "forcing"], link[r])
    <2> HIDE DEF R
    <2> QED BY <1>1, <1>3, <1>6, CleaningCalm
  <1> QED BY <1>1, <1>4, <1>5, <1>6

\* What the ROLLBACK has left behind it, and its run.
LEMMA RollbackKeepsInv ==
  ASSUME CoverageInv, NEW r \in Runs, RollbackAnswered(r)
  PROVE  CoverageInv'
  <1> DEFINE over == OutsideTransaction(Answered(link[r]), "idle")
  <1>1. /\ Executing(r, "rollback") /\ active' = active /\ persisted' = {}
        /\ run[r] \in Run
        /\ TestsOK(run[r], link[r]) /\ LocksOK(run[r], link[r])
    BY Current DEF RollbackAnswered
  <1>2. /\ run[r].pc \notin OwnStatements /\ run[r].pc \notin Silent /\ run[r].pc # "testing"
        /\ Answered(link[r]) \in Link /\ CalmWire(Answered(link[r]))
        /\ CallbackOK(run[r].tests, Answered(link[r]).wire)
        /\ \A i \in DOMAIN Answered(link[r]).wire : Answered(link[r]).wire[i] # "test"
    BY <1>1, ForeignAnswered
  <1>3. /\ over \in Link /\ over.wire = Answered(link[r]).wire
        /\ over.client = Answered(link[r]).client
        /\ over.pg = "idle" /\ over.locks = {} /\ over.instrumented = {}
    BY <1>2 DEF OutsideTransaction, Link
  <1> HIDE DEF over
  <1>4. CalmWire(over) /\ CallbackOK(run[r].tests, over.wire)
    BY <1>2, <1>3 DEF CalmWire
  <1>5. CASE run[r].pc = "rollingBack" /\ Become(r, [run[r] EXCEPT !.txOpen = FALSE, !.pc = "ending"],
                                                 Ending(over))
    <2> DEFINE R == [run[r] EXCEPT !.txOpen = FALSE, !.pc = "ending"]
    <2>1. /\ R \in Run /\ R.pc = "ending" /\ R.oids = run[r].oids /\ R.todo = run[r].todo
          /\ R.runner = run[r].runner /\ R.aborted = run[r].aborted /\ R.tests = run[r].tests
      BY <1>1 DEF Run
    <2>2. Become(r, R, Ending(over))
      BY <1>5
    <2> HIDE DEF R
    <2>3. /\ Ending(over) \in Link /\ Ending(over).wire = over.wire /\ Ending(over).pg = over.pg
          /\ Ending(over).locks = over.locks /\ Ending(over).instrumented = over.instrumented
          /\ Ending(over).client = over.client \/ Ending(over).client = "ending"
      BY <1>3, EndingLink
    <2>4. CalmWire(Ending(over))
      BY <1>4, <2>3 DEF CalmWire
    <2> QED BY <1>1, <1>3, <1>4, <1>5, <2>1, <2>2, <2>3, <2>4, CleanupStep DEF Cleaning
  <1>6. CASE Become(r, run[r], over)
    <2>1. run[r].pc \notin InTransaction
      BY <1>2 DEF InTransaction, OwnStatements, Silent
    <2>2. RunOK(run[r], over)
      BY <1>1, <1>2, <1>3, <1>4, <2>1, OutsideOK DEF TestsOK, LocksOK
    <2>3. SameTargets(r, run[r])
      BY DEF SameTargets
    <2> QED BY <1>1, <1>3, <1>6, <2>2, <2>3, PlainRunStep
  <1> QED BY <1>5, <1>6 DEF RollbackAnswered, over

LEMMA ForceKeepsInv ==
  ASSUME CoverageInv, NEW r \in Runs,
         RollbackTimesOut(r) \/ ForceTerminate(r) \/ ForceDisconnect(r)
  PROVE  CoverageInv'
  <1>1. /\ active' = active /\ persisted' = {} /\ run[r] \in Run /\ link[r] \in Link
        /\ run[r].pc \in Cleaning
    BY Current DEF RollbackTimesOut, ForceTerminate, ForceDisconnect, Cleaning
  <1>2. ASSUME NEW open \in BOOLEAN, NEW pc \in Cleaning, NEW R0 \in Run
        PROVE  LET R == [R0 EXCEPT !.txOpen = open, !.pc = pc] IN
               /\ R \in Run /\ R.pc = pc /\ R.oids = R0.oids /\ R.todo = R0.todo
               /\ R.runner = R0.runner /\ R.aborted = R0.aborted /\ R.tests = R0.tests
    BY DEF Run, Cleaning
  <1>3. ASSUME NEW open \in BOOLEAN, NEW pc \in Cleaning, NEW L \in {link[r], Ending(link[r])},
               Become(r, [run[r] EXCEPT !.txOpen = open, !.pc = pc], L)
        PROVE  CoverageInv'
    <2> DEFINE R == [run[r] EXCEPT !.txOpen = open, !.pc = pc]
    <2>1. /\ R \in Run /\ R.pc = pc /\ R.oids = run[r].oids /\ R.todo = run[r].todo
          /\ R.runner = run[r].runner /\ R.aborted = run[r].aborted /\ R.tests = run[r].tests
      BY <1>1, <1>3 DEF Run, Cleaning
    <2>2. Become(r, R, L)
      BY <1>3
    <2> HIDE DEF R
    <2> QED BY <1>1, <1>3, <2>1, <2>2, CleaningCalm, CleanupStep
  <1>4. ASSUME NEW pc \in Cleaning
        PROVE  [run[r] EXCEPT !.pc = pc] = [run[r] EXCEPT !.txOpen = run[r].txOpen, !.pc = pc]
               /\ run[r].txOpen \in BOOLEAN
    BY <1>1 DEF Run
  <1>5. CASE RollbackTimesOut(r)
    <2>1. Become(r, [run[r] EXCEPT !.pc = "forcing"], link[r])
      BY <1>5 DEF RollbackTimesOut
    <2> QED BY <1>3, <1>4, <2>1 DEF Cleaning
  <1>6. CASE ForceDisconnect(r)
    <2>1. \/ Become(r, [run[r] EXCEPT !.txOpen = FALSE, !.pc = "ending"], link[r])
          \/ Become(r, [run[r] EXCEPT !.pc = "ending"], link[r])
      BY <1>6 DEF ForceDisconnect
    <2> QED BY <1>3, <1>4, <2>1 DEF Cleaning
  <1>7. CASE ForceTerminate(r)
    <2>1. CASE Become(r, [run[r] EXCEPT !.pc = "disconnecting"], Ending(link[r]))
      BY <1>3, <1>4, <2>1 DEF Cleaning
    <2>2. CASE Become(r, [Rejected(run[r]) EXCEPT !.txOpen = FALSE, !.pc = "ending"],
                         Severed(link[r]))
               /\ run[r].pc = "forcing"
      <3> DEFINE R == [Rejected(run[r]) EXCEPT !.txOpen = FALSE, !.pc = "ending"]
      <3>1. /\ RunOK(Rejected(run[r]), Severed(link[r])) /\ SameTargets(r, Rejected(run[r]))
            /\ Severed(link[r]).locks = {} /\ Rejected(run[r]) \in Run
            /\ Rejected(run[r]).tests = "off" /\ Rejected(run[r]).pc = "forcing"
        BY <2>2, SeveredOK DEF RunOK
      <3>2. /\ R \in Run /\ R.pc = "ending" /\ R.oids = Rejected(run[r]).oids
            /\ R.todo = Rejected(run[r]).todo /\ R.runner = Rejected(run[r]).runner
            /\ R.tests = "off"
        BY <1>2, <3>1 DEF Cleaning
      <3>3. Become(r, R, Severed(link[r]))
        BY <2>2
      <3> HIDE DEF R
      <3>4. /\ Severed(link[r]) \in Link /\ Severed(link[r]).instrumented = {}
            /\ CalmWire(Severed(link[r])) /\ CallbackOK("off", Severed(link[r]).wire)
            /\ R.todo \subseteq R.oids
        BY <1>1, <3>1, <3>2, SeveredLink, EmptyCalm DEF RunOK, LocksOK
      <3>5. RunOK(R, Severed(link[r]))
        BY <3>2, <3>4, CleaningOK DEF Cleaning
      <3>6. SameTargets(r, R)
        BY <2>2, <3>1, <3>2 DEF SameTargets
      <3> QED BY <1>1, <3>1, <3>3, <3>5, <3>6, PlainRunStep
    <2> QED BY <1>7, <2>1, <2>2 DEF ForceTerminate
  <1> QED BY <1>5, <1>6, <1>7

LEMMA FailsKeepsInv ==
  ASSUME CoverageInv, NEW r \in Runs, StatementFails(r)
  PROVE  CoverageInv'
  <1> DEFINE st == Head(link[r].wire)
             C == [run[r] EXCEPT !.tests = IF st = "test" THEN "broken"
                                           ELSE IF st = "restore" THEN "ready" ELSE @]
             L == Answered(link[r])
  <1>1. /\ Executing(r, st) /\ active' = active /\ persisted' = {}
        /\ run[r] \in Run /\ link[r] \in Link /\ link[r].wire # <<>>
        /\ IF st \in OwnStatements THEN Become(r, Failing(C), L)
           ELSE IF st = "rollback" /\ C.pc = "rollingBack"
             THEN Become(r, [C EXCEPT !.pc = "forcing"], L)
             ELSE Become(r, C, L)
    BY Current DEF StatementFails
  <1>2. /\ C \in Run /\ C.pc = run[r].pc /\ C.oids = run[r].oids /\ C.todo = run[r].todo
        /\ C.runner = run[r].runner /\ C.aborted = run[r].aborted
        /\ C.tests = IF st = "test" THEN "broken"
                     ELSE IF st = "restore" THEN "ready" ELSE run[r].tests
    BY <1>1 DEF Run
  <1>3. st \in Statements
    BY <1>1, EmptySeq, HeadTailProperties DEF Link, Statements
  <1> HIDE DEF st, C
  <1>4. SameTargets(r, C)
    BY <1>2 DEF SameTargets
  <1>5. CASE st \in OwnStatements
    <2>1. /\ run[r].pc \in OwnStatements /\ Answered(link[r]) \in Link
          /\ Answered(link[r]).wire = <<>> /\ Answered(link[r]).locks = link[r].locks
          /\ Answered(link[r]).instrumented = link[r].instrumented
      BY <1>1, <1>5, OwnExecuting
    <2>2. C.tests = run[r].tests
      BY <1>2, <1>5 DEF OwnStatements
    <2>3. CalmWire(Answered(link[r])) /\ CallbackOK(C.tests, Answered(link[r]).wire)
      BY <2>1, EmptyCalm
    <2>4. Become(r, Failing(C), Answered(link[r]))
      BY <1>1, <1>5
    <2> HIDE DEF L
    <2> QED BY <1>1, <1>2, <1>4, <2>1, <2>2, <2>3, <2>4, OwnRun, FailStep
  <1>6. CASE st \in {"test", "restore"}
    <2>1. Become(r, C, Answered(link[r]))
      BY <1>1, <1>6 DEF OwnStatements
    <2>2. /\ run[r].tests # "off" /\ C.tests \in {"broken", "ready"}
          /\ Answered(link[r]) \in Link /\ CalmWire(Answered(link[r]))
          /\ CallbackOK(C.tests, Answered(link[r]).wire)
          /\ run[r].pc = "testing" =>
               \A i \in DOMAIN Answered(link[r]).wire : Answered(link[r]).wire[i] # "rollback"
          /\ Answered(link[r]).client = link[r].client /\ Answered(link[r]).pg = link[r].pg
          /\ Answered(link[r]).locks = link[r].locks
          /\ Answered(link[r]).instrumented = link[r].instrumented
      BY <1>1, <1>2, <1>6, ForeignAnswered
    <2> HIDE DEF L
    <2> QED BY <1>1, <1>2, <2>1, <2>2, TestsStep
  <1>7. CASE st = "rollback"
    <2>1. /\ run[r].pc \notin OwnStatements /\ run[r].pc \notin Silent /\ run[r].pc # "testing"
          /\ Answered(link[r]) \in Link /\ CalmWire(Answered(link[r]))
          /\ CallbackOK(run[r].tests, Answered(link[r]).wire)
          /\ Answered(link[r]).locks = link[r].locks
          /\ Answered(link[r]).instrumented = link[r].instrumented
          /\ link[r].instrumented \subseteq link[r].locks /\ run[r].todo \subseteq run[r].oids
          /\ run[r].tests # "checking"
          /\ run[r].tests # "off" => run[r].aborted /\ run[r].pc \in Cleaning
      BY <1>1, <1>7, ForeignAnswered, Current DEF LocksOK, TestsOK
    <2>2. st \notin OwnStatements /\ C.tests = run[r].tests
      BY <1>2, <1>7 DEF OwnStatements
    <2>3. CASE run[r].pc = "rollingBack"
      <3> DEFINE R == [C EXCEPT !.pc = "forcing"]
      <3>1. Become(r, R, Answered(link[r]))
        BY <1>1, <1>2, <1>7, <2>2, <2>3
      <3>2. /\ R \in Run /\ R.pc = "forcing" /\ R.oids = C.oids /\ R.todo = C.todo
            /\ R.runner = C.runner /\ R.aborted = C.aborted /\ R.tests = C.tests
        BY <1>2 DEF Run
      <3> HIDE DEF R, L
      <3> QED BY <1>1, <1>2, <2>1, <2>2, <2>3, <3>1, <3>2, CleanupStep DEF Cleaning
    <2>4. CASE run[r].pc # "rollingBack"
      <3>1. Become(r, C, Answered(link[r]))
        BY <1>1, <1>2, <2>2, <2>4
      <3>2. run[r].pc \notin InTransaction
        BY <2>1 DEF InTransaction, OwnStatements, Silent
      <3> HIDE DEF L
      <3>3. RunOK(C, Answered(link[r]))
        BY <1>2, <2>1, <2>2, <3>2, OutsideOK
      <3> QED BY <1>1, <1>4, <2>1, <3>1, <3>3, PlainRunStep
    <2> QED BY <2>3, <2>4
  <1> QED BY <1>3, <1>5, <1>6, <1>7 DEF Statements

-----------------------------------------------------------------------------
(* Theorems *)

LEMMA InitInv == NoneAssumption /\ Init => CoverageInv
  <1> SUFFICES ASSUME NoneAssumption, Init PROVE CoverageInv
    OBVIOUS
  <1>1. /\ IdleRun \in Run /\ IdleRun.pc = "idle" /\ IdleRun.runner = None /\ IdleRun.oids = {}
        /\ IdleRun.todo = {} /\ IdleRun.tests = "off"
    BY DEF IdleRun, Run
  <1>2. /\ run \in [Runs -> Run] /\ link \in [Runs -> Link] /\ persisted = {}
        /\ \A r \in Runs : run[r] = IdleRun /\ link[r] = NoLink
    BY <1>1, NoLinkType DEF Init
  <1>3. RunOK(IdleRun, NoLink)
    BY <1>1, NoLinkType, EmptyCalm, OutsideOK DEF OwnStatements, InTransaction
  <1>4. LocksApart
    BY <1>2, NoLinkType DEF LocksApart
  <1>5. TargetsOK
    <2>1. /\ active \in [Runners -> SUBSET Routines]
          /\ \A u \in Runners : active[u] = {}
      BY DEF Init
    <2>2. \A r \in Runs : run[r].pc # "idle" <=> run[r].runner \in Runners
      BY <1>1, <1>2 DEF NoneAssumption
    <2> QED BY <1>1, <1>2, <2>1, <2>2 DEF TargetsOK
  <1> QED BY <1>2, <1>3, <1>4, <1>5 DEF CoverageInv

LEMMA NextKeepsInv == NoneAssumption /\ CoverageInv /\ [Next]_vars => CoverageInv'
  <1> SUFFICES ASSUME NoneAssumption, CoverageInv, [Next]_vars PROVE CoverageInv'
    OBVIOUS
  <1>1. CASE UNCHANGED vars
    BY <1>1 DEF vars, CoverageInv, LocksApart, TargetsOK, RunOK, WireOK, TestsOK, LocksOK,
                CallbackOK
  <1>2. CASE Stopped
    BY <1>1, <1>2 DEF Stopped
  <1>3. ASSUME NEW r \in Runs, Request(r)
        PROVE  CoverageInv'
    <2>1. CASE \E u \in Runners, oids \in SUBSET Routines : Admit(r, u, oids)
      BY <2>1, AdmitKeepsInv
    <2>2. CASE Abort(r)
      BY <2>2, AbortKeepsInv
    <2> QED BY <1>3, <2>1, <2>2 DEF Request
  <1>4. ASSUME NEW r \in Runs, Answer(r)
        PROVE  CoverageInv'
    BY <1>4, PidKeepsInv, PgTapKeepsInv, BeginKeepsInv, LockKeepsInv, RoutineKeepsInv, DdlKeepsInv
       DEF Answer
  <1>5. ASSUME NEW r \in Runs, Cleanup(r)
        PROVE  CoverageInv'
    BY <1>5, SettleKeepsInv, RollbackKeepsInv, ForceKeepsInv, FinishKeepsInv DEF Cleanup
  <1> QED BY <1>1, <1>2, <1>3, <1>4, <1>5, OpeningKeepsInv, AnalysisKeepsInv, CallbackKeepsInv,
             LadderKeepsInv, FailsKeepsInv, ClientKeepsInv, BackendKeepsInv DEF Next

LEMMA CoverageInvariant == Spec => []CoverageInv
  BY InitInv, NextKeepsInv, NoneAssumption, PTL DEF Spec

\* Every run keeps its type, awaits its own statement only while nothing else is on the wire,
\* and is what its runner's active targets are made of.
THEOREM CoverageTypeCorrect == Spec => []CoverageTypeOK
  <1>1. CoverageInv => CoverageTypeOK
    <2> SUFFICES ASSUME CoverageInv PROVE CoverageTypeOK
      OBVIOUS
    <2>1. \A r \in Runs : \A i \in DOMAIN link[r].wire :
            link[r].wire[i] \in OwnStatements => link[r].wire = <<run[r].pc>>
      BY Current DEF WireOK
    <2>2. active = [u \in Runners |->
            UNION {run[r].oids : r \in {q \in Runs : run[q].runner = u /\ run[q].pc # "done"}}]
      <3> DEFINE Held(u) == UNION {run[r].oids :
                                     r \in {q \in Runs : run[q].runner = u /\ run[q].pc # "done"}}
      <3>1. \A r \in Runs : run[r].oids \subseteq Routines
        BY DEF CoverageInv, Run
      <3>2. active \in [Runners -> SUBSET Routines]
        BY DEF CoverageInv, TargetsOK
      <3>3. ASSUME NEW u \in Runners PROVE active[u] = Held(u)
        <4>1. \A p \in Routines : p \in active[u] <=>
                \E r \in Runs : run[r].runner = u /\ run[r].pc # "done" /\ p \in run[r].oids
          BY DEF CoverageInv, TargetsOK
        <4>2. \A p : p \in Held(u) <=>
                \E r \in Runs : run[r].runner = u /\ run[r].pc # "done" /\ p \in run[r].oids
          OBVIOUS
        <4>3. \A p : p \in active[u] <=> p \in Held(u)
          BY <3>1, <3>2, <4>1, <4>2
        <4> QED BY <4>3
      <3>4. active = [u \in Runners |-> Held(u)]
        BY <3>2, <3>3
      <3> QED BY <3>4
    <2> QED BY <2>1, <2>2 DEF CoverageInv, CoverageTypeOK
  <1> QED BY <1>1, CoverageInvariant, PTL

\* Nothing of a run and nothing of the callback it leaves behind is committed.
THEOREM NothingCommitted == Spec => []NothingPersists
  <1>1. CoverageInv => NothingPersists
    BY DEF CoverageInv, NothingPersists
  <1> QED BY <1>1, CoverageInvariant, PTL

\* Two transactions never hold an instrumented definition of one routine.
THEOREM OneTransactionInstruments == Spec => []OneInstrumenter
  <1>1. CoverageInv => OneInstrumenter
    <2> SUFFICES ASSUME CoverageInv, NEW r \in Runs, NEW q \in Runs, r # q
                 PROVE  link[r].instrumented \cap link[q].instrumented = {}
      BY DEF OneInstrumenter
    <2>1. link[r].instrumented \subseteq link[r].locks /\ link[q].instrumented \subseteq link[q].locks
      BY Current DEF LocksOK
    <2>2. link[r].locks \cap link[q].locks = {}
      BY DEF CoverageInv, LocksApart
    <2> QED BY <2>1, <2>2
  <1> QED BY <1>1, CoverageInvariant, PTL
=============================================================================
