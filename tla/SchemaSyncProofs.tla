--------------------------- MODULE SchemaSyncProofs ---------------------------
(***************************************************************************)
(* What the index shows and what Schema Sync still owes it, for any number *)
(* of DDL transactions, requests and faults: proofs about SchemaSync.      *)
(***************************************************************************)
EXTENDS SchemaSync, SequenceTheorems, WellFoundedInduction, TLAPS

\* The phases in which the first run holds the catalog it is to publish.
Holding(run) == \/ run.phase \in {"connecting", "replacing", "symbols"}
                \/ run.phase = "reading" /\ ~run.full

\* Only the first run has started; but for DDL synchronization every run reads the whole catalog.
Waiting ==
  /\ \A i \in 2..Len(runs) : runs[i].phase = "queued"
  /\ \A i \in 1..Len(runs) : runs[i].kind # "ddl" => runs[i].full

\* What is shown or published has been committed.
Committed ==
  /\ registry = None \/ registry \subseteq 1..ddl
  /\ \A i \in 1..Len(runs) : runs[i].read \subseteq 1..ddl /\ runs[i].objects \subseteq 1..ddl

\* What the first run is to publish keeps what the registry has.
Grows == runs # <<>> /\ Holding(First) => registry = None \/ registry \subseteq First.read

\* While it reads its symbols the engine holds what the first run is to publish.
HoldsFirst == At("symbols") => content \in {First.read, Unknown}

RunsInv == Waiting /\ Committed /\ Grows /\ HoldsFirst /\ EngineHoldsRegistry

-----------------------------------------------------------------------------
\* Where the first operation of the lifecycle chain is.
HeadAt(chain) == IF chain = <<>> THEN "none" ELSE chain[1].at

\* The operations but the first wait.
Lined(chain, closing) ==
  /\ chain \in Seq(Operation)
  /\ \A i \in 2..Len(chain) : chain[i].at = "queued"
  /\ \A i \in 1..Len(chain) : chain[i].op = "dispose" => closing

\* Refreshes bring what was committed; a flush belongs to a listener that is heard, and the first
\* operation of the lifecycle waits for any other, of which there is one.
Sound(chain, at, listed, committed) ==
  /\ chain \in Seq(Refresh)
  /\ \A i \in 1..Len(chain) :
       /\ chain[i].objects \subseteq committed
       /\ chain[i].debt => chain[i].full
       /\ chain[i].from = "flush" => listed
       /\ chain[i].from \in {"start", "reconcile"} => at = "refreshing"
  /\ \A i, j \in 1..Len(chain) :
       chain[i].from \in {"start", "reconcile"} /\ chain[j].from \in {"start", "reconcile"} => i = j

OpsInv == Lined(ops, disposed)
RefreshesInv == Sound(refreshes, HeadAt(ops), Listed, 1..ddl)

\* Nothing has reached a listener that is not heard yet, and a removed one left nothing behind.
Unheard ==
  /\ ~Listed => wire = {} /\ listener.notes = {} /\ listener.groups = {} /\ ~listener.timer
  /\ ~listener.flushing => listener.groups = {}
  /\ HeadAt(ops) = "starting" => ~Listed
  /\ HeadAt(ops) \in {"removing", "settling"} => heard = {} /\ ~Listed
  /\ UNION {wire, heard, listener.notes, listener.groups} \subseteq 1..ddl

\* The run of DDL synchronization is that of the refresh under way, which waits for its answer.
Linked ==
  /\ answer # "none" => RefreshAt("indexing") /\ (runs = <<>> \/ First.phase = "queued")
  /\ \A i \in 1..Len(runs) : runs[i].kind = "ddl" =>
       /\ RefreshAt("indexing") /\ answer = "none"
       /\ runs[i].objects = refreshes[1].objects
       /\ refreshes[1].debt => runs[i].full
  /\ \A i, j \in 1..Len(runs) : runs[i].kind = "ddl" /\ runs[j].kind = "ddl" => i = j

\* The objects a notification named are in what is published for it.
Named ==
  /\ runs # <<>> /\ Holding(First) /\ First.kind = "ddl" => First.objects \subseteq First.read
  /\ answer = "ok" => refreshes[1].objects \subseteq registry

SyncInv == OpsInv /\ RefreshesInv /\ Unheard /\ Linked /\ Named

-----------------------------------------------------------------------------
\* On its way to a refresh whose failure is not ignored.
Kept(d) ==
  \/ d \in wire \cup listener.notes \cup listener.groups
  \/ \E i \in 1..Len(refreshes) :
       refreshes[i].from = "flush" /\ d \in refreshes[i].objects /\ ~refreshes[i].ok

\* Nothing heard is missing from this catalog, but for what is on its way.
Reflects(catalog) == \A d \in heard : disposed \/ d \in catalog \/ Kept(d)

Paying == RefreshAt("indexing") /\ refreshes[1].debt

\* What is missing is owed, and the refresh that pays the debt brings all of it.
Owed ==
  /\ registry # None => debt \/ Reflects(registry)
  /\ runs # <<>> /\ Holding(First) => debt \/ Reflects(First.read)
  /\ Paying /\ runs # <<>> /\ First.kind = "ddl" /\ Holding(First) => Reflects(First.read)
  /\ Paying /\ answer = "ok" => Reflects(registry)

SyncIInv == SyncTypeOK /\ RunsInv /\ SyncInv /\ Owed

-----------------------------------------------------------------------------
(* Chains *)

\* The first of a chain goes on, the others wait.
LEMMA HeadMove ==
  ASSUME NEW S, NEW q \in Seq(S), q # <<>>, NEW e \in S
  PROVE  LET p == <<e>> \o Tail(q)
         IN  /\ p \in Seq(S) /\ p # <<>>
             /\ Len(p) = Len(q) /\ Len(q) \in Nat \ {0} /\ q[1] \in S
             /\ p[1] = e /\ \A i \in 2..Len(q) : p[i] = q[i]
  <1> DEFINE p == <<e>> \o Tail(q)
  <1>1. Len(q) \in Nat \ {0} /\ q[1] \in S
    BY EmptySeq, ElementOfSeq
  <1>2. /\ Tail(q) \in Seq(S) /\ Len(Tail(q)) = Len(q) - 1
        /\ \A i \in 1..Len(Tail(q)) : Tail(q)[i] = q[i + 1]
    BY HeadTailProperties
  <1>3. <<e>> \in Seq(S) /\ Len(<<e>>) = 1 /\ <<e>>[1] = e
    OBVIOUS
  <1>4. /\ p \in Seq(S) /\ Len(p) = 1 + (Len(q) - 1)
        /\ \A i \in 1..(1 + (Len(q) - 1)) : p[i] = IF i <= 1 THEN <<e>>[i] ELSE Tail(q)[i - 1]
    <2> HIDE DEF p
    <2>1. /\ p \in Seq(S) /\ Len(p) = Len(<<e>>) + Len(Tail(q))
          /\ \A i \in 1..Len(<<e>>) + Len(Tail(q)) :
               p[i] = IF i <= Len(<<e>>) THEN <<e>>[i] ELSE Tail(q)[i - Len(<<e>>)]
      BY <1>2, <1>3, ConcatProperties DEF p
    <2> QED BY <2>1, <1>2, <1>3
  <1> HIDE DEF p
  <1>5. Len(p) = Len(q) /\ p # <<>> /\ p[1] = e
    BY <1>1, <1>3, <1>4, EmptySeq
  <1>6. ASSUME NEW i \in 2..Len(q) PROVE p[i] = q[i]
    <2>1. i \in 1..(1 + (Len(q) - 1)) /\ ~(i <= 1) /\ i - 1 \in 1..Len(Tail(q)) /\ (i - 1) + 1 = i
      BY <1>1, <1>2
    <2> QED BY <2>1, <1>2, <1>4
  <1> QED BY <1>1, <1>4, <1>5, <1>6 DEF p

\* The first of a chain has settled.
LEMMA TailMove ==
  ASSUME NEW S, NEW q \in Seq(S), q # <<>>
  PROVE  /\ Tail(q) \in Seq(S)
         /\ Len(q) \in Nat \ {0} /\ Len(Tail(q)) \in Nat /\ Len(Tail(q)) = Len(q) - 1
         /\ q[1] \in S
         /\ Tail(q) # <<>> => 2 \in 2..Len(q) /\ 1 \in 1..Len(Tail(q))
         /\ \A i \in 1..Len(Tail(q)) : i + 1 \in 2..Len(q) /\ Tail(q)[i] = q[i + 1]
  <1>1. Len(q) \in Nat \ {0} /\ q[1] \in S
    BY EmptySeq, ElementOfSeq
  <1>2. /\ Tail(q) \in Seq(S) /\ Len(Tail(q)) = Len(q) - 1
        /\ \A i \in 1..Len(Tail(q)) : Tail(q)[i] = q[i + 1]
    BY HeadTailProperties
  <1>3. Tail(q) # <<>> => Len(Tail(q)) \in Nat \ {0}
    BY <1>2, EmptySeq
  <1>4. Len(Tail(q)) \in Nat
    BY <1>2, LenProperties
  <1> QED BY <1>1, <1>2, <1>3, <1>4

\* Somebody joins the chain.
LEMMA AppendMove ==
  ASSUME NEW S, NEW q \in Seq(S), NEW e \in S
  PROVE  LET p == Append(q, e)
         IN  /\ p \in Seq(S) /\ p # <<>>
             /\ Len(q) \in Nat /\ Len(p) = Len(q) + 1
             /\ \A i \in 1..Len(q) : p[i] = q[i]
             /\ p[Len(q) + 1] = e
             /\ p[1] = IF q = <<>> THEN e ELSE q[1]
  <1> DEFINE p == Append(q, e)
  <1>1. /\ p \in Seq(S) /\ p # <<>> /\ Len(p) = Len(q) + 1
        /\ \A i \in 1..Len(q) : p[i] = q[i]
        /\ p[Len(q) + 1] = e
    BY AppendProperties
  <1>2. Len(q) \in Nat
    BY LenProperties
  <1>3. q = <<>> => Len(q) = 0
    BY EmptySeq
  <1>4. q # <<>> => Len(q) \in Nat \ {0}
    BY EmptySeq
  <1> HIDE DEF p
  <1>5. p[1] = IF q = <<>> THEN e ELSE q[1]
    BY <1>1, <1>2, <1>3, <1>4
  <1> QED BY <1>1, <1>2, <1>5 DEF p

\* A chain whose elements are marked.
LEMMA MarkMove ==
  ASSUME NEW S, NEW n \in Nat, NEW p \in [1..n -> S]
  PROVE  p \in Seq(S) /\ Len(p) = n /\ (p = <<>> <=> n = 0)
  <1>1. p \in Seq(S)
    BY SeqDef
  <1>2. Len(p) \in Nat /\ DOMAIN p = 1..Len(p) /\ DOMAIN p = 1..n
    BY <1>1, LenProperties
  <1>3. Len(p) = n
    BY <1>2
  <1>4. p = <<>> => Len(p) = 0
    BY EmptySeq
  <1>5. p # <<>> => Len(p) # 0
    BY <1>1, EmptySeq
  <1> QED BY <1>1, <1>3, <1>4, <1>5

\* Where the elements of a chain are.
LEMMA ChainIndex ==
  ASSUME NEW S, NEW q \in Seq(S)
  PROVE  /\ Len(q) \in Nat /\ \A i \in 1..Len(q) : q[i] \in S
         /\ q = <<>> <=> Len(q) = 0
         /\ q # <<>> => 1 \in 1..Len(q)
         /\ \A i \in 1..Len(q) : q # <<>> /\ (i = 1 \/ i \in 2..Len(q))
         /\ \A i \in 2..Len(q) : i \in 1..Len(q)
  <1>1. Len(q) \in Nat /\ \A i \in 1..Len(q) : q[i] \in S
    BY LenProperties, ElementOfSeq
  <1>2. q = <<>> <=> Len(q) = 0
    BY EmptySeq
  <1> QED BY <1>1, <1>2

\* The notification that is first is one of them.
LEMMA FirstOfSome ==
  ASSUME NEW T \in SUBSET Nat, T # {}
  PROVE  (CHOOSE d \in T : \A e \in T : d <= e) \in T
  <1>1. PICK x \in T : \A y \in T : ~(<<y, x>> \in OpToRel(<, Nat))
    BY NatLessThanWellFounded, WFMin
  <1>2. ASSUME NEW y \in T PROVE x <= y
    <2>1. x \in Nat /\ y \in Nat /\ ~(y < x)
      BY <1>1 DEF OpToRel
    <2> QED BY <2>1
  <1> QED BY <1>1, <1>2

-----------------------------------------------------------------------------
(* The chain of runs *)

\* A run that has at most been marked: superseded, cancelled, or told that its connection is gone.
Same(r, s) == /\ r.kind = s.kind /\ r.phase = s.phase /\ r.full = s.full
              /\ r.objects = s.objects /\ r.read = s.read

Stays(p, q) == /\ p \in Seq(Run) /\ Len(p) = Len(q)
               /\ \A i \in 1..Len(q) : Same(p[i], q[i])

Joins(p, q, run) == /\ p \in Seq(Run) /\ Len(p) = Len(q) + 1
                    /\ \A i \in 1..Len(q) : Same(p[i], q[i])
                    /\ p[Len(q) + 1] = run

GoesOn(p, q) == /\ p \in Seq(Run) /\ q # <<>> /\ Len(p) = Len(q)
                /\ \A i \in 2..Len(q) : Same(p[i], q[i])
                /\ p[1].kind = q[1].kind /\ p[1].objects = q[1].objects
                /\ (q[1].full => p[1].full) /\ p[1].phase # "queued"

Ends(outcome) == /\ runs # <<>> /\ runs' = Tail(runs) /\ runs' \in Seq(Run)
                 /\ answer' = IF First.kind = "ddl" THEN outcome ELSE "none"

\* What a run that fails comes to: it reads the whole catalog, or it ends.
Fallen == \/ /\ GoesOn(runs', runs) /\ runs'[1].phase = "reading" /\ runs'[1].full /\ runs'[1].read = {}
             /\ answer' = answer
          \/ Ends("failed")

LEMMA NewRunTypes ==
  ASSUME NEW kind \in {"manual", "refresh", "ddl"}, NEW full \in BOOLEAN, NEW objects \in Snapshot
  PROVE  /\ NewRun(kind, full, objects) \in Run
         /\ NewRun(kind, full, objects).kind = kind /\ NewRun(kind, full, objects).phase = "queued"
         /\ NewRun(kind, full, objects).full = full /\ NewRun(kind, full, objects).objects = objects
         /\ NewRun(kind, full, objects).read = {}
  BY DEF NewRun, Run, Snapshot

LEMMA UnchangedStays ==
  ASSUME NEW q \in Seq(Run)
  PROVE  Stays(q, q)
  BY DEF Stays, Same

LEMMA SupersededStays ==
  ASSUME NEW q \in Seq(Run)
  PROVE  Stays(Superseded(q), q)
  <1> DEFINE p == Superseded(q)
  <1>1. Len(q) \in Nat /\ \A i \in 1..Len(q) : q[i] \in Run
    BY ChainIndex
  <1>2. \A i \in 1..Len(q) : [q[i] EXCEPT !.current = FALSE] \in Run
                             /\ Same([q[i] EXCEPT !.current = FALSE], q[i])
    BY <1>1 DEF Run, Same
  <1>3. p \in [1..Len(q) -> Run]
    BY <1>2 DEF Superseded
  <1>4. p \in Seq(Run) /\ Len(p) = Len(q)
    BY <1>1, <1>3, MarkMove
  <1> QED BY <1>2, <1>4 DEF Stays, Superseded

LEMMA WithoutClientStays ==
  ASSUME NEW q \in Seq(Run)
  PROVE  Stays(WithoutClient(q), q)
  <1> DEFINE p == WithoutClient(q)
  <1>1. Len(q) \in Nat /\ \A i \in 1..Len(q) : q[i] \in Run
    BY ChainIndex
  <1>2. \A i \in 1..Len(q) : [q[i] EXCEPT !.lost = TRUE] \in Run /\ Same([q[i] EXCEPT !.lost = TRUE], q[i])
    BY <1>1 DEF Run, Same
  <1>3. p \in [1..Len(q) -> Run] /\ \A i \in 1..Len(q) : p[i] = q[i] \/ p[i] = [q[i] EXCEPT !.lost = TRUE]
    BY <1>1, <1>2 DEF WithoutClient
  <1>4. p \in Seq(Run) /\ Len(p) = Len(q)
    BY <1>1, <1>3, MarkMove
  <1> HIDE DEF p
  <1>5. \A i \in 1..Len(q) : Same(p[i], q[i])
    BY <1>2, <1>3 DEF Same
  <1> QED BY <1>4, <1>5 DEF Stays, p

LEMMA SessionClosesStays ==
  ASSUME runs \in Seq(Run), SessionCloses
  PROVE  Stays(runs', runs)
  <1>1. Len(runs) \in Nat /\ \A i \in 1..Len(runs) : runs[i] \in Run
    BY ChainIndex
  <1>2. runs' \in [1..Len(runs) -> Run] /\ \A i \in 1..Len(runs) : Same(runs'[i], runs[i])
    <2> DEFINE lost(r) == \/ r.lost
                          \/ r.phase \in {"connecting", "replacing", "symbols", "restoring"}
                          \/ r.phase = "reading" /\ ~r.full
               retry(r) == IF r.retry = "armed" THEN "due" ELSE r.retry
               closed(r) == [r EXCEPT !.lost = lost(r), !.retry = retry(r)]
    <2>1. ASSUME NEW r \in Run PROVE closed(r) \in Run /\ Same(closed(r), r)
      <3>1. lost(r) \in BOOLEAN /\ retry(r) \in {"never", "armed", "due"}
        BY DEF Run
      <3> HIDE DEF lost, retry
      <3> QED BY <3>1 DEF Run, Same
    <2>2. runs' = [i \in 1..Len(runs) |-> closed(runs[i])]
      BY DEF SessionCloses
    <2> HIDE DEF closed
    <2> QED BY <1>1, <2>1, <2>2
  <1>3. runs' \in Seq(Run) /\ Len(runs') = Len(runs)
    BY <1>1, <1>2, MarkMove
  <1> QED BY <1>2, <1>3 DEF Stays

LEMMA AppendJoins ==
  ASSUME NEW q \in Seq(Run), NEW p, Stays(p, q), NEW run \in Run
  PROVE  Joins(Append(p, run), q, run)
  <1>1. p \in Seq(Run) /\ Len(p) = Len(q) /\ \A i \in 1..Len(q) : Same(p[i], q[i])
    BY DEF Stays
  <1>2. /\ Append(p, run) \in Seq(Run) /\ Len(Append(p, run)) = Len(q) + 1
        /\ \A i \in 1..Len(q) : Append(p, run)[i] = p[i]
        /\ Append(p, run)[Len(q) + 1] = run
    BY <1>1, AppendMove
  <1> QED BY <1>1, <1>2 DEF Joins

\* The first run goes on, and those behind it are left alone or superseded.
LEMMA PutGoesOn ==
  ASSUME NEW q \in Seq(Run), q # <<>>, NEW run \in Run,
         run.kind = q[1].kind, run.objects = q[1].objects, q[1].full => run.full, run.phase # "queued",
         NEW rest, rest = Tail(q) \/ rest = Superseded(Tail(q))
  PROVE  /\ GoesOn(<<run>> \o rest, q)
         /\ (<<run>> \o rest)[1] = run
  <1>1. CASE rest = Tail(q)
    <2> DEFINE p == <<run>> \o Tail(q)
    <2>1. /\ p \in Seq(Run) /\ Len(p) = Len(q) /\ p[1] = run
          /\ \A i \in 2..Len(q) : p[i] = q[i]
      BY HeadMove
    <2> HIDE DEF p
    <2>2. GoesOn(p, q)
      BY <2>1 DEF GoesOn, Same
    <2> QED BY <1>1, <2>1, <2>2 DEF p
  <1>2. CASE rest = Superseded(Tail(q))
    <2>1. /\ Tail(q) \in Seq(Run) /\ Len(q) \in Nat \ {0} /\ Len(Tail(q)) = Len(q) - 1
          /\ \A i \in 1..Len(Tail(q)) : Tail(q)[i] = q[i + 1]
      BY TailMove
    <2>2. /\ rest \in Seq(Run) /\ Len(rest) = Len(Tail(q))
          /\ \A i \in 1..Len(Tail(q)) : Same(rest[i], Tail(q)[i])
      BY <1>2, <2>1, SupersededStays DEF Stays
    <2> DEFINE p == <<run>> \o rest
    <2>3. <<run>> \in Seq(Run) /\ Len(<<run>>) = 1 /\ <<run>>[1] = run
      OBVIOUS
    <2>4. /\ p \in Seq(Run) /\ Len(p) = Len(<<run>>) + Len(rest)
          /\ \A i \in 1..Len(<<run>>) + Len(rest) :
               p[i] = IF i <= Len(<<run>>) THEN <<run>>[i] ELSE rest[i - Len(<<run>>)]
      <3> HIDE DEF p
      <3> QED BY <2>2, <2>3, ConcatProperties DEF p
    <2> HIDE DEF p
    <2>5. Len(p) = Len(q) /\ p[1] = run
      BY <2>1, <2>2, <2>3, <2>4
    <2>6. ASSUME NEW i \in 2..Len(q) PROVE Same(p[i], q[i])
      <3>1. i \in 1..1 + Len(rest) /\ ~(i <= 1) /\ i - 1 \in 1..Len(Tail(q)) /\ (i - 1) + 1 = i
        BY <2>1, <2>2
      <3>2. p[i] = rest[i - 1]
        BY <3>1, <2>3, <2>4
      <3> QED BY <3>1, <3>2, <2>1, <2>2
    <2> QED BY <2>4, <2>5, <2>6 DEF GoesOn, p
  <1> QED BY <1>1, <1>2

-----------------------------------------------------------------------------
(* What a step of the first run does *)

\* The first run is one.
LEMMA FirstIsRun ==
  ASSUME IndexTypeOK, runs # <<>>
  PROVE  First \in Run /\ 1 \in 1..Len(runs) /\ Tail(runs) \in Seq(Run)
  BY ChainIndex, TailMove DEF IndexTypeOK, First

LEMMA ReadingTypes ==
  ASSUME NEW run \in Run
  PROVE  /\ Reading(run) \in Run /\ Reading(run).phase = "reading" /\ Reading(run).full
         /\ Reading(run).read = {}
         /\ Reading(run).kind = run.kind /\ Reading(run).objects = run.objects
         /\ [Reading(run) EXCEPT !.current = TRUE] \in Run
         /\ [Reading(run) EXCEPT !.current = TRUE].phase = "reading"
         /\ [Reading(run) EXCEPT !.current = TRUE].full
         /\ [Reading(run) EXCEPT !.current = TRUE].read = {}
         /\ [Reading(run) EXCEPT !.current = TRUE].kind = run.kind
         /\ [Reading(run) EXCEPT !.current = TRUE].objects = run.objects
  BY DEF Reading, Run, Snapshot

\* A run that fails.
LEMMA FailRunFalls ==
  ASSUME IndexTypeOK, runs # <<>>, FailRun
  PROVE  /\ Fallen /\ runs' \in Seq(Run)
         /\ status' \in {"not-indexed", "indexing", "available", "stale", "cancelled", "error"}
         /\ answer' \in {"none", "ok", "failed"}
  <1>1. First \in Run /\ Tail(runs) \in Seq(Run) /\ runs \in Seq(Run)
    BY FirstIsRun DEF IndexTypeOK
  <1> DEFINE again == [Reading(First) EXCEPT !.current = TRUE]
             once == [Reading(First) EXCEPT !.current = TRUE, !.retry = "never"]
  <1>2. /\ again \in Run /\ again.phase = "reading" /\ again.full /\ again.read = {}
        /\ again.kind = First.kind /\ again.objects = First.objects
        /\ once \in Run /\ once.phase = "reading" /\ once.full /\ once.read = {}
        /\ once.kind = First.kind /\ once.objects = First.objects
    BY <1>1 DEF Reading, Run, Snapshot
  <1> HIDE DEF again, once
  <1>3. CASE FallBack
    <2> DEFINE p == <<again>> \o Superseded(Tail(runs))
    <2>1. runs' = p /\ status' = "indexing" /\ answer' = answer
      BY <1>3 DEF FallBack, again
    <2>2. GoesOn(p, runs) /\ p[1] = again
      <3> HIDE DEF p
      <3> QED BY <1>1, <1>2, PutGoesOn DEF p, First
    <2> HIDE DEF p
    <2> QED BY <1>2, <2>1, <2>2 DEF IndexTypeOK, Fallen, GoesOn
  <1>4. CASE RunAgain
    <2> DEFINE p == <<once>> \o Tail(runs)
    <2>1. runs' = p /\ status' = "indexing" /\ answer' = answer
      BY <1>4 DEF RunAgain, Put, once
    <2>2. GoesOn(p, runs) /\ p[1] = once
      <3> HIDE DEF p
      <3> QED BY <1>1, <1>2, PutGoesOn DEF p, First
    <2> HIDE DEF p
    <2> QED BY <1>2, <2>1, <2>2 DEF IndexTypeOK, Fallen, GoesOn
  <1>5. CASE ReportCancelled \/ ReportError
    BY <1>1, <1>5 DEF ReportCancelled, ReportError, Settle, Fallen, Ends, IndexTypeOK
  <1> QED BY <1>3, <1>4, <1>5 DEF FailRun

\* A run starts: what it is to publish is read, or is the registry and what its notification named.
Started ==
  \/ /\ GoesOn(runs', runs) /\ runs'[1].phase = "reading"
     /\ \/ runs'[1].full /\ runs'[1].read \in {{}, First.read}
        \/ registry # None /\ ~runs'[1].full /\ runs'[1].read = registry \cup First.objects
  \/ First.kind # "ddl" /\ runs # <<>> /\ runs' = Tail(runs) /\ runs' \in Seq(Run)

LEMMA StartRunStarts ==
  ASSUME IndexTypeOK, Waiting, StartRun
  PROVE  Started /\ IndexTypeOK'
  <1>0. runs # <<>> /\ First.phase = "queued" /\ answer = "none"
    BY DEF StartRun, At
  <1>1. First \in Run /\ Tail(runs) \in Seq(Run) /\ runs \in Seq(Run) /\ (First.kind # "ddl" => First.full)
    BY <1>0, FirstIsRun DEF IndexTypeOK, Waiting, First
  <1>2. ASSUME NEW run \in Run, NEW rest,
               runs' = <<run>> \o rest, rest = Tail(runs) \/ rest = Superseded(Tail(runs)),
               run.kind = First.kind, run.objects = First.objects, First.full => run.full,
               run.phase = "reading"
        PROVE  GoesOn(runs', runs) /\ runs'[1] = run /\ runs' \in Seq(Run)
    <2>1. GoesOn(<<run>> \o rest, runs) /\ (<<run>> \o rest)[1] = run
      BY <1>0, <1>1, <1>2, PutGoesOn DEF First
    <2> QED BY <1>2, <2>1 DEF GoesOn
  <1>3. CASE StartManual
    <2>1. CASE connected
      <3> DEFINE run == [Reading(First) EXCEPT !.current = TRUE]
      <3>1. runs' = <<run>> \o Tail(runs) /\ status' = "indexing" /\ stale' = stale
        BY <1>3, <2>1 DEF StartManual, Put
      <3>2. /\ run \in Run /\ run.phase = "reading" /\ run.full /\ run.read = {}
            /\ run.kind = First.kind /\ run.objects = First.objects
        BY <1>1, ReadingTypes
      <3> HIDE DEF run
      <3>3. GoesOn(runs', runs) /\ runs'[1] = run /\ runs' \in Seq(Run)
        BY <1>2, <3>1, <3>2
      <3> QED BY <3>1, <3>2, <3>3 DEF Started, IndexTypeOK, StartRun
    <2>2. CASE ~connected
      BY <1>0, <1>1, <1>3, <2>2 DEF StartManual, Started, IndexTypeOK, StartRun
    <2> QED BY <2>1, <2>2
  <1>4. CASE StartRefresh
    <2> DEFINE run == [First EXCEPT !.phase = "reading"]
    <2>1. runs' = <<run>> \o Tail(runs) /\ status' = "indexing" /\ stale' = stale /\ First.kind = "refresh"
      BY <1>4 DEF StartRefresh, Put
    <2>2. /\ run \in Run /\ run.phase = "reading" /\ run.full = First.full /\ run.read = First.read
          /\ run.kind = First.kind /\ run.objects = First.objects
      BY <1>1 DEF Run
    <2> HIDE DEF run
    <2>3. GoesOn(runs', runs) /\ runs'[1] = run /\ runs' \in Seq(Run)
      BY <1>2, <2>1, <2>2
    <2> QED BY <1>1, <2>1, <2>2, <2>3 DEF Started, IndexTypeOK, StartRun
  <1>5. CASE StartDdl
    <2>1. CASE First.full \/ registry = None
      <3> DEFINE run == Reading(First)
      <3>1. runs' = <<run>> \o Superseded(Tail(runs)) /\ status' = "indexing" /\ stale' = TRUE
        BY <1>5, <2>1 DEF StartDdl, StartDdlWith
      <3>2. /\ run \in Run /\ run.phase = "reading" /\ run.full /\ run.read = {}
            /\ run.kind = First.kind /\ run.objects = First.objects
        BY <1>1, ReadingTypes
      <3> HIDE DEF run
      <3>3. GoesOn(runs', runs) /\ runs'[1] = run /\ runs' \in Seq(Run)
        BY <1>2, <3>1, <3>2
      <3> QED BY <3>1, <3>2, <3>3 DEF Started, IndexTypeOK, StartRun
    <2>2. CASE ~First.full /\ registry # None
      <3> DEFINE run == [First EXCEPT !.phase = "reading", !.current = TRUE,
                                      !.read = registry \cup First.objects]
      <3>1. runs' = <<run>> \o Tail(runs) /\ status' = "stale" /\ stale' = TRUE
        BY <1>5, <2>2 DEF StartDdl, StartDdlWith, Put
      <3>2. registry \cup First.objects \in Snapshot
        BY <1>1, <2>2 DEF IndexTypeOK, Run, Snapshot
      <3>3. /\ run \in Run /\ run.phase = "reading" /\ run.full = First.full
            /\ run.kind = First.kind /\ run.objects = First.objects
            /\ run.read = registry \cup First.objects
        BY <1>1, <3>2 DEF Run
      <3> HIDE DEF run
      <3>4. GoesOn(runs', runs) /\ runs'[1] = run /\ runs' \in Seq(Run)
        BY <1>2, <3>1, <3>3
      <3> QED BY <2>2, <3>1, <3>3, <3>4 DEF Started, IndexTypeOK, StartRun
    <2> QED BY <2>1, <2>2
  <1> QED BY <1>3, <1>4, <1>5 DEF StartRun

\* An answer: the run fails, goes on with a catalog, restores what was published, or publishes.
Failed ==
  /\ Fallen /\ registry' = registry
  /\ \/ content' \in {registry, Unknown}
     \/ content' = content /\ ~At("symbols") /\ ~At("restoring")

Holds ==
  /\ GoesOn(runs', runs) /\ UNCHANGED <<registry, answer>>
  /\ \/ Holding(First) /\ runs'[1].read = First.read
     \/ runs'[1].full /\ runs'[1].read = 1..ddl
  /\ \/ runs'[1].phase \in {"connecting", "replacing"} /\ content' = content
        /\ ~At("symbols") /\ ~At("restoring")
     \/ runs'[1].phase = "symbols" /\ content' = runs'[1].read

Restores == /\ GoesOn(runs', runs) /\ UNCHANGED <<registry, answer>>
            /\ runs'[1].phase = "restoring" /\ runs'[1].read = First.read

Publishes == At("symbols") /\ Ends("ok") /\ registry' = First.read /\ content' = content

LEMMA FaultTypes ==
  ASSUME faults \in 0..MaxFaults, Fault
  PROVE  faults' \in 0..MaxFaults
  BY IndexAssumption DEF Fault

LEMMA AnswerTypes ==
  ASSUME IndexTypeOK, Fails \/ Answers
  PROVE  requests' \in 0..MaxRequests /\ faults' \in 0..MaxFaults
  BY FaultTypes DEF IndexTypeOK, Fails, Answers

\* The first run goes on with these fields.
LEMMA PutFirst ==
  ASSUME IndexTypeOK, runs # <<>>, NEW run \in Run, Put(run),
         run.kind = First.kind, run.objects = First.objects, run.full = First.full, run.phase # "queued"
  PROVE  GoesOn(runs', runs) /\ runs'[1] = run /\ runs' \in Seq(Run)
  <1>1. GoesOn(<<run>> \o Tail(runs), runs) /\ (<<run>> \o Tail(runs))[1] = run
    BY PutGoesOn DEF IndexTypeOK, First
  <1> QED BY <1>1 DEF Put, GoesOn

\* The same run in its next phase.
LEMMA PutPhase ==
  ASSUME IndexTypeOK, runs # <<>>,
         NEW phase \in {"reading", "connecting", "replacing", "symbols", "restoring"},
         Put([First EXCEPT !.phase = phase])
  PROVE  /\ GoesOn(runs', runs) /\ runs' \in Seq(Run)
         /\ runs'[1].phase = phase /\ runs'[1].read = First.read /\ runs'[1].full = First.full
  <1> DEFINE run == [First EXCEPT !.phase = phase]
  <1>1. /\ run \in Run /\ run.kind = First.kind /\ run.objects = First.objects /\ run.full = First.full
        /\ run.phase = phase /\ run.read = First.read
    BY FirstIsRun DEF Run
  <1> HIDE DEF run
  <1>2. GoesOn(runs', runs) /\ runs'[1] = run /\ runs' \in Seq(Run)
    <2>1. run.phase # "queued"
      BY <1>1
    <2> QED BY <1>1, <2>1, PutFirst DEF run
  <1> QED BY <1>1, <1>2

LEMMA RunAnswersMoves ==
  ASSUME IndexTypeOK, RunAnswers
  PROVE  /\ Failed \/ Holds \/ Restores \/ Publishes
         /\ IndexTypeOK' /\ UNCHANGED <<ddl, connected>>
  <1> DEFINE Statuses == {"not-indexed", "indexing", "available", "stale", "cancelled", "error"}
             Settled == /\ runs' \in Seq(Run) /\ status' \in Statuses /\ answer' \in {"none", "ok", "failed"}
  <1>1. /\ runs # <<>> /\ First \in Run /\ Tail(runs) \in Seq(Run) /\ runs \in Seq(Run)
        /\ First.read \in Snapshot /\ 1..ddl \in Snapshot
    <2>1. runs # <<>>
      BY DEF RunAnswers, CatalogRead, CatalogFails, SessionReady, SessionFails, SourcesReplaced,
             ReplaceFails, SymbolsRead, SymbolsFail, SourcesRestored, RestoreFails, At
    <2>2. 1..ddl \in Snapshot
      BY IndexAssumption DEF IndexTypeOK, Snapshot, Ddl
    <2> QED BY <2>1, <2>2, FirstIsRun DEF IndexTypeOK, Run
  <1>2. FailRun => Fallen /\ Settled
    BY <1>1, FailRunFalls
  <1>3. Progress => status' \in Statuses
    BY DEF Progress, IndexTypeOK
  <1>4. Fails \/ Answers => requests' \in 0..MaxRequests /\ faults' \in 0..MaxFaults
    BY AnswerTypes
  <1>5. CASE CatalogRead
    <2>1. /\ At("reading") /\ UNCHANGED <<requests, faults, ddl, connected, content, registry, stale>>
          /\ session' \in BOOLEAN
      BY <1>5 DEF CatalogRead, IndexTypeOK
    <2>2. CASE Wanted(First)
      <3> DEFINE read == IF First.full THEN 1..ddl ELSE First.read
                 run == [First EXCEPT !.phase = "connecting", !.lost = FALSE, !.read = read]
      <3>1. Put(run) /\ Progress /\ answer' = answer
        BY <1>5, <2>2 DEF CatalogRead
      <3>2. read \in Snapshot
        BY <1>1
      <3>3. First.full \in BOOLEAN
        BY <1>1 DEF Run
      <3>4. (First.full /\ read = 1..ddl) \/ (~First.full /\ read = First.read)
        BY <3>3
      <3> HIDE DEF read
      <3>5. /\ run \in Run /\ run.kind = First.kind /\ run.objects = First.objects /\ run.full = First.full
            /\ run.phase = "connecting" /\ run.read = read
        BY <1>1, <3>2 DEF Run
      <3> HIDE DEF run
      <3>6. GoesOn(runs', runs) /\ runs'[1] = run /\ runs' \in Seq(Run)
        <4>1. run.phase # "queued"
          BY <3>5
        <4> QED BY <1>1, <3>1, <3>5, <4>1, PutFirst
      <3>7. Holds
        BY <2>1, <3>1, <3>4, <3>5, <3>6 DEF Holds, Holding, At
      <3> QED BY <1>3, <2>1, <3>1, <3>6, <3>7 DEF IndexTypeOK
    <2>3. CASE ~Wanted(First)
      <3>1. FailRun
        BY <1>5, <2>3 DEF CatalogRead
      <3> QED BY <1>2, <2>1, <3>1 DEF IndexTypeOK, Failed, At
    <2> QED BY <2>2, <2>3
  <1>6. CASE CatalogFails \/ SessionFails
    <2>1. /\ At("reading") \/ At("connecting")
          /\ UNCHANGED <<ddl, connected, session, content, registry, stale>> /\ FailRun /\ Fails
      BY <1>6 DEF CatalogFails, SessionFails
    <2> QED BY <1>2, <1>4, <2>1 DEF IndexTypeOK, Failed, At
  <1>7. CASE SessionReady
    <2>1. /\ At("connecting") /\ Answers /\ session' = TRUE
          /\ UNCHANGED <<ddl, connected, content, registry, stale>>
      BY <1>7 DEF SessionReady
    <2>2. CASE Wanted(First)
      <3>1. Put([First EXCEPT !.phase = "replacing"]) /\ Progress /\ answer' = answer
        BY <1>7, <2>2 DEF SessionReady
      <3>2. /\ GoesOn(runs', runs) /\ runs' \in Seq(Run)
            /\ runs'[1].phase = "replacing" /\ runs'[1].read = First.read
        BY <1>1, <3>1, PutPhase
      <3>3. Holds
        BY <2>1, <3>1, <3>2 DEF Holds, Holding, At
      <3> QED BY <1>3, <1>4, <2>1, <3>1, <3>2, <3>3 DEF IndexTypeOK
    <2>3. CASE ~Wanted(First)
      <3>1. FailRun
        BY <1>7, <2>3 DEF SessionReady
      <3> QED BY <1>2, <1>4, <2>1, <3>1 DEF IndexTypeOK, Failed, At
    <2> QED BY <2>2, <2>3
  <1>8. CASE SourcesReplaced
    <2>1. /\ At("replacing") /\ Answers /\ content' = First.read
          /\ UNCHANGED <<ddl, connected, session, registry, stale, answer>>
      BY <1>8 DEF SourcesReplaced
    <2>2. CASE Wanted(First)
      <3>1. Put([First EXCEPT !.phase = "symbols"]) /\ Progress
        BY <1>8, <2>2 DEF SourcesReplaced
      <3>2. /\ GoesOn(runs', runs) /\ runs' \in Seq(Run)
            /\ runs'[1].phase = "symbols" /\ runs'[1].read = First.read
        BY <1>1, <3>1, PutPhase
      <3>3. Holds
        BY <2>1, <3>2 DEF Holds, Holding, At
      <3> QED BY <1>1, <1>3, <1>4, <2>1, <3>1, <3>2, <3>3 DEF IndexTypeOK
    <2>3. CASE ~Wanted(First)
      <3>1. Put([First EXCEPT !.phase = "restoring"]) /\ status' = status
        BY <1>8, <2>3 DEF SourcesReplaced
      <3>2. GoesOn(runs', runs) /\ runs' \in Seq(Run) /\ runs'[1].phase = "restoring" /\ runs'[1].read = First.read
        BY <1>1, <3>1, PutPhase
      <3> QED BY <1>1, <1>4, <2>1, <3>1, <3>2 DEF IndexTypeOK, Restores
    <2> QED BY <2>2, <2>3
  <1>9. CASE ReplaceFails \/ RestoreFails
    <2>1. /\ UNCHANGED <<ddl, connected, session, registry, stale>> /\ content' = Unknown
          /\ FailRun /\ Fails
      BY <1>9 DEF ReplaceFails, RestoreFails
    <2> QED BY <1>2, <1>4, <2>1 DEF IndexTypeOK, Failed
  <1>10. CASE SymbolsRead
    <2>1. At("symbols") /\ Answers /\ UNCHANGED <<ddl, connected, session, content>>
      BY <1>10 DEF SymbolsRead
    <2>2. CASE Wanted(First)
      <3>1. registry' = First.read /\ stale' = FALSE /\ status' = "available" /\ Settle("ok")
        BY <1>10, <2>2 DEF SymbolsRead
      <3>2. Ends("ok")
        BY <1>1, <3>1 DEF Settle, Ends
      <3> QED BY <1>1, <1>4, <2>1, <3>1, <3>2 DEF IndexTypeOK, Publishes, Settle
    <2>3. CASE ~Wanted(First)
      <3>1. Put([First EXCEPT !.phase = "restoring"]) /\ UNCHANGED <<registry, stale, status, answer>>
        BY <1>10, <2>3 DEF SymbolsRead
      <3>2. GoesOn(runs', runs) /\ runs' \in Seq(Run) /\ runs'[1].phase = "restoring" /\ runs'[1].read = First.read
        BY <1>1, <3>1, PutPhase
      <3> QED BY <1>4, <2>1, <3>1, <3>2 DEF IndexTypeOK, Restores
    <2> QED BY <2>2, <2>3
  <1>11. CASE SymbolsFail
    <2>1. /\ Fails /\ Put([First EXCEPT !.phase = "restoring"])
          /\ UNCHANGED <<ddl, connected, session, content, registry, stale, status, answer>>
      BY <1>11 DEF SymbolsFail
    <2>2. GoesOn(runs', runs) /\ runs' \in Seq(Run) /\ runs'[1].phase = "restoring" /\ runs'[1].read = First.read
      BY <1>1, <2>1, PutPhase
    <2> QED BY <1>4, <2>1, <2>2 DEF IndexTypeOK, Restores
  <1>12. CASE SourcesRestored
    <2>1. /\ UNCHANGED <<ddl, connected, session, registry, stale>> /\ content' = registry
          /\ FailRun /\ Answers
      BY <1>12 DEF SourcesRestored
    <2> QED BY <1>2, <1>4, <2>1 DEF IndexTypeOK, Failed
  <1> QED BY <1>5, <1>6, <1>7, <1>8, <1>9, <1>10, <1>11, <1>12 DEF RunAnswers

-----------------------------------------------------------------------------
(* The lifecycle chain and the refresh chain *)

LEMMA LinedHead ==
  ASSUME NEW q, NEW closing, Lined(q, closing), q # <<>>
  PROVE  /\ q[1] \in Operation /\ HeadAt(q) = q[1].at
         /\ q[1].op = "dispose" => closing
  BY ChainIndex DEF Lined, HeadAt

LEMMA LinedTail ==
  ASSUME NEW q, NEW closing, Lined(q, closing), q # <<>>
  PROVE  Lined(Tail(q), closing) /\ HeadAt(Tail(q)) \in {"none", "queued"}
  <1>1. /\ Tail(q) \in Seq(Operation) /\ Len(Tail(q)) = Len(q) - 1
        /\ Tail(q) # <<>> => 1 \in 1..Len(Tail(q))
        /\ \A i \in 1..Len(Tail(q)) : i + 1 \in 2..Len(q) /\ Tail(q)[i] = q[i + 1]
    BY TailMove DEF Lined
  <1>2. \A i \in 2..Len(q) : i \in 1..Len(q)
    BY ChainIndex DEF Lined
  <1>3. \A i \in 2..Len(Tail(q)) : i \in 1..Len(Tail(q))
    BY <1>1, ChainIndex
  <1>4. \A i \in 1..Len(Tail(q)) : Tail(q)[i].at = "queued" /\ (Tail(q)[i].op = "dispose" => closing)
    BY <1>1, <1>2 DEF Lined
  <1> QED BY <1>1, <1>3, <1>4 DEF Lined, HeadAt

\* The first operation goes on.
LEMMA LinedGoes ==
  ASSUME NEW q, NEW closing, Lined(q, closing), q # <<>>,
         NEW e \in Operation, e.op = "dispose" => closing
  PROVE  Lined(<<e>> \o Tail(q), closing) /\ HeadAt(<<e>> \o Tail(q)) = e.at
  <1> DEFINE p == <<e>> \o Tail(q)
  <1>1. /\ p \in Seq(Operation) /\ p # <<>> /\ Len(p) = Len(q) /\ p[1] = e
        /\ \A i \in 2..Len(q) : p[i] = q[i]
    BY HeadMove DEF Lined
  <1>2. \A i \in 1..Len(q) : i = 1 \/ i \in 2..Len(q)
    BY ChainIndex DEF Lined
  <1> HIDE DEF p
  <1>3. Lined(p, closing) /\ HeadAt(p) = e.at
    BY <1>1, <1>2 DEF Lined, HeadAt
  <1> QED BY <1>3 DEF p

LEMMA LinedFirst ==
  ASSUME NEW q, NEW closing, Lined(q, closing), q # <<>>,
         NEW e \in Operation, e.op = "dispose" => closing
  PROVE  Lined([q EXCEPT ![1] = e], closing) /\ HeadAt([q EXCEPT ![1] = e]) = e.at
  <1> DEFINE p == [q EXCEPT ![1] = e]
  <1>1. q \in Seq(Operation) /\ 1 \in 1..Len(q) /\ \A i \in 2..Len(q) : i \in 1..Len(q) /\ i # 1
    BY ChainIndex DEF Lined
  <1>2. /\ p \in Seq(Operation) /\ Len(p) = Len(q)
        /\ \A i \in 1..Len(q) : p[i] = IF i = 1 THEN e ELSE q[i]
    BY <1>1, ExceptSeq
  <1>3. p # <<>>
    BY <1>1, <1>2, EmptySeq
  <1> HIDE DEF p
  <1>4. Lined(p, closing) /\ HeadAt(p) = e.at
    BY <1>1, <1>2, <1>3 DEF Lined, HeadAt
  <1> QED BY <1>4 DEF p

LEMMA NewOpTypes ==
  ASSUME NEW op \in {"reconcile", "restart", "closed", "dispose"} \cup Commands
  PROVE  NewOp(op) \in Operation /\ NewOp(op).at = "queued" /\ NewOp(op).op = op
  BY DEF NewOp, Operation, Commands

\* A request waits behind the operations it supersedes.
LEMMA LinedSuperseding ==
  ASSUME NEW q, NEW closing, Lined(q, closing),
         NEW op \in {"reconcile", "restart", "closed", "dispose"} \cup Commands,
         op = "dispose" => closing
  PROVE  /\ Lined(Superseding(op, q), closing) /\ Superseding(op, q) # <<>>
         /\ HeadAt(Superseding(op, q)) = IF q = <<>> THEN "queued" ELSE HeadAt(q)
         /\ Superseding(op, q)[1].op = IF q = <<>> THEN op ELSE q[1].op
  <1> DEFINE m == [i \in 1..Len(q) |-> [q[i] EXCEPT !.current = FALSE]]
             p == Append(m, NewOp(op))
  <1>1. /\ q \in Seq(Operation) /\ Len(q) \in Nat /\ \A i \in 1..Len(q) : q[i] \in Operation
        /\ q = <<>> <=> Len(q) = 0
        /\ q # <<>> => 1 \in 1..Len(q)
    BY ChainIndex DEF Lined
  <1>2. \A i \in 1..Len(q) : /\ [q[i] EXCEPT !.current = FALSE] \in Operation
                             /\ [q[i] EXCEPT !.current = FALSE].at = q[i].at
                             /\ [q[i] EXCEPT !.current = FALSE].op = q[i].op
    BY <1>1 DEF Operation
  <1>3. m \in [1..Len(q) -> Operation] /\ \A i \in 1..Len(q) : m[i].at = q[i].at /\ m[i].op = q[i].op
    BY <1>2
  <1> HIDE DEF m
  <1>4. m \in Seq(Operation) /\ Len(m) = Len(q) /\ (m = <<>> <=> q = <<>>)
    BY <1>1, <1>3, MarkMove
  <1>5. /\ p \in Seq(Operation) /\ p # <<>> /\ Len(p) = Len(q) + 1
        /\ \A i \in 1..Len(q) : p[i] = m[i]
        /\ p[Len(q) + 1] = NewOp(op)
        /\ p[1] = IF m = <<>> THEN NewOp(op) ELSE m[1]
    BY <1>4, NewOpTypes, AppendMove
  <1>6. NewOp(op).at = "queued" /\ NewOp(op).op = op
    BY NewOpTypes
  <1> HIDE DEF p
  <1>7. ASSUME NEW i \in 1..Len(p)
        PROVE  /\ i \in 2..Len(p) => p[i].at = "queued"
               /\ p[i].op = "dispose" => closing
    <2>1. i \in 1..Len(q) \/ i = Len(q) + 1
      BY <1>1, <1>5
    <2>2. i \in 1..Len(q) /\ i \in 2..Len(p) => i \in 2..Len(q)
      BY <1>1, <1>5
    <2> QED BY <2>1, <2>2, <1>3, <1>5, <1>6 DEF Lined
  <1>8. \A i \in 2..Len(p) : i \in 1..Len(p)
    BY <1>5, ChainIndex
  <1>9. Lined(p, closing)
    BY <1>5, <1>7, <1>8 DEF Lined
  <1>10. HeadAt(p) = IF q = <<>> THEN "queued" ELSE HeadAt(q)
    BY <1>1, <1>3, <1>4, <1>5, <1>6 DEF HeadAt
  <1>11. p[1].op = IF q = <<>> THEN op ELSE q[1].op
    BY <1>1, <1>3, <1>4, <1>5, <1>6
  <1>12. p = Superseding(op, q)
    BY DEF p, m, Superseding
  <1> QED BY <1>5, <1>9, <1>10, <1>11, <1>12

\* A refresh that pays no debt any more, or whose listener has closed.
Marks(p, q) ==
  /\ p \in Seq(Refresh) /\ Len(p) = Len(q)
  /\ \A i \in 1..Len(q) :
       /\ p[i].at = q[i].at /\ p[i].full = q[i].full /\ p[i].objects = q[i].objects /\ p[i].ok = q[i].ok
       /\ p[i].debt => q[i].debt
       /\ p[i].from = q[i].from \/ (q[i].from = "flush" /\ p[i].from = "orphan")

LEMMA NotPayingMarks ==
  ASSUME NEW q \in Seq(Refresh)
  PROVE  /\ Marks(NotPaying(q), q)
         /\ \A i \in 1..Len(q) : ~NotPaying(q)[i].debt /\ NotPaying(q)[i].from = q[i].from
  <1>1. Len(q) \in Nat /\ \A i \in 1..Len(q) : q[i] \in Refresh
    BY ChainIndex
  <1> DEFINE p == NotPaying(q)
  <1>2. p \in [1..Len(q) -> Refresh] /\ \A i \in 1..Len(q) : p[i] = [q[i] EXCEPT !.debt = FALSE]
    BY <1>1 DEF NotPaying, Refresh
  <1> HIDE DEF p
  <1>3. p \in Seq(Refresh) /\ Len(p) = Len(q)
    BY <1>1, <1>2, MarkMove
  <1>4. ASSUME NEW i \in 1..Len(q)
        PROVE  /\ p[i].at = q[i].at /\ p[i].full = q[i].full /\ p[i].objects = q[i].objects
               /\ p[i].ok = q[i].ok /\ ~p[i].debt /\ p[i].from = q[i].from
    BY <1>1, <1>2 DEF Refresh
  <1> QED BY <1>3, <1>4 DEF Marks, p

LEMMA OrphanedMarks ==
  ASSUME NEW q \in Seq(Refresh)
  PROVE  /\ Marks(Orphaned(q), q)
         /\ \A i \in 1..Len(q) : Orphaned(q)[i].from # "flush" /\ Orphaned(q)[i].debt = q[i].debt
  <1>1. Len(q) \in Nat /\ \A i \in 1..Len(q) : q[i] \in Refresh
    BY ChainIndex
  <1> DEFINE p == Orphaned(q)
  <1>2. /\ p \in [1..Len(q) -> Refresh]
        /\ \A i \in 1..Len(q) : p[i] = IF q[i].from = "flush" THEN [q[i] EXCEPT !.from = "orphan"] ELSE q[i]
    BY <1>1 DEF Orphaned, Refresh
  <1> HIDE DEF p
  <1>3. p \in Seq(Refresh) /\ Len(p) = Len(q)
    BY <1>1, <1>2, MarkMove
  <1>4. ASSUME NEW i \in 1..Len(q)
        PROVE  /\ p[i].at = q[i].at /\ p[i].full = q[i].full /\ p[i].objects = q[i].objects
               /\ p[i].ok = q[i].ok /\ p[i].debt = q[i].debt /\ p[i].from # "flush"
               /\ p[i].from = q[i].from \/ (q[i].from = "flush" /\ p[i].from = "orphan")
    BY <1>1, <1>2 DEF Refresh
  <1> QED BY <1>3, <1>4 DEF Marks, p

LEMMA ForgivenMarks ==
  ASSUME NEW q \in Seq(Refresh)
  PROVE  /\ Marks(Orphaned(NotPaying(q)), q)
         /\ \A i \in 1..Len(q) : /\ ~Orphaned(NotPaying(q))[i].debt
                                 /\ Orphaned(NotPaying(q))[i].from # "flush"
  <1> DEFINE n == NotPaying(q)
             o == Orphaned(n)
  <1>1. Marks(n, q) /\ \A i \in 1..Len(q) : ~n[i].debt
    BY NotPayingMarks
  <1> HIDE DEF n
  <1>2. n \in Seq(Refresh) /\ Len(n) = Len(q)
    BY <1>1 DEF Marks
  <1>3. /\ Marks(o, n)
        /\ \A i \in 1..Len(n) : o[i].from # "flush" /\ o[i].debt = n[i].debt
    BY <1>2, OrphanedMarks
  <1> HIDE DEF o
  <1>4. o \in Seq(Refresh) /\ Len(o) = Len(q)
    BY <1>2, <1>3 DEF Marks
  <1>5. ASSUME NEW i \in 1..Len(q)
        PROVE  /\ o[i].at = q[i].at /\ o[i].full = q[i].full
               /\ o[i].objects = q[i].objects /\ o[i].ok = q[i].ok
               /\ ~o[i].debt /\ o[i].from # "flush"
               /\ o[i].from = q[i].from \/ (q[i].from = "flush" /\ o[i].from = "orphan")
    <2>1. /\ n[i].at = q[i].at /\ n[i].full = q[i].full
          /\ n[i].objects = q[i].objects /\ n[i].ok = q[i].ok /\ ~n[i].debt
          /\ n[i].from = q[i].from \/ (q[i].from = "flush" /\ n[i].from = "orphan")
      BY <1>1 DEF Marks
    <2>2. /\ o[i].at = n[i].at /\ o[i].full = n[i].full /\ o[i].objects = n[i].objects /\ o[i].ok = n[i].ok
          /\ o[i].from = n[i].from \/ (n[i].from = "flush" /\ o[i].from = "orphan")
          /\ o[i].from # "flush" /\ o[i].debt = n[i].debt
      BY <1>2, <1>3 DEF Marks
    <2> QED BY <2>1, <2>2
  <1>6. Marks(o, q) /\ \A i \in 1..Len(q) : ~o[i].debt /\ o[i].from # "flush"
    BY <1>4, <1>5 DEF Marks
  <1> QED BY <1>6 DEF o, n

LEMMA MarksNonempty ==
  ASSUME NEW q \in Seq(Refresh), NEW p, Marks(p, q)
  PROVE  /\ p = <<>> <=> q = <<>>
         /\ q # <<>> => 1 \in 1..Len(q)
  BY ChainIndex DEF Marks

LEMMA SoundMarks ==
  ASSUME NEW q, NEW p, NEW at, NEW listed, NEW committed, Sound(q, at, listed, committed), Marks(p, q),
         NEW still, (\A i \in 1..Len(q) : p[i].from # "flush") \/ (listed => still)
  PROVE  Sound(p, at, still, committed)
  BY DEF Sound, Marks

LEMMA SoundTail ==
  ASSUME NEW q, NEW at, NEW listed, NEW committed, Sound(q, at, listed, committed), q # <<>>,
         NEW next, q[1].from \in {"start", "reconcile"} \/ at # "refreshing" \/ next = at
  PROVE  Sound(Tail(q), next, listed, committed)
  <1>1. /\ Tail(q) \in Seq(Refresh)
        /\ \A i \in 1..Len(Tail(q)) : i + 1 \in 2..Len(q) /\ Tail(q)[i] = q[i + 1]
        /\ Len(Tail(q)) \in Nat
    BY TailMove DEF Sound
  <1>2. 1 \in 1..Len(q) /\ \A i \in 2..Len(q) : i \in 1..Len(q) /\ i # 1
    BY ChainIndex DEF Sound
  <1>3. ASSUME NEW i \in 1..Len(Tail(q))
        PROVE  /\ Tail(q)[i].objects \subseteq committed
               /\ Tail(q)[i].debt => Tail(q)[i].full
               /\ Tail(q)[i].from = "flush" => listed
               /\ Tail(q)[i].from \in {"start", "reconcile"} => next = "refreshing"
    BY <1>1, <1>2 DEF Sound
  <1>4. ASSUME NEW i \in 1..Len(Tail(q)), NEW j \in 1..Len(Tail(q)),
               Tail(q)[i].from \in {"start", "reconcile"}, Tail(q)[j].from \in {"start", "reconcile"}
        PROVE  i = j
    <2>1. i + 1 = j + 1
      BY <1>1, <1>2, <1>4 DEF Sound
    <2> QED BY <1>1, <2>1
  <1> QED BY <1>1, <1>3, <1>4 DEF Sound

\* Another refresh waits: a flush of a listener that is heard, or the one an operation waits for.
LEMMA SoundAppend ==
  ASSUME NEW q, NEW at, NEW listed, NEW committed, Sound(q, at, listed, committed),
         NEW from \in {"start", "reconcile", "flush"}, NEW full \in BOOLEAN, NEW objects \in Snapshot,
         objects \subseteq committed, NEW next, NEW still, listed => still,
         \/ from = "flush" /\ still /\ next = at
         \/ from # "flush" /\ at # "refreshing" /\ next = "refreshing"
  PROVE  Sound(Append(q, NewRefresh(from, full, objects)), next, still, committed)
  <1> DEFINE new == NewRefresh(from, full, objects)
             p == Append(q, new)
  <1>1. /\ new \in Refresh /\ new.from = from /\ new.objects = objects /\ ~new.debt
    BY DEF NewRefresh, Refresh
  <1> HIDE DEF new
  <1>2. /\ p \in Seq(Refresh) /\ Len(q) \in Nat /\ Len(p) = Len(q) + 1
        /\ \A i \in 1..Len(q) : p[i] = q[i]
        /\ p[Len(q) + 1] = new
    BY <1>1, AppendMove DEF Sound
  <1> HIDE DEF p
  <1>3. \A i \in 1..Len(p) : i \in 1..Len(q) \/ i = Len(q) + 1
    BY <1>2
  <1>4. ASSUME NEW i \in 1..Len(p)
        PROVE  /\ p[i].objects \subseteq committed
               /\ p[i].debt => p[i].full
               /\ p[i].from = "flush" => still
               /\ p[i].from \in {"start", "reconcile"} => next = "refreshing"
    BY <1>1, <1>2, <1>3 DEF Sound
  <1>5. ASSUME NEW i \in 1..Len(p), NEW j \in 1..Len(p),
               p[i].from \in {"start", "reconcile"}, p[j].from \in {"start", "reconcile"}
        PROVE  i = j
    BY <1>1, <1>2, <1>3, <1>5 DEF Sound
  <1>6. Sound(p, next, still, committed)
    BY <1>2, <1>4, <1>5 DEF Sound
  <1> QED BY <1>6 DEF p, new

\* The first refresh goes on.
LEMMA SoundFirst ==
  ASSUME NEW q, NEW at, NEW listed, NEW committed, Sound(q, at, listed, committed), q # <<>>,
         NEW e \in Refresh, e.from = q[1].from, e.objects = q[1].objects, e.debt => e.full
  PROVE  /\ Sound([q EXCEPT ![1] = e], at, listed, committed)
         /\ [q EXCEPT ![1] = e] # <<>> /\ [q EXCEPT ![1] = e][1] = e
         /\ Len([q EXCEPT ![1] = e]) = Len(q)
         /\ \A i \in 2..Len(q) : [q EXCEPT ![1] = e][i] = q[i]
  <1> DEFINE p == [q EXCEPT ![1] = e]
  <1>1. q \in Seq(Refresh) /\ 1 \in 1..Len(q) /\ \A i \in 2..Len(q) : i \in 1..Len(q) /\ i # 1
    BY ChainIndex DEF Sound
  <1>2. /\ p \in Seq(Refresh) /\ Len(p) = Len(q)
        /\ \A i \in 1..Len(q) : p[i] = IF i = 1 THEN e ELSE q[i]
    BY <1>1, ExceptSeq
  <1>3. p # <<>>
    BY <1>1, <1>2, EmptySeq
  <1> HIDE DEF p
  <1>4. Sound(p, at, listed, committed)
    BY <1>1, <1>2 DEF Sound
  <1> QED BY <1>1, <1>2, <1>3, <1>4 DEF p

\* What else they depend on has changed.
LEMMA SoundElsewhere ==
  ASSUME NEW q, NEW at, NEW listed, NEW committed, Sound(q, at, listed, committed),
         NEW next, at # "refreshing" \/ next = at, NEW still, listed => still,
         NEW more, committed \subseteq more
  PROVE  Sound(q, next, still, more)
  BY DEF Sound

-----------------------------------------------------------------------------
(* What the index shows: RunsInv *)

\* The next run, when the first one has ended or there was none, waits.
LEMMA RunsEnd ==
  ASSUME IndexTypeOK, Waiting, Committed, runs # <<>>, runs' = Tail(runs), ddl' = ddl,
         registry' = None \/ registry' \subseteq 1..ddl
  PROVE  /\ Waiting' /\ Committed'
         /\ runs' = <<>> \/ First'.phase = "queued"
         /\ \A i \in 1..Len(runs') : i + 1 \in 2..Len(runs) /\ runs'[i] = runs[i + 1]
         /\ \A i \in 2..Len(runs) : i \in 1..Len(runs) /\ i # 1
  <1>1. /\ Len(runs') \in Nat
        /\ runs' # <<>> => 1 \in 1..Len(runs')
        /\ \A i \in 1..Len(runs') : i + 1 \in 2..Len(runs) /\ runs'[i] = runs[i + 1]
    BY TailMove DEF IndexTypeOK
  <1>2. \A i \in 2..Len(runs) : i \in 1..Len(runs) /\ i # 1
    BY ChainIndex DEF IndexTypeOK
  <1>3. \A i \in 2..Len(runs') : i \in 1..Len(runs')
    BY <1>1
  <1>4. Waiting'
    BY <1>1, <1>2, <1>3 DEF Waiting
  <1>5. Committed'
    BY <1>1, <1>2 DEF Committed
  <1> QED BY <1>1, <1>2, <1>4, <1>5 DEF Waiting, First

\* The first run goes on.
LEMMA RunsGoOn ==
  ASSUME IndexTypeOK, Waiting, Committed, GoesOn(runs', runs), ddl' = ddl, registry' = registry,
         runs'[1].read \subseteq 1..ddl
  PROVE  /\ Waiting' /\ Committed'
         /\ runs # <<>> /\ runs' # <<>> /\ First' = runs'[1]
         /\ First'.kind = First.kind /\ First'.objects = First.objects /\ (First.full => First'.full)
         /\ Len(runs') = Len(runs) /\ \A i \in 2..Len(runs) : Same(runs'[i], runs[i])
         /\ \A i \in 1..Len(runs) : i = 1 \/ i \in 2..Len(runs)
         /\ 1 \in 1..Len(runs)
  <1>1. /\ runs # <<>> /\ Len(runs') = Len(runs) /\ \A i \in 2..Len(runs) : Same(runs'[i], runs[i])
        /\ runs'[1].kind = runs[1].kind /\ runs'[1].objects = runs[1].objects
        /\ runs[1].full => runs'[1].full
        /\ runs' \in Seq(Run)
    BY DEF GoesOn
  <1>2. /\ 1 \in 1..Len(runs) /\ \A i \in 1..Len(runs) : i = 1 \/ i \in 2..Len(runs)
        /\ \A i \in 2..Len(runs) : i \in 1..Len(runs)
    BY <1>1, ChainIndex DEF IndexTypeOK
  <1>3. runs' # <<>>
    BY <1>1, <1>2, ChainIndex
  <1>4. Waiting'
    BY <1>1, <1>2 DEF Waiting, Same
  <1>5. Committed'
    BY <1>1, <1>2 DEF Committed, Same
  <1> QED BY <1>1, <1>2, <1>3, <1>4, <1>5 DEF First

\* Runs are marked, and PostgreSQL may commit.
LEMMA RunsStay ==
  ASSUME IndexTypeOK, Waiting, Committed, Stays(runs', runs), ddl' \in {ddl, ddl + 1},
         registry' \in {registry, None}
  PROVE  /\ Waiting' /\ Committed'
         /\ runs' = <<>> <=> runs = <<>>
         /\ Len(runs') = Len(runs) /\ \A i \in 1..Len(runs) : Same(runs'[i], runs[i])
         /\ runs # <<>> => Same(First', First)
  <1>1. Len(runs') = Len(runs) /\ (\A i \in 1..Len(runs) : Same(runs'[i], runs[i])) /\ runs' \in Seq(Run)
    BY DEF Stays
  <1>2. /\ \A i \in 2..Len(runs) : i \in 1..Len(runs)
        /\ runs # <<>> => 1 \in 1..Len(runs)
        /\ runs = <<>> <=> Len(runs) = 0
    BY ChainIndex DEF IndexTypeOK
  <1>3. runs' = <<>> <=> Len(runs') = 0
    BY <1>1, ChainIndex
  <1>4. 1..ddl \subseteq 1..ddl'
    BY DEF IndexTypeOK
  <1>5. Waiting'
    BY <1>1, <1>2 DEF Waiting, Same
  <1>6. Committed'
    BY <1>1, <1>4 DEF Committed, Same
  <1> QED BY <1>1, <1>2, <1>3, <1>5, <1>6 DEF First

\* A run joins.
LEMMA RunsJoin ==
  ASSUME IndexTypeOK, Waiting, Committed, NEW run \in Run, Joins(runs', runs, run),
         run.phase = "queued", run.kind # "ddl" => run.full, run.read = {}, run.objects \subseteq 1..ddl,
         ddl' = ddl, registry' = registry
  PROVE  /\ Waiting' /\ Committed'
         /\ runs' # <<>>
         /\ Len(runs) \in Nat /\ Len(runs') = Len(runs) + 1
         /\ \A i \in 1..Len(runs') : i \in 1..Len(runs) \/ i = Len(runs) + 1
         /\ \A i \in 1..Len(runs) : Same(runs'[i], runs[i])
         /\ runs'[Len(runs) + 1] = run
         /\ IF runs = <<>> THEN First' = run ELSE Same(First', First)
  <1>1. /\ Len(runs') = Len(runs) + 1 /\ (\A i \in 1..Len(runs) : Same(runs'[i], runs[i]))
        /\ runs' \in Seq(Run) /\ runs'[Len(runs) + 1] = run
    BY DEF Joins
  <1>2. /\ Len(runs) \in Nat /\ \A i \in 2..Len(runs) : i \in 1..Len(runs)
        /\ runs # <<>> => 1 \in 1..Len(runs)
        /\ runs = <<>> <=> Len(runs) = 0
    BY ChainIndex DEF IndexTypeOK
  <1>3. /\ \A i \in 1..Len(runs') : i \in 1..Len(runs) \/ i = Len(runs) + 1
        /\ \A i \in 2..Len(runs') : i \in 2..Len(runs) \/ i = Len(runs) + 1
    BY <1>1, <1>2
  <1>4. runs' # <<>>
    BY <1>1, <1>2, ChainIndex
  <1>5. Waiting'
    BY <1>1, <1>3 DEF Waiting, Same
  <1>6. Committed'
    BY <1>1, <1>3 DEF Committed, Same
  <1>7. IF runs = <<>> THEN First' = run ELSE Same(First', First)
    BY <1>1, <1>2 DEF First
  <1> QED BY <1>1, <1>2, <1>3, <1>4, <1>5, <1>6, <1>7

LEMMA RunsStarted ==
  ASSUME IndexTypeOK, RunsInv, At("queued"), Started, UNCHANGED <<ddl, content, registry>>
  PROVE  RunsInv'
  <1>1. CASE /\ GoesOn(runs', runs) /\ runs'[1].phase = "reading"
             /\ \/ runs'[1].full /\ runs'[1].read \in {{}, First.read}
                \/ registry # None /\ ~runs'[1].full /\ runs'[1].read = registry \cup First.objects
    <2>1. runs # <<>> /\ 1 \in 1..Len(runs)
      BY FirstIsRun DEF At
    <2>2. runs'[1].read \subseteq 1..ddl
      BY <1>1, <2>1 DEF RunsInv, Committed, First
    <2>3. Waiting' /\ Committed' /\ runs' # <<>> /\ First' = runs'[1]
      BY <1>1, <2>2, RunsGoOn DEF RunsInv
    <2>4. Grows'
      BY <1>1, <2>3 DEF Grows, Holding
    <2>5. HoldsFirst' /\ EngineHoldsRegistry'
      BY <1>1, <2>3 DEF HoldsFirst, EngineHoldsRegistry, At, RunsInv
    <2> QED BY <2>3, <2>4, <2>5 DEF RunsInv
  <1>2. CASE runs # <<>> /\ runs' = Tail(runs)
    <2>1. Waiting' /\ Committed' /\ (runs' = <<>> \/ First'.phase = "queued")
      BY <1>2, RunsEnd DEF RunsInv, Committed
    <2> QED BY <2>1 DEF RunsInv, Grows, Holding, HoldsFirst, EngineHoldsRegistry, At
  <1> QED BY <1>1, <1>2 DEF Started

\* A run that falls back or ends.
LEMMA RunsFallen ==
  ASSUME IndexTypeOK, RunsInv, Fallen, UNCHANGED <<ddl, registry>>
  PROVE  /\ Waiting' /\ Committed'
         /\ runs' = <<>> \/ First'.phase = "queued" \/ (First'.phase = "reading" /\ First'.full)
  <1>1. CASE GoesOn(runs', runs) /\ runs'[1].phase = "reading" /\ runs'[1].full /\ runs'[1].read = {}
    <2>1. runs'[1].read \subseteq 1..ddl
      BY <1>1
    <2> QED BY <1>1, <2>1, RunsGoOn DEF RunsInv
  <1>2. CASE Ends("failed")
    BY <1>2, RunsEnd DEF RunsInv, Committed, Ends
  <1> QED BY <1>1, <1>2 DEF Fallen

LEMMA RunsAnswered ==
  ASSUME IndexTypeOK, RunsInv, Failed \/ Holds \/ Restores \/ Publishes, ddl' = ddl, IndexTypeOK'
  PROVE  /\ RunsInv'
         /\ registry = None \/ registry' = None \/ registry \subseteq registry'
  <1>1. CASE Failed
    <2>1. registry' = registry /\ Fallen
      BY <1>1 DEF Failed
    <2>2. /\ Waiting' /\ Committed'
          /\ runs' = <<>> \/ First'.phase = "queued" \/ (First'.phase = "reading" /\ First'.full)
      BY <2>1, RunsFallen
    <2>3. EngineHoldsRegistry'
      BY <1>1, <2>1 DEF Failed, EngineHoldsRegistry, At, RunsInv
    <2> QED BY <2>1, <2>2, <2>3 DEF RunsInv, Grows, Holding, HoldsFirst, At
  <1>2. CASE Holds
    <2>1. GoesOn(runs', runs) /\ registry' = registry /\ runs # <<>>
      BY <1>2 DEF Holds, GoesOn
    <2>2. 1 \in 1..Len(runs)
      BY <2>1, FirstIsRun
    <2>3. /\ runs'[1].read \subseteq 1..ddl
          /\ registry = None \/ registry \subseteq runs'[1].read
      BY <1>2, <2>1, <2>2 DEF Holds, RunsInv, Committed, Grows, First
    <2>4. Waiting' /\ Committed' /\ runs' # <<>> /\ First' = runs'[1]
      BY <2>1, <2>3, RunsGoOn DEF RunsInv
    <2>5. HoldsFirst' /\ EngineHoldsRegistry'
      BY <1>2, <2>1, <2>4 DEF Holds, HoldsFirst, EngineHoldsRegistry, At, RunsInv
    <2>6. Grows'
      BY <2>1, <2>3, <2>4 DEF Grows
    <2> QED BY <2>1, <2>4, <2>5, <2>6 DEF RunsInv
  <1>3. CASE Restores
    <2>1. GoesOn(runs', runs) /\ registry' = registry /\ runs # <<>>
      BY <1>3 DEF Restores, GoesOn
    <2>2. runs'[1].read \subseteq 1..ddl
      <3>1. 1 \in 1..Len(runs)
        BY <2>1, FirstIsRun
      <3> QED BY <1>3, <3>1 DEF Restores, RunsInv, Committed, First
    <2>3. Waiting' /\ Committed' /\ runs' # <<>> /\ First' = runs'[1]
      BY <2>1, <2>2, RunsGoOn DEF RunsInv
    <2> QED BY <1>3, <2>1, <2>3
            DEF Restores, RunsInv, Grows, Holding, HoldsFirst, EngineHoldsRegistry, At
  <1>4. CASE Publishes
    <2>1. /\ runs # <<>> /\ First.phase = "symbols" /\ runs' = Tail(runs)
          /\ registry' = First.read /\ content' = content
      BY <1>4 DEF Publishes, Ends, At
    <2>2. First.read \subseteq 1..ddl
      <3>1. 1 \in 1..Len(runs)
        BY <2>1, FirstIsRun
      <3> QED BY <3>1 DEF RunsInv, Committed, First
    <2>3. Waiting' /\ Committed' /\ (runs' = <<>> \/ First'.phase = "queued")
      BY <2>1, <2>2, RunsEnd DEF RunsInv
    <2>4. registry = None \/ registry \subseteq registry'
      BY <2>1 DEF RunsInv, Grows, Holding
    <2>5. EngineHoldsRegistry'
      BY <2>1 DEF RunsInv, HoldsFirst, EngineHoldsRegistry, At
    <2> QED BY <2>3, <2>4, <2>5 DEF RunsInv, Grows, Holding, HoldsFirst, At
  <1> QED BY <1>1, <1>2, <1>3, <1>4

\* The session with the engine closes.
LEMMA RunsSessionCloses ==
  ASSUME IndexTypeOK, RunsInv, SessionCloses
  PROVE  RunsInv' /\ IndexTypeOK'
  <1>1. Stays(runs', runs)
    BY SessionClosesStays DEF IndexTypeOK
  <1>2. /\ registry' = None /\ content' = Unknown /\ session' = FALSE
        /\ UNCHANGED <<ddl, connected, stale, status, answer, requests>> /\ Fault
    BY DEF SessionCloses
  <1>3. Waiting' /\ Committed'
    BY <1>1, <1>2, RunsStay DEF RunsInv
  <1>4. IndexTypeOK'
    BY <1>1, <1>2, FaultTypes DEF IndexTypeOK, Stays
  <1> QED BY <1>2, <1>3, <1>4 DEF RunsInv, Grows, HoldsFirst, EngineHoldsRegistry

\* What the steps of the Connection and of Schema Sync do to the index: runs are superseded, lost,
\* or wait for the ones before.
Undisturbed(kinds) ==
  /\ ddl' \in {ddl, ddl + 1} /\ UNCHANGED <<content, registry>>
  /\ \/ Stays(runs', runs)
     \/ /\ ddl' = ddl
        /\ \E run \in Run : /\ Joins(runs', runs, run) /\ run.phase = "queued" /\ run.kind \in kinds
                            /\ (run.kind # "ddl" => run.full) /\ run.read = {}
                            /\ run.objects \subseteq 1..ddl

LEMMA RunsUndisturbed ==
  ASSUME IndexTypeOK, RunsInv, NEW kinds, Undisturbed(kinds)
  PROVE  RunsInv'
  <1>1. CASE Stays(runs', runs)
    <2>1. /\ Waiting' /\ Committed' /\ (runs' = <<>> <=> runs = <<>>)
          /\ runs # <<>> => Same(First', First)
      BY <1>1, RunsStay DEF RunsInv, Undisturbed
    <2> QED BY <2>1 DEF RunsInv, Grows, Holding, HoldsFirst, EngineHoldsRegistry, At, Same, Undisturbed
  <1>2. ASSUME NEW run \in Run, Joins(runs', runs, run), ddl' = ddl, run.phase = "queued",
               run.kind # "ddl" => run.full, run.read = {}, run.objects \subseteq 1..ddl
        PROVE  RunsInv'
    <2>1. Waiting' /\ Committed' /\ IF runs = <<>> THEN First' = run ELSE Same(First', First)
      BY <1>2, RunsJoin DEF RunsInv, Undisturbed
    <2>2. runs' # <<>>
      BY <1>2, RunsJoin DEF RunsInv, Undisturbed
    <2> QED BY <1>2, <2>1, <2>2
            DEF RunsInv, Grows, Holding, HoldsFirst, EngineHoldsRegistry, At, Same, Undisturbed
  <1> QED BY <1>1, <1>2 DEF Undisturbed

-----------------------------------------------------------------------------
(* What Schema Sync waits for, and what it owes, when a run starts or answers *)

SyncStays == UNCHANGED <<disposed, listener, wire, heard, debt, refreshes>>

LEMMA OwedIsKept ==
  ASSUME SyncStays
  PROVE  /\ \A d : Kept(d) <=> Kept(d)'
         /\ Paying' = Paying
         /\ \A at : RefreshAt(at)' = RefreshAt(at)
         /\ \A S : Reflects(S) => \A d \in heard' : disposed' \/ d \in S \/ Kept(d)'
  BY DEF SyncStays, Kept, Paying, RefreshAt, Reflects

LEMMA StartLinks ==
  ASSUME IndexTypeOK, RunsInv, Linked, Named, At("queued"), Started, answer = "none",
         UNCHANGED <<ddl, content, registry, answer, refreshes>>
  PROVE  Linked' /\ Named'
  <1>1. CASE /\ GoesOn(runs', runs) /\ runs'[1].phase = "reading"
             /\ \/ runs'[1].full /\ runs'[1].read \in {{}, First.read}
                \/ registry # None /\ ~runs'[1].full /\ runs'[1].read = registry \cup First.objects
    <2>1. runs # <<>> /\ 1 \in 1..Len(runs)
      BY FirstIsRun DEF At
    <2>2. runs'[1].read \subseteq 1..ddl
      BY <1>1, <2>1 DEF RunsInv, Committed, First
    <2>3. /\ runs' # <<>> /\ First' = runs'[1]
          /\ First'.kind = First.kind /\ First'.objects = First.objects /\ (First.full => First'.full)
          /\ Len(runs') = Len(runs) /\ \A i \in 2..Len(runs) : Same(runs'[i], runs[i])
          /\ \A i \in 1..Len(runs) : i = 1 \/ i \in 2..Len(runs)
      BY <1>1, <2>2, RunsGoOn DEF RunsInv
    <2>4. Linked'
      BY <2>3 DEF Linked, RefreshAt, Same, First
    <2>5. Named'
      BY <1>1, <2>3 DEF Named, Holding
    <2> QED BY <2>4, <2>5
  <1>2. CASE runs # <<>> /\ runs' = Tail(runs)
    <2>1. /\ runs' = <<>> \/ First'.phase = "queued"
          /\ \A i \in 1..Len(runs') : i + 1 \in 2..Len(runs) /\ runs'[i] = runs[i + 1]
          /\ \A i \in 2..Len(runs) : i \in 1..Len(runs) /\ i # 1
      BY <1>2, RunsEnd DEF RunsInv, Committed
    <2>2. ASSUME NEW i \in 1..Len(runs'), NEW j \in 1..Len(runs'),
                 runs'[i].kind = "ddl", runs'[j].kind = "ddl"
          PROVE  i = j
      <3>1. i + 1 = j + 1
        BY <2>1, <2>2 DEF Linked
      <3> QED BY <3>1
    <2> QED BY <2>1, <2>2 DEF Linked, Named, Holding, RefreshAt
  <1> QED BY <1>1, <1>2 DEF Started

\* The run that ends is the one whose answer is heard; no other is of DDL synchronization.
LEMMA EndLinks ==
  ASSUME IndexTypeOK, RunsInv, Linked, NEW outcome, Ends(outcome), answer = "none",
         UNCHANGED <<ddl, refreshes>>, registry' = None \/ registry' \subseteq 1..ddl
  PROVE  /\ Linked'
         /\ runs' = <<>> \/ First'.phase = "queued"
         /\ answer' = "none" \/ (answer' = outcome /\ First.kind = "ddl" /\ First.objects = refreshes[1].objects)
  <1>1. /\ runs' = <<>> \/ First'.phase = "queued"
        /\ \A i \in 1..Len(runs') : i + 1 \in 2..Len(runs) /\ runs'[i] = runs[i + 1]
        /\ \A i \in 2..Len(runs) : i \in 1..Len(runs) /\ i # 1
    BY RunsEnd DEF RunsInv, Ends
  <1>2. 1 \in 1..Len(runs)
    BY FirstIsRun DEF Ends
  <1>3. First.kind = "ddl" => RefreshAt("indexing") /\ First.objects = refreshes[1].objects
    BY <1>2 DEF Linked, First
  <1>4. ASSUME NEW i \in 1..Len(runs'), runs'[i].kind = "ddl"
        PROVE  /\ RefreshAt("indexing")' /\ answer' = "none" /\ runs'[i].objects = refreshes'[1].objects
               /\ refreshes'[1].debt => runs'[i].full
    <2>1. First.kind # "ddl"
      BY <1>1, <1>2, <1>4 DEF Linked, First
    <2> QED BY <1>1, <1>4, <2>1 DEF Linked, Ends, RefreshAt
  <1>5. ASSUME NEW i \in 1..Len(runs'), NEW j \in 1..Len(runs'),
               runs'[i].kind = "ddl", runs'[j].kind = "ddl"
        PROVE  i = j
    <2>1. i + 1 = j + 1
      BY <1>1, <1>5 DEF Linked
    <2> QED BY <2>1
  <1>6. answer' # "none" => RefreshAt("indexing")'
    BY <1>3 DEF Ends, RefreshAt
  <1> QED BY <1>1, <1>3, <1>4, <1>5, <1>6 DEF Linked, Ends

LEMMA GoOnLinks ==
  ASSUME IndexTypeOK, RunsInv, Linked, GoesOn(runs', runs), runs'[1].read \subseteq 1..ddl,
         answer = "none", UNCHANGED <<ddl, registry, answer, refreshes>>
  PROVE  Linked'
  <1>1. /\ runs' # <<>> /\ First' = runs'[1]
        /\ First'.kind = First.kind /\ First'.objects = First.objects /\ (First.full => First'.full)
        /\ Len(runs') = Len(runs) /\ \A i \in 2..Len(runs) : Same(runs'[i], runs[i])
        /\ \A i \in 1..Len(runs) : i = 1 \/ i \in 2..Len(runs)
    BY RunsGoOn DEF RunsInv
  <1> QED BY <1>1 DEF Linked, RefreshAt, Same, First

LEMMA AnswerLinks ==
  ASSUME IndexTypeOK, RunsInv, Linked, Named, answer = "none", UNCHANGED <<ddl, refreshes>>,
         Failed \/ Holds \/ Restores \/ Publishes
  PROVE  Linked' /\ Named'
  <1>1. CASE Failed
    <2>1. registry' = registry /\ Fallen
      BY <1>1 DEF Failed
    <2>2. CASE GoesOn(runs', runs) /\ runs'[1].phase = "reading" /\ runs'[1].full /\ runs'[1].read = {}
               /\ answer' = answer
      <3>1. Linked' /\ First' = runs'[1]
        <4>1. runs'[1].read \subseteq 1..ddl
          BY <2>2
        <4> QED BY <2>1, <2>2, <4>1, GoOnLinks DEF First
      <3> QED BY <2>2, <3>1 DEF Named, Holding
    <2>3. CASE Ends("failed")
      BY <2>1, <2>3, EndLinks DEF RunsInv, Committed, Named, Holding
    <2> QED BY <2>1, <2>2, <2>3 DEF Fallen
  <1>2. CASE Holds
    <2>1. GoesOn(runs', runs) /\ registry' = registry /\ answer' = answer /\ runs # <<>>
      BY <1>2 DEF Holds, GoesOn
    <2>2. 1 \in 1..Len(runs)
      BY <2>1, FirstIsRun
    <2>3. runs'[1].read \subseteq 1..ddl
      BY <1>2, <2>2 DEF Holds, RunsInv, Committed, First
    <2>4. Linked'
      BY <2>1, <2>3, GoOnLinks
    <2>5. First' = runs'[1] /\ First'.kind = First.kind /\ First'.objects = First.objects
      BY <2>1 DEF GoesOn, First
    <2>6. Named'
      BY <1>2, <2>1, <2>2, <2>5 DEF Named, Holds, RunsInv, Committed, First
    <2> QED BY <2>4, <2>6
  <1>3. CASE Restores
    <2>1. GoesOn(runs', runs) /\ registry' = registry /\ answer' = answer /\ runs # <<>>
      BY <1>3 DEF Restores, GoesOn
    <2>2. runs'[1].read \subseteq 1..ddl
      <3>1. 1 \in 1..Len(runs)
        BY <2>1, FirstIsRun
      <3> QED BY <1>3, <3>1 DEF Restores, RunsInv, Committed, First
    <2>3. Linked'
      BY <2>1, <2>2, GoOnLinks
    <2> QED BY <1>3, <2>1, <2>3 DEF Restores, Named, Holding, First
  <1>4. CASE Publishes
    <2>1. runs # <<>> /\ First.phase = "symbols" /\ registry' = First.read /\ Ends("ok")
      BY <1>4 DEF Publishes, Ends, At
    <2>2. First.read \subseteq 1..ddl
      <3>1. 1 \in 1..Len(runs)
        BY <2>1, FirstIsRun
      <3> QED BY <3>1 DEF RunsInv, Committed, First
    <2>3. /\ Linked'
          /\ runs' = <<>> \/ First'.phase = "queued"
          /\ answer' = "none" \/ (First.kind = "ddl" /\ First.objects = refreshes[1].objects)
      BY <2>1, <2>2, EndLinks
    <2> QED BY <2>1, <2>3 DEF Named, Holding
  <1> QED BY <1>1, <1>2, <1>3, <1>4

LEMMA StartOwes ==
  ASSUME IndexTypeOK, RunsInv, Linked, Owed, At("queued"), Started, answer = "none", SyncStays,
         UNCHANGED <<ddl, registry, answer>>, Linked'
  PROVE  Owed'
  <1>1. /\ Paying' = Paying
        /\ \A S : Reflects(S) => \A d \in heard' : disposed' \/ d \in S \/ Kept(d)'
    BY OwedIsKept
  <1>2. registry' # None => debt' \/ Reflects(registry)'
    BY <1>1 DEF Owed, SyncStays, Reflects
  <1>3. CASE GoesOn(runs', runs) /\ runs'[1].phase = "reading" /\ runs'[1].full
    BY <1>2, <1>3 DEF Owed, Holding, First
  <1>4. CASE /\ GoesOn(runs', runs) /\ runs'[1].phase = "reading" /\ ~runs'[1].full
             /\ registry # None /\ runs'[1].read = registry \cup First.objects
    <2>1. debt' \/ Reflects(First'.read)
      BY <1>4 DEF Owed, SyncStays, Reflects, First
    <2>2. runs' # <<>> /\ Holding(First') => debt' \/ Reflects(First.read)'
      BY <1>1, <2>1 DEF SyncStays, Reflects
    <2>3. ~(Paying' /\ runs' # <<>> /\ First'.kind = "ddl")
      <3>1. runs' # <<>> => 1 \in 1..Len(runs')
        BY <1>4, ChainIndex DEF GoesOn
      <3> QED BY <1>4, <3>1 DEF Linked, Paying, RefreshAt, First
    <2> QED BY <1>2, <2>2, <2>3 DEF Owed
  <1>5. CASE runs # <<>> /\ runs' = Tail(runs)
    <2>1. runs' = <<>> \/ First'.phase = "queued"
      BY <1>5, RunsEnd DEF RunsInv, Committed
    <2> QED BY <1>2, <2>1 DEF Owed, Holding
  <1> QED BY <1>3, <1>4, <1>5 DEF Started

LEMMA AnswerOwes ==
  ASSUME IndexTypeOK, RunsInv, Unheard, Linked, Owed, answer = "none", SyncStays, UNCHANGED ddl,
         Failed \/ Holds \/ Restores \/ Publishes
  PROVE  Owed'
  <1>1. /\ Paying' = Paying
        /\ \A S : Reflects(S) => \A d \in heard' : disposed' \/ d \in S \/ Kept(d)'
    BY OwedIsKept
  <1>2. registry' = registry /\ registry' # None => debt' \/ Reflects(registry)'
    BY <1>1 DEF Owed, SyncStays, Reflects
  <1>3. UNCHANGED <<ddl, refreshes, heard, disposed, debt>>
    BY DEF SyncStays
  <1>4. CASE Failed
    <2>1. registry' = registry /\ Fallen
      BY <1>4 DEF Failed
    <2>2. /\ runs' = <<>> \/ First'.phase = "queued" \/ (First'.phase = "reading" /\ First'.full)
      BY <1>3, <2>1, RunsFallen
    <2>3. answer' # "ok"
      BY <2>1 DEF Fallen, Ends
    <2> QED BY <1>2, <2>1, <2>2, <2>3 DEF Owed, Holding
  <1>5. CASE Holds
    <2>1. /\ registry' = registry /\ answer' = "none" /\ runs' # <<>>
          /\ First' = runs'[1] /\ First'.kind = First.kind /\ runs # <<>>
      <3>1. GoesOn(runs', runs)
        BY <1>5 DEF Holds
      <3>2. runs # <<>> /\ Len(runs') = Len(runs) /\ runs' \in Seq(Run)
        BY <3>1 DEF GoesOn
      <3>3. runs' # <<>>
        BY <3>2, ChainIndex DEF IndexTypeOK
      <3> QED BY <1>5, <3>1, <3>3 DEF Holds, GoesOn, First
    <2>2. CASE Holding(First) /\ First'.read = First.read
      <3>1. debt' \/ Reflects(First.read)'
        BY <1>1, <1>3, <2>1, <2>2 DEF Owed, Reflects
      <3>2. Paying' /\ First'.kind = "ddl" => Reflects(First.read)'
        BY <1>1, <1>3, <2>1, <2>2 DEF Owed, Reflects
      <3> QED BY <1>2, <2>1, <3>1, <3>2 DEF Owed
    <2>3. CASE First'.read = 1..ddl
      <3>1. Reflects(First.read)'
        BY <1>3, <2>3 DEF Unheard, Reflects
      <3> QED BY <1>2, <2>1, <3>1 DEF Owed
    <2> QED BY <1>5, <2>1, <2>2, <2>3 DEF Holds
  <1>6. CASE Restores
    <2>1. registry' = registry /\ answer' = "none" /\ First'.phase = "restoring"
      BY <1>6 DEF Restores, First
    <2> QED BY <1>2, <2>1 DEF Owed, Holding
  <1>7. CASE Publishes
    <2>1. runs # <<>> /\ First.phase = "symbols" /\ registry' = First.read /\ Ends("ok")
      BY <1>7 DEF Publishes, Ends, At
    <2>2. First.read \subseteq 1..ddl
      <3>1. 1 \in 1..Len(runs)
        BY <2>1, FirstIsRun
      <3> QED BY <3>1 DEF RunsInv, Committed, First
    <2>3. /\ runs' = <<>> \/ First'.phase = "queued"
          /\ answer' = "none" \/ First.kind = "ddl"
      BY <1>3, <2>1, <2>2, EndLinks
    <2>4. debt' \/ Reflects(registry)'
      BY <1>1, <1>3, <2>1 DEF Owed, Holding, Reflects
    <2>5. Paying' /\ answer' = "ok" => Reflects(registry)'
      BY <1>1, <1>3, <2>1, <2>3 DEF Owed, Holding, Reflects
    <2> QED BY <2>3, <2>4, <2>5 DEF Owed, Holding
  <1> QED BY <1>4, <1>5, <1>6, <1>7

-----------------------------------------------------------------------------
(* What a step of Schema Sync does to the index and to what is owed *)

\* The refresh under way, if the index is asked, stays what it is; it may not pay the debt any more.
HeadKept ==
  RefreshAt("indexing") =>
    /\ RefreshAt("indexing")' /\ refreshes'[1].objects = refreshes[1].objects
    /\ refreshes'[1].debt => refreshes[1].debt

\* Nothing heard is lost, or what may be is owed.
Keeps ==
  /\ debt' = debt \/ heard' = {}
  /\ disposed => disposed'
  /\ \A d \in heard' : disposed' \/ Kept(d)' \/ (d \in heard /\ ~Kept(d))
Owes == debt' = TRUE /\ ~Paying'

SyncBase == SyncTypeOK /\ OpsInv /\ RefreshesInv /\ Unheard

Effect == /\ Undisturbed({"manual", "refresh"}) /\ answer' = answer
          /\ HeadKept /\ (Keeps \/ Owes)

\* What Undisturbed says of the runs of DDL synchronization and of the first run.
LEMMA UndisturbedRuns ==
  ASSUME IndexTypeOK, RunsInv, Undisturbed({"manual", "refresh"})
  PROVE  /\ \A i \in 1..Len(runs') : runs'[i].kind = "ddl" => i \in 1..Len(runs) /\ Same(runs'[i], runs[i])
         /\ runs = <<>> => runs' = <<>> \/ First'.phase = "queued"
         /\ runs # <<>> => runs' # <<>> /\ Same(First', First)
         /\ runs' \in Seq(Run)
  <1>1. CASE Stays(runs', runs)
    <2>1. /\ runs' = <<>> <=> runs = <<>>
          /\ Len(runs') = Len(runs) /\ \A i \in 1..Len(runs) : Same(runs'[i], runs[i])
          /\ runs # <<>> => Same(First', First)
      BY <1>1, RunsStay DEF RunsInv, Undisturbed
    <2> QED BY <1>1, <2>1 DEF Stays
  <1>2. ASSUME NEW run \in Run, Joins(runs', runs, run), ddl' = ddl, run.phase = "queued",
               run.kind \in {"manual", "refresh"},
               run.kind # "ddl" => run.full, run.read = {}, run.objects \subseteq 1..ddl
        PROVE  /\ \A i \in 1..Len(runs') : runs'[i].kind = "ddl" => i \in 1..Len(runs) /\ Same(runs'[i], runs[i])
               /\ runs = <<>> => First'.phase = "queued"
               /\ runs # <<>> => runs' # <<>> /\ Same(First', First)
               /\ runs' \in Seq(Run)
    <2>1. /\ runs' # <<>> /\ runs'[Len(runs) + 1] = run
          /\ \A i \in 1..Len(runs') : i \in 1..Len(runs) \/ i = Len(runs) + 1
          /\ \A i \in 1..Len(runs) : Same(runs'[i], runs[i])
          /\ IF runs = <<>> THEN First' = run ELSE Same(First', First)
      BY <1>2, RunsJoin DEF RunsInv, Undisturbed
    <2> QED BY <1>2, <2>1 DEF Joins
  <1> QED BY <1>1, <1>2 DEF Undisturbed

LEMMA EffectLinks ==
  ASSUME IndexTypeOK, RunsInv, Linked, Named, Effect
  PROVE  Linked' /\ Named'
  <1>1. /\ \A i \in 1..Len(runs') : runs'[i].kind = "ddl" => i \in 1..Len(runs) /\ Same(runs'[i], runs[i])
        /\ runs = <<>> => runs' = <<>> \/ First'.phase = "queued"
        /\ runs # <<>> => runs' # <<>> /\ Same(First', First)
    BY UndisturbedRuns DEF Effect
  <1>2. answer' = answer /\ registry' = registry
    BY DEF Effect, Undisturbed
  <1>3. answer # "none" => RefreshAt("indexing")' /\ (runs' = <<>> \/ First'.phase = "queued")
    BY <1>1 DEF Linked, Effect, HeadKept, Same
  <1>4. ASSUME NEW i \in 1..Len(runs'), runs'[i].kind = "ddl"
        PROVE  /\ RefreshAt("indexing")' /\ answer' = "none" /\ runs'[i].objects = refreshes'[1].objects
               /\ refreshes'[1].debt => runs'[i].full
    BY <1>1, <1>2, <1>4 DEF Linked, Effect, HeadKept, Same
  <1>5. ASSUME NEW i \in 1..Len(runs'), NEW j \in 1..Len(runs'),
               runs'[i].kind = "ddl", runs'[j].kind = "ddl"
        PROVE  i = j
    BY <1>1, <1>5 DEF Linked, Same
  <1>6. Named'
    BY <1>1, <1>2 DEF Named, Linked, Effect, HeadKept, Same, Holding
  <1> QED BY <1>2, <1>3, <1>4, <1>5, <1>6 DEF Linked

LEMMA EffectOwes ==
  ASSUME SyncTypeOK, RunsInv, Linked, Owed, Effect
  PROVE  Owed'
  <1>1. /\ \A i \in 1..Len(runs') : runs'[i].kind = "ddl" => i \in 1..Len(runs) /\ Same(runs'[i], runs[i])
        /\ runs = <<>> => runs' = <<>> \/ First'.phase = "queued"
        /\ runs # <<>> => runs' # <<>> /\ Same(First', First)
        /\ runs' # <<>> => 1 \in 1..Len(runs')
    BY UndisturbedRuns, ChainIndex DEF Effect, SyncTypeOK
  <1>2. answer' = answer /\ registry' = registry
    BY DEF Effect, Undisturbed
  <1>3. CASE Owes
    BY <1>3 DEF Owes, Owed
  <1>4. CASE heard' = {}
    BY <1>4 DEF Owed, Reflects
  <1>5. CASE Keeps /\ debt' = debt
    <2>1. \A S : Reflects(S) => \A d \in heard' : disposed' \/ d \in S \/ Kept(d)'
      BY <1>5 DEF Keeps, Reflects
    <2>2. debt' = debt
      BY <1>5
    <2>3. runs' # <<>> /\ Holding(First)' => runs # <<>> /\ Holding(First) /\ First'.read = First.read
                                            /\ First'.kind = First.kind
      BY <1>1 DEF Holding, Same
    <2>4. RefreshAt("indexing") /\ Paying' => Paying
      BY DEF Effect, HeadKept, Paying
    <2>5. registry' # None => debt' \/ Reflects(registry)'
      BY <1>2, <2>1, <2>2 DEF Owed, Reflects
    <2>6. runs' # <<>> /\ Holding(First)' => debt' \/ Reflects(First.read)'
      BY <2>1, <2>2, <2>3 DEF Owed, Reflects
    <2>7. ASSUME Paying', runs' # <<>>, First'.kind = "ddl", Holding(First)'
          PROVE  Reflects(First.read)'
      <3>1. 1 \in 1..Len(runs) /\ runs[1].kind = "ddl"
        BY <1>1, <2>7 DEF First, Same
      <3>2. RefreshAt("indexing")
        BY <3>1 DEF Linked
      <3>3. Reflects(First.read)
        BY <2>3, <2>4, <2>7, <3>2 DEF Owed
      <3> QED BY <2>1, <2>3, <2>7, <3>3 DEF Reflects
    <2>8. ASSUME Paying', answer' = "ok"
          PROVE  Reflects(registry)'
      <3>1. RefreshAt("indexing")
        BY <1>2, <2>8 DEF Linked
      <3>2. Reflects(registry)
        BY <1>2, <2>4, <2>8, <3>1 DEF Owed
      <3> QED BY <1>2, <2>1, <3>2 DEF Reflects
    <2> QED BY <2>5, <2>6, <2>7, <2>8 DEF Owed
  <1> QED BY <1>3, <1>4, <1>5 DEF Effect, Keeps

LEMMA EffectKeeps ==
  ASSUME SyncIInv, SyncBase', Effect
  PROVE  SyncIInv'
  <1>1. IndexTypeOK
    BY DEF SyncIInv, SyncTypeOK
  <1>2. RunsInv'
    BY <1>1, RunsUndisturbed DEF SyncIInv, Effect
  <1>3. Linked' /\ Named'
    BY <1>1, EffectLinks DEF SyncIInv, SyncInv
  <1>4. Owed'
    BY EffectOwes DEF SyncIInv, SyncInv
  <1> QED BY <1>2, <1>3, <1>4 DEF SyncIInv, SyncInv, SyncBase

-----------------------------------------------------------------------------
(* Steps of the lifecycle chain that leave the listener and the refreshes alone *)

OpsMoves ==
  /\ Lined(ops', disposed')
  /\ \/ HeadAt(ops') = HeadAt(ops)
     \/ /\ HeadAt(ops) # "refreshing" /\ HeadAt(ops') \notin {"starting", "removing"}
        /\ HeadAt(ops') = "settling" => HeadAt(ops) = "removing"

Listens0 == UNCHANGED <<ddl, listener, wire, heard, debt, refreshes>>

LEMMA OpIs ==
  ASSUME SyncBase, NEW at, OpAt(at)
  PROVE  ops # <<>> /\ HeadAt(ops) = at /\ Op.at = at /\ Op \in Operation /\ (Op.op = "dispose" => disposed)
  BY LinedHead DEF SyncBase, OpsInv, OpAt, Op, HeadAt

LEMMA OpGoesOn ==
  ASSUME SyncBase, NEW from, OpAt(from),
         NEW at \in {"queued", "stopping", "persisting", "dialing", "executing", "provisioned",
                     "leaving", "reconcile", "removing", "settling", "halting", "configured",
                     "establish", "starting", "refreshing", "ending"},
         OpGoes(at), disposed' = disposed
  PROVE  Lined(ops', disposed') /\ HeadAt(ops') = at
  <1>1. ops # <<>> /\ Op \in Operation /\ (Op.op = "dispose" => disposed)
    BY OpIs
  <1> DEFINE e == [Op EXCEPT !.at = at]
  <1>2. e \in Operation /\ e.op = Op.op /\ e.at = at
    BY <1>1 DEF Operation
  <1> HIDE DEF e
  <1>3. Lined(<<e>> \o Tail(ops), disposed) /\ HeadAt(<<e>> \o Tail(ops)) = e.at
    BY <1>1, <1>2, LinedGoes DEF SyncBase, OpsInv
  <1> QED BY <1>2, <1>3 DEF OpGoes, e

LEMMA OpHasEnded ==
  ASSUME SyncBase, NEW from, OpAt(from), OpEnds, disposed' = disposed
  PROVE  Lined(ops', disposed') /\ HeadAt(ops') \in {"none", "queued"}
  <1>1. ops # <<>>
    BY DEF OpAt
  <1> QED BY <1>1, LinedTail DEF SyncBase, OpsInv, OpEnds

LEMMA LinedWider ==
  ASSUME NEW q, NEW closing, Lined(q, closing), NEW more, closing => more
  PROVE  Lined(q, more)
  BY DEF Lined

LEMMA OpsSuperseded ==
  ASSUME SyncBase, disposed => disposed',
         NEW op \in {"reconcile", "restart", "closed", "dispose"} \cup Commands,
         op = "dispose" => disposed', ops' = Superseding(op, ops)
  PROVE  OpsMoves
  <1>1. Lined(ops, disposed')
    BY LinedWider DEF SyncBase, OpsInv
  <1>2. /\ Lined(ops', disposed')
        /\ HeadAt(ops') = IF ops = <<>> THEN "queued" ELSE HeadAt(ops)
    BY <1>1, LinedSuperseding
  <1> QED BY <1>2 DEF OpsMoves, HeadAt

LEMMA OpsStay ==
  ASSUME SyncBase, disposed => disposed', ops' = ops
  PROVE  OpsMoves
  BY LinedWider DEF SyncBase, OpsInv, OpsMoves

LEMMA OpsStep ==
  ASSUME SyncBase, OpsMoves, Listens0, disposed => disposed', SyncTypeOK',
         Undisturbed({"manual", "refresh"}), answer' = answer
  PROVE  SyncBase' /\ Effect
  <1>1. OpsInv'
    BY DEF OpsMoves, OpsInv
  <1>2. RefreshesInv'
    <2>1. Sound(refreshes, HeadAt(ops), Listed, 1..ddl)
      BY DEF SyncBase, RefreshesInv
    <2>2. HeadAt(ops) # "refreshing" \/ HeadAt(ops') = HeadAt(ops)
      BY DEF OpsMoves
    <2>3. Sound(refreshes, HeadAt(ops'), Listed, 1..ddl)
      BY <2>1, <2>2, SoundElsewhere
    <2> QED BY <2>3 DEF RefreshesInv, Listens0, Listed
  <1>3. Unheard'
    BY DEF Unheard, SyncBase, OpsMoves, Listens0, Listed
  <1>4. HeadKept
    BY DEF HeadKept, Listens0, RefreshAt
  <1>5. Keeps
    BY DEF Keeps, Listens0, Kept
  <1> QED BY <1>1, <1>2, <1>3, <1>4, <1>5 DEF SyncBase, Effect

Statuses == {"not-indexed", "indexing", "available", "stale", "cancelled", "error"}
States == {"unknown", "unavailable", "disabled", "listening", "desynchronized",
           "provisioning-required", "insufficient-privilege"}

LEMMA OpsTypes ==
  ASSUME SyncTypeOK, OpsMoves, Listens0, UNCHANGED <<content, registry, answer>>, runs' \in Seq(Run),
         requests' \in 0..MaxRequests, faults' \in 0..MaxFaults,
         {connected', session', stale', saved', enabled', provisioned', disposed', stranded', reconnect'}
           \subseteq BOOLEAN,
         status' \in Statuses, sync' \in States
  PROVE  SyncTypeOK'
  <1>1. ops' \in Seq(Operation)
    BY DEF OpsMoves, Lined
  <1>2. IndexTypeOK'
    BY DEF SyncTypeOK, IndexTypeOK, Listens0, Statuses
  <1> QED BY <1>1, <1>2 DEF SyncTypeOK, Listens0, States

LEMMA RequestTypes ==
  ASSUME SyncTypeOK
  PROVE  /\ Request => requests' \in 0..MaxRequests /\ faults' \in 0..MaxFaults
         /\ Fault => faults' \in 0..MaxFaults
         /\ requests \in 0..MaxRequests /\ faults \in 0..MaxFaults
         /\ runs \in Seq(Run) /\ status \in Statuses /\ sync \in States
         /\ {connected, session, stale, saved, enabled, provisioned, disposed, stranded, reconnect, debt}
              \subseteq BOOLEAN
  BY IndexAssumption DEF SyncTypeOK, IndexTypeOK, Request, Fault, Statuses, States

\* Nothing happens to the index but that it may be stale.
LEMMA IndexRests ==
  ASSUME SyncTypeOK, UNCHANGED <<ddl, content, registry, runs, answer>>
  PROVE  Undisturbed({"manual", "refresh"}) /\ runs' \in Seq(Run)
  BY UnchangedStays DEF Undisturbed, SyncTypeOK, IndexTypeOK

\* Runs that are superseded, and a new one that waits.
LEMMA IndexAsked ==
  ASSUME SyncTypeOK, ddl' = ddl, IndexPostgresDatabase
  PROVE  /\ Undisturbed({"manual", "refresh"}) /\ runs' \in Seq(Run)
         /\ UNCHANGED <<session, answer>> /\ stale' = TRUE /\ status' = "stale"
  <1> DEFINE run == NewRun("refresh", TRUE, {})
  <1>1. /\ run \in Run /\ run.kind = "refresh" /\ run.phase = "queued" /\ run.full
        /\ run.read = {} /\ run.objects = {}
    BY DEF NewRun, Run, Snapshot
  <1>2. runs \in Seq(Run)
    BY DEF SyncTypeOK, IndexTypeOK
  <1> HIDE DEF run
  <1>3. Stays(Superseded(runs), runs)
    BY <1>2, SupersededStays
  <1>4. Joins(Append(Superseded(runs), run), runs, run)
    BY <1>1, <1>2, <1>3, AppendJoins
  <1>5. runs' = Append(Superseded(runs), run)
    BY DEF IndexPostgresDatabase, run
  <1>6. run.kind \in {"manual", "refresh"} /\ run.objects \subseteq 1..ddl
    BY <1>1
  <1> QED BY <1>1, <1>4, <1>5, <1>6 DEF IndexPostgresDatabase, MarkStale, Undisturbed, Joins

LEMMA IndexLosesClient ==
  ASSUME SyncTypeOK, runs' = WithoutClient(runs), UNCHANGED <<ddl, content, registry>>
  PROVE  Undisturbed({"manual", "refresh"}) /\ runs' \in Seq(Run)
  BY WithoutClientStays DEF Undisturbed, Stays, SyncTypeOK, IndexTypeOK

LEMMA IndexObserves ==
  ASSUME SyncTypeOK, ddl' = ddl, NEW open \in BOOLEAN, NEW newly \in BOOLEAN, Observe(open, newly)
  PROVE  /\ Undisturbed({"manual", "refresh"}) /\ runs' \in Seq(Run)
         /\ UNCHANGED <<session, answer>> /\ stale' \in BOOLEAN /\ status' \in Statuses
  <1>0. stale \in BOOLEAN /\ status \in Statuses
    BY RequestTypes
  <1>1. CASE open /\ newly /\ registry = None
    BY <1>1, IndexAsked DEF Observe, Statuses
  <1>2. CASE open /\ ~(newly /\ registry = None)
    BY <1>0, <1>2, IndexRests DEF Observe, indexVars
  <1>3. CASE ~open
    BY <1>0, <1>3, IndexLosesClient DEF Observe, Statuses
  <1> QED BY <1>1, <1>2, <1>3

LEMMA ConnectionStep ==
  ASSUME SyncBase, Connect \/ Disconnect
  PROVE  SyncBase' /\ Effect
  <1>1. PICK open \in BOOLEAN : Request /\ ConnectionChanges(open)
    BY DEF Connect, Disconnect
  <1>2. SyncTypeOK
    BY DEF SyncBase
  <1>3. Observe(open, ~connected) /\ ops' = Superseding("reconcile", ops) /\ Listens0
        /\ UNCHANGED <<settingVars, reconnect, sync>> /\ connected' = open
    BY <1>1 DEF ConnectionChanges, Listens0
  <1>4. /\ Undisturbed({"manual", "refresh"}) /\ runs' \in Seq(Run)
        /\ UNCHANGED <<session, answer>> /\ stale' \in BOOLEAN /\ status' \in Statuses
    BY <1>2, <1>3, IndexObserves DEF Listens0
  <1>5. OpsMoves
    BY <1>3, OpsSuperseded DEF settingVars
  <1>6. SyncTypeOK'
    BY <1>1, <1>2, <1>3, <1>4, <1>5, OpsTypes, RequestTypes DEF settingVars, Undisturbed
  <1> QED BY <1>3, <1>4, <1>5, <1>6, OpsStep DEF settingVars

LEMMA SettingStep ==
  ASSUME SyncBase,
         \/ RemoveConnection \/ AddConnection \/ (\E op \in Commands : Command(op))
         \/ RestartAll \/ Dispose \/ ReconnectTimer
  PROVE  SyncBase' /\ Effect
  <1>1. SyncTypeOK
    BY DEF SyncBase
  <1>2. OpsMoves
    <2>1. CASE AddConnection
      BY <2>1, OpsStay DEF AddConnection
    <2>2. CASE RemoveConnection \/ ReconnectTimer
      BY <2>2, OpsSuperseded DEF RemoveConnection, ReconnectTimer, settingVars
    <2>3. ASSUME NEW op \in Commands, Command(op) PROVE OpsMoves
      BY <2>3, OpsSuperseded DEF Command, settingVars, Commands
    <2>4. CASE RestartAll
      BY <2>4, OpsSuperseded DEF RestartAll
    <2>5. CASE Dispose
      <3>1. disposed' = TRUE
        BY <2>5 DEF Dispose
      <3>2. ops' = ops \/ ops' = Superseding("dispose", ops)
        BY <2>5 DEF Dispose
      <3> QED BY <3>1, <3>2, OpsSuperseded, OpsStay
    <2> QED BY <2>1, <2>2, <2>3, <2>4, <2>5
  <1>3. Undisturbed({"manual", "refresh"}) /\ runs' \in Seq(Run)
    <2>1. CASE RemoveConnection
      BY <1>1, <2>1, IndexLosesClient DEF RemoveConnection
    <2>2. CASE ~RemoveConnection
      BY <1>1, <2>2, IndexRests DEF AddConnection, Command, RestartAll, Dispose, ReconnectTimer, indexVars
    <2> QED BY <2>1, <2>2
  <1>4. /\ Listens0 /\ UNCHANGED <<content, registry, answer, session, stale, status, sync>>
        /\ disposed => disposed'
        /\ {connected', saved', enabled', provisioned', disposed', stranded', reconnect'} \subseteq BOOLEAN
        /\ requests' \in 0..MaxRequests /\ faults' \in 0..MaxFaults
    <2>1. CASE RemoveConnection \/ AddConnection
      <3>1. Listens0 /\ UNCHANGED <<content, registry, answer, session, stale, status, sync, disposed>>
        BY <2>1 DEF RemoveConnection, AddConnection, indexVars, Listens0
      <3>2. Request
        BY <2>1 DEF RemoveConnection, AddConnection
      <3>3. {connected', saved', enabled', provisioned', disposed', stranded', reconnect'} \subseteq BOOLEAN
        BY <1>1, <2>1, RequestTypes DEF RemoveConnection, AddConnection
      <3> QED BY <1>1, <3>1, <3>2, <3>3, RequestTypes
    <2>2. CASE (\E op \in Commands : Command(op)) \/ ReconnectTimer
      <3>1. /\ Listens0 /\ UNCHANGED <<content, registry, answer, session, stale, status, sync, disposed>>
            /\ UNCHANGED <<connected, saved, enabled, provisioned, stranded>>
        BY <2>2 DEF Command, ReconnectTimer, indexVars, settingVars, Listens0
      <3>2. /\ Request \/ UNCHANGED <<requests, faults>>
            /\ reconnect' \in {reconnect, FALSE}
        BY <2>2 DEF Command, ReconnectTimer
      <3> QED BY <1>1, <3>1, <3>2, RequestTypes
    <2>3. CASE RestartAll \/ Dispose
      <3>1. /\ Listens0 /\ UNCHANGED <<content, registry, answer, session, stale, status, sync>>
            /\ UNCHANGED <<connected, saved, provisioned, stranded>> /\ Request
        BY <2>3 DEF RestartAll, Dispose, indexVars, Listens0
      <3>2. disposed' \in {disposed, TRUE} /\ reconnect' \in {reconnect, FALSE}
        BY <2>3 DEF RestartAll, Dispose
      <3>3. enabled' \in BOOLEAN
        BY <1>1, <2>3, RequestTypes DEF RestartAll, Dispose
      <3>4. disposed \in BOOLEAN /\ reconnect \in BOOLEAN
        BY <1>1, RequestTypes
      <3>5. (disposed => disposed') /\ disposed' \in BOOLEAN /\ reconnect' \in BOOLEAN
        BY <3>2, <3>4
      <3> QED BY <1>1, <3>1, <3>3, <3>5, RequestTypes
    <2> QED BY <2>1, <2>2, <2>3
  <1>5. SyncTypeOK'
    BY <1>1, <1>2, <1>3, <1>4, OpsTypes, RequestTypes
  <1> QED BY <1>2, <1>3, <1>4, <1>5, OpsStep

LEMMA UserStep ==
  ASSUME SyncBase, RefreshDatabase \/ UserIndexes
  PROVE  SyncBase' /\ Effect
  <1>1. SyncTypeOK
    BY DEF SyncBase
  <1>2. UNCHANGED <<ddl, connected, syncVars>> /\ Request
    BY DEF RefreshDatabase, UserIndexes, IndexDatabase, CancelDatabaseIndex
  <1>3. OpsMoves /\ Listens0
    BY <1>2, OpsStay DEF syncVars, settingVars, Listens0
  <1>4. /\ Undisturbed({"manual", "refresh"}) /\ runs' \in Seq(Run) /\ UNCHANGED <<session, answer>>
        /\ stale' \in BOOLEAN /\ status' \in Statuses
    <2>1. CASE RefreshDatabase
      BY <1>1, <1>2, <2>1, IndexAsked DEF RefreshDatabase, Statuses
    <2>2. CASE IndexDatabase
      <3> DEFINE run == NewRun("manual", TRUE, {})
      <3>1. /\ run \in Run /\ run.kind = "manual" /\ run.phase = "queued" /\ run.full
            /\ run.read = {} /\ run.objects = {}
        BY DEF NewRun, Run, Snapshot
      <3>2. runs \in Seq(Run) /\ runs' = Append(runs, run) /\ UNCHANGED <<content, registry, session, answer, stale, status>>
        BY <1>1, <2>2 DEF IndexDatabase, SyncTypeOK, IndexTypeOK
      <3> HIDE DEF run
      <3>3. Joins(Append(runs, run), runs, run)
        BY <3>1, <3>2, AppendJoins, UnchangedStays
      <3>4. run.kind \in {"manual", "refresh"} /\ run.objects \subseteq 1..ddl
        BY <3>1
      <3> QED BY <1>1, <1>2, <3>1, <3>2, <3>3, <3>4, RequestTypes DEF Undisturbed, Joins
    <2>3. CASE CancelDatabaseIndex
      <3>1. /\ runs # <<>> /\ Put([First EXCEPT !.cancelled = TRUE]) /\ status' = "indexing"
            /\ UNCHANGED <<content, registry, session, answer, stale>> /\ runs \in Seq(Run)
        BY <1>1, <2>3 DEF CancelDatabaseIndex, SyncTypeOK, IndexTypeOK
      <3> DEFINE run == [First EXCEPT !.cancelled = TRUE]
                 p == <<run>> \o Tail(runs)
      <3>2. run \in Run /\ Same(run, runs[1])
        BY <1>1, <3>1, FirstIsRun DEF SyncTypeOK, Run, Same, First
      <3> HIDE DEF run
      <3>3. /\ p \in Seq(Run) /\ Len(p) = Len(runs) /\ p[1] = run
            /\ \A i \in 2..Len(runs) : p[i] = runs[i]
        BY <3>1, <3>2, HeadMove
      <3>4. \A i \in 1..Len(runs) : i = 1 \/ i \in 2..Len(runs)
        BY <3>1, ChainIndex
      <3> HIDE DEF p
      <3>5. Stays(p, runs)
        BY <3>2, <3>3, <3>4 DEF Stays, Same
      <3>6. runs' = p
        BY <3>1 DEF Put, p, run
      <3> QED BY <1>1, <1>2, <3>1, <3>3, <3>5, <3>6, RequestTypes DEF Undisturbed, Statuses
    <2> QED BY <2>1, <2>2, <2>3 DEF UserIndexes
  <1>5. SyncTypeOK'
    <2>1. UNCHANGED <<content, registry>>
      BY <1>4 DEF Undisturbed
    <2> QED BY <1>1, <1>2, <1>3, <1>4, <2>1, OpsTypes, RequestTypes DEF syncVars, settingVars
  <1> QED BY <1>2, <1>3, <1>4, <1>5, OpsStep DEF syncVars, settingVars

\* An operation that goes on, or ends, where it does not wait for a refresh.
LEMMA OpsGo ==
  ASSUME SyncBase, disposed' = disposed,
         NEW from \in {"queued", "stopping", "persisting", "dialing", "executing", "provisioned",
                       "leaving", "reconcile", "halting", "configured", "establish", "ending"},
         OpAt(from),
         \/ OpEnds
         \/ \E at \in {"persisting", "dialing", "executing", "provisioned", "leaving", "reconcile",
                       "configured", "establish", "ending"} : OpGoes(at)
  PROVE  OpsMoves
  <1>1. HeadAt(ops) = from
    BY OpIs
  <1>2. CASE OpEnds
    BY <1>1, <1>2, OpHasEnded DEF OpsMoves
  <1>3. ASSUME NEW at \in {"persisting", "dialing", "executing", "provisioned", "leaving", "reconcile",
                           "configured", "establish", "ending"},
               OpGoes(at)
        PROVE  OpsMoves
    BY <1>1, <1>3, OpGoesOn DEF OpsMoves
  <1> QED BY <1>2, <1>3

LEMMA OpsReconcile ==
  ASSUME SyncBase, disposed' = disposed, NEW from \in {"persisting", "provisioned"}, OpAt(from),
         NEW chain, chain = ops \/ chain = Superseding("reconcile", ops), ops' = ReconcilesWith(chain)
  PROVE  OpsMoves
  <1>1. HeadAt(ops) = from /\ ops # <<>> /\ Op \in Operation /\ (Op.op = "dispose" => disposed)
    BY OpIs
  <1>2. Lined(chain, disposed) /\ chain # <<>>
    BY <1>1, LinedSuperseding DEF SyncBase, OpsInv
  <1> DEFINE e == [Op EXCEPT !.at = "reconcile", !.current = TRUE]
  <1>3. e \in Operation /\ e.op = Op.op /\ e.at = "reconcile"
    BY <1>1 DEF Operation
  <1> HIDE DEF e
  <1>4. Lined([chain EXCEPT ![1] = e], disposed) /\ HeadAt([chain EXCEPT ![1] = e]) = "reconcile"
    BY <1>1, <1>2, <1>3, LinedFirst
  <1> QED BY <1>1, <1>4 DEF ReconcilesWith, OpsMoves, e

LEMMA ClientStep ==
  ASSUME SyncBase, ListenerEnded \/ AdminConnects
  PROVE  SyncBase' /\ Effect
  <1>1. SyncTypeOK
    BY DEF SyncBase
  <1>2. UNCHANGED <<ddl, connected, indexVars, requests, faults, settingVars, listener, wire, heard, debt,
                    refreshes, reconnect, sync>>
    BY DEF ListenerEnded, AdminConnects
  <1>3. OpsMoves
    <2>1. CASE AdminConnects
      BY <1>2, <2>1, OpsGo DEF AdminConnects, settingVars
    <2>2. CASE OpAt("stopping") /\ OpGoes(IF Op.op = "disable" THEN "persisting" ELSE "dialing")
      BY <1>2, <2>2, OpsGo DEF settingVars
    <2>3. CASE OpAt("halting") /\ OpGoes("configured")
      BY <1>2, <2>3, OpsGo DEF settingVars
    <2>4. CASE OpAt("removing") /\ OpGoes("settling")
      <3>1. HeadAt(ops) = "removing"
        BY <2>4, OpIs
      <3> QED BY <1>2, <2>4, <3>1, OpGoesOn DEF settingVars, OpsMoves
    <2> QED BY <2>1, <2>2, <2>3, <2>4 DEF ListenerEnded
  <1>4. Listens0 /\ UNCHANGED <<content, registry, runs, answer>> /\ disposed' = disposed
    BY <1>2 DEF Listens0, indexVars, settingVars
  <1>5. Undisturbed({"manual", "refresh"}) /\ runs' \in Seq(Run)
    BY <1>1, <1>4, IndexRests DEF Listens0
  <1>6. SyncTypeOK'
    BY <1>1, <1>2, <1>3, <1>4, <1>5, OpsTypes, RequestTypes DEF settingVars, indexVars
  <1> QED BY <1>3, <1>4, <1>5, <1>6, OpsStep

LEMMA PersistStep ==
  ASSUME SyncBase, Persisted
  PROVE  SyncBase' /\ Effect
  <1>1. SyncTypeOK
    BY DEF SyncBase
  <1>2. /\ UNCHANGED <<ddl, connected, requests, faults, saved, provisioned, disposed, stranded, listener,
                       wire, heard, debt, refreshes, reconnect, sync>>
        /\ OpAt("persisting") /\ enabled' \in BOOLEAN
    BY DEF Persisted
  <1>3. Listens0
    BY <1>2 DEF Listens0
  <1>4. OpsMoves
    BY <1>2, OpsReconcile DEF Persisted
  <1>5. connected \in BOOLEAN /\ stale \in BOOLEAN /\ status \in Statuses
    BY <1>1, RequestTypes
  <1>6. /\ Undisturbed({"manual", "refresh"}) /\ runs' \in Seq(Run)
        /\ UNCHANGED <<session, answer>> /\ stale' \in BOOLEAN /\ status' \in Statuses
    <2>1. CASE UNCHANGED indexVars
      BY <1>1, <1>2, <1>5, <2>1, IndexRests DEF indexVars
    <2>2. CASE Observe(connected, FALSE)
      BY <1>1, <1>2, <1>5, <2>2, IndexObserves
    <2> QED BY <2>1, <2>2 DEF Persisted
  <1>7. UNCHANGED <<content, registry>>
    BY <1>6 DEF Undisturbed
  <1>8. SyncTypeOK'
    BY <1>1, <1>2, <1>3, <1>4, <1>6, <1>7, OpsTypes, RequestTypes
  <1> QED BY <1>2, <1>3, <1>4, <1>6, <1>8, OpsStep

\* A command fails, its script runs, or an operation is over.
LEMMA CommandStep ==
  ASSUME SyncBase, PersistFails \/ AdminConnectFails \/ ScriptRuns \/ ScriptFails \/ CommandLeaves
  PROVE  SyncBase' /\ Effect
  <1>1. SyncTypeOK
    BY DEF SyncBase
  <1>2. /\ Listens0 /\ UNCHANGED <<content, registry, runs, answer>> /\ disposed' = disposed
        /\ UNCHANGED <<connected, session, saved, enabled, reconnect>>
    BY DEF Listens0, PersistFails, AdminConnectFails, ScriptRuns, ScriptFails, CommandLeaves, indexVars, settingVars
  <1>3. OpsMoves
    <2>1. CASE PersistFails \/ AdminConnectFails
      BY <1>2, <2>1, OpsGo DEF PersistFails, AdminConnectFails
    <2>2. CASE ScriptRuns \/ ScriptFails
      BY <1>2, <2>2, OpsGo DEF ScriptRuns, ScriptFails
    <2>3. CASE CommandLeaves
      BY <1>2, <2>3, OpsGo, OpsReconcile DEF CommandLeaves
    <2> QED BY <2>1, <2>2, <2>3
  <1>4. Undisturbed({"manual", "refresh"}) /\ runs' \in Seq(Run)
    BY <1>1, <1>2, IndexRests DEF Listens0
  <1>5. /\ requests' \in 0..MaxRequests /\ faults' \in 0..MaxFaults
        /\ stale' \in BOOLEAN /\ status' \in Statuses /\ sync' \in States
        /\ stranded' \in BOOLEAN /\ provisioned' \in BOOLEAN
    <2>1. CASE PersistFails \/ AdminConnectFails
      BY <1>1, <2>1, RequestTypes DEF PersistFails, AdminConnectFails, LeavesStopped, indexVars
    <2>2. CASE ScriptRuns
      <3>1. UNCHANGED <<requests, faults, stranded>> /\ provisioned' \in BOOLEAN
        BY <2>2 DEF ScriptRuns
      <3>2. MarkStale \/ UNCHANGED <<stale, status>>
        BY <2>2 DEF ScriptRuns
      <3>3. sync' \in {sync, "provisioning-required", "disabled"}
        BY <2>2 DEF ScriptRuns
      <3> QED BY <1>1, <3>1, <3>2, <3>3, RequestTypes DEF MarkStale, Statuses, States
    <2>3. CASE ScriptFails
      <3>1. requests' = requests /\ Fault /\ stranded' = TRUE
        BY <2>3 DEF ScriptFails, LeavesStopped
      <3>2. provisioned' \in BOOLEAN
        BY <1>1, <2>3, RequestTypes DEF ScriptFails
      <3>3. MarkStale \/ UNCHANGED <<stale, status>>
        BY <2>3 DEF ScriptFails
      <3>4. sync' \in {"unavailable", "insufficient-privilege"}
        BY <2>3 DEF ScriptFails
      <3> QED BY <1>1, <3>1, <3>2, <3>3, <3>4, RequestTypes DEF MarkStale, Statuses, States
    <2>4. CASE CommandLeaves
      <3>1. UNCHANGED <<requests, faults, stale, status, stranded, provisioned>> /\ sync' \in {sync, "unknown"}
        BY <2>4 DEF CommandLeaves, indexVars, settingVars
      <3> QED BY <1>1, <3>1, RequestTypes DEF States
    <2> QED BY <2>1, <2>2, <2>3, <2>4
  <1>6. SyncTypeOK'
    BY <1>1, <1>2, <1>3, <1>4, <1>5, OpsTypes, RequestTypes
  <1> QED BY <1>2, <1>3, <1>4, <1>6, OpsStep

LEMMA ConfiguredStep ==
  ASSUME SyncBase, Configured \/ ClosedListenerEnded
  PROVE  SyncBase' /\ Effect
  <1>1. SyncTypeOK
    BY DEF SyncBase
  <1>2. /\ Listens0 /\ UNCHANGED <<content, registry, runs, answer>> /\ disposed' = disposed
        /\ UNCHANGED <<connected, session, settingVars, requests, faults>>
    BY DEF Listens0, Configured, ClosedListenerEnded, indexVars, settingVars
  <1>3. OpsMoves
    BY <1>2, OpsGo DEF Configured, ClosedListenerEnded
  <1>4. Undisturbed({"manual", "refresh"}) /\ runs' \in Seq(Run)
    BY <1>1, <1>2, IndexRests DEF Listens0
  <1>5. (MarkStale \/ UNCHANGED <<stale, status>>) /\ reconnect' \in {reconnect, TRUE}
    BY DEF Configured, ClosedListenerEnded, ScheduleReconnect, indexVars
  <1>6. sync' \in {sync, "disabled", "desynchronized"}
    BY DEF Configured, ClosedListenerEnded
  <1>7. /\ stale' \in BOOLEAN /\ status' \in Statuses /\ sync' \in States /\ reconnect' \in BOOLEAN
    BY <1>1, <1>5, <1>6, RequestTypes DEF MarkStale, Statuses, States
  <1>8. SyncTypeOK'
    BY <1>1, <1>2, <1>3, <1>4, <1>7, OpsTypes, RequestTypes DEF settingVars
  <1> QED BY <1>2, <1>3, <1>4, <1>8, OpsStep

-----------------------------------------------------------------------------
(* DDL is committed, heard and flushed *)

LEMMA ListenerFields ==
  ASSUME SyncBase
  PROVE  /\ listener \in Listener /\ listener.notes \in Snapshot /\ listener.groups \in Snapshot
         /\ wire \in Snapshot /\ heard \in Snapshot
         /\ {listener.failed, listener.timer, listener.flushing} \subseteq BOOLEAN
         /\ listener.notes \subseteq 1..ddl /\ listener.groups \subseteq 1..ddl
         /\ wire \subseteq 1..ddl /\ heard \subseteq 1..ddl
         /\ refreshes \in Seq(Refresh) /\ ddl \in 0..MaxDdl
         /\ Listed \in BOOLEAN
         /\ \A S : S \subseteq 1..ddl => S \in Snapshot
  <1>1. /\ listener \in Listener /\ wire \in Snapshot /\ heard \in Snapshot
        /\ refreshes \in Seq(Refresh) /\ ddl \in 0..MaxDdl
    BY DEF SyncBase, SyncTypeOK, IndexTypeOK
  <1>2. /\ listener.notes \in Snapshot /\ listener.groups \in Snapshot
        /\ {listener.failed, listener.timer, listener.flushing} \subseteq BOOLEAN
    BY <1>1 DEF Listener
  <1>3. /\ listener.notes \subseteq 1..ddl /\ listener.groups \subseteq 1..ddl
        /\ wire \subseteq 1..ddl /\ heard \subseteq 1..ddl
    BY DEF SyncBase, Unheard
  <1>4. \A S : S \subseteq 1..ddl => S \in Snapshot
    BY <1>1, IndexAssumption DEF Snapshot, Ddl
  <1> QED BY <1>1, <1>2, <1>3, <1>4 DEF Listed

\* What is left of the types when these are known.
LEMMA RestTypes ==
  ASSUME SyncTypeOK, ddl' \in 0..MaxDdl, UNCHANGED <<content, registry, answer>>, runs' \in Seq(Run),
         requests' \in 0..MaxRequests, faults' \in 0..MaxFaults,
         {connected', session', stale', saved', enabled', provisioned', disposed', stranded', reconnect',
          debt'} \subseteq BOOLEAN,
         status' \in Statuses, sync' \in States,
         listener' \in Listener, wire' \in Snapshot, heard' \in Snapshot,
         ops' \in Seq(Operation), refreshes' \in Seq(Refresh)
  PROVE  SyncTypeOK'
  <1>1. IndexTypeOK'
    BY DEF SyncTypeOK, IndexTypeOK, Statuses
  <1> QED BY <1>1 DEF SyncTypeOK, States

LEMMA OpsTyped ==
  ASSUME SyncBase
  PROVE  ops \in Seq(Operation)
  BY DEF SyncBase, SyncTypeOK

LEMMA CommitStep ==
  ASSUME SyncBase, CommitDdl
  PROVE  SyncBase' /\ Effect
  <1>1. /\ UNCHANGED <<connected, indexVars, requests, faults, settingVars, listener, debt, ops, refreshes,
                       reconnect, sync>>
        /\ ddl < MaxDdl /\ ddl' = ddl + 1
        /\ \/ Listed /\ wire' = wire \cup {ddl'} /\ heard' = heard \cup {ddl'}
           \/ wire' = wire /\ heard' = heard
    BY DEF CommitDdl
  <1>2. SyncTypeOK
    BY DEF SyncBase
  <1>3. /\ ddl' \in 0..MaxDdl /\ 1..ddl \subseteq 1..ddl' /\ ddl' \in 1..ddl' /\ ddl' \in Ddl
    BY <1>1, <1>2, IndexAssumption DEF SyncTypeOK, IndexTypeOK, Ddl
  <1>4. wire' \in Snapshot /\ heard' \in Snapshot
    BY <1>1, <1>3, ListenerFields DEF Snapshot
  <1>5. UNCHANGED <<content, registry, runs, answer, session, stale, status>>
    BY <1>1 DEF indexVars
  <1>6. SyncTypeOK'
    BY <1>1, <1>2, <1>3, <1>4, <1>5, RestTypes, RequestTypes, ListenerFields, OpsTyped DEF settingVars
  <1>7. OpsInv'
    BY <1>1 DEF SyncBase, OpsInv, settingVars
  <1>8. RefreshesInv'
    <2>1. Sound(refreshes, HeadAt(ops), Listed, 1..ddl')
      <3>1. Sound(refreshes, HeadAt(ops), Listed, 1..ddl)
        BY DEF SyncBase, RefreshesInv
      <3> QED BY <1>3, <3>1 DEF Sound
    <2> QED BY <1>1, <2>1 DEF RefreshesInv, Listed
  <1>9. Unheard'
    <2>1. Listed' = Listed /\ HeadAt(ops') = HeadAt(ops)
      BY <1>1 DEF Listed
    <2>2. UNION {wire', heard', listener'.notes, listener'.groups} \subseteq 1..ddl'
      BY <1>1, <1>3, ListenerFields
    <2> QED BY <1>1, <2>1, <2>2 DEF Unheard, SyncBase
  <1>10. Undisturbed({"manual", "refresh"})
    BY <1>1, <1>2, <1>5, UnchangedStays, RequestTypes DEF Undisturbed
  <1>11. HeadKept
    BY <1>1 DEF HeadKept, RefreshAt
  <1>12. Keeps
    <2>1. disposed' = disposed
      BY <1>1 DEF settingVars
    <2>2. \A d \in heard : Kept(d) => Kept(d)'
      BY <1>1 DEF Kept
    <2>3. \A d \in heard' : d \in heard \/ d \in wire'
      BY <1>1
    <2> QED BY <1>1, <2>1, <2>2, <2>3 DEF Keeps, Kept
  <1> QED BY <1>5, <1>6, <1>7, <1>8, <1>9, <1>10, <1>11, <1>12 DEF SyncBase, Effect

LEMMA MarksHead ==
  ASSUME SyncBase, Marks(refreshes', refreshes)
  PROVE  HeadKept
  <1>1. refreshes # <<>> => refreshes' # <<>> /\ 1 \in 1..Len(refreshes)
    BY MarksNonempty, ListenerFields
  <1> QED BY <1>1 DEF HeadKept, RefreshAt, Marks

LEMMA PaysNoMore ==
  ASSUME SyncBase,
         refreshes' = NotPaying(refreshes) \/ refreshes' = Orphaned(NotPaying(refreshes))
  PROVE  /\ Marks(refreshes', refreshes) /\ HeadKept /\ ~Paying'
         /\ \/ refreshes' = NotPaying(refreshes)
            \/ \A i \in 1..Len(refreshes) : refreshes'[i].from # "flush"
  <1>1. /\ Marks(refreshes', refreshes) /\ \A i \in 1..Len(refreshes) : ~refreshes'[i].debt
        /\ \/ refreshes' = NotPaying(refreshes)
           \/ \A i \in 1..Len(refreshes) : refreshes'[i].from # "flush"
    BY ListenerFields, NotPayingMarks, ForgivenMarks
  <1>2. ~Paying'
    BY <1>1, MarksNonempty, ListenerFields DEF Paying, RefreshAt
  <1> QED BY <1>1, <1>2, MarksHead

LEMMA NotifiedStep ==
  ASSUME SyncBase, Notified
  PROVE  SyncBase' /\ Effect
  <1> DEFINE d == Arriving
  <1>1. /\ listener.phase = "published" /\ wire # {}
        /\ wire' = wire \ {d} /\ listener' = [listener EXCEPT !.notes = @ \cup {d}, !.timer = TRUE]
        /\ MarkStale
        /\ UNCHANGED <<ddl, connected, session, content, registry, runs, answer, requests, faults,
                       settingVars, heard, debt, ops, refreshes, reconnect, sync>>
    BY DEF Notified
  <1>2. SyncTypeOK
    BY DEF SyncBase
  <1>3. d \in wire
    BY <1>1, ListenerFields, FirstOfSome DEF Arriving
  <1> HIDE DEF d
  <1>4. /\ listener' \in Listener /\ listener'.phase = "published" /\ listener'.notes = listener.notes \cup {d}
        /\ listener'.groups = listener.groups /\ listener'.flushing = listener.flushing
    BY <1>1, <1>3, ListenerFields DEF Listener, Snapshot
  <1>5. wire' \in Snapshot
    BY <1>1, ListenerFields DEF Snapshot
  <1>6. SyncTypeOK'
    BY <1>1, <1>2, <1>4, <1>5, RestTypes, RequestTypes, ListenerFields, OpsTyped DEF settingVars, MarkStale, Statuses
  <1>7. OpsInv' /\ HeadAt(ops') = HeadAt(ops) /\ disposed' = disposed
    BY <1>1 DEF SyncBase, OpsInv, settingVars
  <1>8. Listed /\ Listed'
    BY <1>1, <1>4 DEF Listed
  <1>9. RefreshesInv'
    BY <1>1, <1>8 DEF SyncBase, RefreshesInv
  <1>10. Unheard'
    <2>1. UNION {wire', heard', listener'.notes, listener'.groups} \subseteq 1..ddl'
      BY <1>1, <1>3, <1>4, ListenerFields
    <2> QED BY <1>1, <1>4, <1>7, <1>8, <2>1 DEF Unheard, SyncBase
  <1>11. Undisturbed({"manual", "refresh"})
    BY <1>1, <1>2, IndexRests
  <1>12. HeadKept
    BY <1>1 DEF HeadKept, RefreshAt
  <1>13. Keeps
    BY <1>1, <1>3, <1>4, <1>7 DEF Keeps, Kept
  <1> QED BY <1>1, <1>6, <1>7, <1>9, <1>10, <1>11, <1>12, <1>13 DEF SyncBase, Effect

LEMMA RejectedStep ==
  ASSUME SyncBase, Rejected
  PROVE  SyncBase' /\ Effect
  <1>1. /\ wire' \subseteq wire /\ debt' = TRUE /\ refreshes' = NotPaying(refreshes)
        /\ MarkStale /\ sync' = "desynchronized" /\ Fault /\ requests' = requests
        /\ UNCHANGED <<ddl, connected, session, content, registry, runs, answer,
                       settingVars, listener, heard, ops, reconnect>>
    BY DEF Rejected, Owe
  <1>2. SyncTypeOK
    BY DEF SyncBase
  <1>3. Marks(refreshes', refreshes) /\ HeadKept /\ ~Paying'
    BY <1>1, PaysNoMore
  <1>4. wire' \in Snapshot /\ refreshes' \in Seq(Refresh)
    BY <1>1, <1>3, ListenerFields DEF Snapshot, Marks
  <1>5. SyncTypeOK'
    BY <1>1, <1>2, <1>4, RestTypes, RequestTypes, ListenerFields, OpsTyped
       DEF settingVars, MarkStale, Statuses, States
  <1>6. OpsInv' /\ HeadAt(ops') = HeadAt(ops) /\ Listed' = Listed
    BY <1>1 DEF SyncBase, OpsInv, settingVars, Listed
  <1>7. RefreshesInv'
    <2>1. Sound(refreshes', HeadAt(ops), Listed, 1..ddl)
      <3>1. Sound(refreshes, HeadAt(ops), Listed, 1..ddl)
        BY DEF SyncBase, RefreshesInv
      <3> QED BY <1>3, <3>1, SoundMarks
    <2> QED BY <1>1, <1>6, <2>1 DEF RefreshesInv
  <1>8. Unheard'
    BY <1>1, <1>6 DEF Unheard, SyncBase
  <1>9. Undisturbed({"manual", "refresh"})
    BY <1>1, <1>2, IndexRests
  <1> QED BY <1>1, <1>3, <1>5, <1>6, <1>7, <1>8, <1>9 DEF SyncBase, Effect, Owes

-----------------------------------------------------------------------------
(* Refreshes *)

\* The flush goes on with one of the notifications it has, if there is any.
LEMMA FlushNextMoves ==
  ASSUME SyncBase, NEW chain, NEW at, Sound(chain, at, TRUE, 1..ddl),
         NEW groups, groups \subseteq 1..ddl, NEW notes, notes \subseteq 1..ddl, NEW timer \in BOOLEAN,
         FlushNext(groups, notes, timer, chain)
  PROVE  /\ listener' \in Listener /\ listener'.phase = listener.phase
         /\ listener'.groups \subseteq groups /\ (~listener'.flushing => listener'.groups = {})
         /\ listener'.notes = IF groups = {} THEN listener.notes ELSE notes
         /\ Sound(refreshes', at, TRUE, 1..ddl)
         /\ \A i \in 1..Len(chain) : i \in 1..Len(refreshes') /\ refreshes'[i] = chain[i]
         /\ \A d \in groups : \/ d \in listener'.groups
                              \/ \E i \in 1..Len(refreshes') :
                                   /\ refreshes'[i].from = "flush" /\ d \in refreshes'[i].objects
                                   /\ ~refreshes'[i].ok
  <1>1. CASE groups = {}
    <2>1. /\ listener' = [listener EXCEPT !.flushing = FALSE, !.groups = {}, !.timer = timer]
          /\ refreshes' = chain
      BY <1>1 DEF FlushNext
    <2>2. /\ listener' \in Listener /\ listener'.phase = listener.phase /\ listener'.groups = {}
          /\ listener'.notes = listener.notes
      <3>1. {} \in Snapshot
        BY DEF Snapshot
      <3> QED BY <2>1, <3>1, ListenerFields DEF Listener
    <2> QED BY <1>1, <2>1, <2>2
  <1>2. CASE groups # {}
    <2> DEFINE d == CHOOSE d \in groups : \A e \in groups : d <= e
    <2>1. /\ listener' = [listener EXCEPT !.flushing = TRUE, !.groups = groups \ {d},
                                          !.notes = notes, !.timer = timer]
          /\ \E fallback \in BOOLEAN : refreshes' = Append(chain, NewRefresh("flush", fallback, {d}))
      BY <1>2 DEF FlushNext
    <2>2. d \in groups
      <3>1. groups \in SUBSET Nat
        BY ListenerFields
      <3> HIDE DEF d
      <3> QED BY <1>2, <3>1, FirstOfSome DEF d
    <2> HIDE DEF d
    <2>3. PICK fallback \in BOOLEAN : refreshes' = Append(chain, NewRefresh("flush", fallback, {d}))
      BY <2>1
    <2>4. /\ groups \ {d} \in Snapshot /\ notes \in Snapshot /\ {d} \in Snapshot /\ {d} \subseteq 1..ddl
      BY <2>2, ListenerFields
    <2>5. /\ listener' \in Listener /\ listener'.phase = listener.phase
          /\ listener'.groups = groups \ {d} /\ listener'.notes = notes /\ listener'.flushing = TRUE
      BY <2>1, <2>4, ListenerFields DEF Listener
    <2>6. Sound(refreshes', at, TRUE, 1..ddl)
      BY <2>3, <2>4, SoundAppend
    <2> DEFINE new == NewRefresh("flush", fallback, {d})
    <2>7. new \in Refresh /\ new.from = "flush" /\ new.objects = {d} /\ new.ok = FALSE
      BY <2>4 DEF NewRefresh, Refresh
    <2> HIDE DEF new
    <2>8. chain \in Seq(Refresh) /\ refreshes' = Append(chain, new)
      BY <2>3 DEF Sound, new
    <2>9. /\ Len(chain) \in Nat /\ Len(refreshes') = Len(chain) + 1
          /\ \A i \in 1..Len(chain) : refreshes'[i] = chain[i]
          /\ refreshes'[Len(chain) + 1] = new
      BY <2>7, <2>8, AppendMove
    <2>10. /\ \A i \in 1..Len(chain) : i \in 1..Len(refreshes')
           /\ Len(chain) + 1 \in 1..Len(refreshes')
      BY <2>9
    <2>11. ASSUME NEW e \in groups, e \notin listener'.groups
           PROVE  /\ refreshes'[Len(chain) + 1].from = "flush" /\ e \in refreshes'[Len(chain) + 1].objects
                  /\ ~refreshes'[Len(chain) + 1].ok
      BY <2>5, <2>7, <2>9, <2>11
    <2> QED BY <1>2, <2>5, <2>6, <2>9, <2>10, <2>11
  <1> QED BY <1>1, <1>2

LEMMA FlushTimerStep ==
  ASSUME SyncBase, FlushTimer
  PROVE  SyncBase' /\ Effect
  <1>1. /\ UNCHANGED <<ddl, connected, indexVars, requests, faults, settingVars, wire, heard, debt, ops,
                       reconnect, sync>>
        /\ listener.timer
    BY DEF FlushTimer
  <1>2. SyncTypeOK
    BY DEF SyncBase
  <1>3. Listed
    BY <1>1 DEF SyncBase, Unheard
  <1>4. Sound(refreshes, HeadAt(ops), TRUE, 1..ddl)
    BY <1>3 DEF SyncBase, RefreshesInv, Sound
  <1>5. /\ listener' \in Listener /\ listener'.phase = listener.phase
        /\ listener'.groups \subseteq 1..ddl /\ listener'.notes \subseteq 1..ddl
        /\ (~listener'.flushing => listener'.groups = {})
        /\ Sound(refreshes', HeadAt(ops), TRUE, 1..ddl)
        /\ \A i \in 1..Len(refreshes) : i \in 1..Len(refreshes') /\ refreshes'[i] = refreshes[i]
        /\ \A d \in listener.notes \cup listener.groups :
             \/ d \in listener'.notes \cup listener'.groups
             \/ \E i \in 1..Len(refreshes') :
                  /\ refreshes'[i].from = "flush" /\ d \in refreshes'[i].objects /\ ~refreshes'[i].ok
    <2>1. CASE listener.flushing
      <3>1. listener' = [listener EXCEPT !.timer = FALSE] /\ refreshes' = refreshes
        BY <2>1 DEF FlushTimer
      <3>2. /\ listener' \in Listener /\ listener'.phase = listener.phase /\ listener'.groups = listener.groups
            /\ listener'.notes = listener.notes /\ listener'.flushing = listener.flushing
        BY <3>1, ListenerFields DEF Listener
      <3> QED BY <1>4, <2>1, <3>1, <3>2, ListenerFields
    <2>2. CASE ~listener.flushing
      <3>1. FlushNext(listener.notes, {}, FALSE, refreshes) /\ listener.groups = {}
        BY <2>2 DEF FlushTimer, SyncBase, Unheard
      <3>2. listener.notes \subseteq 1..ddl /\ {} \subseteq 1..ddl
        BY ListenerFields
      <3>3. /\ listener' \in Listener /\ listener'.phase = listener.phase
            /\ listener'.groups \subseteq listener.notes /\ (~listener'.flushing => listener'.groups = {})
            /\ listener'.notes = IF listener.notes = {} THEN listener.notes ELSE {}
            /\ Sound(refreshes', HeadAt(ops), TRUE, 1..ddl)
            /\ \A i \in 1..Len(refreshes) : i \in 1..Len(refreshes') /\ refreshes'[i] = refreshes[i]
            /\ \A d \in listener.notes : \/ d \in listener'.groups
                                         \/ \E i \in 1..Len(refreshes') :
                                              /\ refreshes'[i].from = "flush" /\ d \in refreshes'[i].objects
                                              /\ ~refreshes'[i].ok
        BY <1>4, <3>1, <3>2, FlushNextMoves
      <3> QED BY <3>1, <3>2, <3>3
    <2> QED BY <2>1, <2>2
  <1>6. refreshes' \in Seq(Refresh)
    BY <1>5 DEF Sound
  <1>7. UNCHANGED <<content, registry, runs, answer, session, stale, status>>
    BY <1>1 DEF indexVars
  <1>8. SyncTypeOK'
    BY <1>1, <1>2, <1>5, <1>6, <1>7, RestTypes, RequestTypes, ListenerFields, OpsTyped DEF settingVars
  <1>9. OpsInv' /\ HeadAt(ops') = HeadAt(ops) /\ disposed' = disposed
    BY <1>1 DEF SyncBase, OpsInv, settingVars
  <1>10. Listed' /\ Listed
    BY <1>3, <1>5 DEF Listed
  <1>11. RefreshesInv'
    BY <1>1, <1>5, <1>9, <1>10 DEF RefreshesInv, Sound
  <1>12. Unheard'
    <2>1. UNION {wire', heard', listener'.notes, listener'.groups} \subseteq 1..ddl'
      BY <1>1, <1>5, ListenerFields
    <2> QED BY <1>1, <1>5, <1>9, <1>10, <2>1 DEF Unheard, SyncBase
  <1>13. Undisturbed({"manual", "refresh"})
    BY <1>1, <1>2, <1>7, IndexRests
  <1>14. HeadKept
    <2>1. refreshes # <<>> => 1 \in 1..Len(refreshes)
      BY ChainIndex, ListenerFields
    <2>2. 1 \in 1..Len(refreshes') => refreshes' # <<>>
      BY <1>6, ChainIndex
    <2> QED BY <1>5, <2>1, <2>2 DEF HeadKept, RefreshAt
  <1>15. Keeps
    <2>1. \A d : Kept(d) => Kept(d)'
      BY <1>1, <1>5 DEF Kept
    <2> QED BY <1>1, <1>9, <2>1 DEF Keeps
  <1> QED BY <1>7, <1>8, <1>9, <1>11, <1>12, <1>13, <1>14, <1>15 DEF SyncBase, Effect

LEMMA RefreshStartsStep ==
  ASSUME SyncBase, RefreshStarts
  PROVE  SyncBase' /\ Effect
  <1>1. /\ UNCHANGED <<ddl, connected, indexVars, requests, faults, settingVars, listener, wire, heard, debt,
                       ops, reconnect, sync>>
        /\ RefreshAt("queued") /\ refreshes # <<>>
    BY DEF RefreshStarts, RefreshAt
  <1>2. SyncTypeOK /\ debt \in BOOLEAN
    BY DEF SyncBase, SyncTypeOK
  <1> DEFINE to == IF saved THEN "connecting" ELSE "ending"
             e == [refreshes[1] EXCEPT !.at = to, !.debt = debt, !.full = @ \/ debt]
  <1>3. refreshes[1] \in Refresh /\ refreshes \in Seq(Refresh) /\ 1 \in 1..Len(refreshes)
    BY <1>1, ListenerFields, ChainIndex
  <1>4. refreshes' = [refreshes EXCEPT ![1] = e]
    BY <1>3 DEF RefreshStarts
  <1>5. to \in {"connecting", "ending"}
    OBVIOUS
  <1> HIDE DEF to
  <1>6. refreshes[1].full \in BOOLEAN /\ (refreshes[1].full \/ debt) \in BOOLEAN
    BY <1>2, <1>3 DEF Refresh
  <1>7. /\ e \in Refresh /\ e.from = refreshes[1].from /\ e.objects = refreshes[1].objects
        /\ e.ok = refreshes[1].ok /\ e.debt = debt /\ e.full = (refreshes[1].full \/ debt)
    BY <1>2, <1>3, <1>5, <1>6 DEF Refresh
  <1> HIDE DEF e
  <1>8. /\ Sound(refreshes', HeadAt(ops), Listed, 1..ddl)
        /\ refreshes' # <<>> /\ refreshes'[1] = e
        /\ Len(refreshes') = Len(refreshes)
        /\ \A i \in 2..Len(refreshes) : refreshes'[i] = refreshes[i]
    <2>1. Sound(refreshes, HeadAt(ops), Listed, 1..ddl)
      BY DEF SyncBase, RefreshesInv
    <2>2. e.debt => e.full
      BY <1>7
    <2>0. e \in Refresh /\ e.from = refreshes[1].from /\ e.objects = refreshes[1].objects /\ refreshes # <<>>
      BY <1>1, <1>7
    <2> DEFINE p == [refreshes EXCEPT ![1] = e]
    <2>3. Sound(p, HeadAt(ops), Listed, 1..ddl) /\ p # <<>> /\ p[1] = e /\ Len(p) = Len(refreshes)
          /\ \A i \in 2..Len(refreshes) : p[i] = refreshes[i]
      BY <2>0, <2>1, <2>2, SoundFirst
    <2> HIDE DEF p
    <2> QED BY <2>3, <1>4 DEF p
  <1>9. refreshes' \in Seq(Refresh)
    BY <1>8 DEF Sound
  <1>10. UNCHANGED <<content, registry, runs, answer, session, stale, status>>
    BY <1>1 DEF indexVars
  <1>11. SyncTypeOK'
    BY <1>1, <1>2, <1>9, <1>10, RestTypes, RequestTypes, ListenerFields, OpsTyped DEF settingVars
  <1>12. OpsInv' /\ HeadAt(ops') = HeadAt(ops) /\ disposed' = disposed /\ Listed' = Listed
    BY <1>1 DEF SyncBase, OpsInv, settingVars, Listed
  <1>13. RefreshesInv'
    BY <1>1, <1>8, <1>12 DEF RefreshesInv
  <1>14. Unheard'
    <2>1. \A i \in 1..Len(refreshes') : refreshes'[i].from = "flush" => Listed'
      BY <1>12, <1>13 DEF RefreshesInv, Sound
    <2> QED BY <1>1, <1>12, <2>1 DEF Unheard, SyncBase
  <1>15. Undisturbed({"manual", "refresh"})
    BY <1>1, <1>2, <1>10, IndexRests
  <1>16. HeadKept
    BY <1>1 DEF HeadKept, RefreshAt
  <1>17. Keeps
    <2>1. \A i \in 1..Len(refreshes) : /\ refreshes'[i].from = refreshes[i].from /\ refreshes'[i].ok = refreshes[i].ok
                                       /\ refreshes'[i].objects = refreshes[i].objects
      <3>1. \A i \in 1..Len(refreshes) : i = 1 \/ i \in 2..Len(refreshes)
        BY <1>3, ChainIndex
      <3> QED BY <1>7, <1>8, <3>1
    <2>2. \A d : Kept(d) => Kept(d)'
      BY <1>1, <1>8, <2>1 DEF Kept
    <2> QED BY <1>1, <1>12, <2>2 DEF Keeps
  <1> QED BY <1>10, <1>11, <1>12, <1>13, <1>14, <1>15, <1>16, <1>17 DEF SyncBase, Effect

\* The index is asked: a run of DDL synchronization waits in its chain.
LEMMA RefreshConnectedStep ==
  ASSUME SyncIInv, RefreshConnected
  PROVE  SyncIInv'
  <1>1. /\ UNCHANGED <<ddl, connected, session, content, registry, stale, status, answer, requests, faults,
                       settingVars, listener, wire, heard, debt, ops, reconnect, sync>>
        /\ RefreshAt("connecting") /\ refreshes # <<>> /\ refreshes[1].at = "connecting"
    BY DEF RefreshConnected, RefreshAt
  <1>2. SyncBase /\ SyncTypeOK /\ IndexTypeOK
    BY DEF SyncIInv, SyncInv, SyncBase, SyncTypeOK
  <1> DEFINE e == [refreshes[1] EXCEPT !.at = "indexing"]
  <1>3. /\ refreshes[1] \in Refresh /\ refreshes \in Seq(Refresh) /\ 1 \in 1..Len(refreshes)
        /\ refreshes[1].objects \subseteq 1..ddl /\ (refreshes[1].debt => refreshes[1].full)
    BY <1>1, <1>2, ListenerFields, ChainIndex DEF SyncBase, RefreshesInv, Sound
  <1>4. refreshes' = [refreshes EXCEPT ![1] = e]
    BY <1>3 DEF RefreshConnected
  <1>5. /\ e \in Refresh /\ e.from = refreshes[1].from /\ e.objects = refreshes[1].objects
        /\ e.ok = refreshes[1].ok /\ e.debt = refreshes[1].debt /\ e.full = refreshes[1].full
        /\ e.at = "indexing"
    BY <1>3 DEF Refresh
  <1> HIDE DEF e
  <1>6. /\ Sound(refreshes', HeadAt(ops), Listed, 1..ddl)
        /\ refreshes' # <<>> /\ refreshes'[1] = e
        /\ Len(refreshes') = Len(refreshes)
        /\ \A i \in 2..Len(refreshes) : refreshes'[i] = refreshes[i]
    <2>0. e \in Refresh /\ e.from = refreshes[1].from /\ e.objects = refreshes[1].objects /\ refreshes # <<>>
      BY <1>1, <1>5
    <2>1. Sound(refreshes, HeadAt(ops), Listed, 1..ddl)
      BY <1>2 DEF SyncBase, RefreshesInv
    <2>2. e.debt => e.full
      BY <1>3, <1>5
    <2> DEFINE p == [refreshes EXCEPT ![1] = e]
    <2>3. Sound(p, HeadAt(ops), Listed, 1..ddl) /\ p # <<>> /\ p[1] = e /\ Len(p) = Len(refreshes)
          /\ \A i \in 2..Len(refreshes) : p[i] = refreshes[i]
      BY <2>0, <2>1, <2>2, SoundFirst
    <2> HIDE DEF p
    <2> QED BY <2>3, <1>4 DEF p
  <1> DEFINE run == NewRun("ddl", refreshes[1].full, refreshes[1].objects)
  <1>7. /\ run \in Run /\ run.kind = "ddl" /\ run.phase = "queued" /\ run.full = refreshes[1].full
        /\ run.read = {} /\ run.objects = refreshes[1].objects
    BY <1>3 DEF Refresh, NewRun, Run, Snapshot
  <1>8. runs' = Append(runs, run) /\ runs \in Seq(Run)
    BY <1>2 DEF RefreshConnected, IndexTypeOK
  <1> HIDE DEF run
  <1>9. Joins(runs', runs, run)
    BY <1>7, <1>8, AppendJoins, UnchangedStays
  <1>10. RunsInv'
    <2>1. run.objects \subseteq 1..ddl /\ run.kind \in {"ddl"}
      BY <1>3, <1>7
    <2>2. Undisturbed({"ddl"})
      BY <1>1, <1>7, <1>9, <2>1 DEF Undisturbed
    <2> QED BY <1>2, <2>2, RunsUndisturbed DEF SyncIInv
  <1>11. SyncTypeOK'
    <2>1. runs' \in Seq(Run) /\ refreshes' \in Seq(Refresh)
      BY <1>6, <1>9 DEF Joins, Sound
    <2> QED BY <1>1, <1>2, <2>1, RestTypes, RequestTypes, ListenerFields, OpsTyped DEF settingVars
  <1>12. OpsInv' /\ HeadAt(ops') = HeadAt(ops) /\ disposed' = disposed /\ Listed' = Listed
    BY <1>1, <1>2 DEF SyncBase, OpsInv, settingVars, Listed
  <1>13. RefreshesInv'
    BY <1>1, <1>6, <1>12 DEF RefreshesInv
  <1>14. Unheard'
    BY <1>1, <1>2, <1>12 DEF Unheard, SyncBase
  <1>15. /\ answer = "none" /\ \A i \in 1..Len(runs) : runs[i].kind # "ddl"
    BY <1>1 DEF SyncIInv, SyncInv, Linked, RefreshAt
  <1>16. /\ \A i \in 1..Len(runs') : i \in 1..Len(runs) \/ i = Len(runs) + 1
         /\ \A i \in 1..Len(runs) : Same(runs'[i], runs[i])
         /\ runs'[Len(runs) + 1] = run
         /\ IF runs = <<>> THEN First' = run ELSE Same(First', First)
         /\ runs # <<>> => 1 \in 1..Len(runs)
    <2>1. run.objects \subseteq 1..ddl /\ (run.kind # "ddl" => run.full)
      BY <1>3, <1>7
    <2>2. runs # <<>> => 1 \in 1..Len(runs)
      BY <1>8, ChainIndex
    <2> QED BY <1>1, <1>2, <1>7, <1>9, <2>1, <2>2, RunsJoin DEF SyncIInv, RunsInv
  <1>17. \A i \in 1..Len(runs') : runs'[i].kind = "ddl" => i = Len(runs) + 1
    BY <1>15, <1>16 DEF Same
  <1>18. RefreshAt("indexing")' /\ refreshes'[1].objects = refreshes[1].objects
         /\ refreshes'[1].debt = refreshes[1].debt
    BY <1>5, <1>6 DEF RefreshAt
  <1>19. Linked'
    BY <1>1, <1>3, <1>7, <1>15, <1>16, <1>17, <1>18 DEF Linked
  <1>20. ~(Holding(First)' /\ First'.kind = "ddl")
    <2>1. CASE runs = <<>>
      BY <1>7, <1>16, <2>1 DEF Holding
    <2>2. CASE runs # <<>>
      BY <1>15, <1>16, <2>2 DEF Same, First
    <2> QED BY <2>1, <2>2
  <1>21. Named'
    BY <1>1, <1>15, <1>20 DEF Named
  <1>22. \A d : Kept(d) => Kept(d)'
    <2>1. \A i \in 1..Len(refreshes) : /\ refreshes'[i].from = refreshes[i].from /\ refreshes'[i].ok = refreshes[i].ok
                                       /\ refreshes'[i].objects = refreshes[i].objects
      <3>1. \A i \in 1..Len(refreshes) : i = 1 \/ i \in 2..Len(refreshes)
        BY <1>3, ChainIndex
      <3> QED BY <1>5, <1>6, <3>1
    <2> QED BY <1>1, <1>6, <2>1 DEF Kept
  <1>23. Owed'
    <2>1. \A S : Reflects(S) => \A d \in heard' : disposed' \/ d \in S \/ Kept(d)'
      BY <1>1, <1>12, <1>22 DEF Reflects
    <2>2. registry' # None => debt' \/ Reflects(registry)'
      BY <1>1, <2>1 DEF SyncIInv, Owed, Reflects
    <2>3. ASSUME runs' # <<>>, Holding(First)'
          PROVE  debt' \/ Reflects(First.read)'
      <3>1. runs # <<>> /\ Holding(First) /\ First'.read = First.read
        BY <1>7, <1>16, <2>3 DEF Holding, Same
      <3> QED BY <1>1, <2>1, <3>1 DEF SyncIInv, Owed, Reflects
    <2> QED BY <1>1, <1>15, <1>20, <2>2, <2>3 DEF Owed
  <1> QED BY <1>10, <1>11, <1>12, <1>13, <1>14, <1>19, <1>21, <1>23 DEF SyncIInv, SyncInv

\* Its answer is seen: a debt is paid by the registry the refresh brought.
LEMMA RefreshAnsweredStep ==
  ASSUME SyncIInv, RefreshAnswered
  PROVE  SyncIInv'
  <1>1. /\ UNCHANGED <<ddl, connected, session, content, registry, runs, requests, faults,
                       settingVars, listener, wire, heard, ops, reconnect>>
        /\ RefreshAt("indexing") /\ refreshes # <<>> /\ answer # "none" /\ answer' = "none"
        /\ debt' = (debt /\ ~Paid)
        /\ MarkStale \/ UNCHANGED <<stale, status>>
        /\ sync' \in {sync, "desynchronized", "listening"}
    BY DEF RefreshAnswered, RefreshAt
  <1>2. SyncBase /\ SyncTypeOK /\ IndexTypeOK /\ debt \in BOOLEAN
    BY DEF SyncIInv, SyncInv, SyncBase, SyncTypeOK
  <1> DEFINE ok == answer = "ok"
             e == [refreshes[1] EXCEPT !.at = "ending", !.ok = ok]
  <1>3. /\ refreshes[1] \in Refresh /\ refreshes \in Seq(Refresh) /\ 1 \in 1..Len(refreshes)
        /\ (refreshes[1].debt => refreshes[1].full)
    BY <1>1, <1>2, ListenerFields, ChainIndex DEF SyncBase, RefreshesInv, Sound
  <1>4. refreshes' = [refreshes EXCEPT ![1] = e]
    BY <1>3 DEF RefreshAnswered
  <1>5. /\ e \in Refresh /\ e.from = refreshes[1].from /\ e.objects = refreshes[1].objects
        /\ e.ok = (answer = "ok") /\ e.debt = refreshes[1].debt /\ e.full = refreshes[1].full
        /\ e.at = "ending"
    BY <1>3 DEF Refresh
  <1> HIDE DEF e
  <1>6. /\ Sound(refreshes', HeadAt(ops), Listed, 1..ddl)
        /\ refreshes' # <<>> /\ refreshes'[1] = e
        /\ Len(refreshes') = Len(refreshes)
        /\ \A i \in 2..Len(refreshes) : refreshes'[i] = refreshes[i]
    <2>0. e \in Refresh /\ e.from = refreshes[1].from /\ e.objects = refreshes[1].objects /\ refreshes # <<>>
      BY <1>1, <1>5
    <2>1. Sound(refreshes, HeadAt(ops), Listed, 1..ddl)
      BY <1>2 DEF SyncBase, RefreshesInv
    <2>2. e.debt => e.full
      BY <1>3, <1>5
    <2> DEFINE p == [refreshes EXCEPT ![1] = e]
    <2>3. Sound(p, HeadAt(ops), Listed, 1..ddl) /\ p # <<>> /\ p[1] = e /\ Len(p) = Len(refreshes)
          /\ \A i \in 2..Len(refreshes) : p[i] = refreshes[i]
      BY <2>0, <2>1, <2>2, SoundFirst
    <2> HIDE DEF p
    <2> QED BY <2>3, <1>4 DEF p
  <1>7. SyncTypeOK'
    <2>1. refreshes' \in Seq(Refresh) /\ debt' \in BOOLEAN
      BY <1>1, <1>2, <1>6 DEF Sound
    <2>2. stale' \in BOOLEAN /\ status' \in Statuses /\ sync' \in States
      BY <1>1, <1>2, RequestTypes DEF MarkStale, Statuses, States
    <2>3. IndexTypeOK'
      BY <1>1, <1>2, <2>2 DEF IndexTypeOK, Statuses
    <2> QED BY <1>1, <1>2, <2>1, <2>2, <2>3 DEF SyncTypeOK, settingVars, States
  <1>8. RunsInv'
    <2>1. Undisturbed({"manual", "refresh"})
      BY <1>1, <1>2, UnchangedStays DEF Undisturbed, IndexTypeOK
    <2> QED BY <1>2, <2>1, RunsUndisturbed DEF SyncIInv
  <1>9. OpsInv' /\ HeadAt(ops') = HeadAt(ops) /\ disposed' = disposed /\ Listed' = Listed
    BY <1>1, <1>2 DEF SyncBase, OpsInv, settingVars, Listed
  <1>10. RefreshesInv'
    BY <1>1, <1>6, <1>9 DEF RefreshesInv
  <1>11. Unheard'
    BY <1>1, <1>2, <1>9 DEF Unheard, SyncBase
  <1>12. /\ \A i \in 1..Len(runs) : runs[i].kind # "ddl"
         /\ runs = <<>> \/ First.phase = "queued"
         /\ runs' = runs /\ First' = First
    BY <1>1 DEF SyncIInv, SyncInv, Linked, First
  <1>13. Linked' /\ Named'
    BY <1>1, <1>12 DEF Linked, Named, Holding
  <1>14. ASSUME NEW d, Kept(d)
         PROVE  Kept(d)' \/ (answer = "ok" /\ d \in refreshes[1].objects)
    <2>1. \A i \in 1..Len(refreshes) : i = 1 \/ i \in 2..Len(refreshes)
      BY <1>3, ChainIndex
    <2>2. CASE d \in wire \cup listener.notes \cup listener.groups
      BY <1>1, <2>2 DEF Kept
    <2>3. ASSUME NEW i \in 1..Len(refreshes),
                 refreshes[i].from = "flush" /\ d \in refreshes[i].objects /\ ~refreshes[i].ok
          PROVE  Kept(d)' \/ (answer = "ok" /\ d \in refreshes[1].objects)
      <3>1. CASE i = 1
        BY <1>5, <1>6, <2>3, <3>1 DEF Kept
      <3>2. CASE i \in 2..Len(refreshes)
        BY <1>6, <2>3, <3>2 DEF Kept
      <3> QED BY <2>1, <3>1, <3>2
    <2> QED BY <1>14, <2>2, <2>3 DEF Kept
  <1>15. Owed'
    <2>1. ASSUME registry' # None, ~debt'
          PROVE  Reflects(registry)'
      <3>1. Reflects(registry)
        <4>1. CASE ~debt
          BY <1>1, <2>1, <4>1 DEF SyncIInv, Owed
        <4>2. CASE Paid
          <5>1. Paying
            BY <1>1, <4>2 DEF Paid, Paying
          <5> QED BY <4>2, <5>1 DEF SyncIInv, Owed, Paid
        <4> QED BY <1>1, <2>1, <4>1, <4>2
      <3>2. answer = "ok" => refreshes[1].objects \subseteq registry
        BY DEF SyncIInv, SyncInv, Named
      <3> QED BY <1>1, <1>9, <1>14, <3>1, <3>2 DEF Reflects
    <2> QED BY <1>1, <1>12, <2>1 DEF Owed, Holding
  <1> QED BY <1>7, <1>8, <1>9, <1>10, <1>11, <1>13, <1>15 DEF SyncIInv, SyncInv

-----------------------------------------------------------------------------
(* A listener that closes *)

\* Nobody flushes for it any more; what it may miss is owed, unless the window closes.
LEMMA ClosedMoves ==
  ASSUME SyncBase, NEW chain, Lined(chain, disposed),
         NEW waiting, Sound(waiting, HeadAt(chain), Listed, 1..ddl),
         HeadAt(chain) \in {"none", "queued"} \/ (HeadAt(chain) = HeadAt(ops) /\ Listed),
         ListenerClosed(chain, waiting), UNCHANGED <<ddl, heard, disposed>>
  PROVE  /\ OpsInv' /\ RefreshesInv' /\ Unheard'
         /\ listener' \in Listener /\ wire' \in Snapshot /\ debt' \in BOOLEAN
         /\ ops' \in Seq(Operation) /\ refreshes' \in Seq(Refresh)
         /\ Marks(refreshes', waiting)
         /\ \/ disposed' /\ debt' = debt
            \/ debt' = TRUE /\ ~Paying'
  <1>0. disposed' = disposed /\ ddl' = ddl /\ heard' = heard
    OBVIOUS
  <1>1. waiting \in Seq(Refresh) /\ debt \in BOOLEAN
    BY DEF Sound, SyncBase, SyncTypeOK
  <1>2. CASE disposed
    <2>1. /\ listener' = [listener EXCEPT !.phase = "published", !.flushing = FALSE, !.groups = {},
                                          !.timer = @ \/ listener.notes # {}]
          /\ refreshes' = waiting /\ ops' = chain /\ wire' = wire /\ debt' = debt
      BY <1>2 DEF ListenerClosed
    <2>2. (listener.timer \/ listener.notes # {}) \in BOOLEAN /\ {} \in Snapshot
      BY DEF Snapshot
    <2>3. /\ listener' \in Listener /\ listener'.phase = "published" /\ listener'.groups = {}
          /\ listener'.notes = listener.notes
      BY <2>1, <2>2, ListenerFields DEF Listener
    <2>4. Listed'
      BY <2>3 DEF Listed
    <2>5. OpsInv'
      BY <1>0, <2>1 DEF OpsInv
    <2>6. Sound(waiting, HeadAt(chain), TRUE, 1..ddl)
      BY DEF Sound
    <2>7. RefreshesInv'
      BY <1>0, <2>1, <2>4, <2>6 DEF RefreshesInv, Sound
    <2>8. HeadAt(ops') \notin {"starting", "removing", "settling"}
      BY <2>1 DEF SyncBase, Unheard
    <2>9. UNION {wire', heard', listener'.notes, listener'.groups} \subseteq 1..ddl'
      BY <1>0, <2>1, <2>3, ListenerFields
    <2>10. Unheard'
      BY <2>3, <2>4, <2>8, <2>9 DEF Unheard
    <2>11. Marks(refreshes', waiting)
      BY <1>1, <2>1 DEF Marks
    <2>12. ops' \in Seq(Operation)
      BY <2>1 DEF Lined
    <2> QED BY <1>0, <1>1, <1>2, <2>1, <2>3, <2>5, <2>7, <2>10, <2>11, <2>12, ListenerFields
  <1>3. CASE ~disposed
    <2>1. /\ listener' = NoListener /\ wire' = {} /\ debt' = TRUE
          /\ refreshes' = Orphaned(NotPaying(waiting)) /\ ops' = Superseding("closed", chain)
      BY <1>3 DEF ListenerClosed, Forget, Owe
    <2>2. /\ listener' \in Listener /\ ~Listed' /\ {} \in Snapshot
          /\ listener'.notes = {} /\ listener'.groups = {} /\ ~listener'.timer
      BY <2>1 DEF NoListener, Listener, Snapshot, Listed
    <2>3. /\ Marks(refreshes', waiting)
          /\ \A i \in 1..Len(waiting) : ~refreshes'[i].debt /\ refreshes'[i].from # "flush"
      BY <1>1, <2>1, ForgivenMarks
    <2>4. ~Paying'
      BY <1>1, <2>3, MarksNonempty DEF Paying, RefreshAt
    <2>5. /\ Lined(ops', disposed)
          /\ HeadAt(ops') = IF chain = <<>> THEN "queued" ELSE HeadAt(chain)
      BY <2>1, LinedSuperseding
    <2>6. HeadAt(ops') = HeadAt(chain) \/ (HeadAt(chain) = "none" /\ HeadAt(ops') = "queued")
      BY <2>5 DEF HeadAt
    <2>7. Sound(refreshes', HeadAt(chain), FALSE, 1..ddl)
      BY <2>3, SoundMarks
    <2>8. Sound(refreshes', HeadAt(ops'), FALSE, 1..ddl)
      BY <2>6, <2>7, SoundElsewhere
    <2>9. RefreshesInv'
      BY <1>0, <2>2, <2>8 DEF RefreshesInv, Sound
    <2>10. OpsInv'
      BY <1>0, <2>5 DEF OpsInv
    <2>11. HeadAt(ops') \in {"removing", "settling"} => heard' = {}
      BY <1>0, <2>6 DEF SyncBase, Unheard
    <2>12. UNION {wire', heard', listener'.notes, listener'.groups} \subseteq 1..ddl'
      BY <1>0, <2>1, <2>2, ListenerFields
    <2>13. Unheard'
      BY <2>1, <2>2, <2>11, <2>12 DEF Unheard
    <2>14. ops' \in Seq(Operation) /\ refreshes' \in Seq(Refresh)
      BY <2>5, <2>8 DEF Lined, Sound
    <2> QED BY <2>1, <2>2, <2>3, <2>4, <2>9, <2>10, <2>13, <2>14
  <1> QED BY <1>2, <1>3

LEMMA TailHolds ==
  ASSUME NEW S, NEW q \in Seq(S), q # <<>>
  PROVE  \A i \in 1..Len(q) : i = 1 \/ \E j \in 1..Len(Tail(q)) : Tail(q)[j] = q[i]
  <1> DEFINE chain == Tail(q)
  <1>1. Len(q) \in Nat /\ Len(chain) = Len(q) - 1 /\ \A i \in 1..Len(chain) : chain[i] = q[i + 1]
    BY TailMove
  <1> HIDE DEF chain
  <1>2. ASSUME NEW i \in 1..Len(q), i # 1
        PROVE  \E j \in 1..Len(chain) : chain[j] = q[i]
    <2>1. i - 1 \in 1..Len(chain) /\ chain[i - 1] = q[i]
      BY <1>1, <1>2
    <2> QED BY <2>1
  <1> QED BY <1>2 DEF chain

\* The flush that goes on keeps every notification it has.
LEMMA FlushMoves ==
  ASSUME SyncBase, NEW chain, Sound(chain, HeadAt(ops), TRUE, 1..ddl), FlushGoesOn(TRUE, chain)
  PROVE  /\ listener' \in Listener /\ listener'.phase = listener.phase
         /\ listener'.groups \subseteq 1..ddl /\ listener'.notes \subseteq 1..ddl
         /\ (~listener'.flushing => listener'.groups = {})
         /\ Sound(refreshes', HeadAt(ops), TRUE, 1..ddl)
         /\ \A i \in 1..Len(chain) : i \in 1..Len(refreshes') /\ refreshes'[i] = chain[i]
         /\ \A d \in listener.notes \cup listener.groups :
              \/ d \in listener'.notes \cup listener'.groups
              \/ \E i \in 1..Len(refreshes') :
                   /\ refreshes'[i].from = "flush" /\ d \in refreshes'[i].objects /\ ~refreshes'[i].ok
  <1>0. listener.notes \subseteq 1..ddl /\ listener.groups \subseteq 1..ddl /\ {} \subseteq 1..ddl
        /\ listener.timer \in BOOLEAN
    BY ListenerFields
  <1>1. CASE listener.groups # {}
    <2>1. FlushNext(listener.groups, listener.notes, listener.timer, chain)
      BY <1>1 DEF FlushGoesOn
    <2> DEFINE t == listener.timer
    <2>3. FlushNext(listener.groups, listener.notes, t, chain) /\ t \in BOOLEAN
      BY <1>0, <2>1
    <2> HIDE DEF t
    <2>4. FlushNext(listener.groups, listener.notes, TRUE, chain) \/ FlushNext(listener.groups, listener.notes, FALSE, chain)
      <3>1. t = TRUE \/ t = FALSE
        BY <2>3
      <3> QED BY <2>3, <3>1
    <2>2. /\ listener' \in Listener /\ listener'.phase = listener.phase
          /\ listener'.groups \subseteq listener.groups /\ (~listener'.flushing => listener'.groups = {})
          /\ listener'.notes = IF listener.groups = {} THEN listener.notes ELSE listener.notes
          /\ Sound(refreshes', HeadAt(ops), TRUE, 1..ddl)
          /\ \A i \in 1..Len(chain) : i \in 1..Len(refreshes') /\ refreshes'[i] = chain[i]
          /\ \A d \in listener.groups : \/ d \in listener'.groups
                                        \/ \E i \in 1..Len(refreshes') :
                                             /\ refreshes'[i].from = "flush" /\ d \in refreshes'[i].objects
                                             /\ ~refreshes'[i].ok
      BY <1>0, <2>4, FlushNextMoves
    <2> QED BY <1>0, <2>2
  <1>2. CASE listener.groups = {}
    <2>1. FlushNext(listener.notes, {}, listener.timer, chain)
      BY <1>2 DEF FlushGoesOn
    <2> DEFINE t == listener.timer
    <2>3. FlushNext(listener.notes, {}, t, chain) /\ t \in BOOLEAN
      BY <1>0, <2>1
    <2> HIDE DEF t
    <2>4. FlushNext(listener.notes, {}, TRUE, chain) \/ FlushNext(listener.notes, {}, FALSE, chain)
      <3>1. t = TRUE \/ t = FALSE
        BY <2>3
      <3> QED BY <2>3, <3>1
    <2>2. /\ listener' \in Listener /\ listener'.phase = listener.phase
          /\ listener'.groups \subseteq listener.notes /\ (~listener'.flushing => listener'.groups = {})
          /\ listener'.notes = IF listener.notes = {} THEN listener.notes ELSE {}
          /\ Sound(refreshes', HeadAt(ops), TRUE, 1..ddl)
          /\ \A i \in 1..Len(chain) : i \in 1..Len(refreshes') /\ refreshes'[i] = chain[i]
          /\ \A d \in listener.notes : \/ d \in listener'.groups
                                       \/ \E i \in 1..Len(refreshes') :
                                            /\ refreshes'[i].from = "flush" /\ d \in refreshes'[i].objects
                                            /\ ~refreshes'[i].ok
      BY <1>0, <2>4, FlushNextMoves
    <2> QED BY <1>0, <1>2, <2>2
  <1> QED BY <1>1, <1>2

\* Whoever waits for the refresh goes on; only a failure it ignores loses what the refresh was for.
LEMMA GoOnMoves ==
  ASSUME SyncBase, refreshes # <<>>, ~RefreshAt("indexing"), NEW ok \in BOOLEAN, GoOn(ok),
         ok => refreshes[1].ok, UNCHANGED <<ddl, heard, disposed>>
  PROVE  /\ OpsInv' /\ RefreshesInv' /\ Unheard'
         /\ listener' \in Listener /\ wire' \in Snapshot /\ debt' \in BOOLEAN
         /\ ops' \in Seq(Operation) /\ refreshes' \in Seq(Refresh)
         /\ HeadKept /\ (Keeps \/ Owes)
  <1> DEFINE chain == Tail(refreshes)
  <1>0. /\ disposed' = disposed /\ ddl' = ddl /\ heard' = heard
        /\ refreshes \in Seq(Refresh) /\ ops \in Seq(Operation) /\ debt \in BOOLEAN
    BY DEF SyncBase, SyncTypeOK
  <1>1. HeadKept
    BY DEF HeadKept
  <1> HIDE DEF chain
  <1>2. /\ \A i \in 1..Len(refreshes) : i = 1 \/ \E j \in 1..Len(chain) : chain[j] = refreshes[i]
        /\ chain \in Seq(Refresh)
    BY <1>0, TailHolds, TailMove DEF chain
  <1>3. Sound(refreshes, HeadAt(ops), Listed, 1..ddl) /\ Lined(ops, disposed) /\ 1 \in 1..Len(refreshes)
    BY <1>0, ChainIndex DEF SyncBase, RefreshesInv, OpsInv
  <1>4. refreshes[1].from \in {"start", "reconcile"} => HeadAt(ops) = "refreshing" /\ ops # <<>>
    BY <1>3 DEF Sound, HeadAt
  <1>5. refreshes[1].from = "flush" => Listed
    BY <1>3 DEF Sound
  <1> DEFINE flushed == refreshes[1].from = "flush" /\ ~refreshes[1].ok
  <1>6. ASSUME wire' = wire, debt' = debt, ~flushed, listener'.notes \cup listener'.groups = listener.notes \cup listener.groups,
               refreshes' = chain
        PROVE  Keeps
    <2>1. \A d : Kept(d) => Kept(d)'
      BY <1>2, <1>6 DEF Kept
    <2> QED BY <1>0, <1>6, <2>1 DEF Keeps
  <1>7. ASSUME ListenerClosed(ops, chain), HeadAt(ops) # "refreshing" \/ refreshes[1].from = "flush", Listed
        PROVE  /\ OpsInv' /\ RefreshesInv' /\ Unheard'
               /\ listener' \in Listener /\ wire' \in Snapshot /\ debt' \in BOOLEAN
               /\ ops' \in Seq(Operation) /\ refreshes' \in Seq(Refresh)
               /\ Keeps \/ Owes
    <2>1. Sound(chain, HeadAt(ops), Listed, 1..ddl)
      <3>1. Sound(Tail(refreshes), HeadAt(ops), Listed, 1..ddl)
        BY <1>3, SoundTail
      <3> QED BY <3>1 DEF chain
    <2>2. /\ OpsInv' /\ RefreshesInv' /\ Unheard'
          /\ listener' \in Listener /\ wire' \in Snapshot /\ debt' \in BOOLEAN
          /\ ops' \in Seq(Operation) /\ refreshes' \in Seq(Refresh)
          /\ (disposed' /\ debt' = debt) \/ (debt' = TRUE /\ ~Paying')
      BY <1>0, <1>3, <1>7, <2>1, ClosedMoves
    <2>3. Keeps \/ Owes
      BY <2>2 DEF Keeps, Owes
    <2> QED BY <2>2, <2>3
  <1>8. ASSUME ListenerClosed(Tail(ops), chain), refreshes[1].from \in {"start", "reconcile"}
        PROVE  /\ OpsInv' /\ RefreshesInv' /\ Unheard'
               /\ listener' \in Listener /\ wire' \in Snapshot /\ debt' \in BOOLEAN
               /\ ops' \in Seq(Operation) /\ refreshes' \in Seq(Refresh)
               /\ Keeps \/ Owes
    <2>1. Lined(Tail(ops), disposed) /\ HeadAt(Tail(ops)) \in {"none", "queued"}
      BY <1>3, <1>4, <1>8, LinedTail
    <2>2. Sound(chain, HeadAt(Tail(ops)), Listed, 1..ddl)
      <3>1. Sound(Tail(refreshes), HeadAt(Tail(ops)), Listed, 1..ddl)
        BY <1>3, <1>8, SoundTail
      <3> QED BY <3>1 DEF chain
    <2>3. /\ OpsInv' /\ RefreshesInv' /\ Unheard'
          /\ listener' \in Listener /\ wire' \in Snapshot /\ debt' \in BOOLEAN
          /\ ops' \in Seq(Operation) /\ refreshes' \in Seq(Refresh)
          /\ (disposed' /\ debt' = debt) \/ (debt' = TRUE /\ ~Paying')
      BY <1>0, <1>8, <2>1, <2>2, ClosedMoves
    <2>4. Keeps \/ Owes
      BY <2>3 DEF Keeps, Owes
    <2> QED BY <2>3, <2>4
  <1>9. ASSUME refreshes[1].from \in {"start", "reconcile"}, refreshes' = chain, OpEnds, wire' = wire, debt' = debt,
               listener' \in Listener, listener'.notes = listener.notes, listener'.groups = listener.groups,
               listener'.flushing = listener.flushing, listener'.timer = listener.timer,
               Listed => Listed'
        PROVE  /\ OpsInv' /\ RefreshesInv' /\ Unheard'
               /\ listener' \in Listener /\ wire' \in Snapshot /\ debt' \in BOOLEAN
               /\ ops' \in Seq(Operation) /\ refreshes' \in Seq(Refresh)
               /\ Keeps
    <2>1. Lined(Tail(ops), disposed) /\ HeadAt(Tail(ops)) \in {"none", "queued"} /\ ops' = Tail(ops)
      BY <1>3, <1>4, <1>9, LinedTail DEF OpEnds
    <2>2. Sound(chain, HeadAt(Tail(ops)), Listed, 1..ddl)
      <3>1. Sound(Tail(refreshes), HeadAt(Tail(ops)), Listed, 1..ddl)
        BY <1>3, <1>9, SoundTail
      <3> QED BY <3>1 DEF chain
    <2>3. RefreshesInv'
      BY <1>0, <1>9, <2>1, <2>2 DEF RefreshesInv, Sound
    <2>4. OpsInv' /\ ops' \in Seq(Operation)
      BY <1>0, <2>1 DEF OpsInv, Lined
    <2>5. UNION {wire', heard', listener'.notes, listener'.groups} \subseteq 1..ddl'
      BY <1>0, <1>9, ListenerFields
    <2>6. Unheard'
      BY <1>9, <2>1, <2>5 DEF Unheard, SyncBase
    <2> QED BY <1>0, <1>2, <1>6, <1>9, <2>3, <2>4, <2>6, ListenerFields
  <1>10. CASE refreshes[1].from = "flush" /\ FlushGoesOn(ok, chain) /\ ~ok
    BY <1>1, <1>5, <1>7, <1>10 DEF FlushGoesOn
  <1>11. CASE refreshes[1].from = "flush" /\ FlushGoesOn(ok, chain) /\ ok
    <2>1. UNCHANGED <<wire, debt, ops>>
      BY <1>11 DEF FlushGoesOn
    <2>2. Sound(chain, HeadAt(ops), TRUE, 1..ddl)
      <3>1. Sound(Tail(refreshes), HeadAt(ops), Listed, 1..ddl)
        BY <1>3, <1>11, SoundTail
      <3> QED BY <1>5, <1>11, <3>1 DEF chain, Sound
    <2>0. FlushGoesOn(TRUE, chain)
      BY <1>11
    <2>3. /\ listener' \in Listener /\ listener'.phase = listener.phase
          /\ listener'.groups \subseteq 1..ddl /\ listener'.notes \subseteq 1..ddl
          /\ (~listener'.flushing => listener'.groups = {})
          /\ Sound(refreshes', HeadAt(ops), TRUE, 1..ddl)
          /\ \A i \in 1..Len(chain) : i \in 1..Len(refreshes') /\ refreshes'[i] = chain[i]
          /\ \A d \in listener.notes \cup listener.groups :
               \/ d \in listener'.notes \cup listener'.groups
               \/ \E i \in 1..Len(refreshes') :
                    /\ refreshes'[i].from = "flush" /\ d \in refreshes'[i].objects /\ ~refreshes'[i].ok
      BY <1>11, <2>2, <2>0, FlushMoves
    <2>4. Listed' /\ Listed
      BY <1>5, <1>11, <2>3 DEF Listed
    <2>5. OpsInv' /\ HeadAt(ops') = HeadAt(ops)
      BY <1>0, <1>3, <2>1 DEF OpsInv
    <2>6. RefreshesInv' /\ refreshes' \in Seq(Refresh)
      BY <1>0, <2>3, <2>4, <2>5 DEF RefreshesInv, Sound
    <2>7. UNION {wire', heard', listener'.notes, listener'.groups} \subseteq 1..ddl'
      BY <1>0, <2>1, <2>3, ListenerFields
    <2>8. Unheard'
      BY <1>0, <2>3, <2>4, <2>5, <2>7 DEF Unheard, SyncBase
    <2>9. \A d : Kept(d) => Kept(d)'
      <3>1. ASSUME NEW d, NEW i \in 1..Len(refreshes),
                   refreshes[i].from = "flush" /\ d \in refreshes[i].objects /\ ~refreshes[i].ok
            PROVE  Kept(d)'
        <4>1. PICK j \in 1..Len(chain) : chain[j] = refreshes[i]
          BY <1>2, <1>11, <3>1
        <4> QED BY <2>3, <3>1, <4>1 DEF Kept
      <3> QED BY <2>1, <2>3, <3>1 DEF Kept
    <2>10. Keeps
      BY <1>0, <2>1, <2>9 DEF Keeps
    <2> QED BY <1>0, <1>1, <2>1, <2>3, <2>5, <2>6, <2>8, <2>10, ListenerFields
  <1>12. CASE refreshes[1].from = "start" /\ StartGoesOn(ok, chain) /\ (ok /\ ~listener.failed)
    <2>1. /\ listener' = [listener EXCEPT !.phase = "published"]
          /\ refreshes' = chain /\ OpEnds /\ UNCHANGED <<wire, debt>>
      BY <1>12 DEF StartGoesOn
    <2>2. /\ listener' \in Listener /\ listener'.notes = listener.notes /\ listener'.groups = listener.groups
          /\ listener'.flushing = listener.flushing /\ listener'.timer = listener.timer /\ Listed'
      BY <2>1, ListenerFields DEF Listener, Listed
    <2> QED BY <1>1, <1>9, <1>12, <2>1, <2>2
  <1>13. CASE refreshes[1].from = "start" /\ StartGoesOn(ok, chain) /\ ~(ok /\ ~listener.failed)
    BY <1>1, <1>8, <1>13 DEF StartGoesOn
  <1>14. CASE refreshes[1].from = "reconcile" /\ ReconcileGoesOn(ok, chain) /\ (ok \/ ~Listed)
    <2>1. refreshes' = chain /\ OpEnds /\ UNCHANGED <<listener, wire, debt>>
      BY <1>14 DEF ReconcileGoesOn
    <2> QED BY <1>1, <1>9, <1>14, <2>1, ListenerFields DEF Listed
  <1>15. CASE refreshes[1].from = "reconcile" /\ ReconcileGoesOn(ok, chain) /\ ~(ok \/ ~Listed)
    BY <1>1, <1>8, <1>15 DEF ReconcileGoesOn
  <1>16. CASE refreshes[1].from = "orphan" /\ refreshes' = chain /\ UNCHANGED <<listener, wire, debt, ops>>
    <2>1. Sound(chain, HeadAt(ops), Listed, 1..ddl)
      <3>1. Sound(Tail(refreshes), HeadAt(ops), Listed, 1..ddl)
        BY <1>3, <1>16, SoundTail
      <3> QED BY <3>1 DEF chain
    <2>2. OpsInv' /\ HeadAt(ops') = HeadAt(ops) /\ Listed' = Listed
      BY <1>0, <1>3, <1>16 DEF OpsInv, Listed
    <2>3. RefreshesInv'
      BY <1>0, <1>16, <2>1, <2>2 DEF RefreshesInv, Sound
    <2>4. Unheard'
      BY <1>0, <1>16, <2>2 DEF Unheard, SyncBase
    <2> QED BY <1>0, <1>1, <1>2, <1>6, <1>16, <2>2, <2>3, <2>4, ListenerFields
  <1> QED
    <2>1. \/ refreshes[1].from = "flush" /\ FlushGoesOn(ok, chain)
          \/ refreshes[1].from = "start" /\ StartGoesOn(ok, chain)
          \/ refreshes[1].from = "reconcile" /\ ReconcileGoesOn(ok, chain)
          \/ refreshes[1].from = "orphan" /\ refreshes' = chain /\ UNCHANGED <<listener, wire, debt, ops>>
      BY DEF GoOn, chain
    <2> QED BY <2>1, <1>10, <1>11, <1>12, <1>13, <1>14, <1>15, <1>16

LEMMA RefreshEndsStep ==
  ASSUME SyncBase, RefreshEnds \/ RefreshConnectFails
  PROVE  SyncBase' /\ Effect
  <1>1. /\ UNCHANGED <<ddl, connected, indexVars, settingVars, heard, reconnect, sync>>
        /\ refreshes # <<>> /\ ~RefreshAt("indexing")
        /\ \E ok \in BOOLEAN : GoOn(ok) /\ (ok => refreshes[1].ok)
    <2>1. refreshes # <<>> => refreshes[1].ok \in BOOLEAN
      <3>1. refreshes # <<>> => refreshes[1] \in Refresh
        BY ListenerFields, ChainIndex
      <3> QED BY <3>1 DEF Refresh
    <2>2. CASE RefreshConnectFails
      BY <2>2 DEF RefreshConnectFails, RefreshAt
    <2>3. CASE RefreshEnds
      <3>1. refreshes # <<>> /\ refreshes[1].ok \in BOOLEAN
        BY <2>1, <2>3 DEF RefreshEnds, RefreshAt
      <3>2. \E ok \in BOOLEAN : GoOn(ok) /\ (ok => refreshes[1].ok)
        <4> DEFINE ok == refreshes[1].ok
        <4>1. ok \in BOOLEAN /\ GoOn(ok) /\ (ok => refreshes[1].ok)
          BY <2>3, <3>1 DEF RefreshEnds
        <4> HIDE DEF ok
        <4> QED BY <4>1
      <3> QED BY <2>3, <3>1, <3>2 DEF RefreshEnds, RefreshAt
    <2> QED BY <2>2, <2>3
  <1>2. SyncTypeOK
    BY DEF SyncBase
  <1>3. UNCHANGED <<content, registry, runs, answer, session, stale, status>> /\ disposed' = disposed
    BY <1>1 DEF indexVars, settingVars
  <1>4. /\ OpsInv' /\ RefreshesInv' /\ Unheard'
        /\ listener' \in Listener /\ wire' \in Snapshot /\ debt' \in BOOLEAN
        /\ ops' \in Seq(Operation) /\ refreshes' \in Seq(Refresh)
        /\ HeadKept /\ (Keeps \/ Owes)
    BY <1>1, <1>3, GoOnMoves
  <1>5. requests' = requests /\ faults' \in 0..MaxFaults
    BY <1>2, RequestTypes DEF RefreshEnds, RefreshConnectFails
  <1>6. SyncTypeOK'
    BY <1>1, <1>2, <1>3, <1>4, <1>5, RestTypes, RequestTypes, ListenerFields DEF settingVars
  <1>7. Undisturbed({"manual", "refresh"})
    BY <1>1, <1>2, <1>3, IndexRests
  <1> QED BY <1>3, <1>4, <1>6, <1>7 DEF SyncBase, Effect

-----------------------------------------------------------------------------
(* A listener that an operation stops *)

\* What it may miss is owed, unless nobody will look, or there is no listener.
LEMMA StopMoves ==
  ASSUME SyncBase, NEW from, OpAt(from), from # "refreshing",
         NEW owing, owing \in {TRUE, FALSE},
         NEW waiting \in {"stopping", "leaving", "halting", "removing"},
         NEW next \in {"leaving", "persisting", "dialing", "configured", "settling"},
         Stop(owing, waiting, next),
         owing = TRUE \/ disposed \/ heard' = {} \/ ~Listed,
         waiting = "removing" \/ next = "settling" => heard' = {},
         heard' \in {heard, {}}, UNCHANGED <<ddl, disposed>>
  PROVE  /\ OpsInv' /\ RefreshesInv' /\ Unheard'
         /\ listener' \in Listener /\ wire' \in Snapshot /\ heard' \in Snapshot /\ debt' \in BOOLEAN
         /\ ops' \in Seq(Operation) /\ refreshes' \in Seq(Refresh) /\ reconnect' \in BOOLEAN
         /\ HeadKept /\ (Keeps \/ Owes)
  <1>0. /\ disposed' = disposed /\ ddl' = ddl /\ refreshes \in Seq(Refresh) /\ debt \in BOOLEAN
        /\ HeadAt(ops) = from
    BY OpIs DEF SyncBase, SyncTypeOK
  <1>1. /\ reconnect' = FALSE
        /\ \/ Listed /\ listener' = NoListener /\ wire' = {} /\ OpGoes(waiting)
           \/ ~Listed /\ listener' = listener /\ wire' = wire /\ OpGoes(next)
    BY DEF Stop, Forget
  <1>2. /\ \/ owing = TRUE /\ debt' = TRUE /\ refreshes' = Orphaned(NotPaying(refreshes))
           \/ owing = FALSE /\ debt' = debt /\ refreshes' = Orphaned(refreshes)
    BY <1>0 DEF Stop
  <1>3. /\ listener' \in Listener /\ ~Listed' /\ wire' = {} /\ listener'.notes = {} /\ listener'.groups = {}
        /\ ~listener'.timer
    <2>1. CASE listener' = NoListener /\ wire' = {}
      <3>1. NoListener \in Listener
        BY DEF NoListener, Listener, Snapshot
      <3> QED BY <2>1, <3>1 DEF NoListener, Listed
    <2>2. CASE ~Listed /\ listener' = listener /\ wire' = wire
      BY <2>2, ListenerFields DEF SyncBase, Unheard, Listed
    <2> QED BY <1>1, <2>1, <2>2
  <1>4. /\ Marks(refreshes', refreshes) /\ \A i \in 1..Len(refreshes) : refreshes'[i].from # "flush"
    BY <1>0, <1>2, OrphanedMarks, ForgivenMarks
  <1>5. HeadKept
    BY <1>4, MarksHead
  <1>6. PICK at \in {"stopping", "leaving", "halting", "removing", "persisting", "dialing", "configured", "settling"} :
          /\ OpGoes(at) /\ (at \in {"removing", "settling"} => heard' = {})
    BY <1>1
  <1>7. Lined(ops', disposed') /\ HeadAt(ops') = at
    BY <1>0, <1>6, OpGoesOn
  <1>8. Sound(refreshes', at, FALSE, 1..ddl)
    <2>1. Sound(refreshes, from, Listed, 1..ddl)
      BY <1>0 DEF SyncBase, RefreshesInv
    <2>2. Sound(refreshes', from, FALSE, 1..ddl)
      BY <1>4, <2>1, SoundMarks
    <2> QED BY <2>2 DEF Sound
  <1>9. RefreshesInv' /\ OpsInv'
    BY <1>0, <1>3, <1>7, <1>8 DEF RefreshesInv, OpsInv, Sound
  <1>10. UNION {wire', heard', listener'.notes, listener'.groups} \subseteq 1..ddl' /\ wire' \in Snapshot /\ heard' \in Snapshot
    BY <1>0, <1>3, ListenerFields
  <1>11. Unheard'
    BY <1>3, <1>6, <1>7, <1>10 DEF Unheard
  <1>12. Keeps \/ Owes
    <2>1. CASE owing = TRUE
      <3>1. debt' = TRUE /\ refreshes' = Orphaned(NotPaying(refreshes))
        BY <1>2, <2>1
      <3> QED BY <3>1, PaysNoMore DEF Owes
    <2>2. CASE owing # TRUE
      <3>1. debt' = debt
        BY <1>2, <2>2
      <3>2. ~Listed => \A d : ~Kept(d)
        <4>1. ~Listed => \A i \in 1..Len(refreshes) : refreshes[i].from # "flush"
          BY DEF SyncBase, RefreshesInv, Sound
        <4> QED BY <4>1 DEF SyncBase, Unheard, Kept
      <3>3. disposed' \/ heard' = {} \/ ~Listed
        <4>1. disposed \/ heard' = {} \/ ~Listed
          BY <2>2, Zenon
        <4>2. disposed => disposed'
          BY <1>0
        <4> QED BY <4>1, <4>2
      <3>4. \A d \in heard' : d \in heard
        OBVIOUS
      <3>5. \A d \in heard' : disposed' \/ (d \in heard /\ ~Kept(d))
        BY <3>2, <3>3, <3>4
      <3> QED BY <1>0, <3>1, <3>5 DEF Keeps
    <2> QED BY <2>1, <2>2
  <1>13. ops' \in Seq(Operation) /\ refreshes' \in Seq(Refresh) /\ debt' \in BOOLEAN
    BY <1>0, <1>2, <1>7, <1>8 DEF Lined, Sound
  <1> QED BY <1>1, <1>3, <1>5, <1>9, <1>10, <1>11, <1>12, <1>13

\* What is left to show of a step that leaves the index alone.
LEMMA MovesStep ==
  ASSUME SyncBase, OpsInv', RefreshesInv', Unheard', SyncTypeOK', HeadKept, Keeps \/ Owes,
         UNCHANGED <<ddl, content, registry, runs, answer>>
  PROVE  SyncBase' /\ Effect
  <1>1. Undisturbed({"manual", "refresh"})
    BY IndexRests DEF SyncBase
  <1> QED BY <1>1 DEF SyncBase, Effect

LEMMA OpStartsStep ==
  ASSUME SyncBase, OpStarts
  PROVE  SyncBase' /\ Effect
  <1>1. /\ OpAt("queued")
        /\ UNCHANGED <<ddl, connected, indexVars, requests, faults, saved, enabled, provisioned, disposed,
                       heard, sync>>
        /\ stranded' = (stranded \/ Refused)
    BY DEF OpStarts
  <1>2. SyncTypeOK /\ UNCHANGED <<content, registry, runs, answer, session, stale, status>>
    BY <1>1 DEF SyncBase, indexVars
  <1>3. HeadAt(ops) = "queued" /\ ops # <<>> /\ (Op.op = "dispose" => disposed)
    BY <1>1, OpIs
  <1>4. stranded' \in BOOLEAN
    <2>1. stranded \in BOOLEAN
      BY <1>2, RequestTypes
    <2> QED BY <1>1, <2>1
  <1>5. ASSUME listener' \in Listener, wire' \in Snapshot, debt' \in BOOLEAN,
               ops' \in Seq(Operation), refreshes' \in Seq(Refresh), reconnect' \in BOOLEAN
        PROVE  SyncTypeOK'
    BY <1>1, <1>2, <1>4, <1>5, RestTypes, RequestTypes, ListenerFields
  <1>6. ASSUME NEW waiting \in {"stopping", "leaving"}, NEW next \in {"leaving", "persisting", "dialing"},
               NEW owing, owing \in {TRUE, FALSE}, Stop(owing, waiting, next), owing = TRUE \/ disposed
        PROVE  SyncBase' /\ Effect
    <2>1. heard' = heard /\ UNCHANGED <<ddl, disposed>>
      BY <1>1
    <2>2. /\ OpsInv' /\ RefreshesInv' /\ Unheard'
          /\ listener' \in Listener /\ wire' \in Snapshot /\ heard' \in Snapshot /\ debt' \in BOOLEAN
          /\ ops' \in Seq(Operation) /\ refreshes' \in Seq(Refresh) /\ reconnect' \in BOOLEAN
          /\ HeadKept /\ (Keeps \/ Owes)
      BY <1>1, <1>6, <2>1, StopMoves
    <2> QED BY <1>1, <1>2, <1>5, <2>2, MovesStep
  <1>7. ASSUME OpEnds \/ \E at \in {"persisting", "reconcile", "ending"} : OpGoes(at),
               UNCHANGED <<listener, wire, debt, refreshes, reconnect>>
        PROVE  SyncBase' /\ Effect
    <2>1. OpsMoves
      BY <1>1, <1>7, OpsGo
    <2>2. Listens0
      BY <1>1, <1>7 DEF Listens0
    <2>3. Undisturbed({"manual", "refresh"}) /\ runs' \in Seq(Run)
      BY <1>1, <1>2, IndexRests
    <2>4. SyncTypeOK'
      BY <1>1, <1>2, <1>4, <1>7, <2>1, <2>2, <2>3, OpsTypes, RequestTypes
    <2> QED BY <1>1, <1>2, <2>1, <2>2, <2>3, <2>4, OpsStep
  <1>8. ASSUME OpGoes("persisting"), debt' = TRUE, refreshes' = NotPaying(refreshes),
               UNCHANGED <<listener, wire, reconnect>>
        PROVE  SyncBase' /\ Effect
    <2>1. Lined(ops', disposed') /\ HeadAt(ops') = "persisting"
      BY <1>1, <1>8, OpGoesOn
    <2>2. Marks(refreshes', refreshes) /\ HeadKept /\ ~Paying'
      BY <1>8, PaysNoMore
    <2>3. Sound(refreshes', "persisting", Listed, 1..ddl)
      <3>1. Sound(refreshes, "queued", Listed, 1..ddl)
        BY <1>3 DEF SyncBase, RefreshesInv
      <3>2. Sound(refreshes', "queued", Listed, 1..ddl)
        BY <2>2, <3>1, SoundMarks
      <3> QED BY <3>2, SoundElsewhere
    <2>4. RefreshesInv' /\ OpsInv'
      BY <1>1, <1>8, <2>1, <2>3 DEF RefreshesInv, OpsInv, Listed
    <2>5. Unheard'
      BY <1>1, <1>8, <2>1 DEF Unheard, SyncBase, Listed
    <2>6. Keeps \/ Owes
      BY <1>8, <2>2 DEF Owes
    <2>7. ops' \in Seq(Operation) /\ refreshes' \in Seq(Refresh)
      BY <2>1, <2>3 DEF Lined, Sound
    <2>8. SyncTypeOK'
      BY <1>2, <1>5, <1>8, <2>7, ListenerFields, RequestTypes
    <2> QED BY <1>1, <1>2, <2>2, <2>4, <2>5, <2>6, <2>8, MovesStep
  <1>9. \/ /\ OpEnds \/ \E at \in {"persisting", "reconcile", "ending"} : OpGoes(at)
           /\ UNCHANGED <<listener, wire, debt, refreshes, reconnect>>
        \/ disposed /\ Stop(FALSE, "leaving", "leaving")
        \/ Stop(TRUE, "stopping", "persisting")
        \/ Stop(TRUE, "stopping", "dialing")
        \/ /\ OpGoes("persisting") /\ debt' = TRUE /\ refreshes' = NotPaying(refreshes)
           /\ UNCHANGED <<listener, wire, reconnect>>
    <2>1. CASE Op.op \in {"reconcile", "restart"} /\ (IF Current THEN OpGoes("reconcile") ELSE OpEnds)
                 /\ UNCHANGED <<listener, wire, debt, refreshes, reconnect>>
      BY <2>1
    <2>2. CASE saved /\ Op.op = "enable" /\ OpGoes("persisting")
                 /\ (IF enabled THEN UNCHANGED <<debt, refreshes>> ELSE Owe /\ refreshes' = NotPaying(refreshes))
                 /\ UNCHANGED <<listener, wire, reconnect>>
      BY <2>2 DEF Owe
    <2> QED BY <1>3, <2>1, <2>2 DEF OpStarts
  <1> QED
    <2>1. CASE disposed /\ Stop(FALSE, "leaving", "leaving")
      BY <1>6, <2>1
    <2>2. CASE Stop(TRUE, "stopping", "persisting")
      BY <1>6, <2>2
    <2>3. CASE Stop(TRUE, "stopping", "dialing")
      BY <1>6, <2>3
    <2> QED BY <1>7, <1>8, <1>9, <2>1, <2>2, <2>3

LEMMA ReconcileStep ==
  ASSUME SyncBase, Reconcile
  PROVE  SyncBase' /\ Effect
  <1>1. /\ OpAt("reconcile")
        /\ UNCHANGED <<ddl, connected, session, content, registry, runs, answer, requests, faults, saved,
                       enabled, provisioned, disposed, sync>>
    BY DEF Reconcile
  <1>2. SyncTypeOK /\ debt \in BOOLEAN /\ stranded \in BOOLEAN
    BY RequestTypes DEF SyncBase
  <1>3. stale' \in BOOLEAN /\ status' \in Statuses /\ stranded' \in BOOLEAN
    <2>1. MarkStale \/ UNCHANGED <<stale, status>>
      BY DEF Reconcile, StopRemoved, StopUnwanted
    <2>2. stranded' \in {stranded, FALSE}
      BY DEF Reconcile, StopRemoved, StopUnwanted
    <2> QED BY <1>2, <2>1, <2>2, RequestTypes DEF MarkStale, Statuses
  <1>4. ASSUME listener' \in Listener, wire' \in Snapshot, heard' \in Snapshot, debt' \in BOOLEAN,
               ops' \in Seq(Operation), refreshes' \in Seq(Refresh), reconnect' \in BOOLEAN
        PROVE  SyncTypeOK'
    BY <1>1, <1>2, <1>3, <1>4, RestTypes, RequestTypes, ListenerFields
  <1>5. ASSUME NEW waiting \in {"halting", "removing"}, NEW next \in {"configured", "settling"},
               NEW owing, owing \in {TRUE, FALSE}, Stop(owing, waiting, next),
               owing = TRUE \/ heard' = {} \/ ~Listed, heard' \in {heard, {}},
               waiting = "removing" \/ next = "settling" => heard' = {}
        PROVE  SyncBase' /\ Effect
    <2>2. /\ OpsInv' /\ RefreshesInv' /\ Unheard'
          /\ listener' \in Listener /\ wire' \in Snapshot /\ heard' \in Snapshot /\ debt' \in BOOLEAN
          /\ ops' \in Seq(Operation) /\ refreshes' \in Seq(Refresh) /\ reconnect' \in BOOLEAN
          /\ HeadKept /\ (Keeps \/ Owes)
      BY <1>1, <1>5, StopMoves
    <2> QED BY <1>1, <1>4, <2>2, MovesStep
  <1>6. ASSUME OpEnds \/ OpGoes("establish"),
               UNCHANGED <<listener, wire, debt, refreshes, reconnect, heard>>
        PROVE  SyncBase' /\ Effect
    <2>1. OpsMoves
      BY <1>1, <1>6, OpsGo
    <2>2. Listens0
      BY <1>1, <1>6 DEF Listens0
    <2>3. Undisturbed({"manual", "refresh"}) /\ runs' \in Seq(Run)
      BY <1>1, <1>2, IndexRests
    <2>4. SyncTypeOK'
      BY <1>1, <1>2, <1>3, <1>6, <2>1, <2>2, <2>3, OpsTypes, RequestTypes
    <2> QED BY <1>1, <1>2, <2>1, <2>2, <2>3, <2>4, OpsStep
  <1>7. CASE StopRemoved
    <2>1. Stop(FALSE, "removing", "settling") /\ heard' = {}
      BY <1>7 DEF StopRemoved
    <2> QED BY <1>5, <2>1
  <1>8. CASE StopUnwanted
    <2>1. Stop(Op.op = "restart" \/ Listed, "halting", "configured") /\ heard' = heard
      BY <1>8 DEF StopUnwanted
    <2>2. CASE Op.op = "restart" \/ Listed
      <3>1. Stop(TRUE, "halting", "configured")
        BY <2>1, <2>2 DEF Stop
      <3> QED BY <1>5, <2>1, <3>1
    <2>3. CASE ~(Op.op = "restart" \/ Listed)
      <3>1. Stop(FALSE, "halting", "configured") /\ ~Listed
        BY <2>1, <2>3 DEF Stop
      <3> QED BY <1>5, <2>1, <3>1
    <2> QED BY <2>2, <2>3
  <1>9. \/ StopRemoved \/ StopUnwanted
        \/ (OpEnds \/ OpGoes("establish")) /\ UNCHANGED <<listener, wire, debt, refreshes, reconnect, heard>>
    BY DEF Reconcile
  <1> QED BY <1>6, <1>7, <1>8, <1>9

-----------------------------------------------------------------------------
(* A listener that starts *)

LEMMA StartingMoves ==
  ASSUME SyncBase, ~Listed, HeadAt(ops) # "refreshing", UNCHANGED <<ddl, disposed, wire, heard>>,
         listener' \in Listener, listener'.notes = {}, listener'.groups = {}, ~listener'.timer,
         Lined(ops', disposed'), HeadAt(ops') \in {"none", "queued", "starting", "refreshing"},
         HeadAt(ops') = "starting" => ~Listed',
         \/ HeadAt(ops') # "refreshing" /\ refreshes' = refreshes /\ debt' = debt
         \/ HeadAt(ops') # "refreshing" /\ refreshes' = NotPaying(refreshes) /\ debt' = TRUE
         \/ /\ HeadAt(ops') = "refreshing"
            /\ refreshes' = Append(refreshes, NewRefresh("start", TRUE, {})) /\ debt' = debt
  PROVE  /\ OpsInv' /\ RefreshesInv' /\ Unheard' /\ HeadKept /\ (Keeps \/ Owes)
         /\ ops' \in Seq(Operation) /\ refreshes' \in Seq(Refresh) /\ debt' \in BOOLEAN
  <1>0. /\ disposed' = disposed /\ ddl' = ddl /\ refreshes \in Seq(Refresh) /\ debt \in BOOLEAN
        /\ Sound(refreshes, HeadAt(ops), Listed, 1..ddl)
    BY DEF SyncBase, SyncTypeOK, RefreshesInv
  <1>1. /\ wire' = {} /\ UNION {wire', heard', listener'.notes, listener'.groups} \subseteq 1..ddl'
    BY <1>0, ListenerFields DEF SyncBase, Unheard
  <1>2. OpsInv' /\ Unheard' /\ ops' \in Seq(Operation)
    BY <1>1 DEF OpsInv, Unheard, Lined
  <1>3. \A i \in 1..Len(refreshes) : refreshes[i].from \notin {"flush", "start", "reconcile"}
    BY <1>0 DEF Sound
  <1>4. \A d : ~Kept(d)
    BY <1>3 DEF SyncBase, Unheard, Kept
  <1>5. debt' = debt => Keeps
    BY <1>0, <1>4 DEF Keeps
  <1>6. Sound(refreshes, HeadAt(ops'), Listed', 1..ddl)
    BY <1>0, <1>3 DEF Sound
  <1>7. CASE refreshes' = refreshes /\ debt' = debt
    <2>1. HeadKept
      BY <1>7 DEF HeadKept, RefreshAt
    <2>2. RefreshesInv'
      BY <1>0, <1>6, <1>7 DEF RefreshesInv, Sound
    <2> QED BY <1>0, <1>2, <1>5, <1>7, <2>1, <2>2
  <1>8. CASE refreshes' = NotPaying(refreshes) /\ debt' = TRUE
    <2>1. Marks(refreshes', refreshes) /\ HeadKept /\ ~Paying'
      BY <1>8, PaysNoMore
    <2>2. RefreshesInv' /\ refreshes' \in Seq(Refresh)
      <3>1. /\ refreshes' \in Seq(Refresh) /\ Len(refreshes') = Len(refreshes)
            /\ \A i \in 1..Len(refreshes) :
                 /\ refreshes'[i].full = refreshes[i].full /\ refreshes'[i].objects = refreshes[i].objects
                 /\ refreshes'[i].debt => refreshes[i].debt
                 /\ refreshes'[i].from \in {refreshes[i].from, "orphan"}
        BY <2>1 DEF Marks
      <3> QED BY <1>0, <1>3, <3>1 DEF RefreshesInv, Sound
    <2> QED BY <1>2, <1>8, <2>1, <2>2 DEF Owes
  <1>9. CASE /\ HeadAt(ops') = "refreshing" /\ debt' = debt
             /\ refreshes' = Append(refreshes, NewRefresh("start", TRUE, {}))
    <2> DEFINE new == NewRefresh("start", TRUE, {})
    <2>1. new \in Refresh /\ new.objects = {} /\ new.full = TRUE /\ new.from = "start"
      BY DEF NewRefresh, Refresh, Snapshot
    <2> HIDE DEF new
    <2>2. refreshes' = Append(refreshes, new)
      BY <1>9 DEF new
    <2>3. /\ refreshes' \in Seq(Refresh) /\ Len(refreshes) \in Nat /\ Len(refreshes') = Len(refreshes) + 1
          /\ \A i \in 1..Len(refreshes) : refreshes'[i] = refreshes[i]
          /\ refreshes'[Len(refreshes) + 1] = new
          /\ refreshes # <<>> => refreshes' # <<>> /\ refreshes'[1] = refreshes[1]
      BY <1>0, <2>1, <2>2, AppendMove
    <2>4. HeadKept
      BY <2>3 DEF HeadKept, RefreshAt
    <2>5. \A i \in 1..Len(refreshes') : i \in 1..Len(refreshes) \/ i = Len(refreshes) + 1
      BY <2>3
    <2>6. \A i \in 1..Len(refreshes') : refreshes'[i].from \in {"start", "reconcile"} => i = Len(refreshes) + 1
      BY <1>3, <2>3, <2>5
    <2>7. \A i \in 1..Len(refreshes') :
            /\ refreshes'[i].objects \subseteq 1..ddl'
            /\ refreshes'[i].debt => refreshes'[i].full
            /\ refreshes'[i].from # "flush"
      <3>1. \A i \in 1..Len(refreshes) :
              /\ refreshes[i].objects \subseteq 1..ddl
              /\ refreshes[i].debt => refreshes[i].full
        BY <1>0 DEF Sound
      <3> QED BY <1>0, <1>3, <2>1, <2>3, <2>5, <3>1
    <2>8. RefreshesInv'
      BY <1>9, <2>3, <2>6, <2>7 DEF RefreshesInv, Sound
    <2> QED BY <1>0, <1>2, <1>5, <1>9, <2>3, <2>4, <2>8
  <1> QED BY <1>7, <1>8, <1>9

\* A client that starts has received nothing yet.
LEMMA FreshListener ==
  ASSUME SyncBase, ~Listed
  PROVE  /\ NoListener \in Listener /\ NoListener.notes = {} /\ NoListener.groups = {} /\ ~NoListener.timer
         /\ NoListener.phase = "none"
         /\ \A phase \in {"connecting", "checking", "listening", "restoring", "published"} :
              LET l == [listener EXCEPT !.phase = phase] IN
                l \in Listener /\ l.notes = {} /\ l.groups = {} /\ ~l.timer /\ l.phase = phase
         /\ LET l == [NoListener EXCEPT !.phase = "connecting"] IN
              l \in Listener /\ l.notes = {} /\ l.groups = {} /\ ~l.timer /\ l.phase = "connecting"
  <1>1. NoListener \in Listener
    BY DEF NoListener, Listener, Snapshot
  <1>2. ASSUME NEW phase \in {"connecting", "checking", "listening", "restoring", "published"}
        PROVE  LET l == [listener EXCEPT !.phase = phase] IN
                 l \in Listener /\ l.notes = {} /\ l.groups = {} /\ ~l.timer /\ l.phase = phase
    <2>1. listener \in Listener /\ listener.notes = {} /\ listener.groups = {} /\ ~listener.timer
      BY ListenerFields DEF SyncBase, Unheard
    <2> QED BY <2>1 DEF Listener
  <1> QED BY <1>1, <1>2 DEF NoListener, Listener, Snapshot

LEMMA ListenerStarts ==
  ASSUME SyncBase, ListenerAnswers \/ Listens \/ NotProvisioned \/ StartFails
  PROVE  SyncBase' /\ Effect
  <1>1. /\ OpAt("starting") /\ UNCHANGED <<ddl, connected, session, content, registry, runs, answer,
                                           settingVars, wire, heard>>
    BY DEF ListenerAnswers, Listens, NotProvisioned, StartFails, indexVars
  <1>2. SyncTypeOK /\ debt \in BOOLEAN /\ UNCHANGED <<disposed, saved, enabled, provisioned, stranded>>
    BY <1>1 DEF SyncBase, SyncTypeOK, settingVars
  <1>3. HeadAt(ops) = "starting" /\ ops # <<>> /\ ~Listed /\ Lined(ops, disposed)
    BY <1>1, OpIs DEF SyncBase, Unheard, OpsInv
  <1>4. /\ OpEnds => Lined(ops', disposed') /\ HeadAt(ops') \in {"none", "queued"}
        /\ OpGoes("refreshing") => Lined(ops', disposed') /\ HeadAt(ops') = "refreshing"
        /\ ops' = ops => Lined(ops', disposed') /\ HeadAt(ops') = "starting"
    <2>1. OpGoes("refreshing") => Lined(ops', disposed') /\ HeadAt(ops') = "refreshing"
      BY <1>1, <1>2, OpGoesOn
    <2>2. OpEnds => Lined(ops', disposed') /\ HeadAt(ops') \in {"none", "queued"}
      BY <1>1, <1>2, OpHasEnded
    <2> QED BY <1>2, <1>3, <2>1, <2>2
  <1>5. /\ requests' = requests /\ faults' \in 0..MaxFaults /\ reconnect' \in BOOLEAN
        /\ stale' \in BOOLEAN /\ status' \in Statuses /\ sync' \in States
    <2>1. requests' = requests /\ (faults' = faults \/ Fault)
      BY DEF ListenerAnswers, Listens, NotProvisioned, StartFails
    <2>2. MarkStale \/ UNCHANGED <<stale, status>>
      BY DEF ListenerAnswers, Listens, NotProvisioned, StartFails, indexVars
    <2>3. reconnect' \in {reconnect, TRUE}
      BY DEF ListenerAnswers, Listens, NotProvisioned, StartFails, ScheduleReconnect
    <2>4. sync' \in {sync, "desynchronized", "listening", "provisioning-required", "unavailable",
                     "insufficient-privilege"}
      BY DEF ListenerAnswers, Listens, NotProvisioned, StartFails
    <2> QED BY <1>2, <2>1, <2>2, <2>3, <2>4, RequestTypes DEF MarkStale, Statuses, States
  <1>6. \/ listener' = NoListener /\ OpEnds /\ refreshes' = refreshes /\ debt' = debt
        \/ listener' = NoListener /\ OpEnds /\ refreshes' = NotPaying(refreshes) /\ debt' = TRUE
        \/ /\ \E phase \in {"checking", "listening"} : listener' = [listener EXCEPT !.phase = phase]
           /\ ops' = ops /\ refreshes' = refreshes /\ debt' = debt
        \/ /\ listener' = [listener EXCEPT !.phase = "restoring"] /\ OpGoes("refreshing")
           /\ refreshes' = Append(refreshes, NewRefresh("start", TRUE, {})) /\ debt' = debt
        \/ /\ listener' = [listener EXCEPT !.phase = "published"] /\ OpEnds
           /\ refreshes' = refreshes /\ debt' = debt
    <2>1. CASE ListenerAnswers
      <3>1. refreshes' = refreshes /\ debt' = debt
        BY <2>1 DEF ListenerAnswers
      <3>2. CASE Required
        <4>1. /\ listener' = [listener EXCEPT !.phase = IF @ = "connecting" THEN "checking" ELSE "listening"]
              /\ ops' = ops
          BY <2>1, <3>2 DEF ListenerAnswers
        <4>2. \E phase \in {"checking", "listening"} : listener' = [listener EXCEPT !.phase = phase]
          BY <4>1
        <4> QED BY <3>1, <4>1, <4>2
      <3>3. CASE ~Required
        BY <2>1, <3>1, <3>3 DEF ListenerAnswers
      <3> QED BY <3>2, <3>3
    <2>2. CASE Listens
      BY <2>2 DEF Listens
    <2>3. CASE NotProvisioned
      BY <2>3 DEF NotProvisioned, Owe
    <2>4. CASE StartFails
      BY <2>4 DEF StartFails, Owe
    <2> QED BY <2>1, <2>2, <2>3, <2>4
  <1>7. /\ OpsInv' /\ RefreshesInv' /\ Unheard' /\ HeadKept /\ (Keeps \/ Owes)
        /\ ops' \in Seq(Operation) /\ refreshes' \in Seq(Refresh) /\ debt' \in BOOLEAN
        /\ listener' \in Listener
    <2>1. UNCHANGED <<ddl, disposed, wire, heard>> /\ HeadAt(ops) # "refreshing"
      BY <1>1, <1>2, <1>3
    <2>2. CASE listener' = NoListener /\ OpEnds /\ refreshes' = refreshes /\ debt' = debt
      BY <1>3, <1>4, <2>1, <2>2, FreshListener, StartingMoves
    <2>3. CASE listener' = NoListener /\ OpEnds /\ refreshes' = NotPaying(refreshes) /\ debt' = TRUE
      BY <1>3, <1>4, <2>1, <2>3, FreshListener, StartingMoves
    <2>4. ASSUME NEW phase \in {"checking", "listening"}, listener' = [listener EXCEPT !.phase = phase],
                 ops' = ops, refreshes' = refreshes, debt' = debt
          PROVE  /\ OpsInv' /\ RefreshesInv' /\ Unheard' /\ HeadKept /\ (Keeps \/ Owes)
                 /\ ops' \in Seq(Operation) /\ refreshes' \in Seq(Refresh) /\ debt' \in BOOLEAN
                 /\ listener' \in Listener
      <3>1. /\ listener' \in Listener /\ listener'.notes = {} /\ listener'.groups = {} /\ ~listener'.timer
            /\ ~Listed'
        BY <1>3, <2>4, FreshListener DEF Listed
      <3> QED BY <1>3, <1>4, <2>1, <2>4, <3>1, StartingMoves
    <2>5. CASE /\ listener' = [listener EXCEPT !.phase = "restoring"] /\ OpGoes("refreshing")
               /\ refreshes' = Append(refreshes, NewRefresh("start", TRUE, {})) /\ debt' = debt
      <3>1. /\ listener' \in Listener /\ listener'.notes = {} /\ listener'.groups = {} /\ ~listener'.timer
        BY <1>3, <2>5, FreshListener
      <3> QED BY <1>3, <1>4, <2>1, <2>5, <3>1, StartingMoves
    <2>6. CASE /\ listener' = [listener EXCEPT !.phase = "published"] /\ OpEnds
               /\ refreshes' = refreshes /\ debt' = debt
      <3>1. /\ listener' \in Listener /\ listener'.notes = {} /\ listener'.groups = {} /\ ~listener'.timer
        BY <1>3, <2>6, FreshListener
      <3> QED BY <1>3, <1>4, <2>1, <2>6, <3>1, StartingMoves
    <2> QED BY <1>6, <2>2, <2>3, <2>4, <2>5, <2>6
  <1>8. SyncTypeOK'
    BY <1>1, <1>2, <1>5, <1>7, RestTypes, RequestTypes, ListenerFields
  <1> QED BY <1>1, <1>7, <1>8, MovesStep

LEMMA EstablishStep ==
  ASSUME SyncBase, Establish
  PROVE  SyncBase' /\ Effect
  <1>1. /\ OpAt("establish")
        /\ UNCHANGED <<ddl, connected, indexVars, requests, faults, settingVars, wire, heard, debt, reconnect,
                       sync>>
    BY DEF Establish
  <1>2. /\ SyncTypeOK /\ debt \in BOOLEAN
        /\ UNCHANGED <<content, registry, runs, answer, session, stale, status, disposed>>
    BY <1>1 DEF SyncBase, SyncTypeOK, indexVars, settingVars
  <1>3. HeadAt(ops) = "establish" /\ Lined(ops, disposed)
    BY <1>1, OpIs DEF SyncBase, OpsInv
  <1>4. ASSUME listener' \in Listener, ops' \in Seq(Operation), refreshes' \in Seq(Refresh)
        PROVE  SyncTypeOK'
    BY <1>1, <1>2, <1>4, RestTypes, RequestTypes, ListenerFields DEF settingVars
  <1>5. CASE OpEnds /\ UNCHANGED <<listener, refreshes>>
    <2>1. OpsMoves
      BY <1>1, <1>2, <1>5, OpsGo
    <2>2. Listens0
      BY <1>1, <1>5 DEF Listens0
    <2>3. Undisturbed({"manual", "refresh"}) /\ runs' \in Seq(Run)
      BY <1>1, <1>2, IndexRests
    <2>4. ops' \in Seq(Operation)
      BY <2>1 DEF OpsMoves, Lined
    <2>5. SyncTypeOK'
      BY <1>4, <1>5, <2>4, ListenerFields
    <2> QED BY <1>2, <2>1, <2>2, <2>3, <2>5, OpsStep
  <1>6. CASE /\ ~Listed /\ listener' = [NoListener EXCEPT !.phase = "connecting"]
             /\ OpGoes("starting") /\ UNCHANGED refreshes
    <2>1. Lined(ops', disposed') /\ HeadAt(ops') = "starting"
      BY <1>1, <1>2, <1>6, OpGoesOn
    <2>2. /\ listener' \in Listener /\ listener'.notes = {} /\ listener'.groups = {} /\ ~listener'.timer
          /\ ~Listed'
      BY <1>6, FreshListener DEF Listed
    <2>3. /\ OpsInv' /\ RefreshesInv' /\ Unheard' /\ HeadKept /\ (Keeps \/ Owes)
          /\ ops' \in Seq(Operation) /\ refreshes' \in Seq(Refresh)
      BY <1>1, <1>2, <1>3, <1>6, <2>1, <2>2, StartingMoves
    <2> QED BY <1>1, <1>2, <1>4, <2>2, <2>3, MovesStep
  <1>7. CASE /\ Listed /\ refreshes = <<>> /\ refreshes' = <<NewRefresh("reconcile", TRUE, {})>>
             /\ OpGoes("refreshing") /\ UNCHANGED listener
    <2> DEFINE new == NewRefresh("reconcile", TRUE, {})
    <2>1. new \in Refresh /\ new.objects = {} /\ new.full = TRUE /\ new.from = "reconcile"
      BY DEF NewRefresh, Refresh, Snapshot
    <2> HIDE DEF new
    <2>2. refreshes' = <<new>>
      BY <1>7 DEF new
    <2>3. refreshes' \in Seq(Refresh) /\ Len(refreshes') = 1 /\ refreshes'[1] = new
      BY <2>1, <2>2
    <2>4. Lined(ops', disposed') /\ HeadAt(ops') = "refreshing"
      BY <1>1, <1>2, <1>7, OpGoesOn
    <2>5. \A i \in 1..Len(refreshes') : i = 1
      BY <2>3
    <2>6. RefreshesInv'
      BY <2>1, <2>3, <2>4, <2>5 DEF RefreshesInv, Sound
    <2>7. OpsInv' /\ ops' \in Seq(Operation)
      BY <2>4 DEF OpsInv, Lined
    <2>8. Unheard'
      BY <1>1, <1>7, <2>4 DEF Unheard, SyncBase, Listed
    <2>9. HeadKept
      BY <1>7 DEF HeadKept, RefreshAt
    <2>10. Keeps
      <3>1. \A d : Kept(d) => Kept(d)'
        BY <1>1, <1>7 DEF Kept
      <3> QED BY <1>1, <1>2, <3>1 DEF Keeps
    <2> QED BY <1>1, <1>2, <1>4, <1>7, <2>3, <2>6, <2>7, <2>8, <2>9, <2>10, MovesStep, ListenerFields
  <1> QED BY <1>5, <1>6, <1>7 DEF Establish

\* A removed Connection is forgotten, and with it what was owed; nothing it heard is kept.
LEMMA RefreshesIdleStep ==
  ASSUME SyncBase, RefreshesIdle
  PROVE  SyncBase' /\ Effect
  <1>1. /\ OpAt("settling") /\ refreshes = <<>> /\ OpEnds
        /\ UNCHANGED <<ddl, connected, indexVars, requests, faults, settingVars, listener, wire, heard,
                       refreshes, reconnect>>
        /\ debt' = debt \/ debt' = FALSE
        /\ sync' \in {sync, "unknown"}
    BY DEF RefreshesIdle
  <1>2. /\ SyncTypeOK /\ UNCHANGED <<content, registry, runs, answer, session, stale, status, disposed>>
    BY <1>1 DEF SyncBase, indexVars, settingVars
  <1>3. HeadAt(ops) = "settling" /\ heard = {} /\ ~Listed
    BY <1>1, OpIs DEF SyncBase, Unheard
  <1>4. Lined(ops', disposed') /\ HeadAt(ops') \in {"none", "queued"}
    BY <1>1, <1>2, OpHasEnded
  <1>5. debt' \in BOOLEAN /\ sync' \in States
    BY <1>1, <1>2, RequestTypes DEF States
  <1>6. OpsInv' /\ ops' \in Seq(Operation)
    BY <1>4 DEF OpsInv, Lined
  <1>7. SyncTypeOK'
    BY <1>1, <1>2, <1>5, <1>6, RestTypes, RequestTypes, ListenerFields DEF settingVars
  <1>8. RefreshesInv'
    <2>1. Sound(refreshes, HeadAt(ops), Listed, 1..ddl)
      BY DEF SyncBase, RefreshesInv
    <2>2. Sound(refreshes, HeadAt(ops'), Listed, 1..ddl)
      BY <1>3, <2>1, SoundElsewhere
    <2> QED BY <1>1, <2>2 DEF RefreshesInv, Listed
  <1>9. Unheard'
    BY <1>1, <1>3, <1>4 DEF Unheard, SyncBase, Listed
  <1>10. HeadKept
    BY <1>1 DEF HeadKept, RefreshAt
  <1>11. Keeps
    BY <1>1, <1>2, <1>3 DEF Keeps
  <1> QED BY <1>1, <1>2, <1>6, <1>7, <1>8, <1>9, <1>10, <1>11, MovesStep

LEMMA ListenerLostStep ==
  ASSUME SyncBase, ListenerLost
  PROVE  SyncBase' /\ Effect
  <1>1. /\ UNCHANGED <<ddl, connected, indexVars, settingVars, heard, reconnect, sync>>
        /\ Fault /\ requests' = requests
    BY DEF ListenerLost
  <1>2. /\ SyncTypeOK /\ UNCHANGED <<content, registry, runs, answer, session, stale, status, disposed>>
    BY <1>1 DEF SyncBase, indexVars, settingVars
  <1>3. ASSUME listener' \in Listener, wire' \in Snapshot, debt' \in BOOLEAN,
               ops' \in Seq(Operation), refreshes' \in Seq(Refresh)
        PROVE  SyncTypeOK'
    BY <1>1, <1>2, <1>3, RestTypes, RequestTypes, ListenerFields DEF settingVars
  <1>4. CASE listener.phase = "published"
    <2>1. ListenerClosed(ops, refreshes) /\ Listed
      BY <1>4 DEF ListenerLost, Listed
    <2>2. Lined(ops, disposed) /\ Sound(refreshes, HeadAt(ops), Listed, 1..ddl)
      BY DEF SyncBase, OpsInv, RefreshesInv
    <2>3. /\ OpsInv' /\ RefreshesInv' /\ Unheard'
          /\ listener' \in Listener /\ wire' \in Snapshot /\ debt' \in BOOLEAN
          /\ ops' \in Seq(Operation) /\ refreshes' \in Seq(Refresh)
          /\ Marks(refreshes', refreshes)
          /\ (disposed' /\ debt' = debt) \/ (debt' = TRUE /\ ~Paying')
      BY <1>1, <1>2, <2>1, <2>2, ClosedMoves
    <2>4. HeadKept
      BY <2>3, MarksHead
    <2>5. Keeps \/ Owes
      BY <2>3 DEF Keeps, Owes
    <2> QED BY <1>1, <1>2, <1>3, <2>3, <2>4, <2>5, MovesStep
  <1>5. CASE listener.phase # "published"
    <2>1. listener' = [listener EXCEPT !.failed = TRUE] /\ UNCHANGED <<wire, debt, refreshes, ops>>
      BY <1>5 DEF ListenerLost
    <2>2. /\ listener' \in Listener /\ listener'.phase = listener.phase /\ listener'.notes = listener.notes
          /\ listener'.groups = listener.groups /\ listener'.timer = listener.timer
          /\ listener'.flushing = listener.flushing
      BY <2>1, ListenerFields DEF Listener
    <2>3. Listed' = Listed
      BY <2>2 DEF Listed
    <2>4. OpsInv' /\ RefreshesInv'
      BY <1>1, <1>2, <2>1, <2>3 DEF SyncBase, OpsInv, RefreshesInv
    <2>5. Unheard'
      BY <1>1, <2>1, <2>2, <2>3 DEF SyncBase, Unheard
    <2>6. HeadKept
      BY <2>1 DEF HeadKept, RefreshAt
    <2>7. Keeps
      BY <1>1, <1>2, <2>1, <2>2 DEF Keeps, Kept
    <2>8. SyncTypeOK'
      BY <1>2, <1>3, <2>1, <2>2, ListenerFields, OpsTyped, RequestTypes
    <2> QED BY <1>1, <1>2, <2>4, <2>5, <2>6, <2>7, <2>8, MovesStep
  <1> QED BY <1>4, <1>5

-----------------------------------------------------------------------------
(* The index runs while Schema Sync waits *)

LEMMA BaseRests ==
  ASSUME SyncBase, IndexTypeOK', UNCHANGED <<ddl, syncVars>>
  PROVE  SyncBase' /\ SyncStays
  <1>1. UNCHANGED <<saved, enabled, provisioned, disposed, stranded, listener, wire, heard, debt, ops,
                    refreshes, reconnect, sync>>
    BY DEF syncVars, settingVars
  <1>2. SyncTypeOK'
    BY <1>1 DEF SyncBase, SyncTypeOK
  <1>3. OpsInv' /\ RefreshesInv'
    BY <1>1 DEF SyncBase, OpsInv, RefreshesInv, Listed
  <1>4. Unheard'
    BY <1>1 DEF SyncBase, Unheard, Listed
  <1> QED BY <1>1, <1>2, <1>3, <1>4 DEF SyncBase, SyncStays

LEMMA BaseOf ==
  ASSUME SyncIInv
  PROVE  /\ SyncBase /\ SyncTypeOK /\ IndexTypeOK /\ RunsInv /\ Linked /\ Named /\ Owed /\ Waiting /\ Unheard
         /\ (~Pending => answer = "none")
  BY DEF SyncIInv, SyncInv, SyncBase, SyncTypeOK, RunsInv, Pending, RunPending

LEMMA StartRunStep ==
  ASSUME SyncIInv, StartRun, UNCHANGED syncVars
  PROVE  SyncIInv' /\ registry' = registry
  <1>1. /\ SyncBase /\ IndexTypeOK /\ RunsInv /\ Linked /\ Named /\ Owed /\ Waiting
    BY BaseOf
  <1>2. Started /\ IndexTypeOK'
    BY <1>1, StartRunStarts
  <1>3. /\ At("queued") /\ answer = "none"
        /\ UNCHANGED <<ddl, connected, session, content, registry, answer, requests, faults>>
    BY DEF StartRun
  <1>4. SyncBase' /\ SyncStays /\ refreshes' = refreshes
    BY <1>1, <1>2, <1>3, BaseRests DEF SyncStays
  <1>5. RunsInv'
    BY <1>1, <1>2, <1>3, RunsStarted
  <1>6. Linked' /\ Named'
    BY <1>1, <1>2, <1>3, <1>4, StartLinks
  <1>7. Owed'
    BY <1>1, <1>2, <1>3, <1>4, <1>6, StartOwes
  <1> QED BY <1>3, <1>4, <1>5, <1>6, <1>7 DEF SyncIInv, SyncInv, SyncBase

LEMMA RunAnswersStep ==
  ASSUME SyncIInv, IndexAnswers
  PROVE  SyncIInv' /\ (registry = None \/ registry' = None \/ registry \subseteq registry')
  <1>1. RunAnswers /\ ~Pending /\ UNCHANGED syncVars
    BY DEF IndexAnswers
  <1>2. /\ SyncBase /\ IndexTypeOK /\ RunsInv /\ Linked /\ Named /\ Owed /\ Unheard /\ answer = "none"
    BY <1>1, BaseOf
  <1>3. (Failed \/ Holds \/ Restores \/ Publishes) /\ IndexTypeOK' /\ UNCHANGED <<ddl, connected>>
    BY <1>1, <1>2, RunAnswersMoves
  <1>4. SyncBase' /\ SyncStays /\ refreshes' = refreshes
    BY <1>1, <1>2, <1>3, BaseRests DEF SyncStays
  <1>5. RunsInv' /\ (registry = None \/ registry' = None \/ registry \subseteq registry')
    BY <1>2, <1>3, RunsAnswered
  <1>6. Linked' /\ Named'
    BY <1>2, <1>3, <1>4, AnswerLinks
  <1>7. Owed'
    BY <1>2, <1>3, <1>4, AnswerOwes
  <1> QED BY <1>4, <1>5, <1>6, <1>7 DEF SyncIInv, SyncInv, SyncBase

\* The registry is gone with the session; what the runs are to publish is not touched.
LEMMA SessionClosesStep ==
  ASSUME SyncIInv, ~Pending, SessionCloses, UNCHANGED syncVars
  PROVE  SyncIInv' /\ registry' = None
  <1>1. /\ SyncBase /\ IndexTypeOK /\ RunsInv /\ Linked /\ Named /\ Owed /\ answer = "none"
    BY BaseOf
  <1>2. RunsInv' /\ IndexTypeOK'
    BY <1>1, RunsSessionCloses
  <1>3. registry' = None /\ UNCHANGED <<ddl, answer>>
    BY DEF SessionCloses
  <1>4. SyncBase' /\ SyncStays /\ refreshes' = refreshes /\ debt' = debt
    BY <1>1, <1>2, <1>3, BaseRests DEF SyncStays
  <1>5. /\ Len(runs') = Len(runs) /\ \A i \in 1..Len(runs) : Same(runs'[i], runs[i])
        /\ runs' = <<>> <=> runs = <<>>
        /\ runs # <<>> => Same(First', First)
        /\ runs # <<>> => 1 \in 1..Len(runs)
    <2>1. Stays(runs', runs)
      BY <1>1, SessionClosesStays DEF SessionCloses, IndexTypeOK
    <2>2. runs \in Seq(Run)
      BY <1>1 DEF IndexTypeOK
    <2> QED BY <1>1, <1>3, <2>1, <2>2, RunsStay, ChainIndex DEF RunsInv
  <1>6. Linked'
    BY <1>1, <1>3, <1>4, <1>5 DEF Linked, Same, RefreshAt
  <1>7. Named'
    BY <1>1, <1>3, <1>4, <1>5 DEF Named, Same, Holding
  <1>8. Owed'
    <2>1. /\ Paying' = Paying
          /\ \A S : Reflects(S) => \A d \in heard' : disposed' \/ d \in S \/ Kept(d)'
      BY <1>4, OwedIsKept
    <2>2. runs' # <<>> /\ Holding(First)' => runs # <<>> /\ Holding(First) /\ First'.read = First.read
                                             /\ First'.kind = First.kind
      BY <1>5 DEF Holding, Same
    <2>3. runs' # <<>> /\ Holding(First)' => debt' \/ Reflects(First.read)'
      BY <1>1, <1>4, <2>1, <2>2 DEF Owed, Reflects
    <2>4. Paying' /\ runs' # <<>> /\ First'.kind = "ddl" /\ Holding(First)' => Reflects(First.read)'
      BY <1>1, <2>1, <2>2 DEF Owed, Reflects
    <2> QED BY <1>1, <1>3, <2>3, <2>4 DEF Owed
  <1> QED BY <1>2, <1>3, <1>4, <1>6, <1>7, <1>8 DEF SyncIInv, SyncInv, SyncBase

-----------------------------------------------------------------------------
(* Every step *)

LEMMA InitHolds ==
  ASSUME Init
  PROVE  SyncIInv
  <1>1. /\ runs = <<>> /\ answer = "none" /\ registry = None /\ content = None /\ ddl = 0
        /\ refreshes = <<>> /\ ops = <<NewOp("reconcile")>> /\ heard = {} /\ wire = {}
        /\ listener = NoListener /\ disposed = FALSE /\ debt = FALSE
    BY DEF Init, IndexInit
  <1>2. Len(runs) = 0 /\ Len(refreshes) = 0
    BY <1>1
  <1>3. NewOp("reconcile") \in Operation /\ NewOp("reconcile").at = "queued" /\ NewOp("reconcile").op = "reconcile"
    BY NewOpTypes
  <1>4. Len(ops) = 1 /\ ops[1] = NewOp("reconcile") /\ ops \in Seq(Operation)
    BY <1>1, <1>3
  <1>5. NoListener \in Listener /\ NoListener.phase = "none"
    BY DEF NoListener, Listener, Snapshot
  <1>6. SyncTypeOK
    <2>1. IndexTypeOK
      <3>1. /\ ddl = 0 /\ connected = FALSE /\ session = FALSE /\ stale = FALSE /\ status = "not-indexed"
            /\ requests = 0 /\ faults = 0
        BY DEF Init, IndexInit
      <3>2. 0 \in 0..MaxDdl /\ 0 \in 0..MaxRequests /\ 0 \in 0..MaxFaults
        BY IndexAssumption
      <3>3. runs \in Seq(Run)
        BY <1>1
      <3> QED BY <1>1, <3>1, <3>2, <3>3 DEF IndexTypeOK
    <2>2. {saved, enabled, provisioned, disposed, stranded} \subseteq BOOLEAN /\ reconnect \in BOOLEAN
      BY DEF Init
    <2>3. wire \in Snapshot /\ heard \in Snapshot /\ debt \in BOOLEAN /\ listener \in Listener
      BY <1>1, <1>5 DEF Snapshot
    <2>4. sync = "unknown" /\ refreshes \in Seq(Refresh)
      BY <1>1 DEF Init
    <2> QED BY <1>4, <2>1, <2>2, <2>3, <2>4 DEF SyncTypeOK
  <1>7. RunsInv
    BY <1>1, <1>2 DEF RunsInv, Waiting, Committed, Grows, HoldsFirst, EngineHoldsRegistry, At
  <1>8. OpsInv /\ HeadAt(ops) = "queued"
    <2>1. \A i \in 1..Len(ops) : i = 1
      BY <1>4
    <2>2. \A i \in 2..Len(ops) : FALSE
      BY <1>4
    <2> QED BY <1>1, <1>3, <1>4, <2>1, <2>2 DEF OpsInv, Lined, HeadAt
  <1>9. RefreshesInv
    BY <1>1, <1>2 DEF RefreshesInv, Sound
  <1>10. Unheard
    BY <1>1, <1>8 DEF Unheard, NoListener
  <1>11. Linked /\ Named
    BY <1>1, <1>2 DEF Linked, Named
  <1>12. Owed
    BY <1>1 DEF Owed, Paying, RefreshAt
  <1> QED BY <1>6, <1>7, <1>8, <1>9, <1>10, <1>11, <1>12 DEF SyncIInv, SyncInv

LEMMA RestHolds ==
  ASSUME SyncIInv, UNCHANGED vars
  PROVE  SyncIInv' /\ registry' = registry
  <1>1. UNCHANGED <<ddl, connected, session, content, registry, stale, status, runs, answer, requests, faults,
                    saved, enabled, provisioned, disposed, stranded, listener, wire, heard, debt, ops,
                    refreshes, reconnect, sync>>
    BY DEF vars, indexVars, syncVars, settingVars
  <1>2. SyncBase /\ IndexTypeOK
    BY BaseOf
  <1>3. IndexTypeOK'
    BY <1>1, <1>2 DEF IndexTypeOK
  <1>4. SyncBase' /\ SyncStays
    BY <1>1, <1>2, <1>3, BaseRests DEF syncVars, settingVars
  <1>5. Undisturbed({"manual", "refresh"})
    BY <1>1, <1>2, IndexRests DEF SyncBase
  <1>6. HeadKept /\ Keeps
    BY <1>1 DEF HeadKept, RefreshAt, Keeps, Kept
  <1>7. Effect
    BY <1>1, <1>5, <1>6 DEF Effect
  <1> QED BY <1>1, <1>4, <1>7, EffectKeeps

\* Each action preserves the invariant, and the registry loses nothing but all of it.
LEMMA NextHolds ==
  ASSUME SyncIInv, Next
  PROVE  SyncIInv' /\ (registry = None \/ registry' = None \/ registry \subseteq registry')
  <1>1. SyncBase
    BY BaseOf
  <1>2. ASSUME SyncBase', Effect
        PROVE  SyncIInv' /\ registry' = registry
    BY <1>2, EffectKeeps DEF Effect, Undisturbed
  <1>3. ASSUME Callbacks
        PROVE  SyncIInv' /\ registry' = registry
    <2>1. CASE StartRun /\ UNCHANGED syncVars
      BY <2>1, StartRunStep
    <2>2. CASE RefreshStarts
      BY <1>1, <1>2, <2>2, RefreshStartsStep
    <2>3. CASE RefreshAnswered
      BY <2>3, RefreshAnsweredStep DEF RefreshAnswered
    <2>4. CASE OpStarts
      BY <1>1, <1>2, <2>4, OpStartsStep
    <2>5. CASE Reconcile
      BY <1>1, <1>2, <2>5, ReconcileStep
    <2>6. CASE RefreshesIdle
      BY <1>1, <1>2, <2>6, RefreshesIdleStep
    <2>7. CASE Configured
      BY <1>1, <1>2, <2>7, ConfiguredStep
    <2>8. CASE Establish
      BY <1>1, <1>2, <2>8, EstablishStep
    <2> QED BY <1>3, <2>1, <2>2, <2>3, <2>4, <2>5, <2>6, <2>7, <2>8 DEF Callbacks
  <1>4. CASE IndexAnswers
    BY <1>4, RunAnswersStep
  <1>5. ASSUME RefreshSteps
        PROVE  SyncIInv' /\ registry' = registry
    <2>1. CASE RefreshConnected
      BY <2>1, RefreshConnectedStep DEF RefreshConnected
    <2>2. CASE RefreshConnectFails \/ RefreshEnds
      BY <1>1, <1>2, <2>2, RefreshEndsStep
    <2> QED BY <1>5, <2>1, <2>2 DEF RefreshSteps
  <1>6. ASSUME LifecycleSteps
        PROVE  SyncIInv' /\ registry' = registry
    <2>1. CASE ListenerEnded \/ AdminConnects
      BY <1>1, <1>2, <2>1, ClientStep
    <2>2. CASE Persisted
      BY <1>1, <1>2, <2>2, PersistStep
    <2>3. CASE PersistFails \/ AdminConnectFails \/ ScriptRuns \/ ScriptFails \/ CommandLeaves
      BY <1>1, <1>2, <2>3, CommandStep
    <2>4. CASE ListenerAnswers \/ Listens \/ NotProvisioned \/ StartFails
      BY <1>1, <1>2, <2>4, ListenerStarts
    <2>5. CASE ClosedListenerEnded
      BY <1>1, <1>2, <2>5, ConfiguredStep
    <2> QED BY <1>6, <2>1, <2>2, <2>3, <2>4, <2>5 DEF LifecycleSteps
  <1>7. ASSUME Timers
        PROVE  SyncIInv' /\ registry' = registry
    BY <1>1, <1>2, <1>7, FlushTimerStep, SettingStep DEF Timers
  <1>8. ASSUME Notifications
        PROVE  SyncIInv' /\ registry' = registry
    BY <1>1, <1>2, <1>8, NotifiedStep, RejectedStep DEF Notifications
  <1>9. ASSUME Environment
        PROVE  SyncIInv' /\ registry' \in {registry, None}
    <2>1. CASE Connect \/ Disconnect
      BY <1>1, <1>2, <2>1, ConnectionStep
    <2>2. CASE RemoveConnection \/ AddConnection \/ (\E op \in Commands : Command(op)) \/ RestartAll \/ Dispose
      BY <1>1, <1>2, <2>2, SettingStep
    <2>3. CASE RefreshDatabase \/ UserIndexes
      BY <1>1, <1>2, <2>3, UserStep
    <2>4. CASE CommitDdl
      BY <1>1, <1>2, <2>4, CommitStep
    <2>5. CASE ListenerLost
      BY <1>1, <1>2, <2>5, ListenerLostStep
    <2>6. CASE SessionCloses /\ UNCHANGED syncVars
      BY <1>9, <2>6, SessionClosesStep DEF Environment
    <2> QED BY <1>9, <2>1, <2>2, <2>3, <2>4, <2>5, <2>6 DEF Environment
  <1> QED BY <1>3, <1>4, <1>5, <1>6, <1>7, <1>8, <1>9 DEF Next

-----------------------------------------------------------------------------
(* Theorems *)

\* What holds in every state: the registry and the engine agree, the chains are in order, and
\* whatever was heard is reflected, on its way or owed (WorkbenchDdlSyncController, enqueueScopeRun).
THEOREM SyncInvariant == Spec => []SyncIInv
  <1>1. Init => SyncIInv
    BY InitHolds
  <1>2. SyncIInv /\ [Next]_vars => SyncIInv'
    BY NextHolds, RestHolds
  <1> QED BY <1>1, <1>2, PTL DEF Spec

\* The variables stay in their types, however many requests are queued in the two chains
\* (enqueueLifecycle, enqueueRefresh).
THEOREM SyncTypes == Spec => []SyncTypeOK
  <1>1. SyncIInv => SyncTypeOK
    BY DEF SyncIInv
  <1> QED BY <1>1, SyncInvariant, PTL

\* Whatever an older run reads or restores, the engine holds the sources of the registry the views
\* read, unless it left a replacement unanswered (publishAndReadCatalog, restorePublishedSnapshot).
THEOREM EngineAgrees == Spec => []EngineHoldsRegistry
  <1>1. SyncIInv => EngineHoldsRegistry
    BY DEF SyncIInv, RunsInv
  <1> QED BY <1>1, SyncInvariant, PTL

\* Every DDL a listener was notified of is in the registry, on its way there, or owed as a complete
\* refresh, for any number of DDL transactions, refreshes, lost listeners and failures
\* (requireFullRefresh, refreshActive, onListenerClosed).
THEOREM NothingIsForgotten == Spec => []NothingForgotten
  <1>1. ASSUME SyncIInv
        PROVE  NothingForgotten
    <2>1. registry # None => debt \/ \A d \in heard : disposed \/ d \in registry \/ Kept(d)
      BY <1>1 DEF SyncIInv, Owed, Reflects
    <2> QED BY <2>1 DEF NothingForgotten, Kept
  <1> QED BY <1>1, SyncInvariant, PTL

\* A registry never loses a DDL transaction the one before it reflected: runs of a scope follow each
\* other, and a superseded one publishes nothing (enqueueScopeRun, the refresh epochs).
THEOREM RegistryGrows == Spec => SnapshotsGrow
  <1>1. SyncIInv /\ [Next]_vars => [registry = None \/ registry' = None \/ registry \subseteq registry']_vars
    BY NextHolds
  <1> QED BY <1>1, SyncInvariant, PTL DEF Spec, SnapshotsGrow
=============================================================================
