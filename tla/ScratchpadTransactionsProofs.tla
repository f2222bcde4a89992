--------------------- MODULE ScratchpadTransactionsProofs ---------------------
(* Theorems of ScratchpadTransactions, for every value of its constants. *)
EXTENDS ScratchpadTransactions, FiniteSetTheorems, SequenceTheorems, TLAPS

-----------------------------------------------------------------------------
(* Sequences and operations *)

\* What remains of a chain once its head has settled.
LEMMA TailIndex ==
  ASSUME NEW S, NEW q \in Seq(S), q # <<>>
  PROVE  /\ Tail(q) \in Seq(S)
         /\ Len(q) \in Nat \ {0}
         /\ Head(q) = q[1] /\ 1 \in DOMAIN q
         /\ DOMAIN Tail(q) = 1..(Len(q) - 1)
         /\ DOMAIN q = 1..Len(q)
         /\ \A i \in DOMAIN Tail(q) : i + 1 \in DOMAIN q /\ Tail(q)[i] = q[i + 1]
  <1>1. Len(q) \in Nat \ {0} /\ DOMAIN q = 1..Len(q)
    BY EmptySeq, LenProperties
  <1>2. Tail(q) \in Seq(S) /\ Len(Tail(q)) = Len(q) - 1
    BY HeadTailProperties
  <1>3. DOMAIN Tail(q) = 1..(Len(q) - 1)
    BY <1>2, LenProperties
  <1>4. \A i \in 1..Len(Tail(q)) : Tail(q)[i] = q[i + 1]
    BY <1>1, <1>2, HeadTailProperties
  <1>5. \A i \in DOMAIN Tail(q) : i + 1 \in DOMAIN q /\ Tail(q)[i] = q[i + 1]
    BY <1>1, <1>2, <1>3, <1>4
  <1>6. Head(q) = q[1]
    BY <1>1, HeadTailProperties
  <1> QED BY <1>1, <1>2, <1>3, <1>5, <1>6

\* What a chain is after a call has been appended to it.
LEMMA AppendIndex ==
  ASSUME NEW S, NEW q \in Seq(S), NEW op \in S
  PROVE  /\ Append(q, op) \in Seq(S)
         /\ DOMAIN q = 1..Len(q) /\ Len(q) \in Nat
         /\ DOMAIN Append(q, op) = 1..(Len(q) + 1)
         /\ \A i \in DOMAIN q : Append(q, op)[i] = q[i]
         /\ Append(q, op)[Len(q) + 1] = op
         /\ Append(q, op) # <<>>
         /\ Head(Append(q, op)) = IF q = <<>> THEN op ELSE Head(q)
  <1>1. DOMAIN q = 1..Len(q) /\ Len(q) \in Nat
    BY LenProperties
  <1>2. /\ Append(q, op) \in Seq(S) /\ Append(q, op) # <<>>
        /\ Len(Append(q, op)) = Len(q) + 1
        /\ \A i \in 1..Len(q) : Append(q, op)[i] = q[i]
        /\ Append(q, op)[Len(q) + 1] = op
    BY AppendProperties
  <1>3. DOMAIN Append(q, op) = 1..(Len(q) + 1)
    BY <1>2, LenProperties
  <1>4. Head(Append(q, op)) = Append(q, op)[1]
    BY <1>1, <1>2, HeadTailProperties
  <1>5. CASE q = <<>>
    <2>1. Len(q) = 0
      BY <1>5, EmptySeq
    <2> QED BY <1>1, <1>2, <1>3, <1>4, <1>5, <2>1
  <1>6. CASE q # <<>>
    <2>1. Len(q) # 0 /\ Head(q) = q[1]
      BY <1>6, TailIndex
    <2> QED BY <1>1, <1>2, <1>3, <1>4, <1>6, <2>1
  <1> QED BY <1>5, <1>6

LEMMA UpToSuccessor ==
  ASSUME NEW n \in Nat, NEW i \in 1..(n + 1)
  PROVE  \/ i \in 1..n
         \/ i = n + 1 /\ i \notin 1..n
  OBVIOUS

\* What is on the chains after a call has been appended to one of them.
LEMMA AppendedAt ==
  ASSUME NEW S, NEW q \in [Scratchpads -> Seq(S)], NEW s \in Scratchpads, NEW op \in S,
         NEW r \in Scratchpads, NEW i \in DOMAIN [q EXCEPT ![s] = Append(@, op)][r]
  PROVE  \/ i \in DOMAIN q[r] /\ [q EXCEPT ![s] = Append(@, op)][r][i] = q[r][i]
         \/ r = s /\ [q EXCEPT ![s] = Append(@, op)][r][i] = op
  <1>1. CASE r # s
    BY <1>1
  <1>2. CASE r = s
    <2>1. [q EXCEPT ![s] = Append(@, op)][s] = Append(q[s], op)
      OBVIOUS
    <2>2. /\ DOMAIN q[s] = 1..Len(q[s]) /\ Len(q[s]) \in Nat
          /\ DOMAIN Append(q[s], op) = 1..(Len(q[s]) + 1)
          /\ \A j \in DOMAIN q[s] : Append(q[s], op)[j] = q[s][j]
          /\ Append(q[s], op)[Len(q[s]) + 1] = op
      BY AppendIndex
    <2>3. i \in 1..(Len(q[s]) + 1)
      BY <1>2, <2>1, <2>2
    <2> QED BY <1>2, <2>1, <2>2, <2>3, UpToSuccessor
  <1> QED BY <1>1, <1>2

\* The operations that calls append.
LEMMA OpFields ==
  ASSUME NEW kind \in OpKinds, NEW c \in Connections \cup {None},
         NEW k \in Clients \cup {None},
         NEW who \in Changers \cup Leases \cup Cells \cup {None}
  PROVE  /\ Op(kind, c, k, who) \in Operation
         /\ Op(kind, c, k, who).kind = kind
         /\ Op(kind, c, k, who).conn = c
         /\ Op(kind, c, k, who).client = k
         /\ Op(kind, c, k, who).by = who
  BY DEF Op, Operation

-----------------------------------------------------------------------------
(* The three moves of a chain: its head settles, goes on, or a call appends to it *)

\* The variables Settle, GoOn and RunExclusive change, or rely on, are well typed.
ChainTypes ==
  /\ queue \in [Scratchpads -> Seq(Operation)]
  /\ phase \in [Scratchpads -> Phases]
  /\ cur \in [Scratchpads -> Clients \cup {None}]
  /\ opConn \in [Scratchpads -> Connections \cup {None}]
  /\ blockedPads \in [Scratchpads -> Nat]
  /\ changing \in [Changers -> Scratchpads \cup {None}]
  /\ blockedConns \in [Connections -> Nat]
  /\ lease \in [Leases -> Lease]

\* The part of the invariant that is about chains and the calls that wait for them.
Chains ==
  /\ ChainTypes
  /\ RefusalsBalance
  /\ QueueOK
  /\ CallsDistinct
  /\ PhaseOK
  /\ LeasesNamed

\* A queue that lost its head at s: where each remaining operation was before.
LEMMA SettleIndex ==
  ASSUME Chains, NEW s \in Scratchpads, queue[s] # <<>>,
         queue' = [queue EXCEPT ![s] = Tail(@)]
  PROVE  /\ queue' \in [Scratchpads -> Seq(Operation)]
         /\ queue[s][1] = Head(queue[s]) /\ 1 \in DOMAIN queue[s] /\ Head(queue[s]) \in Operation
         /\ \A r \in Scratchpads : DOMAIN queue[r] \subseteq Nat
         /\ \A r \in Scratchpads : r # s => queue'[r] = queue[r]
         /\ \A i \in DOMAIN queue'[s] :
              i + 1 \in DOMAIN queue[s] /\ queue'[s][i] = queue[s][i + 1] /\ i + 1 # 1
  <1>1. \A r \in Scratchpads : queue[r] \in Seq(Operation)
    BY DEF Chains, ChainTypes
  <1>2. queue'[s] = Tail(queue[s]) /\ \A r \in Scratchpads : r # s => queue'[r] = queue[r]
    BY DEF Chains, ChainTypes
  <1>3. \A r \in Scratchpads : DOMAIN queue[r] \subseteq Nat
    <2> TAKE r \in Scratchpads
    <2>1. DOMAIN queue[r] = 1..Len(queue[r]) /\ Len(queue[r]) \in Nat
      BY <1>1, LenProperties
    <2> QED BY <2>1
  <1>4. /\ Tail(queue[s]) \in Seq(Operation)
        /\ Len(queue[s]) \in Nat \ {0}
        /\ Head(queue[s]) = queue[s][1] /\ 1 \in DOMAIN queue[s]
        /\ DOMAIN Tail(queue[s]) = 1..(Len(queue[s]) - 1)
        /\ \A i \in DOMAIN Tail(queue[s]) :
             i + 1 \in DOMAIN queue[s] /\ Tail(queue[s])[i] = queue[s][i + 1]
    BY <1>1, TailIndex
  <1>5. Head(queue[s]) \in Operation
    BY <1>1, HeadTailProperties
  <1>6. queue' \in [Scratchpads -> Seq(Operation)]
    BY <1>4 DEF Chains, ChainTypes
  <1>7. \A i \in DOMAIN Tail(queue[s]) : i + 1 # 1
    BY <1>4
  <1> QED BY <1>2, <1>3, <1>4, <1>5, <1>6, <1>7

\* A head that settles keeps the chains in order.
LEMMA SettleKeepsChains ==
  ASSUME Chains, ConstantsAssumption, NEW s \in Scratchpads, queue[s] # <<>>, Settle(s),
         blockedConns' = blockedConns
  PROVE  Chains'
  <1> DEFINE op == Head(queue[s])
  <1>1. /\ queue' = [queue EXCEPT ![s] = Tail(@)]
        /\ phase' = [phase EXCEPT ![s] = "waiting"]
        /\ cur' = [cur EXCEPT ![s] = None]
        /\ opConn' = [opConn EXCEPT ![s] = IF Len(queue[s]) = 1 THEN None ELSE @]
        /\ blockedPads' = [blockedPads EXCEPT ![s] = IF op.kind = "change" THEN @ - 1 ELSE @]
        /\ changing' = [h \in Changers |->
                          IF op.kind = "change" /\ op.by = h THEN None ELSE changing[h]]
    BY DEF Settle
  <1>2. lease' = [l \in Leases |->
       [phase |-> IF op.kind = "settle" /\ op.by = l THEN "rolling" ELSE lease[l].phase,
        conn |-> lease[l].conn,
        ahead |-> [lease[l].ahead EXCEPT ![s] = IF @ = 0 THEN 0 ELSE @ - 1],
        todo |-> IF op.kind = "settle" /\ op.by = l THEN lease[l].todo \ {<<s, op.client>>}
                                                    ELSE lease[l].todo]]
    BY DEF Settle
  <1>3. /\ queue' \in [Scratchpads -> Seq(Operation)]
        /\ queue[s][1] = op /\ 1 \in DOMAIN queue[s] /\ op \in Operation
        /\ \A r \in Scratchpads : DOMAIN queue[r] \subseteq Nat
        /\ \A r \in Scratchpads : r # s => queue'[r] = queue[r]
        /\ \A i \in DOMAIN queue'[s] :
             i + 1 \in DOMAIN queue[s] /\ queue'[s][i] = queue[s][i + 1] /\ i + 1 # 1
    BY <1>1, SettleIndex
  <1> HIDE DEF op
  <1>4. op.kind = "change" => op.by \in Changers /\ changing[op.by] = s
    BY <1>3 DEF Chains, QueueOK
  <1>5. op.kind = "settle" => op.by \in Leases /\ lease[op.by].phase = "settling"
    BY <1>3 DEF Chains, QueueOK
  <1>6. /\ \A r \in Scratchpads : ChangesOn(r)' = ChangesOn(r) \ (IF r = s /\ op.kind = "change" THEN {op.by} ELSE {})
        /\ op.kind = "change" => op.by \in ChangesOn(s)
    BY <1>1, <1>4 DEF ConstantsAssumption, ChangesOn
  <1>7. \A r \in Scratchpads : blockedPads'[r] = Cardinality(ChangesOn(r)')
                               /\ (r = s /\ op.kind = "change" => blockedPads[r] # 0)
    <2> TAKE r \in Scratchpads
    <2>1. IsFiniteSet(ChangesOn(r))
      BY FS_Subset DEF ChangesOn, ConstantsAssumption
    <2>2. Cardinality(ChangesOn(r)) \in Nat /\ blockedPads[r] = Cardinality(ChangesOn(r))
      BY <2>1, FS_CardinalityType DEF Chains, RefusalsBalance
    <2>3. CASE r = s /\ op.kind = "change"
      <3>1. Cardinality(ChangesOn(r) \ {op.by}) = Cardinality(ChangesOn(r)) - 1
        BY <1>6, <2>1, <2>3, FS_RemoveElement
      <3>2. Cardinality(ChangesOn(r)) # 0
        BY <1>6, <2>1, <2>3, FS_EmptySet
      <3> QED BY <1>1, <1>6, <2>2, <2>3, <3>1, <3>2 DEF Chains, ChainTypes
    <2>4. CASE ~(r = s /\ op.kind = "change")
      <3>1. ChangesOn(r)' = ChangesOn(r)
        BY <1>6, <2>4
      <3>2. blockedPads'[r] = blockedPads[r]
        BY <1>1, <2>4 DEF Chains, ChainTypes
      <3> QED BY <2>2, <2>4, <3>1, <3>2
    <2> QED BY <2>3, <2>4
  <1>8. \A c \in Connections : LeasesOn(c)' = LeasesOn(c)
    BY <1>2, <1>5 DEF LeasesOn
  <1>9. RefusalsBalance'
    BY <1>7, <1>8 DEF Chains, RefusalsBalance
  <1>10. ChainTypes'
    <2>1. blockedPads' \in [Scratchpads -> Nat]
      BY <1>1, <1>7 DEF Chains, ChainTypes
    <2>2. lease' \in [Leases -> Lease]
      <3>1. ASSUME NEW l \in Leases PROVE lease'[l] \in Lease
        <4>1. /\ lease[l].phase \in {"idle", "draining", "rolling", "settling", "held"}
              /\ lease[l].conn \in Connections \cup {None}
              /\ lease[l].ahead \in [Scratchpads -> Nat]
              /\ lease[l].todo \in SUBSET (Scratchpads \X Clients)
          BY DEF Chains, ChainTypes, Lease
        <4>2. [lease[l].ahead EXCEPT ![s] = IF @ = 0 THEN 0 ELSE @ - 1] \in [Scratchpads -> Nat]
          BY <4>1
        <4> QED BY <1>2, <4>1, <4>2 DEF Lease
      <3> QED BY <1>2, <3>1
    <2>3. changing' \in [Changers -> Scratchpads \cup {None}]
      BY <1>1 DEF Chains, ChainTypes
    <2>4. phase' \in [Scratchpads -> Phases] /\ cur' \in [Scratchpads -> Clients \cup {None}]
          /\ opConn' \in [Scratchpads -> Connections \cup {None}]
      BY <1>1 DEF Chains, ChainTypes, Phases
    <2> QED BY <1>3, <2>1, <2>2, <2>3, <2>4 DEF Chains, ChainTypes
  <1>11. CallsDistinct'
    <2> SUFFICES ASSUME NEW r \in Scratchpads, NEW q \in Scratchpads,
                        NEW i \in DOMAIN queue'[r], NEW j \in DOMAIN queue'[q],
                        queue'[r][i].kind = queue'[q][j].kind,
                        queue'[r][i].kind \in {"change", "settle"},
                        queue'[r][i].by = queue'[q][j].by
                 PROVE  r = q /\ i = j
      BY DEF CallsDistinct
    <2> DEFINE before(p, n) == IF p = s THEN n + 1 ELSE n
    <2>1. before(r, i) \in DOMAIN queue[r] /\ queue'[r][i] = queue[r][before(r, i)]
      BY <1>3
    <2>2. before(q, j) \in DOMAIN queue[q] /\ queue'[q][j] = queue[q][before(q, j)]
      BY <1>3
    <2>3. i \in Nat /\ j \in Nat
      <3>1. \A p \in Scratchpads : DOMAIN queue'[p] = 1..Len(queue'[p]) /\ Len(queue'[p]) \in Nat
        BY <1>3, LenProperties
      <3> QED BY <3>1
    <2> HIDE DEF before
    <2>4. r = q /\ before(r, i) = before(q, j)
      BY <2>1, <2>2 DEF Chains, CallsDistinct
    <2> QED BY <2>3, <2>4 DEF before
  <1>13. QueueOK'
    <2> SUFFICES ASSUME NEW r \in Scratchpads, NEW i \in DOMAIN queue'[r]
                 PROVE  /\ queue'[r][i].kind # "execute" => queue'[r][i].conn = None
                        /\ queue'[r][i].kind = "change" =>
                             queue'[r][i].by \in Changers /\ changing'[queue'[r][i].by] = r
                        /\ queue'[r][i].kind = "settle" =>
                             queue'[r][i].by \in Leases /\ lease'[queue'[r][i].by].phase = "settling"
      BY DEF QueueOK
    <2>1. PICK j \in DOMAIN queue[r] : queue'[r][i] = queue[r][j] /\ (r = s => j # 1)
      BY <1>3
    <2>2. /\ queue[r][j].kind # "execute" => queue[r][j].conn = None
          /\ queue[r][j].kind = "change" =>
               queue[r][j].by \in Changers /\ changing[queue[r][j].by] = r
          /\ queue[r][j].kind = "settle" =>
               queue[r][j].by \in Leases /\ lease[queue[r][j].by].phase = "settling"
      BY DEF Chains, QueueOK
    <2>4. queue[r][j].kind \in {"change", "settle"} /\ op.kind = queue[r][j].kind =>
            op.by # queue[r][j].by
      <3> SUFFICES ASSUME queue[r][j].kind \in {"change", "settle"},
                          op.kind = queue[r][j].kind, op.by = queue[r][j].by
                   PROVE  FALSE
        OBVIOUS
      <3>1. /\ queue[s][1].kind = queue[r][j].kind
            /\ queue[s][1].kind \in {"change", "settle"}
            /\ queue[s][1].by = queue[r][j].by
        BY <1>3
      <3>2. 1 \in DOMAIN queue[s]
        BY <1>3
      <3>3. s = r /\ 1 = j
        BY <3>1, <3>2 DEF Chains, CallsDistinct
      <3> QED BY <2>1, <3>3
    <2>5. queue[r][j].kind = "change" => changing'[queue[r][j].by] = r
      BY <1>1, <2>2, <2>4
    <2>6. queue[r][j].kind = "settle" => lease'[queue[r][j].by].phase = "settling"
      BY <1>2, <2>2, <2>4
    <2> QED BY <2>1, <2>2, <2>5, <2>6
  <1>14. PhaseOK'
    <2>1. \A r \in Scratchpads : r # s => phase'[r] = phase[r] /\ cur'[r] = cur[r]
      BY <1>1 DEF Chains, ChainTypes
    <2>2. phase'[s] = "waiting"
      BY <1>1 DEF Chains, ChainTypes
    <2>3. queue'[s] # <<>> => Head(queue'[s]) \in Operation
      BY <1>3, HeadTailProperties
    <2>4. \A kind \in OpKinds : "waiting" \in PhasesOf(kind)
      BY DEF OpKinds, PhasesOf
    <2>5. queue'[s] # <<>> => Head(queue'[s]).kind \in OpKinds
      BY <2>3 DEF Operation
    <2> QED BY <1>3, <2>1, <2>2, <2>4, <2>5 DEF Chains, PhaseOK
  <1>15. LeasesNamed'
    BY <1>2, <1>5 DEF Chains, LeasesNamed
  <1> QED BY <1>9, <1>10, <1>11, <1>13, <1>14, <1>15 DEF Chains

\* The head of a chain goes on to another await.
LEMMA GoOnKeepsChains ==
  ASSUME Chains, NEW s \in Scratchpads, queue[s] # <<>>,
         NEW p \in Phases, NEW k \in Clients \cup {None}, GoOn(s, p, k),
         p \in PhasesOf(Head(queue[s]).kind),
         Head(queue[s]).kind = "settle" /\ p # "waiting" => k = Head(queue[s]).client,
         UNCHANGED <<blockedConns>>
  PROVE  Chains'
  <1>1. /\ phase' = [phase EXCEPT ![s] = p] /\ cur' = [cur EXCEPT ![s] = k]
        /\ UNCHANGED <<queue, opConn, blockedPads, changing, blockedConns, lease>>
    BY DEF GoOn
  <1>2. ChainTypes'
    BY <1>1 DEF Chains, ChainTypes
  <1>3. RefusalsBalance'
    BY <1>1 DEF Chains, RefusalsBalance, ChangesOn, LeasesOn
  <1>4. QueueOK' /\ CallsDistinct'
    BY <1>1 DEF Chains, QueueOK, CallsDistinct
  <1>5. PhaseOK' /\ LeasesNamed'
    BY <1>1 DEF Chains, ChainTypes, PhaseOK, LeasesNamed
  <1> QED BY <1>2, <1>3, <1>4, <1>5 DEF Chains

\* A call appends an operation: the refusals checked before hold what the chain relies on.
LEMMA AppendKeepsChains ==
  ASSUME Chains, ConstantsAssumption, NEW s \in Scratchpads, NEW op \in Operation,
         RunExclusive(s, op), UNCHANGED <<phase, cur, blockedConns>>,
         op.kind # "execute" => op.conn = None,
         op.kind = "change" => /\ op.by \in Changers /\ changing[op.by] = None
                               /\ changing' = [changing EXCEPT ![op.by] = s]
                               /\ blockedPads' = [blockedPads EXCEPT ![s] = @ + 1],
         op.kind # "change" => UNCHANGED <<changing, blockedPads>>,
         op.kind = "settle" => /\ op.by \in Leases /\ lease[op.by].phase = "rolling"
                               /\ lease' = [lease EXCEPT ![op.by].phase = "settling"],
         op.kind # "settle" => UNCHANGED lease
  PROVE  Chains'
  <1>1. /\ queue' = [queue EXCEPT ![s] = Append(@, op)]
        /\ opConn' = [opConn EXCEPT ![s] = IF op.conn # None THEN op.conn ELSE @]
    BY DEF RunExclusive
  <1>2. \A r \in Scratchpads : /\ queue[r] \in Seq(Operation)
                               /\ DOMAIN queue[r] = 1..Len(queue[r]) /\ Len(queue[r]) \in Nat
    BY LenProperties DEF Chains, ChainTypes
  <1>3. /\ queue'[s] \in Seq(Operation)
        /\ DOMAIN queue'[s] = 1..(Len(queue[s]) + 1)
        /\ \A i \in DOMAIN queue[s] : queue'[s][i] = queue[s][i]
        /\ queue'[s][Len(queue[s]) + 1] = op
        /\ queue'[s] # <<>>
        /\ Head(queue'[s]) = IF queue[s] = <<>> THEN op ELSE Head(queue[s])
    <2>1. queue'[s] = Append(queue[s], op)
      BY <1>1 DEF Chains, ChainTypes
    <2>2. queue[s] \in Seq(Operation) /\ DOMAIN queue[s] = 1..Len(queue[s])
      BY <1>2
    <2> QED BY <2>1, <2>2, AppendIndex
  <1>4. \A r \in Scratchpads : r # s => queue'[r] = queue[r]
    BY <1>1 DEF Chains, ChainTypes
  <1>5. \A r \in Scratchpads : \A i \in DOMAIN queue'[r] :
          \/ i \in DOMAIN queue[r] /\ queue'[r][i] = queue[r][i]
          \/ r = s /\ i = Len(queue[s]) + 1 /\ i \notin DOMAIN queue[r] /\ queue'[r][i] = op
    <2> TAKE r \in Scratchpads
    <2>1. CASE r # s
      BY <1>4, <2>1
    <2>2. CASE r = s
      <3> TAKE i \in DOMAIN queue'[r]
      <3>1. i \in 1..(Len(queue[s]) + 1) /\ Len(queue[s]) \in Nat /\ DOMAIN queue[s] = 1..Len(queue[s])
        BY <1>2, <1>3, <2>2
      <3>2. \/ i \in 1..Len(queue[s])
            \/ i = Len(queue[s]) + 1 /\ i \notin 1..Len(queue[s])
        BY <3>1, UpToSuccessor
      <3> QED BY <1>3, <2>2, <3>1, <3>2
    <2> QED BY <2>1, <2>2
  <1>6. ChainTypes'
    <2>1. queue' \in [Scratchpads -> Seq(Operation)]
      BY <1>1, <1>3 DEF Chains, ChainTypes
    <2>2. opConn' \in [Scratchpads -> Connections \cup {None}]
      <3>1. op.conn \in Connections \cup {None}
        BY DEF Operation
      <3> QED BY <1>1, <3>1 DEF Chains, ChainTypes
    <2>3. blockedPads' \in [Scratchpads -> Nat] /\ changing' \in [Changers -> Scratchpads \cup {None}]
      <3>1. CASE op.kind = "change"
        <4>1. blockedPads \in [Scratchpads -> Nat] /\ changing \in [Changers -> Scratchpads \cup {None}]
          BY DEF Chains, ChainTypes
        <4>2. blockedPads[s] + 1 \in Nat
          BY <4>1
        <4>3. blockedPads' \in [Scratchpads -> Nat]
          BY <3>1, <4>1, <4>2
        <4>4. changing' \in [Changers -> Scratchpads \cup {None}]
          BY <3>1, <4>1
        <4> QED BY <4>3, <4>4
      <3>2. CASE op.kind # "change"
        BY <3>2 DEF Chains, ChainTypes
      <3> QED BY <3>1, <3>2
    <2>4. lease' \in [Leases -> Lease]
      <3>1. CASE op.kind = "settle"
        <4>1. lease \in [Leases -> Lease] /\ op.by \in Leases
          BY <3>1 DEF Chains, ChainTypes
        <4>2. [lease[op.by] EXCEPT !.phase = "settling"] \in Lease
          <5>1. \A old \in Lease : [old EXCEPT !.phase = "settling"] \in Lease
            BY DEF Lease
          <5> QED BY <4>1, <5>1
        <4>3. lease' = [lease EXCEPT ![op.by].phase = "settling"]
          BY <3>1
        <4> QED BY <4>1, <4>2, <4>3
      <3>2. CASE op.kind # "settle"
        BY <3>2 DEF Chains, ChainTypes
      <3> QED BY <3>1, <3>2
    <2> QED BY <2>1, <2>2, <2>3, <2>4 DEF Chains, ChainTypes
  <1>7. RefusalsBalance'
    <2>1. \A c \in Connections : LeasesOn(c)' = LeasesOn(c)
      <3>1. \A l \in Leases : lease'[l].conn = lease[l].conn
                              /\ (lease'[l].phase # "idle" <=> lease[l].phase # "idle")
        <4>1. CASE op.kind = "settle"
          <5>1. lease'[op.by] = [lease[op.by] EXCEPT !.phase = "settling"]
                /\ \A l \in Leases : l # op.by => lease'[l] = lease[l]
            BY <4>1 DEF Chains, ChainTypes
          <5>2. lease[op.by] \in Lease
            BY <4>1 DEF Chains, ChainTypes
          <5> QED BY <4>1, <5>1, <5>2 DEF Lease
        <4>2. CASE op.kind # "settle"
          BY <4>2
        <4> QED BY <4>1, <4>2
      <3> QED BY <3>1 DEF LeasesOn
    <2>2. ASSUME NEW r \in Scratchpads PROVE blockedPads'[r] = Cardinality(ChangesOn(r)')
      <3>1. IsFiniteSet(ChangesOn(r))
        BY FS_Subset DEF ChangesOn, ConstantsAssumption
      <3>2. Cardinality(ChangesOn(r)) \in Nat /\ blockedPads[r] = Cardinality(ChangesOn(r))
        BY <3>1, FS_CardinalityType DEF Chains, RefusalsBalance
      <3>3. CASE op.kind = "change" /\ r = s
        <4>1. ChangesOn(r)' = ChangesOn(r) \cup {op.by} /\ op.by \notin ChangesOn(r)
          BY <3>3 DEF ConstantsAssumption, Chains, ChainTypes, ChangesOn
        <4>2. Cardinality(ChangesOn(r) \cup {op.by}) = Cardinality(ChangesOn(r)) + 1
          BY <3>1, <4>1, FS_AddElement
        <4>3. blockedPads'[r] = blockedPads[r] + 1
          BY <3>3 DEF Chains, ChainTypes
        <4> QED BY <3>2, <4>1, <4>2, <4>3
      <3>4. CASE ~(op.kind = "change" /\ r = s)
        <4>1. ChangesOn(r)' = ChangesOn(r)
          BY <3>4 DEF ConstantsAssumption, Chains, ChainTypes, ChangesOn
        <4>2. blockedPads'[r] = blockedPads[r]
          BY <3>4 DEF Chains, ChainTypes
        <4> QED BY <3>2, <4>1, <4>2
      <3> QED BY <3>3, <3>4
    <2> QED BY <2>1, <2>2 DEF Chains, RefusalsBalance
  <1>8. QueueOK'
    <2> SUFFICES ASSUME NEW r \in Scratchpads, NEW i \in DOMAIN queue'[r]
                 PROVE  /\ queue'[r][i].kind # "execute" => queue'[r][i].conn = None
                        /\ queue'[r][i].kind = "change" =>
                             queue'[r][i].by \in Changers /\ changing'[queue'[r][i].by] = r
                        /\ queue'[r][i].kind = "settle" =>
                             queue'[r][i].by \in Leases /\ lease'[queue'[r][i].by].phase = "settling"
      BY DEF QueueOK
    <2>1. CASE i \in DOMAIN queue[r] /\ queue'[r][i] = queue[r][i]
      <3>1. /\ queue[r][i].kind # "execute" => queue[r][i].conn = None
            /\ queue[r][i].kind = "change" =>
                 queue[r][i].by \in Changers /\ changing[queue[r][i].by] = r
            /\ queue[r][i].kind = "settle" =>
                 queue[r][i].by \in Leases /\ lease[queue[r][i].by].phase = "settling"
        BY <2>1 DEF Chains, QueueOK
      <3>3. queue[r][i].kind = "change" => changing'[queue[r][i].by] = r
        BY <3>1 DEF Chains, ChainTypes, ConstantsAssumption
      <3>4. queue[r][i].kind = "settle" => lease'[queue[r][i].by].phase = "settling"
        <4>1. lease \in [Leases -> Lease]
          BY DEF Chains, ChainTypes
        <4> QED BY <3>1, <4>1 DEF Lease
      <3> QED BY <2>1, <3>1, <3>3, <3>4
    <2>2. CASE r = s /\ queue'[r][i] = op
      <3>2. op.kind = "change" => changing'[op.by] = s
        BY DEF Chains, ChainTypes
      <3>3. op.kind = "settle" => lease'[op.by].phase = "settling"
        <4>1. lease \in [Leases -> Lease]
          BY DEF Chains, ChainTypes
        <4> QED BY <4>1 DEF Lease
      <3> QED BY <2>2, <3>2, <3>3
    <2> QED BY <1>5, <2>1, <2>2
  <1>9. CallsDistinct'
    <2>1. ASSUME NEW r \in Scratchpads, NEW i \in DOMAIN queue[r],
                 queue[r][i].kind = op.kind, queue[r][i].kind \in {"change", "settle"},
                 queue[r][i].by = op.by
          PROVE  FALSE
      BY <2>1 DEF Chains, QueueOK, ConstantsAssumption
    <2> SUFFICES ASSUME NEW r \in Scratchpads, NEW q \in Scratchpads,
                        NEW i \in DOMAIN queue'[r], NEW j \in DOMAIN queue'[q],
                        queue'[r][i].kind = queue'[q][j].kind,
                        queue'[r][i].kind \in {"change", "settle"},
                        queue'[r][i].by = queue'[q][j].by
                 PROVE  r = q /\ i = j
      BY DEF CallsDistinct
    <2>2. CASE i \in DOMAIN queue[r] /\ queue'[r][i] = queue[r][i]
      <3>1. j \in DOMAIN queue[q] /\ queue'[q][j] = queue[q][j]
        BY <1>5, <2>1, <2>2
      <3> QED BY <2>2, <3>1 DEF Chains, CallsDistinct
    <2>3. CASE r = s /\ i = Len(queue[s]) + 1 /\ queue'[r][i] = op
      <3>1. q = s /\ j = Len(queue[s]) + 1
        BY <1>5, <2>1, <2>3
      <3> QED BY <2>3, <3>1
    <2> QED BY <1>5, <2>2, <2>3
  <1>11. PhaseOK'
    <2>1. \A kind \in OpKinds : "waiting" \in PhasesOf(kind)
      BY DEF OpKinds, PhasesOf
    <2>2. op.kind \in OpKinds
      BY DEF Operation
    <2> QED BY <1>3, <1>4, <2>1, <2>2 DEF Chains, PhaseOK
  <1>12. LeasesNamed'
    <2>1. CASE op.kind = "settle"
      <3>1. lease \in [Leases -> Lease] /\ op.by \in Leases /\ lease[op.by].phase = "rolling"
            /\ lease' = [lease EXCEPT ![op.by].phase = "settling"]
        BY <2>1 DEF Chains, ChainTypes
      <3>2. \A l \in Leases : /\ lease'[l].conn = lease[l].conn
                              /\ lease[l].phase = "idle" => lease'[l].phase = "idle"
                              /\ lease'[l].phase = "idle" => lease[l].phase = "idle"
        BY <3>1 DEF Lease
      <3> QED BY <3>2 DEF Chains, LeasesNamed
    <2>2. CASE op.kind # "settle"
      BY <2>2 DEF Chains, LeasesNamed
    <2> QED BY <2>1, <2>2
  <1> QED BY <1>6, <1>7, <1>8, <1>9, <1>11, <1>12 DEF Chains

-----------------------------------------------------------------------------
(* The moves and the data: Transactions, sessions and leases *)

\* The other variables are well typed.
DataTypes ==
  /\ tx \in [Scratchpads -> Clients \cup {None}]
  /\ opening \in [Scratchpads -> Clients \cup {None}]
  /\ session \in [Clients -> Session]
  /\ accepting \in BOOLEAN
  /\ shutdown \in {"up", "draining", "closing", "done"}
  /\ doomed \in SUBSET Clients

LEMMA CallsParts ==
  CallsInv <=> Chains /\ DataTypes /\ (\A s \in Scratchpads : CurOK(s))
  BY DEF CallsInv, Chains, ChainTypes, DataTypes, TypeOK

LEMMA CallsPartsNext ==
  ASSUME Chains', DataTypes', \A s \in Scratchpads : CurOK(s)'
  PROVE  CallsInv'
  BY DEF CallsInv, Chains, ChainTypes, DataTypes, TypeOK

LEMMA InvParts ==
  ChainInv <=> /\ Chains /\ DataTypes /\ (\A s \in Scratchpads : CurOK(s))
               /\ Remembered /\ LeaseOK
  BY CallsParts DEF ChainInv

\* What a step keeps: what holds whatever the caller does, and what leases rely on if it holds.
Keeps == CallsInv' /\ (Remembered /\ LeaseOK => Remembered' /\ LeaseOK')

\* The step publishes no Transaction, starts no session and moves none to another Connection.
DataKept ==
  /\ \A r \in Scratchpads : tx'[r] \in {tx[r], None} /\ opening'[r] \in {opening[r], None}
  /\ \A k \in Clients : session'[k].conn \in {session[k].conn, None}

\* A Transaction after the step was one on that Connection before, or its chain's head was
\* called with it.
Published ==
  \A r \in Scratchpads : \A c \in Connections :
    tx'[r] # None /\ session'[tx'[r]].conn = c =>
      \/ tx'[r] = tx[r] /\ session[tx[r]].conn = c
      \/ queue[r] # <<>> /\ Head(queue[r]).conn = c

LEMMA KeptIsPublished ==
  ASSUME DataKept, DataTypes, DataTypes', ConstantsAssumption
  PROVE  Published
  BY DEF DataKept, DataTypes, Published, ConstantsAssumption

\* While a lease rolls back or is held, no chain's head was called with its Connection.
LEMMA LeaseOKSame ==
  ASSUME Chains, LeaseOK, Published, UNCHANGED <<queue, lease>>
  PROVE  LeaseOK'
  <1> SUFFICES ASSUME NEW l \in Leases
               PROVE  /\ lease[l].phase = "draining" =>
                           \A s \in Scratchpads : \A i \in DOMAIN queue[s] :
                             queue[s][i].conn = lease[l].conn => i <= lease[l].ahead[s]
                      /\ lease[l].phase \in {"rolling", "settling", "held"} =>
                           /\ \A s \in Scratchpads : \A i \in DOMAIN queue[s] :
                                queue[s][i].conn # lease[l].conn
                           /\ \A s \in Scratchpads :
                                tx'[s] # None /\ session'[tx'[s]].conn = lease[l].conn =>
                                  <<s, tx'[s]>> \in lease[l].todo
                      /\ lease[l].phase = "held" => lease[l].todo = {}
    BY DEF LeaseOK
  <1>1. /\ lease[l].phase = "draining" =>
             \A s \in Scratchpads : \A i \in DOMAIN queue[s] :
               queue[s][i].conn = lease[l].conn => i <= lease[l].ahead[s]
        /\ lease[l].phase = "held" => lease[l].todo = {}
        /\ lease[l].phase \in {"rolling", "settling", "held"} =>
             \A s \in Scratchpads : \A i \in DOMAIN queue[s] : queue[s][i].conn # lease[l].conn
    BY DEF LeaseOK
  <1>2. ASSUME lease[l].phase \in {"rolling", "settling", "held"}, NEW s \in Scratchpads,
               tx'[s] # None, session'[tx'[s]].conn = lease[l].conn
        PROVE  <<s, tx'[s]>> \in lease[l].todo
    <2>1. queue[s] # <<>> => Head(queue[s]).conn # lease[l].conn
      <3>1. queue[s] # <<>> => 1 \in DOMAIN queue[s] /\ Head(queue[s]) = queue[s][1]
        BY TailIndex DEF Chains, ChainTypes
      <3> QED BY <1>1, <1>2, <3>1
    <2>2. lease[l].conn \in Connections
      BY <1>2 DEF Chains, LeasesNamed
    <2>3. tx'[s] = tx[s] /\ session[tx[s]].conn = lease[l].conn
      BY <1>2, <2>1, <2>2 DEF Published
    <2> QED BY <1>2, <2>3 DEF LeaseOK
  <1> QED BY <1>1, <1>2

\* A head settles: what a lease awaits is one operation closer, and a Transaction it rolled
\* back is gone.
LEMMA LeaseOKSettle ==
  ASSUME Chains, LeaseOK, DataTypes, DataTypes', DataKept, ConstantsAssumption,
         NEW s \in Scratchpads, queue[s] # <<>>, Settle(s),
         Head(queue[s]).kind = "settle" /\ tx'[s] # None => tx'[s] # Head(queue[s]).client
  PROVE  LeaseOK'
  <1> DEFINE op == Head(queue[s])
  <1>1. queue' = [queue EXCEPT ![s] = Tail(@)]
    BY DEF Settle
  <1>2. lease' = [l \in Leases |->
       [phase |-> IF op.kind = "settle" /\ op.by = l THEN "rolling" ELSE lease[l].phase,
        conn |-> lease[l].conn,
        ahead |-> [lease[l].ahead EXCEPT ![s] = IF @ = 0 THEN 0 ELSE @ - 1],
        todo |-> IF op.kind = "settle" /\ op.by = l THEN lease[l].todo \ {<<s, op.client>>}
                                                    ELSE lease[l].todo]]
    BY DEF Settle
  <1>3. /\ queue[s][1] = op /\ 1 \in DOMAIN queue[s] /\ op \in Operation
        /\ \A r \in Scratchpads : DOMAIN queue[r] \subseteq Nat
        /\ \A r \in Scratchpads : r # s => queue'[r] = queue[r]
        /\ \A i \in DOMAIN queue'[s] :
             i + 1 \in DOMAIN queue[s] /\ queue'[s][i] = queue[s][i + 1] /\ i + 1 # 1
    BY <1>1, SettleIndex
  <1>4. op.kind = "settle" => op.by \in Leases /\ lease[op.by].phase = "settling"
    BY <1>3 DEF Chains, QueueOK
  <1>5. op.kind = "settle" /\ tx'[s] # None => tx'[s] # op.client
    OBVIOUS
  <1> HIDE DEF op
  <1> SUFFICES ASSUME NEW l \in Leases
               PROVE  /\ lease'[l].phase = "draining" =>
                           \A r \in Scratchpads : \A i \in DOMAIN queue'[r] :
                             queue'[r][i].conn = lease'[l].conn => i <= lease'[l].ahead[r]
                      /\ lease'[l].phase \in {"rolling", "settling", "held"} =>
                           /\ \A r \in Scratchpads : \A i \in DOMAIN queue'[r] :
                                queue'[r][i].conn # lease'[l].conn
                           /\ \A r \in Scratchpads :
                                tx'[r] # None /\ session'[tx'[r]].conn = lease'[l].conn =>
                                  <<r, tx'[r]>> \in lease'[l].todo
                      /\ lease'[l].phase = "held" => lease'[l].todo = {}
    BY DEF LeaseOK
  <1>6. /\ lease'[l].conn = lease[l].conn
        /\ lease'[l].phase =
             IF op.kind = "settle" /\ op.by = l THEN "rolling" ELSE lease[l].phase
        /\ lease'[l].todo = IF op.kind = "settle" /\ op.by = l
                              THEN lease[l].todo \ {<<s, op.client>>} ELSE lease[l].todo
        /\ lease'[l].ahead = [lease[l].ahead EXCEPT ![s] = IF @ = 0 THEN 0 ELSE @ - 1]
    BY <1>2
  <1>7. lease[l].ahead \in [Scratchpads -> Nat] /\ lease[l].conn \in Connections \cup {None}
    BY DEF Chains, ChainTypes, Lease
  <1>8. lease'[l].phase # "idle" => lease'[l].conn \in Connections
    BY <1>4, <1>6 DEF Chains, LeasesNamed
  <1>9. ASSUME lease'[l].phase = "draining", NEW r \in Scratchpads, NEW i \in DOMAIN queue'[r],
               queue'[r][i].conn = lease'[l].conn
        PROVE  i <= lease'[l].ahead[r]
    <2>1. lease[l].phase = "draining"
      BY <1>6, <1>9
    <2>2. CASE r # s
      BY <1>3, <1>6, <1>7, <1>9, <2>1, <2>2 DEF LeaseOK
    <2>3. CASE r = s
      <3>1. i + 1 \in DOMAIN queue[s] /\ queue[s][i + 1].conn = lease[l].conn
        BY <1>3, <1>6, <1>9, <2>3
      <3>2. i + 1 <= lease[l].ahead[s]
        BY <2>1, <3>1 DEF LeaseOK
      <3>3. lease'[l].ahead[s] = IF lease[l].ahead[s] = 0 THEN 0 ELSE lease[l].ahead[s] - 1
        BY <1>6, <1>7
      <3>4. i \in Nat
        <4>1. queue'[s] \in Seq(Operation)
          BY <1>1, SettleIndex
        <4>2. DOMAIN queue'[s] = 1..Len(queue'[s]) /\ Len(queue'[s]) \in Nat
          BY <4>1, LenProperties
        <4> QED BY <2>3, <4>2
      <3> QED BY <1>7, <2>3, <3>2, <3>3, <3>4
    <2> QED BY <2>2, <2>3
  <1>10. ASSUME lease'[l].phase \in {"rolling", "settling", "held"}, NEW r \in Scratchpads
         PROVE  /\ \A i \in DOMAIN queue'[r] : queue'[r][i].conn # lease'[l].conn
                /\ tx'[r] # None /\ session'[tx'[r]].conn = lease'[l].conn =>
                     <<r, tx'[r]>> \in lease'[l].todo
    <2>1. lease[l].phase \in {"rolling", "settling", "held"}
      BY <1>4, <1>6, <1>10
    <2>2. \A i \in DOMAIN queue'[r] : queue'[r][i].conn # lease'[l].conn
      BY <1>3, <1>6, <2>1 DEF LeaseOK
    <2>3. ASSUME tx'[r] # None, session'[tx'[r]].conn = lease'[l].conn
          PROVE  <<r, tx'[r]>> \in lease'[l].todo
      <3>1. lease'[l].conn \in Connections
        BY <1>8, <1>10
      <3>2. tx'[r] = tx[r] /\ session[tx[r]].conn = lease[l].conn
        BY <1>6, <2>3, <3>1 DEF DataKept, DataTypes, ConstantsAssumption
      <3>3. <<r, tx'[r]>> \in lease[l].todo
        BY <2>1, <2>3, <3>2 DEF LeaseOK
      <3>4. op.kind = "settle" => <<r, tx'[r]>> # <<s, op.client>>
        BY <1>5, <2>3
      <3> QED BY <1>6, <3>3, <3>4
    <2> QED BY <2>2, <2>3
  <1>11. lease'[l].phase = "held" => lease'[l].todo = {}
    BY <1>6 DEF LeaseOK
  <1> QED BY <1>9, <1>10, <1>11

\* A call appends an operation: an execution only on a Connection no lease refuses.
LEMMA LeaseOKAppend ==
  ASSUME Chains, LeaseOK, ConstantsAssumption, NEW s \in Scratchpads, NEW op \in Operation,
         RunExclusive(s, op), UNCHANGED <<tx, session>>,
         op.kind = "execute" => op.conn \in Connections /\ blockedConns[op.conn] = 0,
         op.kind # "execute" => op.conn = None,
         \/ UNCHANGED lease
         \/ op.by \in Leases /\ lease[op.by].phase = "rolling"
            /\ lease' = [lease EXCEPT ![op.by].phase = "settling"]
  PROVE  LeaseOK'
  <1>1. queue' = [queue EXCEPT ![s] = Append(@, op)]
    BY DEF RunExclusive
  <1>2. \A r \in Scratchpads : \A i \in DOMAIN queue'[r] :
          \/ i \in DOMAIN queue[r] /\ queue'[r][i] = queue[r][i]
          \/ queue'[r][i] = op
    BY <1>1, AppendedAt DEF Chains, ChainTypes
  <1>3. \A l \in Leases : /\ lease'[l].conn = lease[l].conn
                          /\ lease'[l].todo = lease[l].todo
                          /\ lease'[l].ahead = lease[l].ahead
                          /\ \/ lease'[l].phase = lease[l].phase
                             \/ lease[l].phase = "rolling" /\ lease'[l].phase = "settling"
    <2>1. CASE UNCHANGED lease
      BY <2>1
    <2>2. CASE op.by \in Leases /\ lease[op.by].phase = "rolling"
               /\ lease' = [lease EXCEPT ![op.by].phase = "settling"]
      <3>1. \A l \in Leases : lease[l] \in Lease
        BY DEF Chains, ChainTypes
      <3>2. \A l \in Leases : lease'[l] = IF l = op.by THEN [lease[l] EXCEPT !.phase = "settling"]
                                                       ELSE lease[l]
        BY <2>2 DEF Chains, ChainTypes
      <3> QED BY <2>2, <3>1, <3>2 DEF Lease
    <2> QED BY <2>1, <2>2
  <1>4. ASSUME NEW l \in Leases, lease[l].phase # "idle" PROVE op.conn # lease[l].conn
    <2>1. lease[l].conn \in Connections /\ l \in LeasesOn(lease[l].conn)
      BY <1>4 DEF Chains, LeasesNamed, LeasesOn
    <2>2. IsFiniteSet(LeasesOn(lease[l].conn))
      BY FS_Subset DEF LeasesOn, ConstantsAssumption
    <2>3. Cardinality(LeasesOn(lease[l].conn)) # 0
      BY <2>1, <2>2, FS_EmptySet
    <2>4. blockedConns[lease[l].conn] # 0
      BY <2>1, <2>3 DEF Chains, RefusalsBalance
    <2> QED BY <2>1, <2>4 DEF ConstantsAssumption
  <1>5. UNCHANGED <<tx, session>>
    OBVIOUS
  <1> QED BY <1>2, <1>3, <1>4, <1>5 DEF LeaseOK

\* A head settles: its chain remembers its Connection while an operation remains on it.
LEMMA RememberedSettle ==
  ASSUME Chains, Remembered, NEW s \in Scratchpads, queue[s] # <<>>, Settle(s)
  PROVE  Remembered'
  <1> SUFFICES ASSUME NEW r \in Scratchpads, NEW i \in DOMAIN queue'[r],
                      queue'[r][i].kind = "execute"
               PROVE  queue'[r][i].conn = opConn'[r]
    BY DEF Remembered
  <1>1. /\ queue' = [queue EXCEPT ![s] = Tail(@)]
        /\ opConn' = [opConn EXCEPT ![s] = IF Len(queue[s]) = 1 THEN None ELSE @]
    BY DEF Settle
  <1>2. PICK j \in DOMAIN queue[r] : queue'[r][i] = queue[r][j] /\ (r = s => j # 1)
    <2>1. CASE r # s
      <3>1. queue'[r] = queue[r]
        BY <1>1, <2>1, SettleIndex
      <3> QED BY <2>1, <3>1
    <2>2. CASE r = s
      <3>1. i + 1 \in DOMAIN queue[s] /\ queue'[s][i] = queue[s][i + 1] /\ i + 1 # 1
        BY <1>1, <2>2, SettleIndex
      <3> QED BY <2>2, <3>1
    <2> QED BY <2>1, <2>2
  <1>3. r = s => Len(queue[s]) # 1
    <2>1. DOMAIN queue[s] = 1..Len(queue[s])
      BY LenProperties DEF Chains, ChainTypes
    <2> QED BY <1>2, <2>1
  <1>4. opConn'[r] = opConn[r]
    BY <1>1, <1>3 DEF Chains, ChainTypes
  <1> QED BY <1>2, <1>4 DEF Remembered

\* A call appends an operation: an execution only on the Connection of those already there.
LEMMA RememberedAppend ==
  ASSUME Chains, Remembered, ConstantsAssumption, NEW s \in Scratchpads, NEW op \in Operation,
         RunExclusive(s, op),
         op.kind = "execute" => op.conn \in Connections /\ Agreed(s, op.conn),
         op.kind # "execute" => op.conn = None
  PROVE  Remembered'
  <1>1. /\ queue' = [queue EXCEPT ![s] = Append(@, op)]
        /\ opConn' = [opConn EXCEPT ![s] = IF op.conn # None THEN op.conn ELSE @]
    BY DEF RunExclusive
  <1>2. ASSUME NEW r \in Scratchpads, NEW i \in DOMAIN queue'[r]
        PROVE  \/ i \in DOMAIN queue[r] /\ queue'[r][i] = queue[r][i]
               \/ r = s /\ queue'[r][i] = op
    BY <1>1, <1>2, AppendedAt DEF Chains, ChainTypes
  <1>3. \A r \in Scratchpads : opConn'[r] = IF r = s /\ op.conn # None THEN op.conn ELSE opConn[r]
    BY <1>1 DEF Chains, ChainTypes
  <1> SUFFICES ASSUME NEW r \in Scratchpads, NEW i \in DOMAIN queue'[r],
                      queue'[r][i].kind = "execute"
               PROVE  queue'[r][i].conn = opConn'[r]
    BY DEF Remembered
  <1>4. CASE i \in DOMAIN queue[r] /\ queue'[r][i] = queue[r][i]
    <2>1. queue[r][i].conn = opConn[r]
      BY <1>4 DEF Remembered
    <2>2. r = s /\ op.kind = "execute" => queue[r][i].conn = op.conn
      BY <1>4 DEF Agreed
    <2> QED BY <1>3, <1>4, <2>1, <2>2
  <1>5. CASE r = s /\ queue'[r][i] = op
    BY <1>3, <1>5 DEF ConstantsAssumption
  <1> QED BY <1>2, <1>4, <1>5

-----------------------------------------------------------------------------
(* The moves keep the invariants *)

\* A head that is not opening a session settles.
LEMMA SettleStep ==
  ASSUME CallsInv, ConstantsAssumption, NEW s \in Scratchpads, queue[s] # <<>>, Settle(s),
         phase[s] # "beginning",
         blockedConns' = blockedConns, DataTypes', DataKept,
         Head(queue[s]).kind = "settle" /\ tx'[s] # None => tx'[s] # Head(queue[s]).client
  PROVE  Keeps
  <1>1. Chains /\ DataTypes /\ (\A r \in Scratchpads : CurOK(r))
    BY CallsParts
  <1>2. Chains'
    BY <1>1, SettleKeepsChains
  <1>3. Remembered /\ LeaseOK => Remembered' /\ LeaseOK'
    BY <1>1, LeaseOKSettle, RememberedSettle
  <1>4. ASSUME NEW r \in Scratchpads PROVE CurOK(r)'
    <2>1. CASE r = s
      <3>1. phase'[s] = "waiting"
        BY <1>1 DEF Settle, Chains, ChainTypes
      <3>2. opening'[s] = None
        BY <1>1 DEF DataKept, CurOK
      <3> QED BY <2>1, <3>1, <3>2 DEF CurOK
    <2>2. CASE r # s
      <3>1. phase'[r] = phase[r] /\ cur'[r] = cur[r] /\ queue'[r] = queue[r]
        BY <1>1, <2>2 DEF Settle, Chains, ChainTypes
      <3> QED BY <1>1, <3>1 DEF DataKept, CurOK
    <2> QED BY <2>1, <2>2
  <1> QED BY <1>2, <1>3, <1>4, CallsPartsNext DEF Keeps

\* A head goes on to another await.
LEMMA GoOnStep ==
  ASSUME CallsInv, ConstantsAssumption, NEW s \in Scratchpads, queue[s] # <<>>,
         NEW p \in Phases, NEW k \in Clients \cup {None}, GoOn(s, p, k),
         p \in PhasesOf(Head(queue[s]).kind),
         Head(queue[s]).kind = "settle" /\ p # "waiting" => k = Head(queue[s]).client,
         UNCHANGED <<blockedConns>>, DataTypes', Published, CurOK(s)',
         \A r \in Scratchpads : r # s => tx'[r] = tx[r] /\ opening'[r] = opening[r],
         \A r \in Scratchpads : r # s /\ phase[r] = "beginning" =>
           session'[cur[r]].conn \in {session[cur[r]].conn, None}
  PROVE  Keeps
  <1>1. Chains /\ DataTypes /\ (\A r \in Scratchpads : CurOK(r))
    BY CallsParts
  <1>2. Chains'
    BY <1>1, GoOnKeepsChains
  <1>3. Remembered /\ LeaseOK => Remembered' /\ LeaseOK'
    BY <1>1, LeaseOKSame DEF GoOn, Remembered
  <1>4. ASSUME NEW r \in Scratchpads PROVE CurOK(r)'
    <2>1. CASE r = s
      BY <2>1
    <2>2. CASE r # s
      <3>1. phase'[r] = phase[r] /\ cur'[r] = cur[r] /\ queue'[r] = queue[r]
        BY <1>1, <2>2 DEF GoOn, Chains, ChainTypes
      <3> QED BY <1>1, <2>2, <3>1 DEF CurOK
    <2> QED BY <2>1, <2>2
  <1> QED BY <1>2, <1>3, <1>4, CallsPartsNext DEF Keeps

\* Nothing moves on any chain.
LEMMA QuietStep ==
  ASSUME CallsInv, ConstantsAssumption, UNCHANGED <<chainVars, blockedConns>>,
         DataTypes', DataKept
  PROVE  Keeps
  <1>1. Chains /\ DataTypes /\ (\A r \in Scratchpads : CurOK(r))
    BY CallsParts
  <1>2. UNCHANGED <<queue, phase, cur, opConn, blockedPads, changing, lease, blockedConns>>
    BY DEF chainVars
  <1>3. Chains'
    BY <1>1, <1>2 DEF Chains, ChainTypes, RefusalsBalance, ChangesOn, LeasesOn, QueueOK,
                      CallsDistinct, PhaseOK, LeasesNamed
  <1>4. Remembered /\ LeaseOK => Remembered' /\ LeaseOK'
    BY <1>1, <1>2, LeaseOKSame, KeptIsPublished DEF Remembered
  <1>5. ASSUME NEW r \in Scratchpads PROVE CurOK(r)'
    BY <1>1, <1>2 DEF DataKept, CurOK
  <1> QED BY <1>3, <1>4, <1>5, CallsPartsNext DEF Keeps

\* A call appends an operation to a chain.
LEMMA AppendStep ==
  ASSUME CallsInv, ConstantsAssumption, NEW s \in Scratchpads, NEW op \in Operation,
         RunExclusive(s, op),
         UNCHANGED <<phase, cur, tx, opening, session, blockedConns, stopVars>>,
         op.kind = "execute" =>
           op.conn \in Connections /\ blockedConns[op.conn] = 0,
         op.kind # "execute" => op.conn = None,
         op.kind = "change" => /\ op.by \in Changers /\ changing[op.by] = None
                               /\ changing' = [changing EXCEPT ![op.by] = s]
                               /\ blockedPads' = [blockedPads EXCEPT ![s] = @ + 1],
         op.kind # "change" => UNCHANGED <<changing, blockedPads>>,
         op.kind = "settle" => /\ op.by \in Leases /\ lease[op.by].phase = "rolling"
                               /\ lease' = [lease EXCEPT ![op.by].phase = "settling"],
         op.kind # "settle" => UNCHANGED lease
  PROVE  CallsInv' /\ ((op.kind = "execute" => Agreed(s, op.conn)) => Keeps)
  <1>1. Chains /\ DataTypes /\ (\A r \in Scratchpads : CurOK(r))
    BY CallsParts
  <1>2. Chains'
    BY <1>1, AppendKeepsChains
  <1>3. Remembered /\ LeaseOK => LeaseOK'
    BY <1>1, LeaseOKAppend
  <1>4. Remembered /\ (op.kind = "execute" => Agreed(s, op.conn)) => Remembered'
    BY <1>1, RememberedAppend
  <1>5. DataTypes'
    BY <1>1 DEF DataTypes, stopVars
  <1>6. ASSUME NEW r \in Scratchpads PROVE CurOK(r)'
    <2>1. phase[r] = "beginning" => queue[r] # <<>>
      BY <1>1 DEF Chains, PhaseOK
    <2>2. phase[r] = "beginning" => Head(queue'[r]) = Head(queue[r])
      <3>1. queue'[r] = IF r = s THEN Append(queue[s], op) ELSE queue[r]
        BY <1>1 DEF RunExclusive, Chains, ChainTypes
      <3>2. queue[s] # <<>> => Head(Append(queue[s], op)) = Head(queue[s])
        BY <1>1, AppendIndex DEF Chains, ChainTypes
      <3> QED BY <2>1, <3>1, <3>2
    <2> QED BY <1>1, <2>2 DEF CurOK
  <1>7. CallsInv'
    BY <1>2, <1>5, <1>6, CallsPartsNext
  <1> QED BY <1>3, <1>4, <1>7 DEF Keeps

-----------------------------------------------------------------------------
(* Every action keeps the invariant *)

\* execute, whatever Connection it is called with; on that of its chain everything is kept.
LEMMA ExecuteKeepsInv ==
  ASSUME CallsInv, ConstantsAssumption, NEW s \in Scratchpads, NEW c \in Connections,
         NEW b \in Cells, Execute(s, c, b)
  PROVE  CallsInv' /\ (Agreed(s, c) => Keeps)
  <1> DEFINE op == Op("execute", c, None, b)
  <1>1. op \in Operation /\ op.kind = "execute" /\ op.conn = c
    BY OpFields DEF OpKinds
  <1>2. /\ RunExclusive(s, op) /\ blockedConns[c] = 0
        /\ UNCHANGED <<phase, cur, tx, opening, session, blockedPads, changing,
                       blockedConns, lease, stopVars>>
    BY DEF Execute
  <1> HIDE DEF op
  <1> QED BY <1>1, <1>2, AppendStep

LEMMA MarkFailedKeepsInv ==
  ASSUME CallsInv, ConstantsAssumption, NEW s \in Scratchpads, NEW c, MarkFailed(s, c)
  PROVE  Keeps
  <1>1. DataTypes
    BY CallsParts
  <1>2. /\ session' = [session EXCEPT ![tx[s]].status = "failed"]
        /\ UNCHANGED <<chainVars, tx, opening, blockedConns, stopVars>>
    BY DEF MarkFailed
  <1>3. \A k \in Clients : session'[k] \in Session /\ session'[k].conn = session[k].conn
    BY <1>1, <1>2 DEF DataTypes, Session
  <1>4. session' \in [Clients -> Session]
    BY <1>1, <1>2, <1>3 DEF DataTypes
  <1>5. DataTypes' /\ DataKept
    BY <1>1, <1>2, <1>3, <1>4 DEF DataTypes, DataKept, stopVars
  <1> QED BY <1>2, <1>5, QuietStep

LEMMA CallKeepsInv ==
  ASSUME CallsInv, ConstantsAssumption, NEW s \in Scratchpads, Call(s)
  PROVE  Keeps
  <1>2. ASSUME NEW c \in Connections, Agreed(s, c), NEW b \in Cells, Execute(s, c, b) PROVE Keeps
    BY <1>2, ExecuteKeepsInv
  <1>3. ASSUME NEW kind \in {"commit", "rollback"}, Resolve(s, kind) PROVE Keeps
    <2> DEFINE op == Op(kind, None, None, None)
    <2>1. op \in Operation /\ op.kind = kind /\ op.conn = None
      BY OpFields DEF OpKinds
    <2>2. /\ RunExclusive(s, op)
          /\ UNCHANGED <<phase, cur, tx, opening, session, blockedPads, changing,
                         blockedConns, lease, stopVars>>
      BY <1>3 DEF Resolve
    <2> HIDE DEF op
    <2> QED BY <2>1, <2>2, AppendStep
  <1>4. ASSUME CloseScratchpad(s) PROVE Keeps
    <2> DEFINE op == Op("close", None, None, None)
    <2>1. op \in Operation /\ op.kind = "close" /\ op.conn = None
      BY OpFields DEF OpKinds
    <2>2. /\ RunExclusive(s, op)
          /\ UNCHANGED <<phase, cur, tx, opening, session, blockedPads, changing,
                         blockedConns, lease, stopVars>>
      BY <1>4 DEF CloseScratchpad
    <2> HIDE DEF op
    <2> QED BY <2>1, <2>2, AppendStep
  <1>5. ASSUME NEW h \in Changers, ChangeScratchpad(s, h) PROVE Keeps
    <2> DEFINE op == Op("change", None, None, h)
    <2>1. op \in Operation /\ op.kind = "change" /\ op.conn = None /\ op.by = h
      BY OpFields DEF OpKinds
    <2>2. /\ RunExclusive(s, op) /\ changing[h] = None
          /\ changing' = [changing EXCEPT ![h] = s]
          /\ blockedPads' = [blockedPads EXCEPT ![s] = @ + 1]
          /\ UNCHANGED <<phase, cur, tx, opening, session, blockedConns, lease, stopVars>>
      BY <1>5 DEF ChangeScratchpad
    <2> HIDE DEF op
    <2> QED BY <2>1, <2>2, AppendStep
  <1>6. ASSUME NEW c \in Connections, MarkFailed(s, c) PROVE Keeps
    BY <1>6, MarkFailedKeepsInv
  <1> QED BY <1>2, <1>3, <1>4, <1>5, <1>6 DEF Call

\* What the phase a chain awaits in says of its head.
LEMMA PhaseKinds ==
  ASSUME Chains, NEW s \in Scratchpads
  PROVE  /\ phase[s] # "waiting" => queue[s] # <<>>
         /\ queue[s] # <<>> => /\ Head(queue[s]) \in Operation
                               /\ Head(queue[s]).kind \in OpKinds
                               /\ phase[s] \in PhasesOf(Head(queue[s]).kind)
         /\ phase[s] = "committing" => Head(queue[s]).kind \in {"commit", "change"}
         /\ phase[s] = "rollingBack" =>
              Head(queue[s]).kind \in {"rollback", "close", "settle", "change"}
         /\ phase[s] = "mutating" => Head(queue[s]).kind = "change"
  <1>1. phase[s] # "waiting" => queue[s] # <<>>
    BY DEF Chains, PhaseOK
  <1>2. queue[s] # <<>> => Head(queue[s]) \in Operation
    BY HeadTailProperties DEF Chains, ChainTypes
  <1>3. queue[s] # <<>> => Head(queue[s]).kind \in OpKinds
    BY <1>2 DEF Operation
  <1>4. queue[s] # <<>> => phase[s] \in PhasesOf(Head(queue[s]).kind)
    BY DEF Chains, PhaseOK
  <1> QED BY <1>1, <1>2, <1>3, <1>4 DEF PhasesOf, OpKinds

\* A step that leaves Transactions and sessions alone.
LEMMA DataUnchanged ==
  ASSUME DataTypes, UNCHANGED <<tx, opening, session, stopVars>>
  PROVE  DataTypes' /\ DataKept
  BY DEF DataTypes, DataKept, stopVars

\* A settling head that leaves Transactions and sessions alone.
LEMMA PlainSettle ==
  ASSUME CallsInv, ConstantsAssumption, NEW s \in Scratchpads, queue[s] # <<>>, Settle(s),
         phase[s] # "beginning",
         UNCHANGED <<tx, opening, session, blockedConns, stopVars>>,
         Head(queue[s]).kind = "settle" => phase[s] \in {"ending", "endingFailed"}
  PROVE  Keeps
  <1>1. Chains /\ DataTypes /\ CurOK(s)
    BY CallsParts
  <1>2. DataTypes' /\ DataKept
    BY <1>1, DataUnchanged
  <1>3. Head(queue[s]).kind = "settle" /\ tx'[s] # None => tx'[s] # Head(queue[s]).client
    <2> SUFFICES ASSUME Head(queue[s]).kind = "settle", tx[s] # None
                 PROVE  tx[s] # Head(queue[s]).client
      OBVIOUS
    <2>1. cur[s] = Head(queue[s]).client
      BY <1>1 DEF Chains, PhaseOK
    <2>2. tx[s] # None => tx[s] # cur[s]
      BY <1>1 DEF CurOK
    <2> QED BY <2>1, <2>2
  <1> QED BY <1>2, <1>3, SettleStep

\* A head that goes on, leaving Transactions and sessions alone.
LEMMA PlainGoOn ==
  ASSUME CallsInv, ConstantsAssumption, NEW s \in Scratchpads, queue[s] # <<>>,
         NEW p \in Phases, NEW k \in Clients \cup {None}, GoOn(s, p, k),
         p \in PhasesOf(Head(queue[s]).kind), p \notin {"beginning", "ending", "endingFailed"},
         phase[s] # "beginning",
         Head(queue[s]).kind = "settle" /\ p # "waiting" => k = Head(queue[s]).client,
         UNCHANGED <<tx, opening, session, blockedConns, stopVars>>
  PROVE  Keeps
  <1>1. Chains /\ DataTypes /\ CurOK(s)
    BY CallsParts
  <1>2. DataTypes' /\ DataKept
    BY <1>1, DataUnchanged
  <1>3. phase'[s] = p
    BY <1>1 DEF GoOn, Chains, ChainTypes
  <1>4. CurOK(s)'
    BY <1>1, <1>3 DEF CurOK
  <1>5. Published
    BY <1>1, <1>2, KeptIsPublished
  <1> QED BY <1>2, <1>4, <1>5, GoOnStep

\* The steps at its turn of a head that change neither Transactions nor sessions.
LEMMA PlainTurnKeepsInv ==
  ASSUME CallsInv, ConstantsAssumption, NEW s \in Scratchpads,
         \/ StartExecute(s) \/ ConnectFails(s) \/ ActionSucceeds(s) \/ ActionThrows(s)
         \/ StartResolve(s) \/ NothingToResolve(s) \/ Answer(s) \/ Ended(s)
  PROVE  Keeps
  <1>1. Chains /\ DataTypes /\ CurOK(s)
    BY CallsParts
  <1>2. /\ tx[s] \in Clients \cup {None} /\ cur[s] \in Clients \cup {None}
        /\ queue[s] # <<>> => Head(queue[s]).client \in Clients \cup {None}
    BY <1>1, PhaseKinds DEF DataTypes, Chains, ChainTypes, Operation
  <1>3. CASE StartExecute(s)
    <2>1. /\ queue[s] # <<>> /\ Head(queue[s]).kind = "execute" /\ phase[s] = "waiting"
          /\ UNCHANGED <<tx, opening, session, blockedConns, stopVars>>
      BY <1>3 DEF StartExecute, AtTurn
    <2>2. "connecting" \in PhasesOf("execute") /\ "running" \in PhasesOf("execute")
          /\ {"connecting", "running"} \subseteq Phases
      BY DEF PhasesOf, Phases
    <2>3. CASE GoOn(s, "connecting", None)
      BY <2>1, <2>2, <2>3, PlainGoOn
    <2>4. CASE GoOn(s, "running", tx[s])
      BY <1>2, <2>1, <2>2, <2>4, PlainGoOn
    <2>5. CASE Settle(s)
      BY <2>1, <2>5, PlainSettle
    <2> QED BY <1>3, <2>3, <2>4, <2>5 DEF StartExecute
  <1>4. CASE ConnectFails(s) \/ ActionSucceeds(s) \/ ActionThrows(s)
    BY <1>4, PlainSettle DEF ConnectFails, ActionSucceeds, ActionThrows, AtTurn
  <1>5. CASE StartResolve(s)
    <2>1. /\ queue[s] # <<>> /\ phase[s] = "waiting"
          /\ UNCHANGED <<tx, opening, session, blockedConns, stopVars>>
      BY <1>5 DEF StartResolve, AtTurn
    <2>2. {"committing", "rollingBack", "asking", "askingRollback", "mutating"} \subseteq Phases
      BY DEF Phases
    <2>3. /\ "committing" \in PhasesOf("commit") /\ "rollingBack" \in PhasesOf("rollback")
          /\ "rollingBack" \in PhasesOf("settle") /\ "askingRollback" \in PhasesOf("close")
          /\ {"asking", "askingRollback", "mutating"} \subseteq PhasesOf("change")
      BY DEF PhasesOf
    <2>4. CASE Head(queue[s]).kind = "commit" /\ GoOn(s, "committing", tx[s])
      BY <1>2, <2>1, <2>2, <2>3, <2>4, PlainGoOn
    <2>5. CASE Head(queue[s]).kind = "rollback" /\ GoOn(s, "rollingBack", tx[s])
      BY <1>2, <2>1, <2>2, <2>3, <2>5, PlainGoOn
    <2>6. CASE Head(queue[s]).kind = "settle" /\ GoOn(s, "rollingBack", Head(queue[s]).client)
      BY <1>2, <2>1, <2>2, <2>3, <2>6, PlainGoOn
    <2>7. CASE Head(queue[s]).kind = "close" /\ GoOn(s, "askingRollback", tx[s])
      BY <1>2, <2>1, <2>2, <2>3, <2>7, PlainGoOn
    <2>8. CASE Head(queue[s]).kind = "change"
               /\ GoOn(s, IF Usable(s) THEN "asking" ELSE "askingRollback", tx[s])
      <3>1. PICK p \in {"asking", "askingRollback"} : GoOn(s, p, tx[s])
        BY <2>8
      <3> QED BY <1>2, <2>1, <2>2, <2>3, <2>8, <3>1, PlainGoOn
    <2>9. CASE Head(queue[s]).kind = "change" /\ GoOn(s, "mutating", None)
      BY <2>1, <2>2, <2>3, <2>9, PlainGoOn
    <2> QED BY <1>5, <2>4, <2>5, <2>6, <2>7, <2>8, <2>9 DEF StartResolve, AtTurn
  <1>6. CASE NothingToResolve(s)
    BY <1>6, PlainSettle DEF NothingToResolve, AtTurn
  <1>7. CASE Answer(s)
    <2>1. /\ queue[s] # <<>> /\ Head(queue[s]).kind \in {"close", "change"}
          /\ phase[s] \in {"asking", "askingRollback"}
          /\ UNCHANGED <<tx, opening, session, blockedConns, stopVars>>
      BY <1>7 DEF Answer, AtTurn
    <2>2. "committing" \in Phases /\ "rollingBack" \in Phases
          /\ "committing" \in PhasesOf("change") /\ "rollingBack" \in PhasesOf("change")
          /\ "rollingBack" \in PhasesOf("close") /\ "asking" \notin PhasesOf("close")
      BY DEF Phases, PhasesOf
    <2>3. CASE phase[s] = "asking" /\ GoOn(s, "committing", cur[s])
      <3>1. Head(queue[s]).kind = "change"
        BY <1>1, <2>1, <2>2, <2>3, PhaseKinds
      <3> QED BY <1>2, <2>1, <2>2, <2>3, <3>1, PlainGoOn
    <2>4. CASE GoOn(s, "rollingBack", cur[s])
      BY <1>2, <2>1, <2>2, <2>4, PlainGoOn
    <2>5. CASE Settle(s)
      BY <2>1, <2>5, PlainSettle
    <2> QED BY <1>7, <2>3, <2>4, <2>5 DEF Answer
  <1>8. CASE Ended(s)
    <2>1. /\ phase[s] \in {"ending", "endingFailed"} /\ queue[s] # <<>>
          /\ UNCHANGED <<tx, opening, session, blockedConns, stopVars>>
      BY <1>1, <1>8, PhaseKinds DEF Ended
    <2>2. "mutating" \in Phases /\ "mutating" \in PhasesOf("change")
      BY DEF Phases, PhasesOf
    <2>3. CASE Head(queue[s]).kind = "change" /\ GoOn(s, "mutating", None)
      BY <2>1, <2>2, <2>3, PlainGoOn
    <2>4. CASE Settle(s)
      BY <2>1, <2>4, PlainSettle
    <2> QED BY <1>8, <2>3, <2>4 DEF Ended
  <1> QED BY <1>3, <1>4, <1>5, <1>6, <1>7, <1>8

\* Sessions whose Connection stays or is forgotten, and whose other fields stay well typed.
SessionsKept ==
  /\ session' \in [Clients -> Session]
  /\ \A k \in Clients : session'[k].conn \in {session[k].conn, None}

LEMMA ConnectKeepsInv ==
  ASSUME CallsInv, ConstantsAssumption, NEW s \in Scratchpads,
         NEW k \in Clients, ConnectSucceeds(s, k)
  PROVE  Keeps
  <1>1. Chains /\ DataTypes /\ (\A r \in Scratchpads : CurOK(r))
    BY CallsParts
  <1> DEFINE p == IF accepting THEN "beginning" ELSE "endingFailed"
             new == [state |-> IF accepting THEN "open" ELSE "ending",
                     conn |-> Head(queue[s]).conn, status |-> "in-progress", pg |-> "none"]
  <1>2. /\ queue[s] # <<>> /\ Head(queue[s]).kind = "execute" /\ phase[s] = "connecting"
        /\ Forgotten(k)
        /\ session' = [session EXCEPT ![k] = new]
        /\ opening' = [opening EXCEPT ![s] = IF accepting THEN k ELSE None]
        /\ GoOn(s, p, k)
        /\ UNCHANGED <<tx, blockedConns, stopVars>>
    BY DEF ConnectSucceeds, AtTurn
  <1>3. \A r \in Scratchpads : k # tx[r] /\ k # cur[r]
    BY <1>2 DEF Forgotten
  <1>4. p \in Phases /\ p \in PhasesOf("execute")
    BY DEF Phases, PhasesOf
  <1>5. Head(queue[s]).conn \in Connections \cup {None}
    BY <1>1, <1>2, PhaseKinds DEF Operation
  <1>6. new \in Session
    BY <1>5 DEF Session
  <1> HIDE DEF new
  <1>7. DataTypes'
    BY <1>1, <1>2, <1>6 DEF DataTypes, stopVars
  <1>8. \A j \in Clients : j # k => session'[j] = session[j]
    BY <1>1, <1>2 DEF DataTypes
  <1>9. Published
    BY <1>1, <1>2, <1>3, <1>8 DEF Published, DataTypes
  <1>10. CurOK(s)'
    <2>1. phase'[s] = p /\ cur'[s] = k /\ queue'[s] = queue[s]
      BY <1>1, <1>2 DEF GoOn, Chains, ChainTypes
    <2>2. opening'[s] = IF accepting THEN k ELSE None
      BY <1>1, <1>2 DEF DataTypes
    <2>3. session'[k].conn = Head(queue[s]).conn
      BY <1>1, <1>2 DEF DataTypes, new
    <2>4. tx'[s] # k
      BY <1>2, <1>3
    <2> QED BY <2>1, <2>2, <2>3, <2>4 DEF CurOK
  <1>11. \A r \in Scratchpads : r # s => tx'[r] = tx[r] /\ opening'[r] = opening[r]
    BY <1>1, <1>2 DEF DataTypes
  <1>12. \A r \in Scratchpads : phase[r] = "beginning" =>
           session'[cur[r]].conn \in {session[cur[r]].conn, None}
    BY <1>1, <1>3, <1>8 DEF CurOK
  <1> HIDE DEF p
  <1> QED BY <1>2, <1>4, <1>7, <1>9, <1>10, <1>11, <1>12, GoOnStep

LEMMA BeginSucceedsKeepsInv ==
  ASSUME CallsInv, ConstantsAssumption, NEW s \in Scratchpads, BeginSucceeds(s)
  PROVE  Keeps
  <1>1. Chains /\ DataTypes /\ (\A r \in Scratchpads : CurOK(r))
    BY CallsParts
  <1>2. /\ queue[s] # <<>> /\ Head(queue[s]).kind = "execute" /\ phase[s] = "beginning"
        /\ session' = [session EXCEPT ![cur[s]].pg = "active"]
        /\ opening' = [opening EXCEPT ![s] = None]
        /\ tx' = [tx EXCEPT ![s] = cur[s]]
        /\ GoOn(s, "running", cur[s])
        /\ UNCHANGED <<blockedConns, stopVars>>
    BY DEF BeginSucceeds, AtTurn
  <1>3. cur[s] \in Clients /\ session[cur[s]].conn \in {Head(queue[s]).conn, None}
    BY <1>1, <1>2 DEF CurOK
  <1>4. "running" \in Phases /\ "running" \in PhasesOf("execute")
    BY DEF Phases, PhasesOf
  <1>5. \A k \in Clients : session'[k] \in Session /\ session'[k].conn = session[k].conn
    BY <1>1, <1>2 DEF DataTypes, Session
  <1>6. session' \in [Clients -> Session]
    BY <1>1, <1>2, <1>5 DEF DataTypes
  <1>7. DataTypes'
    BY <1>1, <1>2, <1>3, <1>6 DEF DataTypes, stopVars
  <1>8. tx'[s] = cur[s] /\ \A r \in Scratchpads : r # s => tx'[r] = tx[r]
    BY <1>1, <1>2 DEF DataTypes
  <1>9. Published
    BY <1>1, <1>2, <1>3, <1>5, <1>8 DEF Published, DataTypes, ConstantsAssumption
  <1>10. CurOK(s)'
    <2>1. phase'[s] = "running" /\ opening'[s] = None
      BY <1>1, <1>2 DEF GoOn, Chains, ChainTypes, DataTypes
    <2> QED BY <2>1 DEF CurOK
  <1>11. \A r \in Scratchpads : r # s => opening'[r] = opening[r]
    BY <1>1, <1>2 DEF DataTypes
  <1>12. \A r \in Scratchpads : phase[r] = "beginning" =>
           session'[cur[r]].conn \in {session[cur[r]].conn, None}
    BY <1>1, <1>5 DEF CurOK
  <1> QED BY <1>2, <1>3, <1>4, <1>7, <1>8, <1>9, <1>10, <1>11, <1>12, GoOnStep

LEMMA BeginFailsKeepsInv ==
  ASSUME CallsInv, ConstantsAssumption, NEW s \in Scratchpads, BeginFails(s)
  PROVE  Keeps
  <1>1. Chains /\ DataTypes /\ (\A r \in Scratchpads : CurOK(r))
    BY CallsParts
  <1>2. /\ queue[s] # <<>> /\ Head(queue[s]).kind = "execute" /\ phase[s] = "beginning"
        /\ session' = [session EXCEPT ![cur[s]].state = "ending"]
        /\ opening' = [opening EXCEPT ![s] = None]
        /\ GoOn(s, "endingFailed", cur[s])
        /\ UNCHANGED <<tx, blockedConns, stopVars>>
    BY DEF BeginFails, AtTurn
  <1>3. cur[s] \in Clients
    BY <1>1, <1>2 DEF CurOK
  <1>4. "endingFailed" \in Phases /\ "endingFailed" \in PhasesOf("execute")
    BY DEF Phases, PhasesOf
  <1>5. \A k \in Clients : session'[k] \in Session /\ session'[k].conn = session[k].conn
    BY <1>1, <1>2 DEF DataTypes, Session
  <1>6. session' \in [Clients -> Session]
    BY <1>1, <1>2, <1>5 DEF DataTypes
  <1>7. DataTypes' /\ DataKept
    BY <1>1, <1>2, <1>5, <1>6 DEF DataTypes, DataKept, stopVars
  <1>8. Published
    BY <1>1, <1>7, KeptIsPublished
  <1>9. CurOK(s)'
    <2>1. phase'[s] = "endingFailed" /\ cur'[s] = cur[s] /\ opening'[s] = None /\ tx'[s] = tx[s]
      BY <1>1, <1>2 DEF GoOn, Chains, ChainTypes, DataTypes
    <2>2. tx[s] # None => tx[s] # cur[s]
      BY <1>1, <1>2 DEF CurOK
    <2> QED BY <2>1, <2>2 DEF CurOK
  <1>10. \A r \in Scratchpads : r # s => tx'[r] = tx[r] /\ opening'[r] = opening[r]
    BY <1>1, <1>2 DEF DataTypes
  <1>11. \A r \in Scratchpads : phase[r] = "beginning" =>
           session'[cur[r]].conn \in {session[cur[r]].conn, None}
    BY <1>1, <1>5 DEF CurOK
  <1> QED BY <1>2, <1>3, <1>4, <1>7, <1>8, <1>9, <1>10, <1>11, GoOnStep

LEMMA ActionFailsKeepsInv ==
  ASSUME CallsInv, ConstantsAssumption, NEW s \in Scratchpads, ActionFails(s)
  PROVE  Keeps
  <1>1. Chains /\ DataTypes
    BY CallsParts
  <1>2. /\ queue[s] # <<>> /\ Head(queue[s]).kind = "execute" /\ phase[s] = "running" /\ Settle(s)
        /\ UNCHANGED <<tx, opening, blockedConns, stopVars>>
    BY DEF ActionFails, AtTurn
  <1>3. PICK aborted \in BOOLEAN :
       session' = [k \in Clients |->
         [session[k] EXCEPT
            !.status = IF k = tx[s] THEN "failed" ELSE @,
            !.pg = IF k = cur[s] /\ aborted /\ @ = "active" THEN "aborted" ELSE @]]
    BY DEF ActionFails
  <1>4. \A k \in Clients : session'[k] \in Session /\ session'[k].conn = session[k].conn
    <2> TAKE k \in Clients
    <2>1. session[k] \in Session
      BY <1>1 DEF DataTypes
    <2>2. PICK status \in {session[k].status, "failed"}, pg \in {session[k].pg, "aborted"} :
            session'[k] = [session[k] EXCEPT !.status = status, !.pg = pg]
      BY <1>3
    <2> QED BY <2>1, <2>2 DEF Session
  <1>5. session' \in [Clients -> Session]
    BY <1>3, <1>4
  <1>6. DataTypes' /\ DataKept
    BY <1>1, <1>2, <1>4, <1>5 DEF DataTypes, DataKept, stopVars
  <1> QED BY <1>2, <1>6, SettleStep

LEMMA CommitFailsKeepsInv ==
  ASSUME CallsInv, ConstantsAssumption, NEW s \in Scratchpads, CommitFails(s)
  PROVE  Keeps
  <1>1. Chains /\ DataTypes
    BY CallsParts
  <1>2. /\ phase[s] = "committing" /\ Settle(s)
        /\ session' = [session EXCEPT ![cur[s]].status = "failed",
                                      ![cur[s]].pg = IF @ = "active" THEN "rolledback" ELSE @]
        /\ UNCHANGED <<tx, opening, blockedConns, stopVars>>
    BY DEF CommitFails
  <1>3. queue[s] # <<>> /\ Head(queue[s]).kind # "settle"
    BY <1>1, <1>2, PhaseKinds
  <1>4. \A k \in Clients : session'[k] \in Session /\ session'[k].conn = session[k].conn
    BY <1>1, <1>2 DEF DataTypes, Session
  <1>5. session' \in [Clients -> Session]
    BY <1>1, <1>2, <1>4 DEF DataTypes
  <1>6. DataTypes' /\ DataKept
    BY <1>1, <1>2, <1>4, <1>5 DEF DataTypes, DataKept, stopVars
  <1> QED BY <1>2, <1>3, <1>6, SettleStep

\* close at the end of COMMIT or ROLLBACK: the Transaction leaves the map.
LEMMA CloseTransactionKeepsInv ==
  ASSUME CallsInv, ConstantsAssumption, NEW s \in Scratchpads, queue[s] # <<>>,
         phase[s] \in {"committing", "rollingBack"},
         NEW p \in {"ending", "endingFailed"}, p \in PhasesOf(Head(queue[s]).kind),
         NEW outcome \in {"none", "active", "aborted", "committed", "rolledback", "lost"},
         CloseTransaction(s, p, outcome),
         UNCHANGED <<opening, blockedConns, stopVars>>
  PROVE  Keeps
  <1>1. Chains /\ DataTypes /\ (\A r \in Scratchpads : CurOK(r))
    BY CallsParts
  <1>2. /\ tx' = [tx EXCEPT ![s] = IF @ = cur[s] THEN None ELSE @]
        /\ session' = [session EXCEPT ![cur[s]].pg = outcome,
                                      ![cur[s]].state = IF @ = "open" THEN "ending" ELSE @]
        /\ GoOn(s, p, cur[s])
    BY DEF CloseTransaction
  <1>3. \A k \in Clients : session'[k] \in Session /\ session'[k].conn = session[k].conn
    BY <1>1, <1>2 DEF DataTypes, Session
  <1>4. session' \in [Clients -> Session]
    BY <1>1, <1>2, <1>3 DEF DataTypes
  <1>5. tx' \in [Scratchpads -> Clients \cup {None}]
        /\ \A r \in Scratchpads : tx'[r] \in {tx[r], None} /\ (r # s => tx'[r] = tx[r])
    BY <1>1, <1>2 DEF DataTypes
  <1>6. DataTypes' /\ DataKept
    BY <1>1, <1>3, <1>4, <1>5 DEF DataTypes, DataKept, stopVars
  <1>7. Published
    BY <1>1, <1>6, KeptIsPublished
  <1>8. CurOK(s)'
    <2>1. phase'[s] = p /\ cur'[s] = cur[s]
      BY <1>1, <1>2 DEF GoOn, Chains, ChainTypes
    <2>2. tx'[s] = IF tx[s] = cur[s] THEN None ELSE tx[s]
      BY <1>1, <1>2 DEF DataTypes
    <2>3. opening'[s] = None
      BY <1>1 DEF CurOK
    <2> QED BY <2>1, <2>2, <2>3 DEF CurOK
  <1>9. \A r \in Scratchpads : phase[r] = "beginning" =>
          session'[cur[r]].conn \in {session[cur[r]].conn, None}
    BY <1>1, <1>3 DEF CurOK
  <1>10. p \in Phases /\ cur[s] \in Clients \cup {None}
    BY <1>1 DEF Phases, Chains, ChainTypes
  <1>11. Head(queue[s]).kind = "settle" => cur[s] = Head(queue[s]).client
    BY <1>1 DEF Chains, PhaseOK
  <1> QED BY <1>2, <1>5, <1>6, <1>7, <1>8, <1>9, <1>10, <1>11, GoOnStep

LEMMA RollbackKeepsInv ==
  ASSUME CallsInv, ConstantsAssumption, NEW s \in Scratchpads,
         RollbackSucceeds(s) \/ RollbackFails(s)
  PROVE  Keeps
  <1>1. Chains /\ DataTypes
    BY CallsParts
  <1>2. /\ phase[s] = "rollingBack"
        /\ UNCHANGED <<opening, blockedConns, stopVars>>
    BY DEF RollbackSucceeds, RollbackFails
  <1>3. queue[s] # <<>> /\ Head(queue[s]).kind \in {"rollback", "close", "settle", "change"}
    BY <1>1, <1>2, PhaseKinds
  <1>4. {"ending", "endingFailed"} \subseteq PhasesOf(Head(queue[s]).kind)
    BY <1>3 DEF PhasesOf
  <1>5. CASE cur[s] \in Clients
    <2>1. session[cur[s]].pg \in {"none", "active", "aborted", "committed", "rolledback", "lost"}
      BY <1>1, <1>5 DEF DataTypes, Session
    <2>2. CASE RollbackSucceeds(s)
      <3> DEFINE out == IF session[cur[s]].pg \in {"active", "aborted"} THEN "rolledback"
                                                                        ELSE session[cur[s]].pg
      <3>1. CloseTransaction(s, "ending", out)
        BY <2>2 DEF RollbackSucceeds
      <3>2. out \in {"none", "active", "aborted", "committed", "rolledback", "lost"}
        BY <2>1
      <3> HIDE DEF out
      <3> QED BY <1>2, <1>3, <1>4, <3>1, <3>2, CloseTransactionKeepsInv
    <2>3. CASE RollbackFails(s)
      BY <1>2, <1>3, <1>4, <2>1, <2>3, CloseTransactionKeepsInv DEF RollbackFails
    <2> QED BY <2>2, <2>3
  <1>6. CASE cur[s] \notin Clients
    <2>1. PICK p \in {"ending", "endingFailed"} : \E out : CloseTransaction(s, p, out)
      BY DEF RollbackSucceeds, RollbackFails
    <2>2. session' = session
      BY <1>1, <1>6, <2>1 DEF CloseTransaction, DataTypes
    <2>3. session = [session EXCEPT ![cur[s]].pg = "none",
                                    ![cur[s]].state = IF @ = "open" THEN "ending" ELSE @]
      BY <1>1, <1>6 DEF DataTypes
    <2>4. CloseTransaction(s, p, "none")
      BY <2>1, <2>2, <2>3 DEF CloseTransaction
    <2> QED BY <1>2, <1>3, <1>4, <2>4, CloseTransactionKeepsInv
  <1> QED BY <1>5, <1>6

LEMMA CommitSucceedsKeepsInv ==
  ASSUME CallsInv, ConstantsAssumption, NEW s \in Scratchpads, CommitSucceeds(s)
  PROVE  Keeps
  <1>1. Chains /\ DataTypes /\ (\A r \in Scratchpads : CurOK(r))
    BY CallsParts
  <1> DEFINE outcome == IF session[cur[s]].pg = "active" THEN "committed" ELSE "rolledback"
  <1>2. /\ phase[s] = "committing"
        /\ UNCHANGED <<opening, blockedConns, stopVars>>
    BY DEF CommitSucceeds
  <1>3. queue[s] # <<>> /\ Head(queue[s]).kind \in {"commit", "change"}
    BY <1>1, <1>2, PhaseKinds
  <1>4. "ending" \in PhasesOf(Head(queue[s]).kind)
    BY <1>3 DEF PhasesOf
  <1>5. outcome \in {"none", "active", "aborted", "committed", "rolledback", "lost"}
    OBVIOUS
  <1>6. CASE CloseTransaction(s, "ending", outcome)
    <2> HIDE DEF outcome
    <2> QED BY <1>2, <1>3, <1>4, <1>5, <1>6, CloseTransactionKeepsInv
  <1>7. CASE /\ session' = [session EXCEPT ![cur[s]].pg = outcome]
             /\ tx' = tx
             /\ IF Head(queue[s]).kind = "change" THEN GoOn(s, "mutating", None) ELSE Settle(s)
    <2>1. \A k \in Clients : session'[k] \in Session /\ session'[k].conn = session[k].conn
      BY <1>1, <1>7 DEF DataTypes, Session
    <2>2. session' \in [Clients -> Session]
      BY <1>1, <1>7, <2>1 DEF DataTypes
    <2>3. DataTypes' /\ DataKept
      BY <1>1, <1>2, <1>7, <2>1, <2>2 DEF DataTypes, DataKept, stopVars
    <2>5. CASE Settle(s)
      BY <1>2, <1>3, <2>3, <2>5, SettleStep
    <2>6. CASE Head(queue[s]).kind = "change" /\ GoOn(s, "mutating", None)
      <3>1. Published
        BY <1>1, <2>3, KeptIsPublished
      <3>2. "mutating" \in Phases /\ "mutating" \in PhasesOf("change")
        BY DEF Phases, PhasesOf
      <3>3. CurOK(s)'
        <4>1. phase'[s] = "mutating" /\ opening'[s] = None
          BY <1>1, <1>2, <2>6 DEF GoOn, Chains, ChainTypes, CurOK
        <4> QED BY <4>1 DEF CurOK
      <3>4. \A r \in Scratchpads : phase[r] = "beginning" =>
              session'[cur[r]].conn \in {session[cur[r]].conn, None}
        BY <1>1, <2>1 DEF CurOK
      <3> QED BY <1>2, <1>3, <1>7, <2>3, <2>6, <3>1, <3>2, <3>3, <3>4, GoOnStep
    <2> QED BY <1>7, <2>5, <2>6
  <1> QED BY <1>6, <1>7 DEF CommitSucceeds

\* A change that runs is over.
LEMMA MutateKeepsInv ==
  ASSUME CallsInv, ConstantsAssumption, NEW s \in Scratchpads, Mutate(s)
  PROVE  Keeps
  <1>1. Chains
    BY CallsParts
  <1>2. /\ phase[s] = "mutating" /\ Settle(s)
        /\ UNCHANGED <<tx, opening, session, blockedConns, stopVars>>
    BY DEF Mutate
  <1>3. queue[s] # <<>> /\ Head(queue[s]).kind = "change"
    BY <1>1, <1>2, PhaseKinds
  <1> QED BY <1>2, <1>3, PlainSettle

\* What a head does at its turn.
LEMMA TurnKeepsInv ==
  ASSUME CallsInv, ConstantsAssumption, NEW s \in Scratchpads, Turn(s)
  PROVE  Keeps
  BY PlainTurnKeepsInv, ConnectKeepsInv, BeginSucceedsKeepsInv, BeginFailsKeepsInv,
     ActionFailsKeepsInv, CommitSucceedsKeepsInv, CommitFailsKeepsInv, RollbackKeepsInv,
     MutateKeepsInv DEF Turn

\* One lease moves on; what it needs of the chains holds, and its refusal is counted.
LEMMA LeaseMove ==
  ASSUME CallsInv, ConstantsAssumption, NEW l \in Leases, NEW new \in Lease,
         lease' = [lease EXCEPT ![l] = new],
         lease[l].phase # "settling", new.phase # "settling",
         UNCHANGED <<queue, phase, cur, opConn, tx, opening, session, blockedPads,
                     changing, stopVars>>,
         blockedConns' \in [Connections -> Nat],
         \A c \in Connections : blockedConns'[c] = Cardinality(LeasesOn(c)'),
         new.phase # "idle" => new.conn \in Connections,
         Remembered /\ LeaseOK /\ new.phase = "draining" =>
           \A s \in Scratchpads : \A i \in DOMAIN queue[s] :
             queue[s][i].conn = new.conn => i <= new.ahead[s],
         Remembered /\ LeaseOK /\ new.phase \in {"rolling", "held"} =>
           /\ \A s \in Scratchpads : \A i \in DOMAIN queue[s] : queue[s][i].conn # new.conn
           /\ \A s \in Scratchpads :
                tx[s] # None /\ session[tx[s]].conn = new.conn => <<s, tx[s]>> \in new.todo,
         new.phase = "held" => new.todo = {}
  PROVE  Keeps
  <1>1. Chains /\ DataTypes /\ (\A r \in Scratchpads : CurOK(r))
    BY CallsParts
  <1>2. lease' \in [Leases -> Lease] /\ lease'[l] = new /\ \A m \in Leases : m # l => lease'[m] = lease[m]
    BY <1>1 DEF Chains, ChainTypes
  <1>3. ChainTypes'
    BY <1>1, <1>2 DEF Chains, ChainTypes
  <1>4. RefusalsBalance'
    BY <1>1 DEF Chains, RefusalsBalance, ChangesOn
  <1>5. QueueOK'
    BY <1>1, <1>2 DEF Chains, QueueOK
  <1>6. CallsDistinct' /\ PhaseOK'
    BY <1>1 DEF Chains, CallsDistinct, PhaseOK
  <1>7. LeasesNamed'
    BY <1>1, <1>2 DEF Chains, LeasesNamed
  <1>8. Chains'
    BY <1>3, <1>4, <1>5, <1>6, <1>7 DEF Chains
  <1>9. DataTypes'
    BY <1>1 DEF DataTypes, stopVars
  <1>10. \A r \in Scratchpads : CurOK(r)'
    BY <1>1 DEF CurOK
  <1>11. CallsInv'
    BY <1>8, <1>9, <1>10, CallsPartsNext
  <1>12. new.phase \in {"idle", "draining", "rolling", "held"}
    BY DEF Lease
  <1>13. ASSUME Remembered, LeaseOK PROVE Remembered' /\ LeaseOK'
    <2> SUFFICES ASSUME NEW m \in Leases
                 PROVE  /\ lease'[m].phase = "draining" =>
                             \A s \in Scratchpads : \A i \in DOMAIN queue[s] :
                               queue[s][i].conn = lease'[m].conn => i <= lease'[m].ahead[s]
                        /\ lease'[m].phase \in {"rolling", "settling", "held"} =>
                             /\ \A s \in Scratchpads : \A i \in DOMAIN queue[s] :
                                  queue[s][i].conn # lease'[m].conn
                             /\ \A s \in Scratchpads :
                                  tx[s] # None /\ session[tx[s]].conn = lease'[m].conn =>
                                    <<s, tx[s]>> \in lease'[m].todo
                        /\ lease'[m].phase = "held" => lease'[m].todo = {}
      BY <1>13 DEF LeaseOK, Remembered
    <2>1. CASE m = l
      BY <1>2, <1>12, <1>13, <2>1
    <2>2. CASE m # l
      BY <1>2, <1>13, <2>2 DEF LeaseOK
    <2> QED BY <2>1, <2>2
  <1> QED BY <1>11, <1>13 DEF Keeps

\* The leases of a Connection are finitely many.
LEMMA LeasesOnFinite ==
  ASSUME ConstantsAssumption, NEW c
  PROVE  IsFiniteSet(LeasesOn(c)) /\ Cardinality(LeasesOn(c)) \in Nat
  <1>1. IsFiniteSet(LeasesOn(c))
    BY FS_Subset DEF LeasesOn, ConstantsAssumption
  <1> QED BY <1>1, FS_CardinalityType

LEMMA AcquireKeepsInv ==
  ASSUME CallsInv, ConstantsAssumption, NEW l \in Leases, NEW c \in Connections, Acquire(l, c)
  PROVE  Keeps
  <1>1. Chains /\ DataTypes
    BY CallsParts
  <1> DEFINE new == [phase |-> "draining", conn |-> c, todo |-> {},
                     ahead |-> [s \in Scratchpads |-> IF opConn[s] = c THEN Len(queue[s]) ELSE 0]]
  <1>2. /\ lease[l].phase = "idle"
        /\ blockedConns' = [blockedConns EXCEPT ![c] = @ + 1]
        /\ lease' = [lease EXCEPT ![l] = new]
        /\ UNCHANGED <<queue, phase, cur, opConn, tx, opening, session, blockedPads,
                       changing, stopVars>>
    BY DEF Acquire
  <1>3. \A s \in Scratchpads : DOMAIN queue[s] = 1..Len(queue[s]) /\ Len(queue[s]) \in Nat
    BY <1>1, LenProperties DEF Chains, ChainTypes
  <1>4. new \in Lease /\ new.phase = "draining" /\ new.conn = c
    BY <1>3 DEF Lease
  <1>5. ASSUME Remembered, NEW s \in Scratchpads, NEW i \in DOMAIN queue[s], queue[s][i].conn = c
        PROVE  i <= new.ahead[s]
    <2>1. queue[s][i].kind = "execute"
      BY <1>1, <1>5 DEF Chains, QueueOK, ConstantsAssumption
    <2>2. opConn[s] = c
      BY <1>5, <2>1 DEF Remembered
    <2>3. new.ahead[s] = Len(queue[s])
      BY <2>2
    <2> QED BY <1>3, <2>3
  <1> HIDE DEF new
  <1>6. ASSUME NEW d \in Connections PROVE blockedConns'[d] = Cardinality(LeasesOn(d)')
    <2>1. LeasesOn(d)' = LeasesOn(d) \cup (IF d = c THEN {l} ELSE {}) /\ l \notin LeasesOn(d)
      <3>1. lease'[l] = new /\ \A m \in Leases : m # l => lease'[m] = lease[m]
        BY <1>1, <1>2 DEF Chains, ChainTypes
      <3> QED BY <1>2, <1>4, <3>1 DEF LeasesOn
    <2>2. IsFiniteSet(LeasesOn(d)) /\ Cardinality(LeasesOn(d)) \in Nat
      BY LeasesOnFinite
    <2>3. blockedConns[d] = Cardinality(LeasesOn(d)) /\ blockedConns \in [Connections -> Nat]
      BY <1>1 DEF Chains, ChainTypes, RefusalsBalance
    <2>4. CASE d = c
      <3>1. Cardinality(LeasesOn(d) \cup {l}) = Cardinality(LeasesOn(d)) + 1
        BY <2>1, <2>2, FS_AddElement
      <3> QED BY <1>2, <2>1, <2>3, <2>4, <3>1
    <2>5. CASE d # c
      BY <1>2, <2>1, <2>3, <2>5
    <2> QED BY <2>4, <2>5
  <1>7. blockedConns' \in [Connections -> Nat]
    BY <1>1, <1>2 DEF Chains, ChainTypes
  <1> QED BY <1>2, <1>4, <1>5, <1>6, <1>7, LeaseMove

\* A lease that goes on without lifting its refusal.
LEMMA SameRefusals ==
  ASSUME CallsInv, NEW l \in Leases, NEW new \in Lease, lease' = [lease EXCEPT ![l] = new],
         new.conn = lease[l].conn, new.phase # "idle", lease[l].phase # "idle",
         UNCHANGED blockedConns
  PROVE  /\ blockedConns' \in [Connections -> Nat]
         /\ \A c \in Connections : blockedConns'[c] = Cardinality(LeasesOn(c)')
  <1>1. Chains
    BY CallsParts
  <1>2. lease'[l] = new /\ \A m \in Leases : m # l => lease'[m] = lease[m]
    BY <1>1 DEF Chains, ChainTypes
  <1>3. \A c \in Connections : LeasesOn(c)' = LeasesOn(c)
    BY <1>2 DEF LeasesOn
  <1> QED BY <1>1, <1>3 DEF Chains, ChainTypes, RefusalsBalance

LEMMA DrainedKeepsInv ==
  ASSUME CallsInv, ConstantsAssumption, NEW l \in Leases, Drained(l)
  PROVE  Keeps
  <1>1. Chains /\ DataTypes
    BY CallsParts
  <1> DEFINE new == [lease[l] EXCEPT !.phase = "rolling", !.todo = OpenOn(lease[l].conn)]
  <1>2. /\ lease[l].phase = "draining"
        /\ \A s \in Scratchpads : lease[l].ahead[s] = 0
        /\ lease' = [lease EXCEPT ![l] = new]
        /\ UNCHANGED <<queue, phase, cur, opConn, tx, opening, session, blockedPads,
                       changing, blockedConns, stopVars>>
    BY DEF Drained
  <1>3. OpenOn(lease[l].conn) \in SUBSET (Scratchpads \X Clients)
    BY DEF OpenOn
  <1>4. new \in Lease /\ new.phase = "rolling" /\ new.conn = lease[l].conn
        /\ new.todo = OpenOn(lease[l].conn)
    <2>1. lease[l] \in Lease
      BY <1>1 DEF Chains, ChainTypes
    <2> QED BY <1>3, <2>1 DEF Lease
  <1>5. new.conn \in Connections
    BY <1>1, <1>2, <1>4 DEF Chains, LeasesNamed
  <1>6. ASSUME LeaseOK
        PROVE  \A s \in Scratchpads : \A i \in DOMAIN queue[s] : queue[s][i].conn # lease[l].conn
    <2>1. \A s \in Scratchpads : DOMAIN queue[s] = 1..Len(queue[s]) /\ Len(queue[s]) \in Nat
      BY <1>1, LenProperties DEF Chains, ChainTypes
    <2>2. \A s \in Scratchpads : \A i \in DOMAIN queue[s] :
            queue[s][i].conn = lease[l].conn => i <= 0
      BY <1>2, <1>6 DEF LeaseOK
    <2>3. \A s \in Scratchpads : \A i \in DOMAIN queue[s] : ~(i <= 0)
      BY <2>1
    <2> QED BY <2>2, <2>3
  <1>7. \A s \in Scratchpads :
          tx[s] # None /\ session[tx[s]].conn = lease[l].conn => <<s, tx[s]>> \in OpenOn(lease[l].conn)
    BY <1>1 DEF OpenOn, DataTypes
  <1> HIDE DEF new
  <1>8. /\ blockedConns' \in [Connections -> Nat]
        /\ \A c \in Connections : blockedConns'[c] = Cardinality(LeasesOn(c)')
    BY <1>2, <1>4, SameRefusals
  <1>9. LeaseOK => \A s \in Scratchpads : \A i \in DOMAIN queue[s] : queue[s][i].conn # new.conn
    BY <1>4, <1>6
  <1>10. \A s \in Scratchpads :
           tx[s] # None /\ session[tx[s]].conn = new.conn => <<s, tx[s]>> \in new.todo
    BY <1>4, <1>7
  <1> QED BY <1>2, <1>4, <1>5, <1>8, <1>9, <1>10, LeaseMove

LEMMA GrantKeepsInv ==
  ASSUME CallsInv, ConstantsAssumption, NEW l \in Leases, Grant(l)
  PROVE  Keeps
  <1>1. Chains
    BY CallsParts
  <1> DEFINE new == [lease[l] EXCEPT !.phase = "held"]
  <1>2. /\ lease[l].phase = "rolling" /\ lease[l].todo = {}
        /\ lease' = [lease EXCEPT ![l] = new]
        /\ UNCHANGED <<queue, phase, cur, opConn, tx, opening, session, blockedPads,
                       changing, blockedConns, stopVars>>
    BY DEF Grant
  <1>3. new \in Lease /\ new.phase = "held" /\ new.conn = lease[l].conn
        /\ new.todo = lease[l].todo
    <2>1. lease[l] \in Lease
      BY <1>1 DEF Chains, ChainTypes
    <2> QED BY <2>1 DEF Lease
  <1>4. /\ new.conn \in Connections
        /\ LeaseOK =>
             /\ \A s \in Scratchpads : \A i \in DOMAIN queue[s] : queue[s][i].conn # new.conn
             /\ \A s \in Scratchpads :
                  tx[s] # None /\ session[tx[s]].conn = new.conn => <<s, tx[s]>> \in new.todo
    BY <1>1, <1>2, <1>3 DEF LeaseOK, Chains, LeasesNamed
  <1> HIDE DEF new
  <1>5. /\ blockedConns' \in [Connections -> Nat]
        /\ \A c \in Connections : blockedConns'[c] = Cardinality(LeasesOn(c)')
    BY <1>2, <1>3, SameRefusals
  <1> QED BY <1>2, <1>3, <1>4, <1>5, LeaseMove

LEMMA ReleaseKeepsInv ==
  ASSUME CallsInv, ConstantsAssumption, NEW l \in Leases, Release(l)
  PROVE  Keeps
  <1>1. Chains
    BY CallsParts
  <1>2. /\ lease[l].phase \in {"held", "rolling"}
        /\ blockedConns' = [blockedConns EXCEPT ![lease[l].conn] = @ - 1]
        /\ lease' = [lease EXCEPT ![l] = IdleLease]
        /\ UNCHANGED <<queue, phase, cur, opConn, tx, opening, session, blockedPads,
                       changing, stopVars>>
    BY DEF Release
  <1>3. IdleLease \in Lease /\ IdleLease.phase = "idle"
    BY DEF IdleLease, Lease
  <1>4. lease[l].conn \in Connections
    BY <1>1, <1>2 DEF Chains, LeasesNamed
  <1>5. ASSUME NEW d \in Connections
        PROVE  blockedConns'[d] \in Nat /\ blockedConns'[d] = Cardinality(LeasesOn(d)')
    <2>1. LeasesOn(d)' = LeasesOn(d) \ (IF d = lease[l].conn THEN {l} ELSE {})
          /\ (l \in LeasesOn(d) <=> d = lease[l].conn)
      <3>1. lease'[l] = IdleLease /\ \A m \in Leases : m # l => lease'[m] = lease[m]
        BY <1>1, <1>2 DEF Chains, ChainTypes
      <3> QED BY <1>2, <1>3, <3>1 DEF LeasesOn
    <2>2. IsFiniteSet(LeasesOn(d)) /\ Cardinality(LeasesOn(d)) \in Nat
      BY LeasesOnFinite
    <2>3. blockedConns[d] = Cardinality(LeasesOn(d)) /\ blockedConns \in [Connections -> Nat]
      BY <1>1 DEF Chains, ChainTypes, RefusalsBalance
    <2>4. CASE d = lease[l].conn
      <3>1. Cardinality(LeasesOn(d) \ {l}) = Cardinality(LeasesOn(d)) - 1
        BY <2>1, <2>2, <2>4, FS_RemoveElement
      <3>2. Cardinality(LeasesOn(d)) # 0
        BY <2>1, <2>2, <2>4, FS_EmptySet
      <3> QED BY <1>2, <2>1, <2>2, <2>3, <2>4, <3>1, <3>2
    <2>5. CASE d # lease[l].conn
      BY <1>2, <2>1, <2>2, <2>3, <2>5
    <2> QED BY <2>4, <2>5
  <1>6. blockedConns' \in [Connections -> Nat]
    BY <1>1, <1>2, <1>5 DEF Chains, ChainTypes
  <1> QED BY <1>2, <1>3, <1>5, <1>6, LeaseMove

LEMMA RollNextKeepsInv ==
  ASSUME CallsInv, ConstantsAssumption, NEW l \in Leases, RollNext(l)
  PROVE  Keeps
  <1>1. Chains
    BY CallsParts
  <1>2. PICK todo \in lease[l].todo : RunExclusive(todo[1], Op("settle", None, todo[2], l))
    BY DEF RollNext
  <1>3. lease[l].todo \in SUBSET (Scratchpads \X Clients)
    BY <1>1 DEF Chains, ChainTypes, Lease
  <1>4. todo[1] \in Scratchpads /\ todo[2] \in Clients
    BY <1>2, <1>3
  <1> DEFINE op == Op("settle", None, todo[2], l)
  <1>5. op \in Operation /\ op.kind = "settle" /\ op.conn = None /\ op.by = l
    BY <1>4, OpFields DEF OpKinds
  <1>6. /\ RunExclusive(todo[1], op)
        /\ lease[l].phase = "rolling"
        /\ lease' = [lease EXCEPT ![l].phase = "settling"]
        /\ UNCHANGED <<phase, cur, tx, opening, session, blockedPads, changing,
                       blockedConns, stopVars>>
    BY <1>2 DEF RollNext
  <1> HIDE DEF op
  <1> QED BY <1>4, <1>5, <1>6, AppendStep

\* Shutdown and PostgreSQL move nothing on the chains.
LEMMA ShutdownData ==
  ASSUME CallsInv, ConstantsAssumption, BeginShutdown \/ ShutdownStep
  PROVE  DataTypes' /\ DataKept /\ UNCHANGED <<chainVars, blockedConns>>
  <1>1. DataTypes
    BY CallsParts
  <1>2. CASE BeginShutdown
    <2>1. DataTypes' /\ DataKept
      BY <1>1, <1>2 DEF BeginShutdown, DataTypes, DataKept
    <2> QED BY <1>2, <2>1 DEF BeginShutdown
  <1>3. CASE DrainEnds
    <2>1. /\ tx' = [s \in Scratchpads |-> None] /\ shutdown' = "closing"
          /\ UNCHANGED <<chainVars, opening, blockedConns, accepting>>
      BY <1>3 DEF DrainEnds
    <2> DEFINE open == {tx[s] : s \in Scratchpads} \ {None}
    <2>2. /\ doomed' \in SUBSET Clients
          /\ session' \in [Clients -> Session]
          /\ \A k \in Clients : session'[k].conn = session[k].conn
      <3>1. CASE doomed' = open /\ UNCHANGED session
        BY <1>1, <3>1 DEF DataTypes
      <3>2. CASE /\ doomed' = {}
                 /\ session' = [k \in Clients |->
                      [session[k] EXCEPT !.state = IF k \in open /\ @ = "open" THEN "ending" ELSE @]]
        <4> HIDE DEF open
        <4>1. \A k \in Clients : session[k] \in Session
          BY <1>1 DEF DataTypes
        <4>2. \A k \in Clients : /\ session'[k].conn = session[k].conn
                                 /\ session'[k] \in Session
          BY <3>2, <4>1 DEF Session
        <4> QED BY <3>2, <4>2
      <3> QED BY <1>3, <3>1, <3>2 DEF DrainEnds
    <2>3. DataTypes' /\ DataKept
      BY <1>1, <2>1, <2>2 DEF DataTypes, DataKept
    <2> QED BY <2>1, <2>3
  <1>4. ASSUME NEW k \in Clients, RollbackDoomed(k)
        PROVE  DataTypes' /\ DataKept /\ UNCHANGED <<chainVars, blockedConns>>
    <2>1. PICK pg \in {"rolledback", session[k].pg} :
            session' = [session EXCEPT ![k].pg = IF @ = "active" THEN pg ELSE @,
                                       ![k].state = IF @ = "open" THEN "ending" ELSE @]
      BY <1>4 DEF RollbackDoomed
    <2>2. /\ doomed' = doomed \ {k}
          /\ UNCHANGED <<chainVars, tx, opening, blockedConns, accepting, shutdown>>
      BY <1>4 DEF RollbackDoomed
    <2>3. \A j \in Clients : session'[j] \in Session /\ session'[j].conn = session[j].conn
      <3> TAKE j \in Clients
      <3>1. session[j] \in Session
        BY <1>1 DEF DataTypes
      <3>2. PICK p \in {session[j].pg, "rolledback"}, state \in {session[j].state, "ending"} :
              session'[j] = [session[j] EXCEPT !.pg = p, !.state = state]
        <4>1. CASE j = k
          <5>1. session'[j] = [session[j] EXCEPT !.pg = IF @ = "active" THEN pg ELSE @,
                                                 !.state = IF @ = "open" THEN "ending" ELSE @]
            BY <1>1, <2>1, <4>1 DEF DataTypes
          <5> QED BY <2>1, <4>1, <5>1
        <4>2. CASE j # k
          <5>1. session'[j] = session[j]
            BY <1>1, <2>1, <4>2 DEF DataTypes
          <5>2. session[j] = [session[j] EXCEPT !.pg = session[j].pg, !.state = session[j].state]
            BY <3>1 DEF Session
          <5> QED BY <5>1, <5>2
        <4> QED BY <4>1, <4>2
      <3> QED BY <3>1, <3>2 DEF Session
    <2>4. session' \in [Clients -> Session]
      BY <1>1, <2>1, <2>3 DEF DataTypes
    <2>5. DataTypes' /\ DataKept
      BY <1>1, <2>2, <2>3, <2>4 DEF DataTypes, DataKept
    <2> QED BY <2>2, <2>5
  <1>5. CASE SweepOpening
    <2>1. /\ session' = [k \in Clients |->
               [session[k] EXCEPT !.state =
                  IF @ = "open" /\ \E s \in Scratchpads : opening[s] = k THEN "ending" ELSE @]]
          /\ opening' = [s \in Scratchpads |-> None] /\ shutdown' = "done"
          /\ UNCHANGED <<chainVars, tx, blockedConns, accepting, doomed>>
      BY <1>5 DEF SweepOpening
    <2>2. \A k \in Clients : session'[k] \in Session /\ session'[k].conn = session[k].conn
      <3> TAKE k \in Clients
      <3>1. session[k] \in Session
        BY <1>1 DEF DataTypes
      <3>2. PICK state \in {session[k].state, "ending"} :
              session'[k] = [session[k] EXCEPT !.state = state]
        BY <2>1
      <3> QED BY <3>1, <3>2 DEF Session
    <2>3. session' \in [Clients -> Session]
      BY <2>1, <2>2
    <2>4. DataTypes' /\ DataKept
      BY <1>1, <2>1, <2>2, <2>3 DEF DataTypes, DataKept
    <2> QED BY <2>1, <2>4
  <1> QED BY <1>2, <1>3, <1>4, <1>5 DEF ShutdownStep

\* So do the end and the loss of a session.
LEMMA PostgresData ==
  ASSUME CallsInv, ConstantsAssumption, NEW k \in Clients, SessionEnds(k) \/ SessionLost(k)
  PROVE  DataTypes' /\ DataKept /\ UNCHANGED <<chainVars, blockedConns>>
  <1>1. DataTypes
    BY CallsParts
  <1>2. UNCHANGED <<chainVars, tx, opening, blockedConns, stopVars>>
    BY DEF SessionEnds, SessionLost
  <1>3. \A j \in Clients : session'[j] \in Session /\ session'[j].conn \in {session[j].conn, None}
    BY <1>1 DEF SessionEnds, SessionLost, FreeSession, DataTypes, Session
  <1>4. session' \in [Clients -> Session]
    BY <1>1, <1>3 DEF SessionEnds, SessionLost, DataTypes
  <1>5. DataTypes' /\ DataKept
    BY <1>1, <1>2, <1>3, <1>4 DEF DataTypes, DataKept, stopVars
  <1> QED BY <1>2, <1>5

LEMMA ShutdownKeepsInv ==
  ASSUME CallsInv, ConstantsAssumption, BeginShutdown \/ ShutdownStep
  PROVE  Keeps
  BY ShutdownData, QuietStep

LEMMA PostgresKeepsInv ==
  ASSUME CallsInv, ConstantsAssumption, NEW k \in Clients, SessionEnds(k) \/ SessionLost(k)
  PROVE  Keeps
  BY PostgresData, QuietStep

LEMMA UnchangedKeepsInv ==
  ASSUME CallsInv, ConstantsAssumption, UNCHANGED vars
  PROVE  Keeps
  <1>1. DataTypes
    BY CallsParts
  <1>2. UNCHANGED <<chainVars, tx, opening, session, blockedConns, stopVars>>
    BY DEF vars, chainVars, stopVars
  <1>3. DataTypes' /\ DataKept
    BY <1>1, <1>2, DataUnchanged
  <1> QED BY <1>2, <1>3, QuietStep

-----------------------------------------------------------------------------
(* Theorems *)

\* The invariant holds before any Scratchpad is opened.
LEMMA InitInv ==
  ASSUME Init, ConstantsAssumption
  PROVE  ChainInv
  <1>1. TypeOK
    BY EmptySeq DEF Init, TypeOK, Phases, FreeSession, Session, IdleLease, Lease
  <1>2. \A s \in Scratchpads : DOMAIN queue[s] = {}
    <2>1. \A s \in Scratchpads : queue[s] = <<>> /\ DOMAIN <<>> = 1..0
      BY EmptySeq, LenProperties DEF Init
    <2> QED BY <2>1
  <1>3. RefusalsBalance
    <2>1. \A s \in Scratchpads : ChangesOn(s) = {}
      BY DEF Init, ChangesOn, ConstantsAssumption
    <2>2. \A c \in Connections : LeasesOn(c) = {}
      BY DEF Init, LeasesOn, IdleLease
    <2> QED BY <2>1, <2>2, FS_EmptySet DEF Init, RefusalsBalance
  <1>4. QueueOK /\ CallsDistinct
    BY <1>2 DEF QueueOK, CallsDistinct
  <1>5. PhaseOK
    BY DEF Init, PhaseOK
  <1>6. \A s \in Scratchpads : CurOK(s)
    BY DEF Init, CurOK
  <1>7. LeaseOK /\ LeasesNamed
    BY DEF Init, LeaseOK, LeasesNamed, IdleLease
  <1>8. Remembered
    BY <1>2 DEF Remembered
  <1> QED BY <1>1, <1>3, <1>4, <1>5, <1>6, <1>7, <1>8 DEF ChainInv, CallsInv

\* No step leaves the calls unaccounted for; none by which its chain executes on another
\* Connection is one of these.
LEMMA NextKeeps ==
  ASSUME CallsInv, ConstantsAssumption, [Next]_vars
  PROVE  Keeps
  <1>1. ASSUME NEW s \in Scratchpads, Call(s) \/ Turn(s) PROVE Keeps
    BY <1>1, CallKeepsInv, TurnKeepsInv
  <1>2. ASSUME NEW l \in Leases, LeaseStep(l) PROVE Keeps
    BY <1>2, DrainedKeepsInv, RollNextKeepsInv, GrantKeepsInv, ReleaseKeepsInv DEF LeaseStep
  <1>3. ASSUME NEW l \in Leases, NEW c \in Connections, Acquire(l, c) PROVE Keeps
    BY <1>3, AcquireKeepsInv
  <1>4. CASE BeginShutdown \/ ShutdownStep
    BY <1>4, ShutdownKeepsInv
  <1>5. ASSUME NEW k \in Clients, SessionEnds(k) \/ SessionLost(k) PROVE Keeps
    BY <1>5, PostgresKeepsInv
  <1>6. CASE Stopped \/ UNCHANGED vars
    BY <1>6, UnchangedKeepsInv DEF Stopped
  <1> QED BY <1>1, <1>2, <1>3, <1>4, <1>5, <1>6 DEF Next

LEMMA NextKeepsInv ==
  ASSUME ChainInv, ConstantsAssumption, [Next]_vars
  PROVE  ChainInv'
  BY NextKeeps DEF ChainInv, Keeps

\* A lease is held only while nothing of its Connection runs, opens or waits.
LEMMA InvExcludesWork ==
  ASSUME ChainInv, ConstantsAssumption
  PROVE  LeaseExcludesWork
  <1>1. Chains /\ (\A s \in Scratchpads : CurOK(s)) /\ LeaseOK /\ LeasesNamed
    BY InvParts DEF Chains
  <1> SUFFICES ASSUME NEW l \in Leases, lease[l].phase = "held", NEW s \in Scratchpads
               PROVE  /\ tx[s] # None => session[tx[s]].conn # lease[l].conn
                      /\ opening[s] # None => session[opening[s]].conn # lease[l].conn
                      /\ \A i \in DOMAIN queue[s] : queue[s][i].conn # lease[l].conn
    BY DEF LeaseExcludesWork
  <1>2. /\ lease[l].conn \in Connections /\ lease[l].todo = {}
        /\ \A i \in DOMAIN queue[s] : queue[s][i].conn # lease[l].conn
        /\ tx[s] # None => session[tx[s]].conn # lease[l].conn
    BY <1>1 DEF LeaseOK, LeasesNamed
  <1>3. ASSUME opening[s] # None PROVE session[opening[s]].conn # lease[l].conn
    <2>1. phase[s] = "beginning" /\ session[opening[s]].conn \in {Head(queue[s]).conn, None}
      BY <1>1, <1>3 DEF CurOK
    <2>2. queue[s] # <<>>
      BY <1>1, <2>1, PhaseKinds
    <2>3. 1 \in DOMAIN queue[s] /\ Head(queue[s]) = queue[s][1]
      BY <1>1, <2>2, TailIndex DEF Chains, ChainTypes
    <2> QED BY <1>2, <2>1, <2>3 DEF ConstantsAssumption
  <1> QED BY <1>2, <1>3

\* The inductive invariant holds in every reachable state, whatever the numbers of Scratchpads,
\* Connections, sessions and calls.
THEOREM InvHolds == Spec => []ChainInv
  <1>1. Init => ChainInv
    BY InitInv, ConstantsAssumption
  <1>2. ChainInv /\ [Next]_vars => ChainInv'
    BY NextKeepsInv, ConstantsAssumption
  <1> QED BY <1>1, <1>2, PTL DEF Spec

\* Every variable of the manager keeps its type; for the counters of refusals that means that
\* no unblock is ever one too many (block, unblock).
THEOREM TypeCorrect == Spec => []TypeOK
  <1>1. ChainInv => TypeOK
    BY DEF ChainInv, CallsInv
  <1> QED BY <1>1, InvHolds, PTL

\* Every refusal is lifted exactly once, however the call that set it ends.
THEOREM RefusalsBalanced == Spec => []RefusalsBalance
  <1>1. ChainInv => RefusalsBalance
    BY DEF ChainInv, CallsInv
  <1> QED BY <1>1, InvHolds, PTL

\* A Connection change that has its lease works alone on the Connection, as long as what
\* is queued on a chain executes on one Connection (acquireConnectionChange).
THEOREM LeaseExclusive == Spec => []LeaseExcludesWork
  <1>1. ChainInv => LeaseExcludesWork
    BY InvExcludesWork, ConstantsAssumption
  <1> QED BY <1>1, InvHolds, PTL

-----------------------------------------------------------------------------
(* ScratchpadTransactions implements ConnectionGate: each of its steps is one of the gate, or leaves *)
(* the gate as it is. *)

\* A lease nobody asked for names no Connection.
IdleLeases == \A l \in Leases : lease[l].phase = "idle" => lease[l].conn = None

\* What the gate sees of the Transactions and of the sessions being opened was there before.
DataWorks ==
  \A r \in Scratchpads : \A c \in Connections :
    /\ tx'[r] # None /\ session'[tx'[r]].conn = c => Works(r, c)
    /\ opening'[r] # None /\ session'[opening'[r]].conn = c => Works(r, c)

\* No Scratchpad works on a Connection it did not work on before.
NoNewWork == \A r \in Scratchpads : \A c \in Connections : Works(r, c)' => Works(r, c)

\* The gate sees the same of every lease.
SameLeases ==
  \A l \in Leases : /\ lease'[l].conn = lease[l].conn
                    /\ lease'[l].phase = "held" <=> lease[l].phase = "held"

\* The gate seen from the manager, action by action.
LEMMA StopWorkStep ==
  ASSUME NoNewWork, SameLeases
  PROVE  Gate!StopWork
  BY DEF NoNewWork, SameLeases, Gate!StopWork

\* A chain that lost its head, or got an operation without a Connection, adds no work.
LEMMA ChainsAddNoWork ==
  ASSUME ChainInv, ConstantsAssumption, DataWorks,
         \A r \in Scratchpads :
           \/ queue'[r] = queue[r]
           \/ queue[r] # <<>> /\ queue'[r] = Tail(queue[r])
           \/ \E op \in Operation : op.conn = None /\ queue'[r] = Append(queue[r], op)
  PROVE  NoNewWork
  <1> SUFFICES ASSUME NEW r \in Scratchpads, NEW c \in Connections, Works(r, c)'
               PROVE  Works(r, c)
    BY DEF NoNewWork
  <1>1. queue[r] \in Seq(Operation)
    BY InvParts DEF Chains, ChainTypes
  <1>2. c # None
    BY DEF ConstantsAssumption
  <1>3. ASSUME NEW i \in DOMAIN queue'[r], queue'[r][i].conn = c
        PROVE  \E j \in DOMAIN queue[r] : queue[r][j].conn = c
    <2>1. CASE queue'[r] = queue[r]
      BY <1>3, <2>1
    <2>2. CASE queue[r] # <<>> /\ queue'[r] = Tail(queue[r])
      <3>1. i \in DOMAIN Tail(queue[r]) /\ Tail(queue[r])[i].conn = c
        BY <1>3, <2>2
      <3>2. i + 1 \in DOMAIN queue[r] /\ Tail(queue[r])[i] = queue[r][i + 1]
        BY <1>1, <2>2, <3>1, TailIndex
      <3> QED BY <3>1, <3>2
    <2>3. CASE \E op \in Operation : op.conn = None /\ queue'[r] = Append(queue[r], op)
      <3>1. PICK op \in Operation : op.conn = None /\ queue'[r] = Append(queue[r], op)
        BY <2>3
      <3>2. i \in 1..(Len(queue[r]) + 1) /\ DOMAIN queue[r] = 1..Len(queue[r])
            /\ Len(queue[r]) \in Nat
        BY <1>1, <1>3, <3>1, AppendIndex
      <3>3. CASE i = Len(queue[r]) + 1
        BY <1>1, <1>2, <1>3, <3>1, <3>3, AppendIndex
      <3>4. CASE i \in 1..Len(queue[r])
        BY <1>1, <1>3, <3>1, <3>2, <3>4, AppendIndex
      <3> QED BY <3>2, <3>3, <3>4, UpToSuccessor
    <2> QED BY <2>1, <2>2, <2>3
  <1>4. CASE \E i \in DOMAIN queue'[r] : queue'[r][i].conn = c
    BY <1>3, <1>4 DEF Works
  <1>5. CASE \/ tx'[r] # None /\ session'[tx'[r]].conn = c
             \/ opening'[r] # None /\ session'[opening'[r]].conn = c
    BY <1>5 DEF DataWorks
  <1> QED BY <1>4, <1>5 DEF Works

LEMMA KeptDataWorks ==
  ASSUME DataKept, DataTypes, DataTypes', ConstantsAssumption
  PROVE  DataWorks
  BY DEF DataKept, DataTypes, DataWorks, Works, ConstantsAssumption

\* What the moves of a chain do to its operations and to the leases.
LEMMA SettleMoves ==
  ASSUME ChainInv, NEW s \in Scratchpads, queue[s] # <<>>, Settle(s)
  PROVE  /\ \A r \in Scratchpads : \/ queue'[r] = queue[r]
                                   \/ queue[r] # <<>> /\ queue'[r] = Tail(queue[r])
         /\ SameLeases
  <1>1. Chains
    BY InvParts
  <1>2. \A r \in Scratchpads : \/ queue'[r] = queue[r]
                               \/ queue[r] # <<>> /\ queue'[r] = Tail(queue[r])
    BY <1>1 DEF Settle, Chains, ChainTypes
  <1>3. Head(queue[s]).kind = "settle" => /\ Head(queue[s]).by \in Leases
                                          /\ lease[Head(queue[s]).by].phase = "settling"
    <2>1. Head(queue[s]) = queue[s][1] /\ 1 \in DOMAIN queue[s]
      BY <1>1, TailIndex DEF Chains, ChainTypes
    <2> QED BY <1>1, <2>1 DEF Chains, QueueOK
  <1>4. \A l \in Leases :
          /\ lease'[l].conn = lease[l].conn
          /\ lease'[l].phase = IF Head(queue[s]).kind = "settle" /\ Head(queue[s]).by = l
                                 THEN "rolling" ELSE lease[l].phase
    BY DEF Settle
  <1>5. SameLeases
    BY <1>3, <1>4 DEF SameLeases
  <1> QED BY <1>2, <1>5

LEMMA SettleStops ==
  ASSUME ChainInv, ConstantsAssumption, DataWorks,
         NEW s \in Scratchpads, queue[s] # <<>>, Settle(s)
  PROVE  Gate!StopWork
  <1>1. /\ \A r \in Scratchpads : \/ queue'[r] = queue[r]
                                  \/ queue[r] # <<>> /\ queue'[r] = Tail(queue[r])
        /\ SameLeases
    BY SettleMoves
  <1>2. NoNewWork
    BY <1>1, ChainsAddNoWork
  <1> QED BY <1>1, <1>2, StopWorkStep

\* A step that leaves the chains and the leases as they are.
LEMMA StillStops ==
  ASSUME ChainInv, ConstantsAssumption, DataWorks, UNCHANGED <<queue, lease>>
  PROVE  Gate!StopWork
  <1>1. NoNewWork
    BY ChainsAddNoWork
  <1>2. SameLeases
    BY DEF SameLeases
  <1> QED BY <1>1, <1>2, StopWorkStep

\* A step that leaves Transactions and sessions alone.
LEMMA UnchangedDataWorks ==
  ASSUME UNCHANGED <<tx, opening, session>>
  PROVE  DataWorks
  BY DEF DataWorks, Works

-----------------------------------------------------------------------------
(* What an operation does at its turn never starts work *)

\* At its turn an operation settles or goes on.
LEMMA TurnMoves ==
  ASSUME ChainInv, NEW s \in Scratchpads, Turn(s)
  PROVE  queue[s] # <<>> /\ (Settle(s) \/ UNCHANGED <<queue, lease>>)
  <1>1. phase[s] # "waiting" => queue[s] # <<>>
    BY PhaseKinds, InvParts
  <1>2. CASE \/ StartExecute(s) \/ ConnectFails(s) \/ ActionSucceeds(s) \/ ActionThrows(s)
             \/ StartResolve(s) \/ NothingToResolve(s) \/ Answer(s) \/ Ended(s) \/ Mutate(s)
    BY <1>1, <1>2 DEF StartExecute, ConnectFails, ActionSucceeds, ActionThrows, StartResolve,
                      NothingToResolve, Answer, Ended, Mutate, GoOn, AtTurn
  <1>3. CASE \/ BeginFails(s) \/ ActionFails(s) \/ CommitSucceeds(s) \/ CommitFails(s)
             \/ RollbackSucceeds(s) \/ RollbackFails(s)
    BY <1>1, <1>3 DEF BeginFails, ActionFails, CommitSucceeds, CommitFails, RollbackSucceeds,
                      RollbackFails, CloseTransaction, GoOn, AtTurn
  <1>4. CASE BeginSucceeds(s) \/ \E k \in Clients : ConnectSucceeds(s, k)
    BY <1>4 DEF BeginSucceeds, ConnectSucceeds, GoOn, AtTurn
  <1> QED BY <1>2, <1>3, <1>4 DEF Turn

LEMMA PlainTurnStops ==
  ASSUME ChainInv, ConstantsAssumption, NEW s \in Scratchpads,
         \/ StartExecute(s) \/ ConnectFails(s) \/ ActionSucceeds(s) \/ ActionThrows(s)
         \/ StartResolve(s) \/ NothingToResolve(s) \/ Answer(s) \/ Ended(s) \/ Mutate(s)
  PROVE  Gate!StopWork
  <1>1. DataWorks
    <2>1. UNCHANGED <<tx, opening, session>>
      BY DEF StartExecute, ConnectFails, ActionSucceeds, ActionThrows, StartResolve,
             NothingToResolve, Answer, Ended, Mutate
    <2> QED BY <2>1, UnchangedDataWorks
  <1> QED BY <1>1, TurnMoves, SettleStops, StillStops DEF Turn

\* The session that has been opened is that of an execution already accepted.
LEMMA ConnectStops ==
  ASSUME ChainInv, ConstantsAssumption, NEW s \in Scratchpads,
         NEW k \in Clients, ConnectSucceeds(s, k)
  PROVE  Gate!StopWork
  <1>1. Chains /\ DataTypes
    BY InvParts
  <1>2. /\ queue[s] # <<>> /\ Forgotten(k)
        /\ session' = [session EXCEPT ![k] =
             [state |-> IF accepting THEN "open" ELSE "ending", conn |-> Head(queue[s]).conn,
              status |-> "in-progress", pg |-> "none"]]
        /\ opening' = [opening EXCEPT ![s] = IF accepting THEN k ELSE None]
        /\ UNCHANGED <<queue, lease, tx>>
    BY DEF ConnectSucceeds, AtTurn, GoOn
  <1>3. session'[k].conn = Head(queue[s]).conn
        /\ \A j \in Clients : j # k => session'[j] = session[j]
    BY <1>1, <1>2 DEF DataTypes
  <1>4. \E i \in DOMAIN queue[s] : queue[s][i].conn = Head(queue[s]).conn
    BY <1>1, <1>2, TailIndex DEF Chains, ChainTypes
  <1>5. ASSUME NEW r \in Scratchpads, NEW c \in Connections
        PROVE  /\ tx'[r] # None /\ session'[tx'[r]].conn = c => Works(r, c)
               /\ opening'[r] # None /\ session'[opening'[r]].conn = c => Works(r, c)
    <2>1. tx[r] # k /\ opening[r] # k
      BY <1>2 DEF Forgotten
    <2>2. tx'[r] # None /\ session'[tx'[r]].conn = c => Works(r, c)
      BY <1>1, <1>2, <1>3, <2>1 DEF DataTypes, Works
    <2>3. CASE r = s
      BY <1>1, <1>2, <1>3, <1>4, <2>2, <2>3 DEF DataTypes, Works
    <2>4. CASE r # s
      BY <1>1, <1>2, <1>3, <2>1, <2>2, <2>4 DEF DataTypes, Works
    <2> QED BY <2>3, <2>4
  <1>6. DataWorks
    BY <1>5 DEF DataWorks
  <1> QED BY <1>2, <1>6, StillStops

\* The Transaction that begins is that of the execution at its turn.
LEMMA BeginStops ==
  ASSUME ChainInv, ConstantsAssumption, NEW s \in Scratchpads, BeginSucceeds(s)
  PROVE  Gate!StopWork
  <1>1. Chains /\ DataTypes /\ CurOK(s)
    BY InvParts
  <1>2. /\ queue[s] # <<>> /\ phase[s] = "beginning"
        /\ session' = [session EXCEPT ![cur[s]].pg = "active"]
        /\ opening' = [opening EXCEPT ![s] = None]
        /\ tx' = [tx EXCEPT ![s] = cur[s]]
        /\ UNCHANGED <<queue, lease>>
    BY DEF BeginSucceeds, AtTurn, GoOn
  <1>3. \A j \in Clients : session'[j].conn = session[j].conn
    BY <1>1, <1>2 DEF DataTypes, Session
  <1>4. \E i \in DOMAIN queue[s] : queue[s][i].conn = Head(queue[s]).conn
    BY <1>1, <1>2, TailIndex DEF Chains, ChainTypes
  <1>5. cur[s] \in Clients /\ session[cur[s]].conn \in {Head(queue[s]).conn, None}
    BY <1>1, <1>2 DEF CurOK
  <1>6. ASSUME NEW r \in Scratchpads, NEW c \in Connections
        PROVE  /\ tx'[r] # None /\ session'[tx'[r]].conn = c => Works(r, c)
               /\ opening'[r] # None /\ session'[opening'[r]].conn = c => Works(r, c)
    <2>1. c # None
      BY DEF ConstantsAssumption
    <2>2. opening'[r] \in {opening[r], None} /\ opening[r] \in Clients \cup {None}
      BY <1>1, <1>2 DEF DataTypes
    <2>3. opening'[r] # None /\ session'[opening'[r]].conn = c => Works(r, c)
      BY <1>3, <2>2 DEF Works
    <2>4. CASE r = s
      BY <1>1, <1>2, <1>3, <1>4, <1>5, <2>1, <2>3, <2>4 DEF DataTypes, Works
    <2>5. CASE r # s
      BY <1>1, <1>2, <1>3, <2>3, <2>5 DEF DataTypes, Works
    <2> QED BY <2>4, <2>5
  <1>7. DataWorks
    BY <1>6 DEF DataWorks
  <1> QED BY <1>2, <1>7, StillStops

\* The steps that change what a session holds, but neither its Connection nor its Scratchpad.
LEMMA SessionTurnStops ==
  ASSUME ChainInv, ConstantsAssumption, NEW s \in Scratchpads,
         \/ BeginFails(s) \/ ActionFails(s) \/ CommitSucceeds(s) \/ CommitFails(s)
         \/ RollbackSucceeds(s) \/ RollbackFails(s)
  PROVE  Gate!StopWork
  <1>1. Chains /\ DataTypes
    BY InvParts
  <1>2. CallsInv
    BY DEF ChainInv
  <1>3. DataTypes'
    <2>1. Keeps
      BY <1>2, BeginFailsKeepsInv, ActionFailsKeepsInv, CommitSucceedsKeepsInv,
         CommitFailsKeepsInv, RollbackKeepsInv
    <2> QED BY <2>1 DEF Keeps, CallsInv, TypeOK, DataTypes
  <1>4. \A k \in Clients : session'[k].conn = session[k].conn
    <2>1. CASE ActionFails(s)
      <3> SUFFICES ASSUME NEW k \in Clients
                   PROVE  session'[k].conn = session[k].conn
        OBVIOUS
      <3>1. session[k] \in Session
        BY <1>1 DEF DataTypes
      <3>2. \E status \in {session[k].status, "failed"}, pg \in {session[k].pg, "aborted"} :
              session'[k] = [session[k] EXCEPT !.status = status, !.pg = pg]
        BY <2>1 DEF ActionFails
      <3> QED BY <3>1, <3>2 DEF Session
    <2>2. CASE BeginFails(s)
      BY <1>1, <2>2 DEF BeginFails, DataTypes, Session
    <2>3. CASE CommitFails(s)
      BY <1>1, <2>3 DEF CommitFails, DataTypes, Session
    <2>4. ASSUME NEW p, NEW outcome, CloseTransaction(s, p, outcome)
          PROVE  \A k \in Clients : session'[k].conn = session[k].conn
      BY <1>1, <2>4 DEF CloseTransaction, DataTypes, Session
    <2>5. CASE RollbackSucceeds(s) \/ RollbackFails(s)
      BY <2>4, <2>5 DEF RollbackSucceeds, RollbackFails
    <2>6. CASE CommitSucceeds(s)
      <3>1. CASE Failed(cur[s])
        BY <1>1, <2>6, <3>1 DEF CommitSucceeds, DataTypes, Session
      <3>2. CASE ~Failed(cur[s])
        BY <2>4, <2>6, <3>2 DEF CommitSucceeds
      <3> QED BY <3>1, <3>2
    <2> QED BY <2>1, <2>2, <2>3, <2>5, <2>6
  <1>5. \A r \in Scratchpads : tx'[r] \in {tx[r], None} /\ opening'[r] \in {opening[r], None}
    BY <1>1 DEF BeginFails, ActionFails, CommitSucceeds, CommitFails, RollbackSucceeds,
                RollbackFails, CloseTransaction, DataTypes
  <1>6. DataWorks
    BY <1>1, <1>3, <1>4, <1>5, KeptDataWorks DEF DataKept
  <1> QED BY <1>6, TurnMoves, SettleStops, StillStops DEF Turn

LEMMA TurnStops ==
  ASSUME ChainInv, ConstantsAssumption, NEW s \in Scratchpads, Turn(s)
  PROVE  Gate!StopWork
  BY PlainTurnStops, ConnectStops, BeginStops, SessionTurnStops DEF Turn

-----------------------------------------------------------------------------
(* Calls, leases, shutdown and PostgreSQL *)

\* An execution starts work, on a Connection no lease names: its refusals are counted, and none is.
LEMMA ExecuteStarts ==
  ASSUME ChainInv, IdleLeases, ConstantsAssumption, NEW s \in Scratchpads, NEW b \in Cells,
         NEW c \in Connections, Execute(s, c, b)
  PROVE  Gate!StartWork(s, c)
  <1> DEFINE op == Op("execute", c, None, b)
  <1>1. Chains
    BY InvParts
  <1>2. op \in Operation /\ op.conn = c
    BY OpFields DEF OpKinds
  <1>3. /\ blockedConns[c] = 0
        /\ queue' = [queue EXCEPT ![s] = Append(@, op)]
        /\ UNCHANGED <<tx, opening, session, lease>>
    BY DEF Execute, RunExclusive
  <1>4. \A l \in Leases : lease[l].conn # c
    <2> SUFFICES ASSUME NEW l \in Leases, lease[l].conn = c
                 PROVE  FALSE
      OBVIOUS
    <2>1. lease[l].phase # "idle"
      BY <1>2 DEF IdleLeases, ConstantsAssumption
    <2>2. l \in LeasesOn(c)
      BY <2>1 DEF LeasesOn
    <2>3. Cardinality(LeasesOn(c)) = 0
      BY <1>1, <1>2, <1>3 DEF Chains, RefusalsBalance
    <2>4. LeasesOn(c) = {}
      BY <2>3, LeasesOnFinite, FS_EmptySet
    <2> QED BY <2>2, <2>4
  <1>5. \A r \in Scratchpads : \A d \in Connections :
          Works(r, d)' <=> Works(r, d) \/ (r = s /\ d = c)
    <2> SUFFICES ASSUME NEW r \in Scratchpads, NEW d \in Connections
                 PROVE  (\E i \in DOMAIN queue'[r] : queue'[r][i].conn = d)
                          <=> (\E i \in DOMAIN queue[r] : queue[r][i].conn = d)
                              \/ (r = s /\ d = c)
      BY <1>3 DEF Works
    <2>1. CASE r # s
      BY <1>1, <1>3, <2>1 DEF Chains, ChainTypes
    <2>2. CASE r = s
      <3>1. queue'[s] = Append(queue[s], op) /\ queue[s] \in Seq(Operation)
        BY <1>1, <1>3 DEF Chains, ChainTypes
      <3>2. /\ DOMAIN queue[s] = 1..Len(queue[s]) /\ Len(queue[s]) \in Nat
            /\ DOMAIN queue'[s] = 1..(Len(queue[s]) + 1)
            /\ \A i \in DOMAIN queue[s] : queue'[s][i] = queue[s][i]
            /\ queue'[s][Len(queue[s]) + 1] = op
        BY <1>2, <3>1, AppendIndex
      <3>3. \A i \in DOMAIN queue'[s] : i \in DOMAIN queue[s] \/ i = Len(queue[s]) + 1
        BY <3>2, UpToSuccessor
      <3>4. \A i \in DOMAIN queue[s] : i \in DOMAIN queue'[s]
        BY <3>2
      <3>5. Len(queue[s]) + 1 \in DOMAIN queue'[s]
        BY <3>2
      <3> QED BY <1>2, <2>2, <3>2, <3>3, <3>4, <3>5
    <2> QED BY <2>1, <2>2
  <1> QED BY <1>2, <1>3, <1>4, <1>5 DEF Gate!StartWork

\* Every other call queues an operation that works on no Connection, or none at all.
LEMMA OtherCallStops ==
  ASSUME ChainInv, ConstantsAssumption, NEW s \in Scratchpads,
         \/ \E kind \in {"commit", "rollback"} : Resolve(s, kind)
         \/ CloseScratchpad(s)
         \/ \E h \in Changers : ChangeScratchpad(s, h)
         \/ \E c \in Connections : MarkFailed(s, c)
  PROVE  Gate!StopWork
  <1>1. Chains /\ DataTypes
    BY InvParts
  <1>2. ASSUME NEW c \in Connections, MarkFailed(s, c) PROVE Gate!StopWork
    <2>1. /\ session' = [session EXCEPT ![tx[s]].status = "failed"]
          /\ UNCHANGED <<queue, lease, tx, opening>>
      BY <1>2 DEF MarkFailed, chainVars
    <2>2. \A k \in Clients : session'[k].conn = session[k].conn
      BY <1>1, <2>1 DEF DataTypes, Session
    <2>3. DataWorks
      BY <1>1, <2>1, <2>2 DEF DataTypes, DataWorks, Works
    <2> QED BY <2>1, <2>3, StillStops
  <1>3. ASSUME NEW op \in Operation, RunExclusive(s, op), op.conn = None,
               UNCHANGED <<tx, opening, session, lease>>
        PROVE  Gate!StopWork
    <2>1. queue' = [queue EXCEPT ![s] = Append(@, op)]
      BY <1>3 DEF RunExclusive
    <2>2. \A r \in Scratchpads : \/ queue'[r] = queue[r]
                                 \/ op.conn = None /\ queue'[r] = Append(queue[r], op)
      BY <1>1, <1>3, <2>1 DEF Chains, ChainTypes
    <2>3. DataWorks
      BY <1>3, UnchangedDataWorks
    <2>4. NoNewWork
      BY <2>2, <2>3, ChainsAddNoWork
    <2>5. SameLeases
      BY <1>3 DEF SameLeases
    <2> QED BY <2>4, <2>5, StopWorkStep
  <1>4. ASSUME NEW kind \in {"commit", "rollback"}, Resolve(s, kind) PROVE Gate!StopWork
    <2>1. Op(kind, None, None, None) \in Operation /\ Op(kind, None, None, None).conn = None
      BY OpFields DEF OpKinds
    <2> QED BY <1>3, <1>4, <2>1 DEF Resolve
  <1>5. CASE CloseScratchpad(s)
    <2>1. Op("close", None, None, None) \in Operation /\ Op("close", None, None, None).conn = None
      BY OpFields DEF OpKinds
    <2> QED BY <1>3, <1>5, <2>1 DEF CloseScratchpad
  <1>6. ASSUME NEW h \in Changers, ChangeScratchpad(s, h) PROVE Gate!StopWork
    <2>1. Op("change", None, None, h) \in Operation /\ Op("change", None, None, h).conn = None
      BY OpFields DEF OpKinds
    <2> QED BY <1>3, <1>6, <2>1 DEF ChangeScratchpad
  <1> QED BY <1>2, <1>4, <1>5, <1>6

LEMMA AskStep ==
  ASSUME ChainInv, IdleLeases, NEW l \in Leases, NEW c \in Connections, Acquire(l, c)
  PROVE  Gate!Ask(l, c)
  <1>1. lease \in [Leases -> Lease]
    BY InvParts DEF Chains, ChainTypes
  <1>2. lease[l].phase = "idle" /\ lease[l].conn = None
    BY DEF Acquire, IdleLeases
  <1>3. /\ \A m \in Leases : m # l => lease'[m] = lease[m]
        /\ lease'[l].conn = c /\ lease'[l].phase = "draining"
        /\ UNCHANGED <<queue, tx, opening, session>>
    BY <1>1 DEF Acquire
  <1>4. \A r \in Scratchpads : \A d \in Connections : Works(r, d)' <=> Works(r, d)
    BY <1>3 DEF Works
  <1>5. \A m \in Leases : /\ lease'[m].conn = IF m = l THEN c ELSE lease[m].conn
                          /\ lease'[m].phase = "held" <=> lease[m].phase = "held"
    BY <1>2, <1>3
  <1> QED BY <1>2, <1>4, <1>5 DEF Gate!Ask

\* Nobody works on the Connection of a lease that is granted.
LEMMA AllowStep ==
  ASSUME ChainInv, ConstantsAssumption, NEW l \in Leases, Grant(l)
  PROVE  Gate!Allow(l)
  <1>1. Chains /\ (\A s \in Scratchpads : CurOK(s)) /\ LeaseOK
    BY InvParts
  <1>2. lease \in [Leases -> Lease]
    BY <1>1 DEF Chains, ChainTypes
  <1>3. lease[l].phase = "rolling" /\ lease[l].todo = {} /\ lease[l].conn \in Connections
    BY <1>1 DEF Grant, Chains, LeasesNamed
  <1>4. /\ \A m \in Leases : m # l => lease'[m] = lease[m]
        /\ lease'[l].conn = lease[l].conn /\ lease'[l].phase = "held"
        /\ UNCHANGED <<queue, tx, opening, session>>
    BY <1>2 DEF Grant, Lease
  <1>5. ASSUME NEW s \in Scratchpads PROVE ~Works(s, lease[l].conn)
    <2>1. /\ \A i \in DOMAIN queue[s] : queue[s][i].conn # lease[l].conn
          /\ tx[s] # None => session[tx[s]].conn # lease[l].conn
      BY <1>1, <1>3 DEF LeaseOK
    <2>2. ASSUME opening[s] # None PROVE session[opening[s]].conn # lease[l].conn
      <3>1. phase[s] = "beginning" /\ session[opening[s]].conn \in {Head(queue[s]).conn, None}
        BY <1>1, <2>2 DEF CurOK
      <3>2. 1 \in DOMAIN queue[s] /\ Head(queue[s]) = queue[s][1]
        BY <1>1, <3>1, PhaseKinds, TailIndex DEF Chains, ChainTypes
      <3> QED BY <1>3, <2>1, <3>1, <3>2 DEF ConstantsAssumption
    <2> QED BY <2>1, <2>2 DEF Works
  <1>6. \A r \in Scratchpads : \A d \in Connections : Works(r, d)' <=> Works(r, d)
    BY <1>4 DEF Works
  <1>7. lease[l].conn # None
    BY <1>3 DEF ConstantsAssumption
  <1>8. \A m \in Leases : /\ lease'[m].conn = lease[m].conn
                          /\ lease'[m].phase = "held" <=> lease[m].phase = "held" \/ m = l
    BY <1>4
  <1> QED BY <1>3, <1>5, <1>6, <1>7, <1>8 DEF Gate!Allow

LEMMA WithdrawStep ==
  ASSUME ChainInv, ConstantsAssumption, NEW l \in Leases, Release(l)
  PROVE  Gate!Withdraw(l)
  <1>1. lease \in [Leases -> Lease] /\ lease[l].conn \in Connections
    <2>1. lease[l].phase # "idle"
      BY DEF Release
    <2> QED BY <2>1, InvParts DEF Chains, ChainTypes, LeasesNamed
  <1>2. /\ \A m \in Leases : m # l => lease'[m] = lease[m]
        /\ lease'[l].conn = None /\ lease'[l].phase = "idle"
        /\ UNCHANGED <<queue, tx, opening, session>>
    BY <1>1 DEF Release, IdleLease
  <1>3. \A r \in Scratchpads : \A d \in Connections : Works(r, d)' <=> Works(r, d)
    BY <1>2 DEF Works
  <1>4. \A m \in Leases :
          /\ lease'[m].conn = IF m = l THEN None ELSE lease[m].conn
          /\ lease'[m].phase = "held" <=> lease[m].phase = "held" /\ m # l
    BY <1>2
  <1>5. lease[l].conn # None
    BY <1>1 DEF ConstantsAssumption
  <1> QED BY <1>3, <1>4, <1>5 DEF Gate!Withdraw

\* A lease that waits or rolls back lets no work in.
LEMMA WaitingLeaseStops ==
  ASSUME ChainInv, ConstantsAssumption, NEW l \in Leases, Drained(l) \/ RollNext(l)
  PROVE  Gate!StopWork
  <1>1. lease \in [Leases -> Lease] /\ queue \in [Scratchpads -> Seq(Operation)]
    BY InvParts DEF Chains, ChainTypes
  <1>2. SameLeases
    <2>1. CASE Drained(l)
      BY <1>1, <2>1 DEF Drained, SameLeases, Lease
    <2>2. CASE RollNext(l)
      <3>1. lease[l].phase = "rolling" /\ lease' = [lease EXCEPT ![l].phase = "settling"]
        BY <2>2 DEF RollNext
      <3> QED BY <1>1, <3>1 DEF SameLeases, Lease
    <2> QED BY <2>1, <2>2
  <1>3. DataWorks
    <2>1. UNCHANGED <<tx, opening, session>>
      BY DEF Drained, RollNext
    <2> QED BY <2>1, UnchangedDataWorks
  <1>4. CASE Drained(l)
    <2>1. UNCHANGED queue
      BY <1>4 DEF Drained
    <2> QED BY <1>2, <1>3, <2>1, ChainsAddNoWork, StopWorkStep
  <1>5. CASE RollNext(l)
    <2>1. PICK todo \in lease[l].todo : RunExclusive(todo[1], Op("settle", None, todo[2], l))
      BY <1>5 DEF RollNext
    <2>2. todo[1] \in Scratchpads /\ todo[2] \in Clients
      BY <1>1, <2>1 DEF Lease
    <2>3. /\ Op("settle", None, todo[2], l) \in Operation
          /\ Op("settle", None, todo[2], l).conn = None
      BY <2>2, OpFields DEF OpKinds
    <2>4. \A r \in Scratchpads :
            \/ queue'[r] = queue[r]
            \/ \E op \in Operation : op.conn = None /\ queue'[r] = Append(queue[r], op)
      BY <1>1, <2>1, <2>3 DEF RunExclusive
    <2>5. NoNewWork
      BY <1>3, <2>4, ChainsAddNoWork
    <2> QED BY <1>2, <2>5, StopWorkStep
  <1> QED BY <1>4, <1>5

\* Shutdown, and the end or the loss of a session, only ever end work.
LEMMA QuietStops ==
  ASSUME ChainInv, ConstantsAssumption,
         \/ BeginShutdown \/ ShutdownStep
         \/ \E k \in Clients : SessionEnds(k) \/ SessionLost(k)
  PROVE  Gate!StopWork
  <1>1. DataTypes' /\ DataKept /\ UNCHANGED <<chainVars, blockedConns>>
    BY ShutdownData, PostgresData DEF ChainInv
  <1>2. DataTypes
    BY InvParts
  <1>3. DataWorks
    BY <1>1, <1>2, KeptDataWorks
  <1>4. UNCHANGED <<queue, lease>>
    BY <1>1 DEF chainVars
  <1> QED BY <1>3, <1>4, StillStops

-----------------------------------------------------------------------------
(* The refinement *)

\* A lease is idle only before it is asked for and after it is released.
LEMMA IdleLeasesKept ==
  ASSUME ChainInv, IdleLeases, ConstantsAssumption, [Next]_vars
  PROVE  IdleLeases'
  <1>1. lease \in [Leases -> Lease]
    BY InvParts DEF Chains, ChainTypes
  <1>2. ASSUME UNCHANGED lease PROVE IdleLeases'
    BY <1>2 DEF IdleLeases
  <1>3. ASSUME NEW s \in Scratchpads, Call(s) PROVE IdleLeases'
    <2>1. UNCHANGED lease
      BY <1>3 DEF Call, Execute, Resolve, CloseScratchpad, ChangeScratchpad, MarkFailed, chainVars
    <2> QED BY <1>2, <2>1
  <1>4. ASSUME NEW s \in Scratchpads, Turn(s) PROVE IdleLeases'
    <2>1. CASE Settle(s)
      BY <2>1 DEF Settle, IdleLeases
    <2> QED BY <1>2, <1>4, <2>1, TurnMoves
  <1>5. ASSUME NEW l \in Leases,
               \/ Drained(l) \/ RollNext(l) \/ Grant(l) \/ Release(l)
               \/ \E c \in Connections : Acquire(l, c)
        PROVE  IdleLeases'
    <2>1. \A m \in Leases : m # l => lease'[m] = lease[m]
      BY <1>1, <1>5 DEF Drained, RollNext, Grant, Release, Acquire
    <2>2. CASE Release(l)
      BY <1>1, <2>1, <2>2 DEF Release, IdleLease, IdleLeases
    <2>3. CASE Drained(l) \/ RollNext(l) \/ Grant(l) \/ \E c \in Connections : Acquire(l, c)
      <3>1. lease'[l].phase # "idle"
        BY <1>1, <2>3 DEF Drained, RollNext, Grant, Acquire, Lease
      <3> QED BY <2>1, <3>1 DEF IdleLeases
    <2> QED BY <1>5, <2>2, <2>3
  <1>6. CASE \/ BeginShutdown \/ ShutdownStep
             \/ \E k \in Clients : SessionEnds(k) \/ SessionLost(k)
    <2>1. UNCHANGED lease
      BY <1>6, ShutdownData, PostgresData DEF chainVars, ChainInv
    <2> QED BY <1>2, <2>1
  <1>7. CASE Stopped \/ UNCHANGED vars
    BY <1>2, <1>7 DEF Stopped, vars
  <1> QED BY <1>3, <1>4, <1>5, <1>6, <1>7 DEF Next, LeaseStep

\* Every step of the manager is a step of the gate, or leaves the gate as it is.
LEMMA NextIsGate ==
  ASSUME ChainInv, IdleLeases, ConstantsAssumption, [Next]_vars
  PROVE  [Gate!GateNext]_(Gate!gateVars)
  <1>1. ASSUME Gate!StopWork PROVE Gate!GateNext
    BY <1>1 DEF Gate!GateNext
  <1>2. ASSUME NEW s \in Scratchpads, Call(s) PROVE Gate!GateNext
    <2>1. ASSUME NEW c \in Connections, NEW b \in Cells, Execute(s, c, b) PROVE Gate!GateNext
      BY <2>1, ExecuteStarts DEF Gate!GateNext
    <2> QED BY <1>1, <1>2, <2>1, OtherCallStops DEF Call
  <1>3. ASSUME NEW s \in Scratchpads, Turn(s) PROVE Gate!GateNext
    BY <1>1, <1>3, TurnStops
  <1>4. ASSUME NEW l \in Leases, LeaseStep(l) PROVE Gate!GateNext
    BY <1>1, <1>4, AllowStep, WithdrawStep, WaitingLeaseStops DEF LeaseStep, Gate!GateNext
  <1>5. ASSUME NEW l \in Leases, NEW c \in Connections, Acquire(l, c) PROVE Gate!GateNext
    BY <1>5, AskStep DEF Gate!GateNext
  <1>6. CASE \/ BeginShutdown \/ ShutdownStep
             \/ \E k \in Clients : SessionEnds(k) \/ SessionLost(k)
    BY <1>1, <1>6, QuietStops
  <1>7. CASE Stopped \/ UNCHANGED vars
    <2>1. UNCHANGED <<queue, tx, opening, session, lease>>
      BY <1>7 DEF Stopped, vars
    <2>2. DataWorks
      BY <2>1, UnchangedDataWorks
    <2> QED BY <1>1, <2>1, <2>2, StillStops
  <1> QED BY <1>2, <1>3, <1>4, <1>5, <1>6, <1>7 DEF Next

\* Nobody works and nothing is asked for before any Scratchpad is opened.
LEMMA InitIsGate ==
  ASSUME Init, ConstantsAssumption
  PROVE  Gate!GateInit /\ IdleLeases
  BY DEF Init, IdleLease, IdleLeases, Works, Gate!GateInit

\* The manager implements the gate the Connections rely on, for any number of Scratchpads,
\* Connections, sessions, executions, changes and leases: work starts only on a Connection no
\* change has asked for, and a change is let in only once nobody works on its Connection
\* (execute, acquireConnectionChange).
THEOREM GateImplemented == Spec => ImplementsGate
  <1>1. Init => Gate!GateInit /\ IdleLeases
    BY InitIsGate, ConstantsAssumption
  <1>2. ChainInv /\ IdleLeases /\ [Next]_vars => IdleLeases'
    BY IdleLeasesKept, ConstantsAssumption
  <1>3. ChainInv /\ IdleLeases /\ [Next]_vars => [Gate!GateNext]_(Gate!gateVars)
    BY NextIsGate, ConstantsAssumption
  <1> QED BY <1>1, <1>2, <1>3, InvHolds, PTL DEF Spec, ImplementsGate, Gate!GateSpec

=============================================================================
