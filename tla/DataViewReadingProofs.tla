------------------------ MODULE DataViewReadingProofs ------------------------
(***************************************************************************)
(* What a Data View shows, for any number of loads, navigations and        *)
(* cancellations: proofs about DataViewReading.                            *)
(***************************************************************************)
EXTENDS DataViewReading, SequenceTheorems, TLAPS

\* The steps of a load that has taken the query's text and not shown its rows.
Reading == {"connecting", "probing", "probeEnding", "pageConnecting", "paging", "pageEnding"}

\* Before the query has its first text nothing is parsed, read or ready.
Blank ==
  initialized # "done" =>
    /\ status # "ready" /\ parses = <<>>
    /\ \A l \in Loads : pc[l] \notin Reading

\* Every text that awaits the parser is that of a call of its own.
Queued ==
  /\ \A i \in 1..Len(parses) : pc[parses[i].load] = "parsing"
  /\ \A i, j \in 1..Len(parses) : parses[i].load = parses[j].load => i = j

\* The text is blank, or analysed, or the last that the parser was asked for.
Analysed ==
  "unparsed" \notin upset =>
    \/ text = Empty
    \/ parses = <<>> /\ analysis = text
    \/ parses # <<>> /\ parses[Len(parses)].text = text

\* The latest load reads the query, with the analysis of its text.
ReadsTheQuery ==
  parses = <<>> /\ "unparsed" \notin upset =>
    \A l \in Loads : latest = l /\ pc[l] \in Reading =>
      text # Empty /\ sql[l] = [text |-> text, analysed |-> text]

ReadingInv == Blank /\ Queued /\ Analysed /\ ReadsTheQuery /\ RowsOfTheQuery

-----------------------------------------------------------------------------
(* Types *)

LEMMA TypesStart == Init => TypeOK
  <1> SUFFICES ASSUME Init PROVE TypeOK
    OBVIOUS
  <1>1. /\ pc \in [Actors -> Steps] /\ waits \in [Actors -> SUBSET Readers]
        /\ client \in [Readers -> {"none", "open", "ending"}]
        /\ cancelled \in [Loads -> BOOLEAN] /\ active \in [Loads -> Readers \cup {None}]
        /\ sql \in [Loads -> Rows \cup {None}] /\ failed \in [Readers -> BOOLEAN]
        /\ of \in [Moves -> Loads \cup {None}]
        /\ \A n \in Moves : pc[n] # "idle" => of[n] # None
    BY DEF Init, Steps, Actors
  <1>2. parses \in Seq([load: Loads, text: Texts])
    BY DEF Init
  <1>3. /\ {text, analysis} \subseteq Texts /\ shown \in Rows \cup {None}
        /\ latest \in Loads \cup Cancels \cup {None}
        /\ {session, pendingCancel} \subseteq Loads \cup {None}
        /\ {busy, disposed} \subseteq BOOLEAN /\ upset \subseteq {"overtaken", "unparsed"}
    BY ReadingAssumption DEF Init
  <1>4. initialized \in {"no", "running", "done", "failed"} /\ status \in {"loading", "ready", "error"}
    BY DEF Init
  <1> QED BY <1>1, <1>2, <1>3, <1>4 DEF TypeOK

LEMMA CloseTyped ==
  ASSUME TypeOK, CloseSession
  PROVE  /\ {session', pendingCancel'} \subseteq Loads \cup {None}
         /\ cancelled' \in [Loads -> BOOLEAN]
         /\ active' \in [Loads -> Readers \cup {None}]
         /\ client' \in [Readers -> {"none", "open", "ending"}]
  BY DEF TypeOK, CloseSession

LEMMA CloseAndWaitTyped ==
  ASSUME TypeOK, NEW a \in Actors, CloseAndWait(a)
  PROVE  /\ {session', pendingCancel'} \subseteq Loads \cup {None}
         /\ cancelled' \in [Loads -> BOOLEAN]
         /\ active' \in [Loads -> Readers \cup {None}]
         /\ client' \in [Readers -> {"none", "open", "ending"}]
         /\ pc' \in [Actors -> Steps]
         /\ waits' \in [Actors -> SUBSET Readers]
  <1>1. Ended \subseteq Readers
    BY ReadingAssumption DEF Ended, LetGo, ClientOf, TypeOK, Readers
  <1>2. {b \in Ended : client[b] # "none"} \in SUBSET Readers
    BY <1>1
  <1>3. waits' \in [Actors -> SUBSET Readers]
    BY <1>2 DEF CloseAndWait, TypeOK
  <1>4. pc' \in [Actors -> Steps]
    BY DEF CloseAndWait, TypeOK, Steps
  <1> QED BY <1>3, <1>4, CloseTyped DEF CloseAndWait

LEMMA BeginLoadTyped ==
  ASSUME TypeOK, NEW l \in Loads, BeginLoad(l),
         {text', analysis'} \subseteq Texts, parses' \in Seq([load: Loads, text: Texts]),
         initialized' \in {"no", "running", "done", "failed"}
  PROVE  TypeOK'
  <1>1. l \in Actors /\ l \notin Moves BY ReadingAssumption DEF Actors
  <1>2. \A n \in Moves : pc'[n] # "idle" => of'[n] # None
    BY <1>1 DEF BeginLoad, CloseAndWait, TypeOK, Actors
  <1> QED BY <1>1, <1>2, CloseAndWaitTyped DEF BeginLoad, TypeOK, viewVars

LEMMA ReturnTyped ==
  ASSUME TypeOK, NEW a \in Actors, Return(a)
  PROVE  /\ pc' \in [Actors -> Steps]
         /\ \A n \in Moves : pc'[n] # "idle" => of'[n] # None
         /\ sql' \in [Loads -> Rows \cup {None}]
         /\ failed' \in [Readers -> BOOLEAN]
         /\ of' \in [Moves -> Loads \cup {None}]
  BY DEF TypeOK, Return, Steps, Actors

LEMMA FailReadTyped ==
  ASSUME TypeOK, NEW a \in Readers, pc[a] # "idle", FailRead(a)
  PROVE  TypeOK'
  <1>0. a \in Actors BY DEF Readers, Actors
  <1>p. pc[a] # "idle" OBVIOUS
  <1>1. CASE a \notin Moves
    <2>1. a \in Loads /\ FailLoad(a) BY <1>1 DEF Readers, FailRead
    <2> QED BY <1>0, <2>1, ReturnTyped DEF FailLoad, Finally, TypeOK, queryVars
  <1>2. CASE a \in Moves
    <2>1. FailMove(a) BY <1>2 DEF FailRead
    <2>2. CASE session = of[a] /\ CloseAndWait(a)
               /\ UNCHANGED <<viewVars, queryVars, latest, sql, failed, of>>
      <3>1. \A n \in Moves : pc'[n] # "idle" => of'[n] # None
        BY <1>0, <1>2, <1>p, <2>2 DEF TypeOK, CloseAndWait, Actors
      <3> QED BY <1>0, <2>2, <3>1, CloseAndWaitTyped DEF TypeOK, viewVars, queryVars
    <2>3. CASE FinishMove(a)
      BY <1>0, <2>3, ReturnTyped DEF FinishMove, TypeOK, queryVars, holdVars
    <2> QED BY <2>1, <2>2, <2>3 DEF FailMove
  <1> QED BY <1>1, <1>2

LEMMA GoTyped ==
  ASSUME TypeOK, NEW a \in Readers, NEW to \in Steps, NEW c \in {"none", "open", "ending"},
         Go(a, to, c), pc[a] # "idle", UNCHANGED of
  PROVE  /\ pc' \in [Actors -> Steps]
         /\ client' \in [Readers -> {"none", "open", "ending"}]
         /\ \A n \in Moves : pc'[n] # "idle" => of'[n] # None
  BY DEF Go, TypeOK, Actors, Readers

\* The facts a step of a load or of a navigation keeps when the query's text and its parses stay.
LEMMA LoadGoesOnTyped ==
  ASSUME TypeOK, NEW l \in Loads, LoadGoesOn(l)
  PROVE  TypeOK'
  <1>0. l \in Actors /\ l \in Readers /\ l \notin Moves
    BY ReadingAssumption DEF Actors, Readers
  <1>f. ASSUME FailLoad(l), pc[l] # "idle" PROVE TypeOK'
    BY <1>0, <1>f, FailReadTyped DEF FailRead
  <1>1. CASE Started(l)
    <2>1. CASE BeginLoad(l)
      BY <1>1, <2>1, BeginLoadTyped DEF Started, TypeOK, queryVars
    <2>2. CASE /\ pc' = [pc EXCEPT ![l] = "idle"]
               /\ UNCHANGED <<viewVars, holdVars, latest, waits, client, sql, failed, of>>
      BY <1>0, <1>1, <2>2 DEF Started, TypeOK, Steps, queryVars, viewVars, holdVars
    <2> QED BY <1>1, <2>1, <2>2 DEF Started
  <1>2. CASE ResumeLoad(l)
    BY <1>0, <1>2 DEF ResumeLoad, EnsureInitialized, TypeOK, Steps, holdVars
  <1>3. CASE ShowNothing(l)
    BY <1>0, <1>3, ReturnTyped DEF ShowNothing, Finally, TypeOK, queryVars
  <1>4. CASE Open(l)
    <2>1. [text |-> text, analysed |-> analysis] \in Rows
      BY DEF TypeOK, Rows
    <2>2. Stale(l) \in BOOLEAN
      BY DEF Stale, TypeOK
    <2> QED BY <1>0, <1>4, <2>1, <2>2 DEF Open, TypeOK, Steps, queryVars, viewVars
  <1>5. CASE NotInitialized(l)
    BY <1>5, <1>f DEF NotInitialized
  <1>6. CASE Connected(l)
    <2>1. \E to \in {"failing", "probing"} : \E c \in {"open", "ending"} : Go(l, to, c)
      BY <1>6 DEF Connected
    <2>2. PICK to \in {"failing", "probing"} : \E c \in {"open", "ending"} : Go(l, to, c)
      BY <2>1
    <2>3. PICK c \in {"open", "ending"} : Go(l, to, c)
      BY <2>2
    <2>4. to \in Steps
      BY DEF Steps
    <2>5. pc[l] # "idle" /\ UNCHANGED <<viewVars, queryVars, holdVars, latest, waits, sql, failed, of>>
      BY <1>6 DEF Connected
    <2>6. /\ pc' \in [Actors -> Steps]
          /\ client' \in [Readers -> {"none", "open", "ending"}]
          /\ \A n \in Moves : pc'[n] # "idle" => of'[n] # None
      BY <1>0, <2>3, <2>4, <2>5, GoTyped
    <2> QED BY <2>5, <2>6 DEF TypeOK, queryVars, viewVars, holdVars
  <1>7. CASE ConnectionFails(l)
    BY <1>7, <1>f DEF ConnectionFails
  <1>8. CASE ProbeLost(l)
    BY <1>8, <1>f DEF ProbeLost
  <1>9. CASE ProbeEnded(l)
    <2>1. CASE FailLoad(l)
      BY <1>9, <2>1, <1>f DEF ProbeEnded
    <2>2. CASE /\ pc' = [pc EXCEPT ![l] = "pageConnecting"]
               /\ UNCHANGED <<viewVars, queryVars, holdVars, latest, waits, client, sql, failed, of>>
      BY <1>0, <2>2 DEF TypeOK, Steps, queryVars, viewVars, holdVars
    <2> QED BY <1>9, <2>1, <2>2 DEF ProbeEnded
  <1>10. CASE Show(l)
    BY <1>0, <1>10, ReturnTyped DEF Show, Finally, TypeOK, queryVars
  <1>11. CASE ShowFails(l)
    BY <1>11, <1>f DEF ShowFails
  <1> QED BY <1>1, <1>2, <1>3, <1>4, <1>5, <1>6, <1>7, <1>8, <1>9, <1>10, <1>11 DEF LoadGoesOn

LEMMA MoveGoesOnTyped ==
  ASSUME TypeOK, NEW n \in Moves, MoveGoesOn(n)
  PROVE  TypeOK'
  <1>0. n \in Actors /\ n \in Readers
    BY DEF Actors, Readers
  <1>1. CASE MoveShown(n)
    BY <1>0, <1>1, ReturnTyped DEF MoveShown, FinishMove, TypeOK, queryVars, holdVars
  <1>2. CASE ReadOn(n)
    BY <1>0, <1>2 DEF ReadOn, TypeOK, Steps, queryVars, viewVars, holdVars
  <1>3. CASE MoveFails(n)
    BY <1>0, <1>3, FailReadTyped DEF MoveFails, FailRead
  <1>4. CASE ResumeMove(n)
    BY <1>0, <1>4, ReturnTyped DEF ResumeMove, TypeOK, queryVars, holdVars
  <1> QED BY <1>1, <1>2, <1>3, <1>4 DEF MoveGoesOn

LEMMA PageReadTyped ==
  ASSUME TypeOK, NEW a \in Readers, NEW ok \in BOOLEAN, PageRead(a, ok)
  PROVE  TypeOK'
  <1>0. a \in Actors
    BY DEF Actors, Readers
  <1>1. active' \in [Loads -> Readers \cup {None}]
    BY DEF PageRead, TypeOK
  <1>2. pc[a] # "idle" /\ UNCHANGED of
    BY DEF PageRead
  <1>3. /\ pc' \in [Actors -> Steps]
        /\ client' \in [Readers -> {"none", "open", "ending"}]
        /\ \A n \in Moves : pc'[n] # "idle" => of'[n] # None
    BY <1>2, GoTyped DEF PageRead, Steps
  <1> QED BY <1>1, <1>3 DEF PageRead, TypeOK, queryVars, viewVars

LEMMA ReadGoesOnTyped ==
  ASSUME TypeOK, NEW a \in Readers, ReadGoesOn(a)
  PROVE  TypeOK'
  <1>0. a \in Actors
    BY DEF Actors, Readers
  <1>1. CASE PageConnected(a)
    <2>1. active' \in [Loads -> Readers \cup {None}]
      BY <1>1 DEF PageConnected, TypeOK
    <2>2. failed' \in [Readers -> BOOLEAN]
      <3>1. SourceOf(a) \in Loads
        BY <1>0, <1>1 DEF PageConnected, TypeOK, SourceOf, Readers
      <3> QED BY <1>1, <3>1 DEF PageConnected, TypeOK
    <2>3. pc[a] # "idle" /\ (Go(a, "pageEnding", "ending") \/ Go(a, "paging", "open"))
      BY <1>1 DEF PageConnected
    <2>4. UNCHANGED of
      BY <1>1 DEF PageConnected
    <2>5. /\ pc' \in [Actors -> Steps]
          /\ client' \in [Readers -> {"none", "open", "ending"}]
          /\ \A n \in Moves : pc'[n] # "idle" => of'[n] # None
      BY <2>3, <2>4, GoTyped DEF Steps
    <2> QED BY <1>1, <2>1, <2>2, <2>5 DEF PageConnected, TypeOK, queryVars, viewVars
  <1>2. CASE PageConnectionFails(a)
    BY <1>2, FailReadTyped DEF PageConnectionFails
  <1>3. CASE PageRead(a, FALSE)
    BY <1>3, PageReadTyped
  <1>4. CASE ClientEnds(a)
    BY <1>4 DEF ClientEnds, TypeOK, queryVars, viewVars, holdVars
  <1> QED BY <1>1, <1>2, <1>3, <1>4 DEF ReadGoesOn

\* The head of the parser's queue is taken off it.
LEMMA Dequeued ==
  ASSUME TypeOK, parses # <<>>
  PROVE  /\ Head(parses).load \in Loads /\ Head(parses).text \in Texts
         /\ Tail(parses) \in Seq([load: Loads, text: Texts])
  <1>1. parses \in Seq([load: Loads, text: Texts])
    BY DEF TypeOK
  <1>2. Head(parses) \in [load: Loads, text: Texts]
        /\ Tail(parses) \in Seq([load: Loads, text: Texts])
    BY <1>1, HeadTailProperties
  <1> QED BY <1>2

LEMMA AskedTyped ==
  ASSUME TypeOK, Asked
  PROVE  TypeOK'
  <1>1. ASSUME NEW l \in Loads, OpenView(l) PROVE TypeOK'
    BY <1>1, ReadingAssumption DEF OpenView, EnsureInitialized, TypeOK, Actors, Steps, viewVars, holdVars
  <1>2. ASSUME NEW l \in Loads, Refresh(l) PROVE TypeOK'
    BY <1>2, BeginLoadTyped DEF Refresh, TypeOK, queryVars
  <1>3. ASSUME NEW l \in Loads, NEW t \in Texts, ApplyText(l, t) PROVE TypeOK'
    <2>1. CASE t = Empty
      BY <1>3, <2>1, BeginLoadTyped DEF ApplyText, TypeOK
    <2>2. CASE t # Empty
      <3>1. [load |-> l, text |-> t] \in [load: Loads, text: Texts]
        OBVIOUS
      <3>2. parses' \in Seq([load: Loads, text: Texts])
        <4>1. parses' = Append(parses, [load |-> l, text |-> t])
          BY <1>3, <2>2 DEF ApplyText
        <4>2. parses \in Seq([load: Loads, text: Texts])
          BY DEF TypeOK
        <4> QED BY <3>1, <4>1, <4>2, AppendProperties
      <3>4. /\ text' = t /\ pc' = [pc EXCEPT ![l] = "parsing"]
            /\ UNCHANGED <<analysis, initialized, viewVars, holdVars, latest,
                           waits, client, sql, failed, of>>
        BY <1>3, <2>2 DEF ApplyText
      <3>3. l \in Actors /\ l \notin Moves
        BY ReadingAssumption DEF Actors
      <3> QED BY <3>2, <3>3, <3>4 DEF TypeOK, Steps, viewVars, holdVars
    <2> QED BY <2>1, <2>2
  <1>4. ASSUME NEW n \in Moves, Navigate(n) PROVE TypeOK'
    BY <1>4 DEF Navigate, TypeOK, Actors, Steps, queryVars, holdVars
  <1>5. ASSUME NEW c \in Cancels, Cancel(c) PROVE TypeOK'
    <2>1. c \in Actors
      BY DEF Actors
    <2>2. \A n \in Moves : pc'[n] # "idle" => of'[n] # None
      BY <1>5, ReadingAssumption DEF Cancel, CloseAndWait, TypeOK, Actors
    <2> QED BY <1>5, <2>1, <2>2, CloseAndWaitTyped DEF Cancel, TypeOK, queryVars, viewVars
  <1>6. CASE Dispose
    BY <1>6, CloseTyped DEF Dispose, TypeOK, queryVars
  <1>7. CASE Parsed
    <2>1. Head(parses).load \in Loads /\ analysis' \in Texts
          /\ parses' \in Seq([load: Loads, text: Texts])
      BY <1>7, Dequeued DEF Parsed
    <2> QED BY <1>7, <2>1, BeginLoadTyped DEF Parsed, TypeOK
  <1>8. CASE ParseFails
    <2>1. Head(parses).load \in Actors \ Moves /\ parses' \in Seq([load: Loads, text: Texts])
      BY <1>8, Dequeued, ReadingAssumption DEF ParseFails, Actors
    <2> QED BY <1>8, <2>1 DEF ParseFails, TypeOK, Steps, holdVars
  <1> QED BY <1>1, <1>2, <1>3, <1>4, <1>5, <1>6, <1>7, <1>8 DEF Asked

LEMMA TypesStep ==
  ASSUME TypeOK, [Next]_vars
  PROVE  TypeOK'
  <1>1. CASE UNCHANGED vars
    BY <1>1 DEF vars, TypeOK, queryVars, viewVars, holdVars, callVars
  <1>2. CASE Asked
    BY <1>2, AskedTyped
  <1>3. ASSUME NEW l \in Loads, Probed(l) \/ ProbeFails(l) PROVE TypeOK'
    <2>1. l \in Actors /\ l \in Readers /\ l \notin Moves
      BY ReadingAssumption DEF Actors, Readers
    <2>2. ASSUME NEW to \in {"failing", "probeEnding"}, Go(l, to, "ending"),
                 UNCHANGED <<viewVars, queryVars, holdVars, latest, waits, sql, failed, of>>
          PROVE  TypeOK'
      <3>1. to \in Steps /\ pc[l] # "idle"
        BY <1>3 DEF Steps, Probed, ProbeFails
      <3> QED BY <2>1, <2>2, <3>1, GoTyped DEF TypeOK, queryVars, viewVars, holdVars
    <2> QED BY <1>3, <2>2 DEF Probed, ProbeFails
  <1>4. ASSUME NEW a \in Readers, PageRead(a, TRUE) \/ PageRead(a, FALSE) PROVE TypeOK'
    BY <1>4, PageReadTyped
  <1>5. CASE Initialized \/ InitializationFails
    <2>1. {text', analysis'} \subseteq Texts /\ initialized' \in {"no", "running", "done", "failed"}
          /\ UNCHANGED <<parses, viewVars, holdVars, callVars, latest>>
      BY <1>5 DEF Initialized, InitializationFails, TypeOK
    <2> QED BY <2>1 DEF TypeOK, viewVars, holdVars, callVars
  <1>6. ASSUME NEW c \in Cancels, ResumeCancel(c) PROVE TypeOK'
    BY <1>6, ReadingAssumption DEF ResumeCancel, TypeOK, Actors, Steps, queryVars, holdVars
  <1> QED BY <1>1, <1>2, <1>3, <1>4, <1>5, <1>6, LoadGoesOnTyped, MoveGoesOnTyped, ReadGoesOnTyped
          DEF Next, Answered

\* Texts, rows, calls and clients keep their types, for any number of calls.
THEOREM ReadingTypeCorrect == Spec => []TypeOK
  <1> QED BY TypesStart, TypesStep, PTL DEF Spec

-----------------------------------------------------------------------------
(* What is shown *)

\* A step that neither touches the query nor shows or takes anything, and after which a closing
\* load has said that it is loading.
Undisturbed ==
  /\ UNCHANGED <<text, analysis, parses, shown>>
  /\ initialized' = "done" <=> initialized = "done"
  /\ upset \subseteq upset' /\ (disposed => disposed')
  /\ status' \in {status, "loading", "error"}
  /\ \A l \in Loads :
       /\ pc'[l] \in Reading => pc[l] \in Reading /\ sql'[l] = sql[l] /\ (latest' = l => latest = l)
       /\ pc[l] = "parsing" => pc'[l] = "parsing"
       /\ status' = "ready" /\ pc[l] = "closing" => pc'[l] = "closing"

LEMMA ParsesTyped ==
  ASSUME TypeOK
  PROVE  /\ parses \in Seq([load: Loads, text: Texts]) /\ Len(parses) \in Nat
         /\ \A i \in 1..Len(parses) : parses[i].load \in Loads /\ parses[i].text \in Texts
  <1>1. parses \in Seq([load: Loads, text: Texts])
    BY DEF TypeOK
  <1>2. Len(parses) \in Nat /\ parses \in [1..Len(parses) -> [load: Loads, text: Texts]]
    BY <1>1, LenProperties
  <1> QED BY <1>1, <1>2

LEMMA UndisturbedKeeps ==
  ASSUME TypeOK, ReadingInv, Undisturbed
  PROVE  ReadingInv'
  <1>1. Blank'
    BY DEF ReadingInv, Blank, Undisturbed
  <1>2. Queued'
    BY ParsesTyped DEF ReadingInv, Queued, Undisturbed
  <1>3. Analysed'
    BY DEF ReadingInv, Analysed, Undisturbed
  <1>4. ReadsTheQuery'
    BY DEF ReadingInv, ReadsTheQuery, Undisturbed
  <1>5. RowsOfTheQuery'
    BY DEF ReadingInv, RowsOfTheQuery, Undisturbed
  <1> QED BY <1>1, <1>2, <1>3, <1>4, <1>5 DEF ReadingInv

\* Without a load that is parsing there is nothing to parse.
LEMMA NothingParsed ==
  ASSUME TypeOK, Queued, \A l \in Loads : pc[l] # "parsing"
  PROVE  parses = <<>>
  <1>1. SUFFICES ASSUME parses # <<>> PROVE FALSE
    OBVIOUS
  <1>2. 1 \in 1..Len(parses)
    BY <1>1, ParsesTyped, EmptySeq
  <1> QED BY <1>2, ParsesTyped DEF Queued

LEMMA BeginLoadUndisturbed ==
  ASSUME TypeOK, NEW l \in Loads, BeginLoad(l), UNCHANGED queryVars, pc[l] # "parsing"
  PROVE  Undisturbed
  BY DEF BeginLoad, CloseAndWait, TypeOK, Actors, Undisturbed, Reading, queryVars, viewVars

LEMMA FailReadUndisturbed ==
  ASSUME TypeOK, NEW a \in Readers, FailRead(a), pc[a] \notin {"parsing", "closing"}
  PROVE  Undisturbed
  <1>0. a \in Actors
    BY DEF Actors, Readers
  <1>1. CASE a \notin Moves
    <2>1. FailLoad(a)
      BY <1>1 DEF FailRead
    <2> QED BY <1>0, <2>1 DEF FailLoad, Finally, Return, TypeOK, Undisturbed, Reading, queryVars
  <1>2. CASE a \in Moves
    <2>1. a \notin Loads
      BY <1>2, ReadingAssumption
    <2>2. CASE session = of[a] /\ CloseAndWait(a)
               /\ UNCHANGED <<viewVars, queryVars, latest, sql, failed, of>>
      BY <1>0, <2>1, <2>2 DEF CloseAndWait, TypeOK, Undisturbed, queryVars, viewVars
    <2>3. CASE FinishMove(a)
      BY <1>0, <2>1, <2>3 DEF FinishMove, Return, TypeOK, Undisturbed, queryVars
    <2> QED BY <1>2, <2>2, <2>3 DEF FailRead, FailMove
  <1> QED BY <1>1, <1>2

\* The steps of a load that take the query or show its rows are Open, ShowNothing and Show.
LEMMA LoadUndisturbed ==
  ASSUME TypeOK, ReadingInv, NEW l \in Loads, LoadGoesOn(l),
         ~Open(l), ~ShowNothing(l), ~Show(l)
  PROVE  Undisturbed
  <1>0. l \in Actors /\ l \in Readers /\ l \notin Moves
    BY ReadingAssumption DEF Actors, Readers
  <1>f. ASSUME FailLoad(l), pc[l] \notin {"parsing", "closing"} PROVE Undisturbed
    BY <1>0, <1>f, FailReadUndisturbed DEF FailRead
  <1>1. CASE Started(l)
    <2>1. CASE BeginLoad(l)
      BY <1>1, <2>1, BeginLoadUndisturbed DEF Started
    <2>2. CASE /\ pc' = [pc EXCEPT ![l] = "idle"]
               /\ UNCHANGED <<viewVars, holdVars, latest, waits, client, sql, failed, of>>
      BY <1>0, <1>1, <2>2 DEF Started, TypeOK, Undisturbed, Reading, queryVars, viewVars
    <2> QED BY <1>1, <2>1, <2>2 DEF Started
  <1>2. CASE ResumeLoad(l)
    BY <1>0, <1>2 DEF ResumeLoad, EnsureInitialized, TypeOK, Undisturbed, Reading
  <1>3. CASE NotInitialized(l)
    BY <1>3, <1>f DEF NotInitialized
  <1>4. CASE Connected(l)
    <2>1. /\ pc' = [pc EXCEPT ![l] = "failing"] \/ pc' = [pc EXCEPT ![l] = "probing"]
          /\ pc[l] = "connecting"
          /\ UNCHANGED <<viewVars, queryVars, holdVars, latest, waits, sql, failed, of>>
      BY <1>4 DEF Connected, Go
    <2>2. /\ pc'[l] \in {"failing", "probing"}
          /\ \A m \in Loads \ {l} : pc'[m] = pc[m]
      BY <1>0, <2>1 DEF TypeOK, Actors
    <2> QED BY <2>1, <2>2 DEF Undisturbed, Reading, queryVars, viewVars
  <1>5. CASE ConnectionFails(l)
    BY <1>5, <1>f DEF ConnectionFails
  <1>6. CASE ProbeLost(l)
    BY <1>6, <1>f DEF ProbeLost
  <1>7. CASE ProbeEnded(l)
    <2>1. CASE FailLoad(l)
      BY <1>7, <2>1, <1>f DEF ProbeEnded
    <2>2. CASE /\ pc' = [pc EXCEPT ![l] = "pageConnecting"]
               /\ UNCHANGED <<viewVars, queryVars, holdVars, latest, waits, client, sql, failed, of>>
      BY <1>0, <1>7, <2>2 DEF ProbeEnded, TypeOK, Undisturbed, Reading, queryVars, viewVars
    <2> QED BY <1>7, <2>1, <2>2 DEF ProbeEnded
  <1>8. CASE ShowFails(l)
    BY <1>8, <1>f DEF ShowFails
  <1> QED BY <1>1, <1>2, <1>3, <1>4, <1>5, <1>6, <1>7, <1>8 DEF LoadGoesOn

\* Navigations, and reads of pages, show nothing of another query.
LEMMA MoveUndisturbed ==
  ASSUME TypeOK, NEW n \in Moves, MoveGoesOn(n)
  PROVE  Undisturbed
  <1>0. n \in Actors /\ n \in Readers /\ n \notin Loads
    BY ReadingAssumption DEF Actors, Readers
  <1>1. CASE MoveShown(n)
    BY <1>0, <1>1 DEF MoveShown, FinishMove, Return, TypeOK, Undisturbed, queryVars
  <1>2. CASE ReadOn(n)
    BY <1>0, <1>2 DEF ReadOn, TypeOK, Undisturbed, queryVars, viewVars
  <1>3. CASE MoveFails(n)
    BY <1>0, <1>3, FailReadUndisturbed DEF MoveFails, FailRead
  <1>4. CASE ResumeMove(n)
    BY <1>0, <1>4 DEF ResumeMove, Return, TypeOK, Undisturbed, queryVars
  <1> QED BY <1>1, <1>2, <1>3, <1>4 DEF MoveGoesOn

LEMMA PageReadUndisturbed ==
  ASSUME TypeOK, NEW a \in Readers, NEW ok \in BOOLEAN, PageRead(a, ok)
  PROVE  Undisturbed
  BY DEF PageRead, Go, TypeOK, Actors, Readers, Undisturbed, Reading, queryVars, viewVars

LEMMA ReadUndisturbed ==
  ASSUME TypeOK, NEW a \in Readers, ReadGoesOn(a)
  PROVE  Undisturbed
  <1>1. CASE PageConnected(a)
    BY <1>1 DEF PageConnected, Go, TypeOK, Actors, Readers, Undisturbed, Reading, queryVars, viewVars
  <1>2. CASE PageConnectionFails(a)
    BY <1>2, FailReadUndisturbed DEF PageConnectionFails
  <1>3. CASE PageRead(a, FALSE)
    BY <1>3, PageReadUndisturbed
  <1>4. CASE ClientEnds(a)
    BY <1>4 DEF ClientEnds, Undisturbed, queryVars, viewVars
  <1> QED BY <1>1, <1>2, <1>3, <1>4 DEF ReadGoesOn

\* A text is taken together with the analysis of it.
LEMMA OpenKeeps ==
  ASSUME TypeOK, ReadingInv, NEW l \in Loads, Open(l)
  PROVE  ReadingInv'
  <1>0. l \in Actors
    BY DEF Actors
  <1>1. /\ UNCHANGED <<text, analysis, parses, initialized, latest, shown, status, disposed, upset>>
        /\ pc' = [pc EXCEPT ![l] = "connecting"] /\ pc[l] = "initializing" /\ initialized = "done"
        /\ sql' = [sql EXCEPT ![l] = [text |-> text, analysed |-> analysis]] /\ text # Empty
    BY DEF Open, queryVars, viewVars
  <1>2. Blank'
    BY <1>1 DEF Blank
  <1>3. Queued'
    BY <1>0, <1>1, ParsesTyped DEF ReadingInv, Queued, TypeOK
  <1>4. Analysed'
    BY <1>1 DEF ReadingInv, Analysed
  <1>5. ReadsTheQuery'
    <2> SUFFICES ASSUME parses = <<>>, "unparsed" \notin upset, NEW m \in Loads,
                        latest = m, pc'[m] \in Reading
                 PROVE  text # Empty /\ sql'[m] = [text |-> text, analysed |-> text]
      BY <1>1 DEF ReadsTheQuery
    <2>1. analysis = text
      BY <1>1 DEF ReadingInv, Analysed
    <2>2. CASE m = l
      BY <1>1, <2>1, <2>2 DEF TypeOK
    <2>3. CASE m # l
      BY <1>0, <1>1, <2>3 DEF ReadingInv, ReadsTheQuery, TypeOK
    <2> QED BY <2>2, <2>3
  <1>6. RowsOfTheQuery'
    BY <1>0, <1>1 DEF ReadingInv, RowsOfTheQuery, TypeOK
  <1> QED BY <1>2, <1>3, <1>4, <1>5, <1>6 DEF ReadingInv

\* What the latest load shows, or the lack of rows of a blank text, is what the query asks for.
LEMMA ShowKeeps ==
  ASSUME TypeOK, ReadingInv, NEW l \in Loads, Show(l) \/ ShowNothing(l)
  PROVE  ReadingInv'
  <1>0. l \in Actors /\ l \notin Moves
    BY ReadingAssumption DEF Actors
  <1>1. /\ UNCHANGED <<text, analysis, parses, initialized, latest, disposed, upset>>
        /\ pc' = [pc EXCEPT ![l] = "idle"] /\ pc[l] \in {"pageEnding", "initializing"}
        /\ \A m \in Loads \ {l} : sql'[m] = sql[m]
    BY DEF Show, ShowNothing, Finally, Return, queryVars
  <1>2. initialized = "done"
    BY DEF Show, ShowNothing, ReadingInv, Blank, Reading
  <1>3. Queued'
    BY <1>0, <1>1, ParsesTyped DEF ReadingInv, Queued, TypeOK
  <1>4. Analysed'
    BY <1>1 DEF ReadingInv, Analysed
  <1>5. ReadsTheQuery'
    BY <1>0, <1>1 DEF ReadingInv, ReadsTheQuery, TypeOK, Reading
  <1>6. RowsOfTheQuery'
    <2> SUFFICES ASSUME "unparsed" \notin upset, \A m \in Loads : pc'[m] \notin {"parsing", "closing"}
                 PROVE  shown' = IF text = Empty THEN None ELSE [text |-> text, analysed |-> text]
      BY <1>1 DEF RowsOfTheQuery
    <2>1. \A m \in Loads : pc[m] # "parsing"
      BY <1>0, <1>1 DEF TypeOK
    <2>2. parses = <<>>
      BY <2>1, NothingParsed DEF ReadingInv
    <2>3. CASE Show(l)
      <3>1. latest = l /\ pc[l] = "pageEnding" /\ shown' = sql[l]
        BY <2>3 DEF Show, Stale
      <3> QED BY <2>2, <3>1 DEF ReadingInv, ReadsTheQuery, Reading
    <2>4. CASE ShowNothing(l)
      BY <2>4 DEF ShowNothing
    <2> QED BY <2>3, <2>4
  <1>7. Blank'
    BY <1>1, <1>2 DEF Blank
  <1> QED BY <1>3, <1>4, <1>5, <1>6, <1>7 DEF ReadingInv

\* A text is not shown before it is parsed, and a blank one at once closes what is shown.
LEMMA ApplyKeeps ==
  ASSUME TypeOK, ReadingInv, NEW l \in Loads, NEW t \in Texts, ApplyText(l, t)
  PROVE  ReadingInv'
  <1>0. l \in Actors /\ pc[l] = "idle" /\ initialized = "done" /\ text' = t
    BY DEF Actors, ApplyText, Free
  <1>1. CASE t = Empty
    <2>1. /\ pc' = [pc EXCEPT ![l] = "closing"] /\ latest' = l
          /\ UNCHANGED <<parses, initialized, upset, disposed, status, sql>>
      BY <1>1 DEF ApplyText, BeginLoad, CloseAndWait, viewVars
    <2>2. Queued'
      BY <1>0, <2>1, ParsesTyped DEF ReadingInv, Queued, TypeOK
    <2>3. ReadsTheQuery'
      BY <1>0, <2>1 DEF ReadsTheQuery, TypeOK, Reading
    <2>4. RowsOfTheQuery'
      BY <1>0, <2>1 DEF RowsOfTheQuery, TypeOK
    <2> QED BY <1>0, <1>1, <2>1, <2>2, <2>3, <2>4 DEF ReadingInv, Blank, Analysed
  <1>2. CASE t # Empty
    <2>1. /\ pc' = [pc EXCEPT ![l] = "parsing"]
          /\ parses' = Append(parses, [load |-> l, text |-> t])
          /\ UNCHANGED <<analysis, initialized, viewVars, latest, sql>>
      BY <1>2 DEF ApplyText
    <2>2. [load |-> l, text |-> t] \in [load: Loads, text: Texts]
      OBVIOUS
    <2>3. /\ parses' # <<>> /\ Len(parses') = Len(parses) + 1
          /\ \A i \in 1..Len(parses) : parses'[i] = parses[i]
          /\ parses'[Len(parses')] = [load |-> l, text |-> t]
      BY <2>1, <2>2, ParsesTyped, AppendProperties
    <2>4. Queued'
      <3>1. \A i \in 1..Len(parses) : parses[i].load # l
        BY <1>0 DEF ReadingInv, Queued
      <3>2. \A i \in 1..Len(parses') : pc'[parses'[i].load] = "parsing"
        <4> SUFFICES ASSUME NEW i \in 1..Len(parses') PROVE pc'[parses'[i].load] = "parsing"
          OBVIOUS
        <4>1. CASE i \in 1..Len(parses)
          BY <1>0, <2>1, <2>3, <3>1, <4>1, ParsesTyped DEF ReadingInv, Queued, TypeOK, Actors
        <4>2. CASE i = Len(parses')
          BY <1>0, <2>1, <2>3, <4>2 DEF TypeOK
        <4> QED BY <2>3, <4>1, <4>2, ParsesTyped
      <3>3. ASSUME NEW i \in 1..Len(parses'), NEW j \in 1..Len(parses'),
                   parses'[i].load = parses'[j].load
            PROVE  i = j
        <4>1. CASE i \in 1..Len(parses) /\ j \in 1..Len(parses)
          BY <2>3, <3>3, <4>1 DEF ReadingInv, Queued
        <4>2. CASE i \in 1..Len(parses) /\ j = Len(parses')
          BY <2>3, <3>1, <3>3, <4>2
        <4>3. CASE i = Len(parses') /\ j \in 1..Len(parses)
          BY <2>3, <3>1, <3>3, <4>3
        <4>4. CASE i = Len(parses') /\ j = Len(parses')
          BY <4>4
        <4> QED BY <2>3, <4>1, <4>2, <4>3, <4>4, ParsesTyped
      <3> QED BY <3>2, <3>3 DEF Queued
    <2>5. Analysed'
      BY <1>0, <2>3 DEF Analysed
    <2>6. ReadsTheQuery'
      BY <2>3 DEF ReadsTheQuery
    <2>7. RowsOfTheQuery'
      BY <1>0, <2>1 DEF RowsOfTheQuery, TypeOK
    <2> QED BY <1>0, <2>1, <2>4, <2>5, <2>6, <2>7 DEF ReadingInv, Blank
  <1> QED BY <1>1, <1>2

\* The rest of the queue after its head has been answered.
LEMMA DequeuedKeeps ==
  ASSUME TypeOK, Queued, parses # <<>>, parses' = Tail(parses), NEW h \in Loads,
         h = Head(parses).load, \A m \in Actors \ {h} : pc'[m] = pc[m]
  PROVE  /\ Queued'
         /\ parses' = <<>> => Len(parses) = 1
         /\ parses' # <<>> => parses'[Len(parses')] = parses[Len(parses)]
         /\ Head(parses) = parses[1] /\ Len(parses) \in Nat \ {0}
  <1>1. /\ parses \in Seq([load: Loads, text: Texts]) /\ Len(parses) \in Nat \ {0}
        /\ Head(parses) = parses[1]
    BY ParsesTyped, EmptySeq
  <1>2. /\ parses' \in Seq([load: Loads, text: Texts]) /\ Len(parses') = Len(parses) - 1
        /\ \A i \in 1..Len(parses') : parses'[i] = parses[i + 1]
    BY <1>1, HeadTailProperties
  <1>3. parses' # <<>> => Len(parses') \in Nat \ {0}
    BY <1>2, EmptySeq
  <1>4. parses' = <<>> => Len(parses') = 0
    BY EmptySeq
  <1>5. \A i \in 1..Len(parses') : i + 1 \in 1..Len(parses) /\ parses[i + 1].load # h
                                   /\ parses[i + 1].load \in Actors
    BY <1>1, <1>2, ParsesTyped DEF Queued, Actors
  <1>6. \A i \in 1..Len(parses') : pc'[parses'[i].load] = "parsing"
    <2> SUFFICES ASSUME NEW i \in 1..Len(parses') PROVE pc'[parses'[i].load] = "parsing"
      OBVIOUS
    <2>1. pc'[parses[i + 1].load] = pc[parses[i + 1].load]
      BY <1>5
    <2>2. pc[parses[i + 1].load] = "parsing"
      BY <1>5 DEF Queued
    <2> QED BY <1>2, <2>1, <2>2
  <1>7. ASSUME NEW i \in 1..Len(parses'), NEW j \in 1..Len(parses'),
               parses'[i].load = parses'[j].load
        PROVE  i = j
    <2>1. parses[i + 1].load = parses[j + 1].load
      BY <1>2, <1>7
    <2>2. i + 1 = j + 1
      BY <1>5, <2>1 DEF Queued
    <2> QED BY <2>2
  <1>8. Queued'
    BY <1>6, <1>7 DEF Queued
  <1>9. parses' # <<>> => parses'[Len(parses')] = parses[Len(parses)]
    BY <1>1, <1>2, <1>3
  <1> QED BY <1>1, <1>2, <1>4, <1>8, <1>9

LEMMA ParsedKeeps ==
  ASSUME TypeOK, ReadingInv, Parsed
  PROVE  ReadingInv'
  <1> DEFINE h == Head(parses).load
  <1>1. h \in Loads /\ h \in Actors /\ parses # <<>>
    BY Dequeued DEF Parsed, Actors
  <1>2. /\ parses' = Tail(parses) /\ analysis' = Head(parses).text
        /\ pc' = [pc EXCEPT ![h] = "closing"] /\ latest' = h
        /\ UNCHANGED <<text, initialized, viewVars, sql>>
    BY DEF Parsed, BeginLoad, CloseAndWait
  <1>3. initialized = "done"
    BY <1>1 DEF ReadingInv, Blank
  <1>4. /\ Queued'
        /\ parses' = <<>> => Len(parses) = 1
        /\ parses' # <<>> => parses'[Len(parses')] = parses[Len(parses)]
        /\ Head(parses) = parses[1]
    BY <1>1, <1>2, DequeuedKeeps DEF ReadingInv, TypeOK
  <1>5. Analysed'
    BY <1>1, <1>2, <1>4 DEF ReadingInv, Analysed, viewVars
  <1>6. pc'[h] = "closing"
    BY <1>1, <1>2 DEF TypeOK
  <1>7. ReadsTheQuery'
    BY <1>2, <1>6 DEF ReadsTheQuery, Reading
  <1>8. RowsOfTheQuery'
    BY <1>1, <1>6 DEF RowsOfTheQuery
  <1> QED BY <1>2, <1>3, <1>4, <1>5, <1>7, <1>8 DEF ReadingInv, Blank

LEMMA ParseFailsKeeps ==
  ASSUME TypeOK, ReadingInv, ParseFails
  PROVE  ReadingInv'
  <1> DEFINE h == Head(parses).load
  <1>1. h \in Loads /\ h \in Actors /\ parses # <<>>
    BY Dequeued DEF ParseFails, Actors
  <1>2. /\ parses' = Tail(parses) /\ pc' = [pc EXCEPT ![h] = "idle"]
        /\ initialized' = initialized /\ "unparsed" \in upset'
    BY DEF ParseFails
  <1>3. initialized = "done"
    BY <1>1 DEF ReadingInv, Blank
  <1>4. Queued'
    BY <1>1, <1>2, DequeuedKeeps DEF ReadingInv, TypeOK
  <1> QED BY <1>2, <1>3, <1>4 DEF ReadingInv, Blank, Analysed, ReadsTheQuery, RowsOfTheQuery

\* The first text comes with its analysis, to a view that shows nothing.
LEMMA InitializedKeeps ==
  ASSUME TypeOK, ReadingInv, Initialized
  PROVE  ReadingInv'
  <1>1. /\ initialized # "done" /\ initialized' = "done" /\ text' = analysis'
        /\ UNCHANGED <<parses, viewVars, pc, latest, sql>>
    BY DEF Initialized, callVars
  <1>2. status # "ready" /\ parses = <<>> /\ \A l \in Loads : pc[l] \notin Reading
    BY <1>1 DEF ReadingInv, Blank
  <1> QED BY <1>1, <1>2
          DEF ReadingInv, Blank, Queued, Analysed, ReadsTheQuery, RowsOfTheQuery, viewVars

LEMMA ReadingStep ==
  ASSUME TypeOK, ReadingInv, [Next]_vars
  PROVE  ReadingInv'
  <1>u. ASSUME Undisturbed PROVE ReadingInv'
    BY <1>u, UndisturbedKeeps
  <1>1. CASE UNCHANGED vars
    <2>1. Undisturbed
      BY <1>1 DEF vars, Undisturbed, queryVars, viewVars, holdVars, callVars
    <2> QED BY <2>1, <1>u
  <1>2. CASE Asked
    <2>1. ASSUME NEW l \in Loads, OpenView(l) PROVE ReadingInv'
      <3>1. Undisturbed
        BY <2>1 DEF OpenView, Free, EnsureInitialized, TypeOK, Actors, Undisturbed, Reading, viewVars
      <3> QED BY <3>1, <1>u
    <2>2. ASSUME NEW l \in Loads, Refresh(l) PROVE ReadingInv'
      <3>1. Undisturbed
        BY <2>2, BeginLoadUndisturbed DEF Refresh, Free
      <3> QED BY <3>1, <1>u
    <2>3. ASSUME NEW n \in Moves, Navigate(n) PROVE ReadingInv'
      <3>1. Undisturbed
        BY <2>3, ReadingAssumption DEF Navigate, TypeOK, Actors, Undisturbed, Reading, queryVars
      <3> QED BY <3>1, <1>u
    <2>4. ASSUME NEW c \in Cancels, Cancel(c) PROVE ReadingInv'
      <3>1. Undisturbed
        BY <2>4, ReadingAssumption
           DEF Cancel, CloseAndWait, TypeOK, Actors, Undisturbed, Reading, queryVars, viewVars
      <3> QED BY <3>1, <1>u
    <2>5. CASE Dispose
      <3>1. Undisturbed
        BY <2>5, ReadingAssumption DEF Dispose, Undisturbed, queryVars
      <3> QED BY <3>1, <1>u
    <2> QED BY <1>2, <2>1, <2>2, <2>3, <2>4, <2>5, ApplyKeeps, ParsedKeeps, ParseFailsKeeps DEF Asked
  <1>3. ASSUME NEW l \in Loads, Probed(l) \/ ProbeFails(l) PROVE ReadingInv'
    <2>1. /\ pc' = [pc EXCEPT ![l] = "failing"] \/ pc' = [pc EXCEPT ![l] = "probeEnding"]
          /\ pc[l] = "probing"
          /\ UNCHANGED <<viewVars, queryVars, holdVars, latest, waits, sql, failed, of>>
      BY <1>3 DEF Probed, ProbeFails, Go
    <2>2. Undisturbed
      BY <2>1 DEF TypeOK, Actors, Undisturbed, Reading, queryVars, viewVars
    <2> QED BY <2>2, <1>u
  <1>4. ASSUME NEW a \in Readers, PageRead(a, TRUE) \/ PageRead(a, FALSE) PROVE ReadingInv'
    BY <1>4, <1>u, PageReadUndisturbed
  <1>5. CASE InitializationFails
    <2>1. Undisturbed
      BY <1>5 DEF InitializationFails, Undisturbed, viewVars, callVars
    <2> QED BY <2>1, <1>u
  <1>6. ASSUME NEW l \in Loads, LoadGoesOn(l) PROVE ReadingInv'
    BY <1>6, <1>u, LoadUndisturbed, OpenKeeps, ShowKeeps
  <1>7. ASSUME NEW n \in Moves, MoveGoesOn(n) PROVE ReadingInv'
    BY <1>7, <1>u, MoveUndisturbed
  <1>8. ASSUME NEW a \in Readers, ReadGoesOn(a) PROVE ReadingInv'
    BY <1>8, <1>u, ReadUndisturbed
  <1>9. ASSUME NEW c \in Cancels, ResumeCancel(c) PROVE ReadingInv'
    <2>1. Undisturbed
      BY <1>9, ReadingAssumption DEF ResumeCancel, TypeOK, Actors, Undisturbed, Reading, queryVars
    <2> QED BY <2>1, <1>u
  <1> QED BY <1>1, <1>2, <1>3, <1>4, <1>5, <1>6, <1>7, <1>8, <1>9, InitializedKeeps
          DEF Next, Answered

LEMMA ReadingStart == Init => ReadingInv
  BY EmptySeq DEF Init, ReadingInv, Blank, Queued, Analysed, ReadsTheQuery, RowsOfTheQuery, Reading,
                  Actors

\* The rows of a view that is ready are those of its query, whatever is loaded, cancelled, applied
\* and superseded, and for any number of calls under way.
THEOREM RowsAreOfTheQuery == Spec => []RowsOfTheQuery
  <1>1. Init => ReadingInv
    BY ReadingStart
  <1>2. ReadingInv => RowsOfTheQuery
    BY DEF ReadingInv
  <1>3. TypeOK /\ ReadingInv /\ [Next]_vars => (TypeOK /\ ReadingInv)'
    BY TypesStep, ReadingStep
  <1> QED BY <1>1, <1>2, <1>3, TypesStart, PTL DEF Spec

-----------------------------------------------------------------------------
(* Busy *)

\* What the document holds is of the load that raised the generation last, and has ended.
SessionIsLatest == session # None => session = latest /\ pc[session] = "idle"

\* A navigation reads the session of a load that has ended, and that nobody calls again meanwhile.
MovesOfFinished == \A n \in Moves : pc[n] # "idle" => pc[of[n]] = "idle"

\* One navigation of the open session at a time.
OneMove ==
  "overtaken" \notin upset /\ ~disposed =>
    \A m, n \in Moves :
      pc[m] # "idle" /\ pc[n] # "idle" /\ of[m] = session /\ of[n] = session => m = n

BusyInv == SessionIsLatest /\ MovesOfFinished /\ OneMove /\ BusyMeansWork /\ WorkIsBusy

Rest ==
  /\ UNCHANGED <<latest, session, of, busy, disposed>>
  /\ "overtaken" \in upset' <=> "overtaken" \in upset

\* A call raises the generation and lets go of the session.
Supersedes(a) ==
  /\ pc' = [pc EXCEPT ![a] = "closing"]
  /\ latest' = a /\ session' = None
  /\ UNCHANGED <<of, busy, disposed, upset>>

LEMMA SupersedesKeeps ==
  ASSUME TypeOK, BusyInv, NEW a \in Loads \cup Cancels, Supersedes(a),
         \A n \in Moves : pc[n] # "idle" => of[n] # a
  PROVE  BusyInv'
  <1>0. a \in Actors /\ a \notin Moves /\ a # None
    BY ReadingAssumption DEF Actors
  <1>1. /\ pc'[a] = "closing" /\ latest' = a /\ session' = None /\ of' = of
        /\ \A b \in Actors \ {a} : pc'[b] = pc[b]
    BY <1>0 DEF Supersedes, TypeOK
  <1>2. \A n \in Moves : n \in Actors /\ pc'[n] = pc[n]
    BY <1>0, <1>1 DEF Actors
  <1>3. \A n \in Moves : pc[n] # "idle" => of[n] \in Loads /\ of[n] # a /\ of[n] # None
    BY DEF TypeOK
  <1>4. SessionIsLatest'
    BY <1>1 DEF SessionIsLatest
  <1>5. MovesOfFinished'
    BY <1>1, <1>2, <1>3 DEF BusyInv, MovesOfFinished, Actors
  <1>6. OneMove'
    BY <1>1, <1>2, <1>3 DEF OneMove
  <1>7. BusyMeansWork'
    BY <1>1 DEF BusyMeansWork, Current
  <1>8. WorkIsBusy'
    BY <1>1, <1>2, <1>3 DEF WorkIsBusy, Current
  <1> QED BY <1>4, <1>5, <1>6, <1>7, <1>8 DEF BusyInv

\* A load that has not raised the generation goes from one await to another, or gives up.
LEMMA AwaitKeeps ==
  ASSUME TypeOK, BusyInv, NEW l \in Loads, NEW to \in {"idle", "starting", "parsing"},
         pc' = [pc EXCEPT ![l] = to], Rest, pc[l] \in {"idle", "starting", "parsing"},
         to # "idle" => session # l /\ \A n \in Moves : pc[n] # "idle" => of[n] # l
  PROVE  BusyInv'
  <1>0. l \in Actors /\ l \notin Moves /\ l \notin Cancels
    BY ReadingAssumption DEF Actors
  <1>1. /\ pc'[l] = to
        /\ \A b \in Actors \ {l} : pc'[b] = pc[b]
        /\ latest' = latest /\ session' = session /\ of' = of
        /\ busy' = busy /\ disposed' = disposed
        /\ "overtaken" \in upset' <=> "overtaken" \in upset
    BY <1>0 DEF Rest, TypeOK
  <1>2. \A n \in Moves : n \in Actors /\ pc'[n] = pc[n]
    BY <1>0, <1>1 DEF Actors
  <1>3. \A n \in Moves : pc[n] # "idle" => of[n] \in Loads
    BY DEF TypeOK
  <1>4. SessionIsLatest'
    BY <1>1 DEF BusyInv, SessionIsLatest, TypeOK, Actors
  <1>5. MovesOfFinished'
    BY <1>1, <1>2, <1>3 DEF BusyInv, MovesOfFinished, Actors
  <1>6. OneMove'
    BY <1>1, <1>2 DEF BusyInv, OneMove
  <1>7. BusyMeansWork'
    BY <1>0, <1>1, <1>2 DEF BusyInv, BusyMeansWork, Current, Actors
  <1>8. WorkIsBusy'
    BY <1>1, <1>2 DEF BusyInv, WorkIsBusy, Current, Actors
  <1> QED BY <1>4, <1>5, <1>6, <1>7, <1>8 DEF BusyInv

\* A load that reads goes on.
LEMMA LoadKeeps ==
  ASSUME TypeOK, BusyInv, NEW l \in Loads, NEW to \in Steps,
         pc' = [pc EXCEPT ![l] = to], Rest,
         pc[l] \notin {"idle", "starting", "parsing", "closing"},
         to \notin {"idle", "starting", "parsing", "closing"}
  PROVE  BusyInv'
  <1>0. l \in Actors /\ l \notin Moves /\ l \notin Cancels
    BY ReadingAssumption DEF Actors
  <1>1. /\ pc'[l] = to
        /\ \A b \in Actors \ {l} : pc'[b] = pc[b]
        /\ latest' = latest /\ session' = session /\ of' = of
        /\ busy' = busy /\ disposed' = disposed
        /\ "overtaken" \in upset' <=> "overtaken" \in upset
    BY <1>0 DEF Rest, TypeOK
  <1>2. \A n \in Moves : n \in Actors /\ pc'[n] = pc[n]
    BY <1>0, <1>1 DEF Actors
  <1>3. \A n \in Moves : pc[n] # "idle" => of[n] \in Loads
    BY DEF TypeOK
  <1>4. SessionIsLatest'
    BY <1>1 DEF BusyInv, SessionIsLatest, TypeOK, Actors
  <1>5. MovesOfFinished'
    BY <1>1, <1>2, <1>3 DEF BusyInv, MovesOfFinished, Actors
  <1>6. OneMove'
    BY <1>1, <1>2 DEF BusyInv, OneMove
  <1>7. BusyMeansWork'
    BY <1>0, <1>1, <1>2 DEF BusyInv, BusyMeansWork, Current, Actors
  <1>8. WorkIsBusy'
    BY <1>1, <1>2 DEF BusyInv, WorkIsBusy, Current, Actors
  <1> QED BY <1>4, <1>5, <1>6, <1>7, <1>8 DEF BusyInv

\* A load ends: only the latest one says that the view is no longer busy, and it may leave its session.
LEMMA LoadEndsKeeps ==
  ASSUME TypeOK, BusyInv, NEW l \in Loads, pc[l] \notin {"idle", "starting", "parsing", "closing"},
         pc' = [pc EXCEPT ![l] = "idle"], busy' = (busy /\ latest # l),
         session' = session \/ (session' = l /\ latest = l),
         UNCHANGED <<latest, of, disposed, upset>>
  PROVE  BusyInv'
  <1>0. l \in Actors /\ l \notin Moves /\ l \notin Cancels
    BY ReadingAssumption DEF Actors
  <1>1. /\ pc'[l] = "idle"
        /\ \A b \in Actors \ {l} : pc'[b] = pc[b]
        /\ latest' = latest /\ of' = of /\ disposed' = disposed /\ upset' = upset
    BY <1>0 DEF TypeOK
  <1>2. \A n \in Moves : n \in Actors /\ pc'[n] = pc[n]
    BY <1>0, <1>1 DEF Actors
  <1>3. \A n \in Moves : pc[n] # "idle" => of[n] \in Loads /\ of[n] # l /\ of[n] # None
    BY DEF TypeOK, BusyInv, MovesOfFinished
  <1>4. SessionIsLatest'
    BY <1>1 DEF BusyInv, SessionIsLatest, TypeOK, Actors
  <1>5. MovesOfFinished'
    BY <1>1, <1>2, <1>3 DEF BusyInv, MovesOfFinished, Actors
  <1>6. OneMove'
    BY <1>1, <1>2, <1>3 DEF BusyInv, OneMove
  <1>7. CASE latest = l
    <2>1. busy' = FALSE
      BY <1>7
    <2>2. BusyMeansWork'
      BY <2>1 DEF BusyMeansWork, Current
    <2>3. \A m \in Loads : latest' = m => m = l
      BY <1>1, <1>7
    <2>4. session # None => session = l
      BY <1>7 DEF BusyInv, SessionIsLatest
    <2>5. \A n \in Moves : pc'[n] # "idle" => of'[n] # session'
      BY <1>1, <1>2, <1>3, <2>4
    <2>6. WorkIsBusy'
      BY <1>1, <2>3, <2>5 DEF WorkIsBusy, Current
    <2> QED BY <1>4, <1>5, <1>6, <2>2, <2>6 DEF BusyInv
  <1>8. CASE latest # l
    <2>1. busy' = busy /\ session' = session
      BY <1>8 DEF TypeOK
    <2>2. BusyMeansWork'
      BY <1>0, <1>1, <1>2, <1>8, <2>1 DEF BusyInv, BusyMeansWork, Current, Actors
    <2>3. WorkIsBusy'
      BY <1>1, <1>2, <1>8, <2>1 DEF BusyInv, WorkIsBusy, Current, Actors
    <2> QED BY <1>4, <1>5, <1>6, <2>2, <2>3 DEF BusyInv
  <1> QED BY <1>7, <1>8

\* A navigation goes on, and may let go of the session.
LEMMA MoveKeeps ==
  ASSUME TypeOK, BusyInv, NEW n \in Moves, NEW to \in Steps, pc[n] # "idle", to # "idle",
         pc' = [pc EXCEPT ![n] = to], session' \in {session, None},
         UNCHANGED <<latest, of, busy, disposed>>, "overtaken" \in upset' <=> "overtaken" \in upset
  PROVE  BusyInv'
  <1>0. n \in Actors /\ n \notin Loads /\ n \notin Cancels
    BY ReadingAssumption DEF Actors
  <1>1. /\ pc'[n] = to
        /\ \A b \in Actors \ {n} : pc'[b] = pc[b]
        /\ latest' = latest /\ of' = of
        /\ busy' = busy /\ disposed' = disposed
        /\ "overtaken" \in upset' <=> "overtaken" \in upset
    BY <1>0 DEF TypeOK
  <1>2. \A m \in Moves : m \in Actors /\ (pc'[m] # "idle" <=> pc[m] # "idle")
    BY <1>0, <1>1 DEF Actors
  <1>3. \A m \in Moves : pc[m] # "idle" => of[m] \in Loads /\ of[m] # None
    BY DEF TypeOK
  <1>4. \A l \in Loads \cup Cancels : pc'[l] = pc[l]
    BY <1>0, <1>1 DEF Actors
  <1>5. SessionIsLatest'
    BY <1>1, <1>4 DEF BusyInv, SessionIsLatest, TypeOK
  <1>6. MovesOfFinished'
    BY <1>1, <1>2, <1>3, <1>4 DEF BusyInv, MovesOfFinished
  <1>7. OneMove'
    BY <1>1, <1>2, <1>3 DEF BusyInv, OneMove
  <1>8. BusyMeansWork'
    BY <1>1, <1>2, <1>4 DEF BusyInv, BusyMeansWork, Current
  <1>9. WorkIsBusy'
    BY <1>1, <1>2, <1>3, <1>4 DEF BusyInv, WorkIsBusy, Current
  <1> QED BY <1>5, <1>6, <1>7, <1>8, <1>9 DEF BusyInv

\* A navigation ends, and says that the view is no longer busy unless its load was superseded.
LEMMA MoveEndsKeeps ==
  ASSUME TypeOK, BusyInv, NEW n \in Moves, pc[n] # "idle", Return(n),
         busy' = (busy /\ latest # of[n]), UNCHANGED <<latest, session, disposed, upset>>
  PROVE  BusyInv'
  <1>0. n \in Actors /\ n \notin Loads /\ n \notin Cancels
    BY ReadingAssumption DEF Actors
  <1>1. /\ pc'[n] = "idle"
        /\ \A b \in Actors \ {n} : pc'[b] = pc[b]
        /\ \A m \in Moves \ {n} : of'[m] = of[m]
        /\ latest' = latest /\ session' = session /\ disposed' = disposed /\ upset' = upset
    BY <1>0 DEF TypeOK, Return
  <1>2. \A m \in Moves : m \in Actors /\ (pc'[m] # "idle" => m # n /\ pc[m] # "idle" /\ of'[m] = of[m])
    BY <1>0, <1>1 DEF Actors
  <1>3. \A m \in Moves : pc[m] # "idle" => of[m] \in Loads /\ of[m] # None /\ pc[of[m]] = "idle"
    BY DEF TypeOK, BusyInv, MovesOfFinished
  <1>4. \A l \in Loads \cup Cancels : pc'[l] = pc[l]
    BY <1>0, <1>1 DEF Actors
  <1>5. SessionIsLatest'
    BY <1>1, <1>4 DEF BusyInv, SessionIsLatest, TypeOK
  <1>6. MovesOfFinished'
    BY <1>2, <1>3, <1>4 DEF MovesOfFinished
  <1>7. OneMove'
    BY <1>1, <1>2 DEF BusyInv, OneMove
  <1>8. CASE latest = of[n]
    <2>1. busy' = FALSE
      BY <1>8
    <2>2. BusyMeansWork'
      BY <2>1 DEF BusyMeansWork, Current
    <2>3. \A l \in Loads : latest' = l => pc'[l] = "idle"
      BY <1>1, <1>3, <1>4, <1>8
    <2>4. ASSUME "overtaken" \notin upset, ~disposed, NEW m \in Moves, pc'[m] # "idle"
          PROVE  of'[m] # session'
      <3>1. m # n /\ pc[m] # "idle" /\ of'[m] = of[m] /\ of[m] # None
        BY <1>2, <1>3, <2>4
      <3>2. session # None => session = of[n]
        BY <1>8 DEF BusyInv, SessionIsLatest
      <3> QED BY <1>1, <2>4, <3>1, <3>2 DEF BusyInv, OneMove
    <2>5. WorkIsBusy'
      BY <1>1, <2>3, <2>4 DEF WorkIsBusy, Current
    <2> QED BY <1>5, <1>6, <1>7, <2>2, <2>5 DEF BusyInv
  <1>9. CASE latest # of[n]
    <2>1. busy' = busy
      BY <1>9 DEF TypeOK
    <2>2. \A m \in Moves : pc[m] # "idle" /\ latest = of[m] => pc'[m] # "idle" /\ latest' = of'[m]
      BY <1>1, <1>9 DEF Actors
    <2>3. BusyMeansWork'
      BY <1>1, <1>4, <2>1, <2>2 DEF BusyInv, BusyMeansWork, Current
    <2>4. WorkIsBusy'
      BY <1>1, <1>2, <1>4, <2>1 DEF BusyInv, WorkIsBusy, Current
    <2> QED BY <1>5, <1>6, <1>7, <2>3, <2>4 DEF BusyInv
  <1> QED BY <1>8, <1>9

LEMMA FailReadKeeps ==
  ASSUME TypeOK, BusyInv, NEW a \in Readers, FailRead(a),
         pc[a] \notin {"idle", "starting", "parsing", "closing"}
  PROVE  BusyInv'
  <1>1. CASE a \notin Moves
    <2>1. a \in Loads /\ FailLoad(a)
      BY <1>1 DEF Readers, FailRead
    <2>2. /\ pc' = [pc EXCEPT ![a] = "idle"] /\ busy' = (busy /\ latest # a)
          /\ UNCHANGED <<session, latest, disposed, upset>>
      BY <2>1 DEF FailLoad, Finally, Return
    <2>3. of' = of
      BY <1>1, <2>1 DEF FailLoad, Finally, Return, TypeOK
    <2> QED BY <2>1, <2>2, <2>3, LoadEndsKeeps
  <1>2. CASE a \in Moves
    <2>1. FailMove(a)
      BY <1>2 DEF FailRead
    <2>2. CASE session = of[a] /\ CloseAndWait(a)
               /\ UNCHANGED <<viewVars, queryVars, latest, sql, failed, of>>
      <3>1. /\ pc' = [pc EXCEPT ![a] = "closing"] /\ session' = None
            /\ UNCHANGED <<latest, of, busy, disposed, upset>>
        BY <2>2 DEF CloseAndWait, CloseSession, viewVars
      <3>2. "closing" \in Steps
        BY DEF Steps
      <3> QED BY <1>2, <3>1, <3>2, MoveKeeps
    <2>3. CASE FinishMove(a)
      <3>1. Return(a) /\ busy' = (busy /\ latest # of[a]) /\ UNCHANGED <<latest, session, disposed, upset>>
        BY <2>3 DEF FinishMove, holdVars
      <3> QED BY <1>2, <3>1, MoveEndsKeeps
    <2> QED BY <2>1, <2>2, <2>3 DEF FailMove
  <1> QED BY <1>1, <1>2

\* A call of load supersedes what is under way.
LEMMA BeginLoadKeeps ==
  ASSUME TypeOK, BusyInv, NEW l \in Loads, BeginLoad(l), pc[l] # "idle" \/ Free(l)
  PROVE  BusyInv'
  <1>1. Supersedes(l)
    BY DEF BeginLoad, CloseAndWait, CloseSession, Supersedes, viewVars
  <1>2. \A n \in Moves : pc[n] # "idle" => of[n] # l
    BY DEF Free, BusyInv, MovesOfFinished
  <1> QED BY <1>1, <1>2, SupersedesKeeps

\* What leaves the calls, the generation and the session alone.
LEMMA ElsewhereKeeps ==
  ASSUME TypeOK, BusyInv, Rest, pc' = pc
  PROVE  BusyInv'
  BY DEF Rest, BusyInv, SessionIsLatest, MovesOfFinished, OneMove, BusyMeansWork, WorkIsBusy, Current

\* After closeSession a load that is still the latest says that the view is busy.
LEMMA ResumeLoadKeeps ==
  ASSUME TypeOK, BusyInv, NEW l \in Loads, ResumeLoad(l)
  PROVE  BusyInv'
  <1>0. l \in Actors /\ l \notin Moves /\ l \notin Cancels
    BY ReadingAssumption DEF Actors
  <1>1. /\ pc[l] = "closing" /\ pc'[l] = "initializing"
        /\ \A b \in Actors \ {l} : pc'[b] = pc[b]
        /\ latest' = latest /\ session' = session /\ of' = of /\ disposed' = disposed
        /\ busy' = TRUE /\ upset \subseteq upset'
        /\ Stale(l) => "overtaken" \in upset'
    BY <1>0 DEF ResumeLoad, holdVars, TypeOK
  <1>2. \A n \in Moves : n \in Actors /\ pc'[n] = pc[n]
    BY <1>0, <1>1 DEF Actors
  <1>3. \A n \in Moves : pc[n] # "idle" => of[n] \in Loads /\ of[n] # l
    BY <1>1 DEF TypeOK, BusyInv, MovesOfFinished
  <1>4. SessionIsLatest'
    BY <1>1 DEF BusyInv, SessionIsLatest, TypeOK, Actors
  <1>5. MovesOfFinished'
    BY <1>1, <1>2, <1>3 DEF BusyInv, MovesOfFinished, Actors
  <1>6. OneMove'
    BY <1>1, <1>2 DEF BusyInv, OneMove
  <1>7. BusyMeansWork'
    BY <1>1 DEF BusyMeansWork, Current, Stale
  <1>8. WorkIsBusy'
    BY <1>1 DEF WorkIsBusy
  <1> QED BY <1>4, <1>5, <1>6, <1>7, <1>8 DEF BusyInv

\* A cancellation that is still the latest leaves nothing under way that is.
LEMMA ResumeCancelKeeps ==
  ASSUME TypeOK, BusyInv, NEW c \in Cancels, ResumeCancel(c)
  PROVE  BusyInv'
  <1>0. c \in Actors /\ c \notin Moves /\ c \notin Loads /\ c # None
    BY ReadingAssumption DEF Actors
  <1>1. /\ pc'[c] = "idle"
        /\ \A b \in Actors \ {c} : pc'[b] = pc[b]
        /\ latest' = latest /\ session' = session /\ of' = of /\ disposed' = disposed
        /\ busy' = FALSE /\ upset \subseteq upset'
        /\ latest # c => "overtaken" \in upset'
    BY <1>0 DEF ResumeCancel, holdVars, TypeOK
  <1>2. \A a \in Loads \cup Moves : a \in Actors /\ pc'[a] = pc[a]
    BY <1>0, <1>1 DEF Actors
  <1>3. \A n \in Moves : pc[n] # "idle" => of[n] \in Loads /\ of[n] # None
    BY DEF TypeOK
  <1>4. SessionIsLatest'
    BY <1>1, <1>2 DEF BusyInv, SessionIsLatest, TypeOK
  <1>5. MovesOfFinished'
    BY <1>1, <1>2, <1>3 DEF BusyInv, MovesOfFinished
  <1>6. OneMove'
    BY <1>1, <1>2 DEF BusyInv, OneMove
  <1>7. BusyMeansWork'
    BY <1>1 DEF BusyMeansWork, Current
  <1>8. WorkIsBusy'
    <2>1. latest = c => session = None
      BY <1>0 DEF BusyInv, SessionIsLatest, TypeOK
    <2> QED BY <1>0, <1>1, <1>2, <1>3, <2>1 DEF WorkIsBusy, Current
  <1> QED BY <1>4, <1>5, <1>6, <1>7, <1>8 DEF BusyInv

\* A navigation starts while the view is not busy: no other one of the session is under way.
LEMMA NavigateKeeps ==
  ASSUME TypeOK, BusyInv, NEW n \in Moves, Navigate(n)
  PROVE  BusyInv'
  <1>0. n \in Actors /\ n \notin Loads /\ n \notin Cancels
    BY ReadingAssumption DEF Actors
  <1>1. /\ pc[n] = "idle" /\ pc'[n] = "pageConnecting" /\ of'[n] = session /\ session # None
        /\ \A b \in Actors \ {n} : pc'[b] = pc[b]
        /\ \A m \in Moves \ {n} : of'[m] = of[m]
        /\ latest' = latest /\ session' = session /\ disposed' = disposed /\ upset' = upset
        /\ busy' = TRUE /\ ~busy /\ ~disposed
    BY <1>0 DEF Navigate, Free, holdVars, TypeOK
  <1>2. \A m \in Moves \ {n} : m \in Actors /\ pc'[m] = pc[m] /\ of'[m] = of[m]
    BY <1>1 DEF Actors
  <1>3. \A m \in Moves : pc[m] # "idle" => of[m] \in Loads /\ pc[of[m]] = "idle"
    BY DEF TypeOK, BusyInv, MovesOfFinished
  <1>4. \A l \in Loads \cup Cancels : pc'[l] = pc[l]
    BY <1>0, <1>1 DEF Actors
  <1>5. session \in Loads /\ session = latest /\ pc[session] = "idle"
    BY <1>1 DEF BusyInv, SessionIsLatest, TypeOK
  <1>6. SessionIsLatest'
    BY <1>1, <1>4, <1>5 DEF SessionIsLatest
  <1>7. MovesOfFinished'
    BY <1>1, <1>2, <1>3, <1>4, <1>5 DEF MovesOfFinished
  <1>8. OneMove'
    <2>1. "overtaken" \notin upset => \A m \in Moves : pc[m] # "idle" => of[m] # session
      BY <1>1 DEF BusyInv, WorkIsBusy
    <2> QED BY <1>1, <1>2, <2>1 DEF OneMove
  <1>9. BusyMeansWork'
    BY <1>1, <1>5 DEF BusyMeansWork, Current
  <1>10. WorkIsBusy'
    BY <1>1 DEF WorkIsBusy
  <1> QED BY <1>6, <1>7, <1>8, <1>9, <1>10 DEF BusyInv

\* A step of a load: it supersedes, gives up, goes on or ends.
LEMMA LoadGoesOnKeeps ==
  ASSUME TypeOK, BusyInv, NEW l \in Loads, LoadGoesOn(l)
  PROVE  BusyInv'
  <1>0. l \in Actors /\ l \in Readers /\ l \notin Moves
    BY ReadingAssumption DEF Actors, Readers
  <1>f. ASSUME FailLoad(l), pc[l] \notin {"idle", "starting", "parsing", "closing"} PROVE BusyInv'
    BY <1>0, <1>f, FailReadKeeps DEF FailRead
  <1>r. Return(l) => pc' = [pc EXCEPT ![l] = "idle"] /\ of' = of
    BY <1>0 DEF Return, TypeOK
  <1>1. CASE Started(l)
    <2>1. CASE BeginLoad(l)
      BY <1>1, <2>1, BeginLoadKeeps DEF Started
    <2>2. CASE /\ pc' = [pc EXCEPT ![l] = "idle"]
               /\ UNCHANGED <<viewVars, holdVars, latest, waits, client, sql, failed, of>>
      <3>1. pc[l] = "starting" /\ Rest
        BY <1>1, <2>2 DEF Started, Rest, viewVars, holdVars
      <3> QED BY <2>2, <3>1, AwaitKeeps
    <2> QED BY <1>1, <2>1, <2>2 DEF Started
  <1>2. CASE ShowNothing(l)
    <2>1. /\ Return(l) /\ pc[l] = "initializing" /\ busy' = (busy /\ latest # l)
          /\ UNCHANGED <<latest, session, disposed, upset>>
      BY <1>2 DEF ShowNothing, Finally
    <2> QED BY <1>r, <2>1, LoadEndsKeeps
  <1>3. CASE Open(l)
    <2>1. pc' = [pc EXCEPT ![l] = "connecting"] /\ pc[l] = "initializing" /\ Rest
      BY <1>3 DEF Open, Rest, viewVars
    <2>2. "connecting" \in Steps
      BY DEF Steps
    <2> QED BY <2>1, <2>2, LoadKeeps
  <1>4. CASE NotInitialized(l)
    BY <1>4, <1>f DEF NotInitialized
  <1>5. CASE Connected(l)
    <2>1. PICK to \in {"failing", "probing"} : pc' = [pc EXCEPT ![l] = to]
      BY <1>5 DEF Connected, Go
    <2>2. pc[l] = "connecting" /\ Rest
      BY <1>5 DEF Connected, Rest, viewVars, holdVars
    <2>3. to \in Steps
      BY DEF Steps
    <2> QED BY <2>1, <2>2, <2>3, LoadKeeps
  <1>6. CASE ConnectionFails(l)
    BY <1>6, <1>f DEF ConnectionFails
  <1>7. CASE ProbeLost(l)
    BY <1>7, <1>f DEF ProbeLost
  <1>8. CASE ProbeEnded(l)
    <2>1. CASE FailLoad(l)
      BY <1>8, <2>1, <1>f DEF ProbeEnded
    <2>2. CASE /\ pc' = [pc EXCEPT ![l] = "pageConnecting"]
               /\ UNCHANGED <<viewVars, queryVars, holdVars, latest, waits, client, sql, failed, of>>
      <3>1. pc[l] = "probeEnding" /\ Rest
        BY <1>8, <2>2 DEF ProbeEnded, Rest, viewVars, holdVars
      <3>2. "pageConnecting" \in Steps
        BY DEF Steps
      <3> QED BY <2>2, <3>1, <3>2, LoadKeeps
    <2> QED BY <1>8, <2>1, <2>2 DEF ProbeEnded
  <1>9. CASE Show(l)
    <2>1. /\ Return(l) /\ pc[l] = "pageEnding" /\ busy' = (busy /\ latest # l)
          /\ session' = l /\ latest = l /\ UNCHANGED <<latest, disposed, upset>>
      BY <1>9 DEF Show, Finally, Stale
    <2> QED BY <1>r, <2>1, LoadEndsKeeps
  <1>10. CASE ShowFails(l)
    BY <1>10, <1>f DEF ShowFails
  <1> QED BY <1>1, <1>2, <1>3, <1>4, <1>5, <1>6, <1>7, <1>8, <1>9, <1>10, ResumeLoadKeeps DEF LoadGoesOn

LEMMA MoveGoesOnKeeps ==
  ASSUME TypeOK, BusyInv, NEW n \in Moves, MoveGoesOn(n)
  PROVE  BusyInv'
  <1>0. n \in Readers
    BY DEF Readers
  <1>1. CASE MoveShown(n)
    <2>1. /\ Return(n) /\ pc[n] = "pageEnding" /\ busy' = (busy /\ latest # of[n])
          /\ UNCHANGED <<latest, session, disposed, upset>>
      BY <1>1 DEF MoveShown, FinishMove, holdVars
    <2> QED BY <2>1, MoveEndsKeeps
  <1>2. CASE ReadOn(n)
    <2>1. /\ pc' = [pc EXCEPT ![n] = "pageConnecting"] /\ pc[n] = "pageEnding"
          /\ UNCHANGED <<latest, session, of, busy, disposed, upset>>
      BY <1>2 DEF ReadOn, viewVars, holdVars
    <2>2. "pageConnecting" \in Steps
      BY DEF Steps
    <2> QED BY <2>1, <2>2, MoveKeeps
  <1>3. CASE MoveFails(n)
    <2>1. FailRead(n) /\ pc[n] = "pageEnding"
      BY <1>3 DEF MoveFails, FailRead
    <2> QED BY <1>0, <2>1, FailReadKeeps
  <1>4. CASE ResumeMove(n)
    <2>1. /\ Return(n) /\ pc[n] = "closing" /\ busy' = (busy /\ latest # of[n])
          /\ UNCHANGED <<latest, session, disposed, upset>>
      BY <1>4 DEF ResumeMove, holdVars
    <2> QED BY <2>1, MoveEndsKeeps
  <1> QED BY <1>1, <1>2, <1>3, <1>4 DEF MoveGoesOn

\* A page is read for a load or for a navigation.
LEMMA PageKeeps ==
  ASSUME TypeOK, BusyInv, NEW a \in Readers, NEW to \in Steps, pc' = [pc EXCEPT ![a] = to], Rest,
         pc[a] \notin {"idle", "starting", "parsing", "closing"},
         to \notin {"idle", "starting", "parsing", "closing"}
  PROVE  BusyInv'
  <1>1. CASE a \in Loads
    BY <1>1, LoadKeeps
  <1>2. CASE a \in Moves
    BY <1>2, MoveKeeps DEF Rest
  <1> QED BY <1>1, <1>2 DEF Readers

LEMMA PageReadKeeps ==
  ASSUME TypeOK, BusyInv, NEW a \in Readers, NEW ok \in BOOLEAN, PageRead(a, ok)
  PROVE  BusyInv'
  <1>1. pc' = [pc EXCEPT ![a] = "pageEnding"] /\ pc[a] = "paging" /\ Rest
    BY DEF PageRead, Go, Rest, viewVars
  <1>2. "pageEnding" \in Steps
    BY DEF Steps
  <1> QED BY <1>1, <1>2, PageKeeps

LEMMA ReadGoesOnKeeps ==
  ASSUME TypeOK, BusyInv, NEW a \in Readers, ReadGoesOn(a)
  PROVE  BusyInv'
  <1>1. CASE PageConnected(a)
    <2>1. PICK to \in {"pageEnding", "paging"} : pc' = [pc EXCEPT ![a] = to]
      BY <1>1 DEF PageConnected, Go
    <2>2. pc[a] = "pageConnecting" /\ Rest
      BY <1>1 DEF PageConnected, Rest, viewVars
    <2>3. to \in Steps
      BY DEF Steps
    <2> QED BY <2>1, <2>2, <2>3, PageKeeps
  <1>2. CASE PageConnectionFails(a)
    BY <1>2, FailReadKeeps DEF PageConnectionFails
  <1>3. CASE PageRead(a, FALSE)
    BY <1>3, PageReadKeeps
  <1>4. CASE ClientEnds(a)
    <2>1. pc' = pc /\ Rest
      BY <1>4 DEF ClientEnds, Rest, viewVars, holdVars
    <2> QED BY <2>1, ElsewhereKeeps
  <1> QED BY <1>1, <1>2, <1>3, <1>4 DEF ReadGoesOn

LEMMA AskedKeeps ==
  ASSUME TypeOK, Queued, BusyInv, Asked
  PROVE  BusyInv'
  <1>1. ASSUME NEW l \in Loads, OpenView(l) PROVE BusyInv'
    <2>1. /\ pc' = [pc EXCEPT ![l] = "starting"] /\ pc[l] = "idle" /\ Rest
          /\ session # l /\ \A n \in Moves : pc[n] # "idle" => of[n] # l
      BY <1>1 DEF OpenView, Free, Rest, viewVars, holdVars
    <2> QED BY <2>1, AwaitKeeps
  <1>2. ASSUME NEW l \in Loads, Refresh(l) PROVE BusyInv'
    BY <1>2, BeginLoadKeeps DEF Refresh
  <1>3. ASSUME NEW l \in Loads, NEW t \in Texts, ApplyText(l, t) PROVE BusyInv'
    <2>1. CASE BeginLoad(l)
      BY <1>3, <2>1, BeginLoadKeeps DEF ApplyText
    <2>2. CASE ~BeginLoad(l)
      <3>1. /\ pc' = [pc EXCEPT ![l] = "parsing"] /\ pc[l] = "idle" /\ Rest
            /\ session # l /\ \A n \in Moves : pc[n] # "idle" => of[n] # l
        BY <1>3, <2>2 DEF ApplyText, Free, Rest, viewVars, holdVars
      <3> QED BY <3>1, AwaitKeeps
    <2> QED BY <2>1, <2>2
  <1>4. ASSUME NEW c \in Cancels, Cancel(c) PROVE BusyInv'
    <2>1. Supersedes(c)
      BY <1>4 DEF Cancel, CloseAndWait, CloseSession, Supersedes, viewVars
    <2>2. \A n \in Moves : pc[n] # "idle" => of[n] # c
      BY <1>4 DEF Cancel, Free
    <2> QED BY <2>1, <2>2, SupersedesKeeps
  <1>5. CASE Dispose
    <2>1. disposed' = TRUE /\ session' = None /\ pc' = pc /\ of' = of
      BY <1>5 DEF Dispose, CloseSession
    <2> QED BY <2>1 DEF BusyInv, SessionIsLatest, MovesOfFinished, OneMove, BusyMeansWork, WorkIsBusy
  <1>6. ASSUME parses # <<>> PROVE Head(parses).load \in Loads /\ pc[Head(parses).load] = "parsing"
    <2>1. Head(parses) = parses[1] /\ 1 \in 1..Len(parses)
      BY <1>6, ParsesTyped, EmptySeq
    <2> QED BY <2>1, ParsesTyped DEF Queued
  <1>7. CASE Parsed
    <2>1. BeginLoad(Head(parses).load) /\ parses # <<>>
      BY <1>7 DEF Parsed
    <2> QED BY <1>6, <2>1, BeginLoadKeeps
  <1>8. CASE ParseFails
    <2>1. /\ pc' = [pc EXCEPT ![Head(parses).load] = "idle"] /\ parses # <<>>
          /\ Rest
      BY <1>8 DEF ParseFails, Rest, holdVars
    <2> QED BY <1>6, <2>1, AwaitKeeps
  <1> QED BY <1>1, <1>2, <1>3, <1>4, <1>5, <1>7, <1>8, NavigateKeeps DEF Asked

LEMMA BusyStep ==
  ASSUME TypeOK, Queued, BusyInv, [Next]_vars
  PROVE  BusyInv'
  <1>1. ASSUME NEW l \in Loads, Probed(l) \/ ProbeFails(l) PROVE BusyInv'
    <2>1. PICK to \in {"failing", "probeEnding"} : pc' = [pc EXCEPT ![l] = to]
      BY <1>1 DEF Probed, ProbeFails, Go
    <2>2. pc[l] = "probing" /\ Rest
      BY <1>1 DEF Probed, ProbeFails, Rest, viewVars, holdVars
    <2>3. to \in Steps
      BY DEF Steps
    <2> QED BY <2>1, <2>2, <2>3, LoadKeeps
  <1>2. ASSUME NEW a \in Readers, PageRead(a, TRUE) \/ PageRead(a, FALSE) PROVE BusyInv'
    BY <1>2, PageReadKeeps
  <1>3. CASE Initialized \/ InitializationFails \/ UNCHANGED vars
    <2>1. pc' = pc /\ Rest
      BY <1>3 DEF Initialized, InitializationFails, vars, Rest, viewVars, holdVars, callVars
    <2> QED BY <2>1, ElsewhereKeeps
  <1> QED BY <1>1, <1>2, <1>3, AskedKeeps, LoadGoesOnKeeps, MoveGoesOnKeeps, ReadGoesOnKeeps,
             ResumeCancelKeeps DEF Next, Answered

\* The calls under way and the view agree on whether it is busy, for any number of calls, until one
\* is overtaken while it closes what the document held.
THEOREM BusyIsRight == Spec => []BusyInv
  <1>1. Init => BusyInv
    BY ReadingAssumption
       DEF Init, BusyInv, SessionIsLatest, MovesOfFinished, OneMove, BusyMeansWork, WorkIsBusy, Actors,
           Current
  <1>2. TypeOK /\ ReadingInv /\ BusyInv /\ [Next]_vars => (TypeOK /\ ReadingInv /\ BusyInv)'
    BY TypesStep, ReadingStep, BusyStep DEF ReadingInv
  <1>3. Init => ReadingInv
    BY ReadingStart
  <1> QED BY <1>1, <1>2, <1>3, TypesStart, PTL DEF Spec

\* A view does not stay busy when nothing is under way (dataViewDocument.ts:532, 602).
THEOREM BusyViewsWork == Spec => []BusyMeansWork
  <1>1. BusyInv => BusyMeansWork
    BY DEF BusyInv
  <1> QED BY <1>1, BusyIsRight, PTL

\* No second navigation starts while one is under way (dataViewDocument.ts:618, offsetQuery.ts:229).
THEOREM WorkShowsBusy == Spec => []WorkIsBusy
  <1>1. BusyInv => WorkIsBusy
    BY DEF BusyInv
  <1> QED BY <1>1, BusyIsRight, PTL
=============================================================================
