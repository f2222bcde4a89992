--------------------------- MODULE DataViewReading ---------------------------
(***************************************************************************)
(* How a Data View reads its rows (vscode-extension/src/dataView/          *)
(* dataViewDocument.ts, packages/rows/src/dataView/openRows.ts,            *)
(* packages/rows/src/offsetQuery.ts).                                      *)
(*                                                                         *)
(* Every load opens a client to probe the query, then one for the first    *)
(* page; every further page opens one more.  A load, a cancellation and    *)
(* the closing of the tab raise the generation and close what the          *)
(* document holds before they go on, and whoever comes back from an await  *)
(* with an older generation has been superseded.  A generation is named    *)
(* here by the call that raised it last.                                   *)
(***************************************************************************)
EXTENDS Sequences, FiniteSets

CONSTANTS
  Loads,    \* bound: calls that end in load() under way at a time
  Moves,    \* bound: navigations that read a page under way at a time
  Cancels,  \* bound: cancellations under way at a time
  Texts,    \* texts of the query
  Empty,    \* the blank one
  None      \* no load, no client, no rows

ASSUME ReadingAssumption ==
  /\ Empty \in Texts
  /\ None \notin Loads \cup Moves \cup Cancels \cup Texts
  /\ Loads \cap Moves = {} /\ Loads \cap Cancels = {} /\ Moves \cap Cancels = {}

VARIABLES
  text, analysis,  \* SqlQueryModel: the text, and the text its analysis is of
  parses,          \* calls of setText that await the parser, oldest first
  initialized,     \* the memoised initialisation
  latest,          \* who raised loadGeneration last
  session,         \* the load whose OffsetResultSession the document holds
  pendingCancel,   \* the load whose cancellation is registered (pendingLoadCancel)
  shown,           \* the rows in the grid: the text and the analysis they were read with
  status, busy, disposed,
  upset,           \* history: what the document does not guard against and has happened
  pc,              \* where each call awaits
  waits,           \* the clients whose end a call of closeSession awaits
  client,          \* the client each call has opened
  cancelled,       \* loads whose probe, source and session were cancelled
  active,          \* activeClient of each load's source
  sql,             \* what each load reads
  failed,          \* calls whose page could not be read
  of               \* the load whose session a navigation reads

queryVars == <<text, analysis, parses, initialized>>
viewVars == <<shown, status, busy, disposed, upset>>
holdVars == <<session, pendingCancel, cancelled, active>>
callVars == <<pc, waits, client, sql, failed, of>>
vars == <<queryVars, viewVars, holdVars, callVars, latest>>

Actors == Loads \cup Moves \cup Cancels
Readers == Loads \cup Moves

Steps ==
  {"idle", "starting", "parsing", "closing", "initializing", "connecting", "probing", "probeEnding",
   "pageConnecting", "paging", "pageEnding", "failing"}

Rows == [text: Texts, analysed: Texts]

TypeOK ==
  /\ {text, analysis} \subseteq Texts
  /\ parses \in Seq([load: Loads, text: Texts])
  /\ initialized \in {"no", "running", "done", "failed"}
  /\ latest \in Loads \cup Cancels \cup {None}
  /\ {session, pendingCancel} \subseteq Loads \cup {None}
  /\ shown \in Rows \cup {None}
  /\ status \in {"loading", "ready", "error"}
  /\ {busy, disposed} \subseteq BOOLEAN
  /\ upset \subseteq {"overtaken", "unparsed"}
  /\ pc \in [Actors -> Steps]
  /\ waits \in [Actors -> SUBSET Readers]
  /\ client \in [Readers -> {"none", "open", "ending"}]
  /\ cancelled \in [Loads -> BOOLEAN]
  /\ active \in [Loads -> Readers \cup {None}]
  /\ sql \in [Loads -> Rows \cup {None}]
  /\ failed \in [Readers -> BOOLEAN]
  /\ of \in [Moves -> Loads \cup {None}]
  /\ \A n \in Moves : pc[n] # "idle" => of[n] # None

Init ==
  /\ text = Empty /\ analysis = Empty /\ parses = <<>> /\ initialized = "no"
  /\ latest = None /\ session = None /\ pendingCancel = None
  /\ shown = None /\ status = "loading" /\ busy = FALSE /\ disposed = FALSE /\ upset = {}
  /\ pc = [a \in Actors |-> "idle"]
  /\ waits = [a \in Actors |-> {}]
  /\ client = [a \in Readers |-> "none"]
  /\ cancelled = [l \in Loads |-> FALSE]
  /\ active = [l \in Loads |-> None]
  /\ sql = [l \in Loads |-> None]
  /\ failed = [a \in Readers |-> FALSE]
  /\ of = [n \in Moves |-> None]

-----------------------------------------------------------------------------
(* Calls *)

\* assertGeneration.
Stale(l) == latest # l \/ disposed

\* The load whose source a page is read from.
SourceOf(a) == IF a \in Moves THEN of[a] ELSE a

\* A call may be made again once nobody refers to it.
Free(a) ==
  /\ pc[a] = "idle" /\ session # a
  /\ \A b \in Actors : a \notin waits[b]
  /\ \A n \in Moves : pc[n] # "idle" => of[n] # a

\* What goes on in the microtasks of the event that let it.
Resumes(a) ==
  \/ pc[a] = "closing" /\ \A b \in waits[a] : client[b] # "ending"
  \/ pc[a] \in {"starting", "initializing"} /\ initialized \in {"done", "failed"}

Quiet == \A a \in Actors : ~Resumes(a)

\* A mutant: the probe is out of reach.
ClientOfSource(l) == {active[l]} \ {None}

\* The client that cancelling load l ends: its probe, or the one its source is reading with.
ClientOf(l) == IF pc[l] \in {"probing", "probeEnding", "failing"} THEN {l} ELSE {active[l]} \ {None}

\* closeSession: the session and the registered cancellation are let go of, and their clients ended.
LetGo == {pendingCancel, session} \ {None}

Ended == UNION {ClientOf(l) : l \in LetGo}

CloseSession ==
  /\ session' = None /\ pendingCancel' = None
  /\ cancelled' = [l \in Loads |-> cancelled[l] \/ l \in LetGo]
  /\ active' = [l \in Loads |-> IF l \in LetGo THEN None ELSE active[l]]
  /\ client' = [a \in Readers |-> IF a \in Ended /\ client[a] = "open" THEN "ending" ELSE client[a]]

\* The closing call awaits the clients that were not ended yet.
CloseAndWait(a) ==
  /\ CloseSession
  /\ pc' = [pc EXCEPT ![a] = "closing"]
  /\ waits' = [waits EXCEPT ![a] = {b \in Ended : client[b] # "none"}]

\* load, up to its first await.
BeginLoad(l) ==
  /\ latest' = l /\ CloseAndWait(l)
  /\ UNCHANGED <<sql, failed, of, viewVars>>

\* ensureInitialized: the promise is kept, also a rejected one.
EnsureInitialized == initialized' = IF initialized = "no" THEN "running" ELSE initialized

\* The call returns, and what it held is forgotten.
Return(a) ==
  /\ pc' = [pc EXCEPT ![a] = "idle"]
  /\ sql' = [l \in Loads |-> IF l = a THEN None ELSE sql[l]]
  /\ failed' = [b \in Readers |-> failed[b] /\ b # a]
  /\ of' = [n \in Moves |-> IF n = a THEN None ELSE of[n]]

\* The finally of load.
Finally(l) ==
  /\ pendingCancel' = IF latest = l THEN None ELSE pendingCancel
  /\ busy' = (busy /\ latest # l)
  /\ Return(l)

\* The catch of openDataViewResult and of load, with no client left to end.
FailLoad(l) ==
  /\ Finally(l)
  /\ status' = IF Stale(l) THEN status ELSE "error"
  /\ UNCHANGED <<shown, disposed, upset, session, cancelled, active, queryVars, latest,
                 waits, client>>

\* A mutant: whoever ends says that nothing is under way.
FinishAnyMove(n) ==
  /\ busy' = FALSE
  /\ Return(n)
  /\ UNCHANGED <<shown, status, disposed, upset, holdVars, queryVars, latest, waits, client>>

\* The finally of navigate.
FinishMove(n) ==
  /\ busy' = (busy /\ latest # of[n])
  /\ Return(n)
  /\ UNCHANGED <<shown, status, disposed, upset, holdVars, queryVars, latest, waits, client>>

\* The catch of navigate.
FailMove(n) ==
  \/ /\ session = of[n]
     /\ CloseAndWait(n)
     /\ UNCHANGED <<viewVars, queryVars, latest, sql, failed, of>>
  \/ session # of[n] /\ FinishMove(n)

FailRead(a) == IF a \in Moves THEN FailMove(a) ELSE FailLoad(a)

\* A call goes from one await to the next; its client is opened, or asked to end.
Go(a, to, c) ==
  /\ pc' = [pc EXCEPT ![a] = to]
  /\ client' = [client EXCEPT ![a] = c]

-----------------------------------------------------------------------------
(* What the reader and the editor ask for *)

\* "data-view/ready".
OpenView(l) ==
  /\ Free(l) /\ latest = None /\ ~disposed
  /\ pc' = [pc EXCEPT ![l] = "starting"]
  /\ EnsureInitialized
  /\ UNCHANGED <<text, analysis, parses, viewVars, holdVars, latest,
                 waits, client, sql, failed, of>>

\* "data-view/refresh", and "data-view/apply-query" with a clean editor.
Refresh(l) ==
  /\ Free(l) /\ ~disposed
  /\ BeginLoad(l)
  /\ UNCHANGED queryVars

\* applyQueryText, of a text that was saved, or that an action of the grid wrote.
ApplyText(l, t) ==
  /\ Free(l) /\ ~disposed /\ initialized = "done"
  /\ t # text \/ latest = None \/ status = "error"
  /\ text' = t
  /\ \/ /\ t = Empty
        /\ analysis' = t
        /\ BeginLoad(l)
        /\ UNCHANGED <<parses, initialized>>
     \/ /\ t # Empty
        /\ pc' = [pc EXCEPT ![l] = "parsing"]
        /\ parses' = Append(parses, [load |-> l, text |-> t])
        /\ UNCHANGED <<analysis, initialized, viewVars, holdVars, latest,
                       waits, client, sql, failed, of>>

\* "data-view/navigate" to a page that has to be read.
Navigate(n) ==
  /\ Free(n) /\ session # None /\ ~busy /\ ~disposed
  /\ of' = [of EXCEPT ![n] = session]
  /\ busy' = TRUE
  /\ pc' = [pc EXCEPT ![n] = "pageConnecting"]
  /\ UNCHANGED <<shown, status, disposed, upset, queryVars, holdVars, latest,
                 waits, client, sql, failed>>

\* "data-view/navigate" with cancel.
Cancel(c) ==
  /\ Free(c) /\ latest # None /\ ~disposed
  /\ latest' = c
  /\ CloseAndWait(c)
  /\ UNCHANGED <<queryVars, viewVars, sql, failed, of>>

\* The tab is closed: nobody awaits its closeSession.
Dispose ==
  /\ ~disposed
  /\ disposed' = TRUE /\ latest' = None
  /\ CloseSession
  /\ UNCHANGED <<queryVars, shown, status, busy, upset, pc, waits, sql, failed, of>>

-----------------------------------------------------------------------------
(* The query text *)

\* initialize: the relation's columns are probed, the text is set and analysed, its file registered.
Initialized ==
  /\ initialized = "running"
  /\ initialized' = "done"
  /\ \E t \in Texts : text' = t /\ analysis' = t
  /\ UNCHANGED <<parses, viewVars, holdVars, callVars, latest>>

InitializationFails ==
  /\ initialized = "running"
  /\ initialized' = "failed"
  /\ UNCHANGED <<text, analysis, parses, viewVars, holdVars, callVars, latest>>

\* handle goes on to load once the view is initialised, and gives up when it cannot be.
Started(l) ==
  /\ pc[l] = "starting"
  /\ \/ initialized = "done" /\ BeginLoad(l)
     \/ /\ initialized = "failed"
        /\ pc' = [pc EXCEPT ![l] = "idle"]
        /\ UNCHANGED <<viewVars, holdVars, latest, waits, client, sql, failed, of>>
  /\ UNCHANGED queryVars

\* The parser answers in the order it was asked; setText ends and load is called.
Parsed ==
  /\ parses # <<>>
  /\ parses' = Tail(parses)
  /\ analysis' = Head(parses).text
  /\ BeginLoad(Head(parses).load)
  /\ UNCHANGED <<text, initialized>>

\* The parser rejects: the text stays without its analysis, and nothing is loaded.
ParseFails ==
  /\ parses # <<>>
  /\ parses' = Tail(parses)
  /\ pc' = [pc EXCEPT ![Head(parses).load] = "idle"]
  /\ upset' = upset \cup {"unparsed"}
  /\ UNCHANGED <<text, analysis, initialized, shown, status, busy, disposed, holdVars, latest,
                 waits, client, sql, failed, of>>

-----------------------------------------------------------------------------
(* load *)

\* After closeSession: written whether or not another call has come in the meantime.
ResumeLoad(l) ==
  /\ pc[l] = "closing" /\ Resumes(l)
  /\ status' = "loading" /\ busy' = TRUE
  /\ upset' = IF Stale(l) THEN upset \cup {"overtaken"} ELSE upset
  /\ pc' = [pc EXCEPT ![l] = "initializing"]
  /\ waits' = [waits EXCEPT ![l] = {}]
  /\ EnsureInitialized
  /\ UNCHANGED <<text, analysis, parses, shown, disposed, holdVars, latest,
                 client, sql, failed, of>>

\* An empty query has no rows.
ShowNothing(l) ==
  /\ pc[l] = "initializing" /\ initialized = "done" /\ text = Empty
  /\ shown' = None /\ status' = "ready"
  /\ Finally(l)
  /\ UNCHANGED <<disposed, upset, session, cancelled, active, queryVars, latest, waits, client>>

\* openDataViewResult: the cancellation is registered before the first client is opened.
Open(l) ==
  /\ pc[l] = "initializing" /\ initialized = "done" /\ text # Empty
  /\ sql' = [sql EXCEPT ![l] = [text |-> text, analysed |-> analysis]]
  /\ pendingCancel' = IF Stale(l) THEN pendingCancel ELSE l
  /\ cancelled' = [cancelled EXCEPT ![l] = Stale(l)]
  /\ pc' = [pc EXCEPT ![l] = "connecting"]
  /\ UNCHANGED <<viewVars, queryVars, latest, session, active, waits, client, failed, of>>

NotInitialized(l) ==
  /\ pc[l] = "initializing" /\ initialized = "failed"
  /\ FailLoad(l)

Connected(l) ==
  /\ pc[l] = "connecting"
  /\ \/ cancelled[l] /\ Go(l, "failing", "ending")
     \/ ~cancelled[l] /\ Go(l, "probing", "open")
  /\ UNCHANGED <<viewVars, queryVars, holdVars, latest, waits, sql, failed, of>>

ConnectionFails(l) ==
  /\ pc[l] = "connecting"
  /\ FailLoad(l)

\* The projection and the facts of its tables are known.
Probed(l) ==
  /\ pc[l] = "probing" /\ client[l] = "open"
  /\ \/ (cancelled[l] \/ Stale(l)) /\ Go(l, "failing", "ending")
     \/ ~(cancelled[l] \/ Stale(l)) /\ Go(l, "probeEnding", "ending")
  /\ UNCHANGED <<viewVars, queryVars, holdVars, latest, waits, sql, failed, of>>

ProbeFails(l) ==
  /\ pc[l] = "probing" /\ client[l] = "open"
  /\ Go(l, "failing", "ending")
  /\ UNCHANGED <<viewVars, queryVars, holdVars, latest, waits, sql, failed, of>>

\* The client was ended under the probe, or by the catch of openDataViewResult.
ProbeLost(l) ==
  /\ pc[l] \in {"probing", "failing"} /\ client[l] = "none"
  /\ FailLoad(l)

ProbeEnded(l) ==
  /\ pc[l] = "probeEnding" /\ client[l] = "none"
  /\ \/ (cancelled[l] \/ Stale(l)) /\ FailLoad(l)
     \/ /\ ~(cancelled[l] \/ Stale(l))
        /\ pc' = [pc EXCEPT ![l] = "pageConnecting"]
        /\ UNCHANGED <<viewVars, queryVars, holdVars, latest, waits, client, sql, failed, of>>

\* A mutant: no checkpoint after the first page.
ShowUnchecked(l) ==
  /\ pc[l] = "pageEnding" /\ client[l] = "none" /\ ~failed[l]
  /\ session' = l
  /\ shown' = sql[l] /\ status' = "ready"
  /\ Finally(l)
  /\ UNCHANGED <<disposed, upset, cancelled, active, queryVars, latest, waits, client>>

\* The first page is there: the document shows it and holds its session.
Show(l) ==
  /\ pc[l] = "pageEnding" /\ client[l] = "none" /\ ~failed[l] /\ ~Stale(l)
  /\ session' = l
  /\ shown' = sql[l] /\ status' = "ready"
  /\ Finally(l)
  /\ UNCHANGED <<disposed, upset, cancelled, active, queryVars, latest, waits, client>>

ShowFails(l) ==
  /\ pc[l] = "pageEnding" /\ client[l] = "none"
  /\ failed[l] \/ Stale(l)
  /\ FailLoad(l)

-----------------------------------------------------------------------------
(* PostgresOffsetQuerySource.read, of a load's first page and of a navigation's *)

PageConnected(a) ==
  LET l == SourceOf(a) IN
  /\ pc[a] = "pageConnecting"
  /\ failed' = [failed EXCEPT ![a] = cancelled[l]]
  /\ \/ /\ cancelled[l] /\ Go(a, "pageEnding", "ending")
        /\ UNCHANGED active
     \/ /\ ~cancelled[l] /\ Go(a, "paging", "open")
        /\ active' = [active EXCEPT ![l] = a]
  /\ UNCHANGED <<viewVars, queryVars, session, pendingCancel, cancelled, latest, waits, sql, of>>

PageConnectionFails(a) ==
  /\ pc[a] = "pageConnecting"
  /\ FailRead(a)

\* PostgreSQL answers, with an error or rows of another shape when ok is FALSE, or the client was
\* ended under the query; the client is ended in any case.
PageRead(a, ok) ==
  LET l == SourceOf(a) IN
  /\ pc[a] = "paging"
  /\ client[a] = "open" \/ (client[a] = "none" /\ ~ok)
  /\ failed' = [failed EXCEPT ![a] = ~ok]
  /\ active' = [active EXCEPT ![l] = IF @ = a THEN None ELSE @]
  /\ Go(a, "pageEnding", IF client[a] = "open" THEN "ending" ELSE "none")
  /\ UNCHANGED <<viewVars, queryVars, session, pendingCancel, cancelled, latest, waits, sql, of>>

\* appendPage adds the page to a session that is still open.
MoveShown(n) ==
  /\ pc[n] = "pageEnding" /\ client[n] = "none" /\ ~failed[n] /\ ~cancelled[of[n]]
  /\ FinishMove(n)

\* loadAll reads the next page.
ReadOn(n) ==
  /\ pc[n] = "pageEnding" /\ client[n] = "none" /\ ~failed[n] /\ ~cancelled[of[n]]
  /\ pc' = [pc EXCEPT ![n] = "pageConnecting"]
  /\ UNCHANGED <<viewVars, queryVars, holdVars, latest, waits, client, sql, failed, of>>

MoveFails(n) ==
  /\ pc[n] = "pageEnding" /\ client[n] = "none"
  /\ failed[n] \/ cancelled[of[n]]
  /\ FailMove(n)

\* A mutant: a navigation that failed does not reach its finally.
ResumeMoveStillBusy(n) ==
  /\ pc[n] = "closing" /\ Resumes(n)
  /\ Return(n)
  /\ waits' = [waits EXCEPT ![n] = {}]
  /\ UNCHANGED <<viewVars, queryVars, holdVars, latest, client>>

ResumeMove(n) ==
  /\ pc[n] = "closing" /\ Resumes(n)
  /\ busy' = (busy /\ latest # of[n])
  /\ Return(n)
  /\ waits' = [waits EXCEPT ![n] = {}]
  /\ UNCHANGED <<shown, status, disposed, upset, queryVars, holdVars, latest, client>>

\* The view is told that nothing is loading, whatever has come in the meantime.
ResumeCancel(c) ==
  /\ pc[c] = "closing" /\ Resumes(c)
  /\ busy' = FALSE
  /\ upset' = IF latest # c THEN upset \cup {"overtaken"} ELSE upset
  /\ pc' = [pc EXCEPT ![c] = "idle"]
  /\ waits' = [waits EXCEPT ![c] = {}]
  /\ UNCHANGED <<shown, status, disposed, queryVars, holdVars, latest,
                 client, sql, failed, of>>

\* The socket of a client that was asked to end is closed.
ClientEnds(a) ==
  /\ client[a] = "ending"
  /\ client' = [client EXCEPT ![a] = "none"]
  /\ UNCHANGED <<viewVars, queryVars, holdVars, latest, pc, waits, sql, failed, of>>

-----------------------------------------------------------------------------

Asked ==
  /\ Quiet
  /\ \/ \E l \in Loads : OpenView(l) \/ Refresh(l) \/ (\E t \in Texts : ApplyText(l, t))
     \/ \E n \in Moves : Navigate(n)
     \/ \E c \in Cancels : Cancel(c)
     \/ Dispose
     \/ Parsed
     \/ ParseFails

\* What PostgreSQL answers, or does not.
Answered ==
  \/ \E l \in Loads : Probed(l) \/ ProbeFails(l)
  \/ \E a \in Readers : client[a] = "open" /\ (PageRead(a, TRUE) \/ PageRead(a, FALSE))

\* What goes on without PostgreSQL's answer to a query.
LoadGoesOn(l) ==
  \/ Started(l) \/ ResumeLoad(l) \/ ShowNothing(l) \/ Open(l) \/ NotInitialized(l)
  \/ Connected(l) \/ ConnectionFails(l) \/ ProbeLost(l) \/ ProbeEnded(l) \/ Show(l) \/ ShowFails(l)

MoveGoesOn(n) == MoveShown(n) \/ ReadOn(n) \/ MoveFails(n) \/ ResumeMove(n)

ReadGoesOn(a) ==
  \/ PageConnected(a) \/ PageConnectionFails(a)
  \/ client[a] = "none" /\ PageRead(a, FALSE)
  \/ ClientEnds(a)

Next ==
  \/ Asked
  \/ Answered
  \/ Initialized \/ InitializationFails
  \/ \E l \in Loads : LoadGoesOn(l)
  \/ \E n \in Moves : MoveGoesOn(n)
  \/ \E a \in Readers : ReadGoesOn(a)
  \/ \E c \in Cancels : ResumeCancel(c)

Spec == Init /\ [][Next]_vars

\* Clients connect or fail to, and those asked to end do; the initialisation settles.  Nothing is
\* asked of the queries: PostgreSQL may never answer one.
Fairness ==
  /\ WF_vars(Initialized \/ InitializationFails)
  /\ \A l \in Loads : WF_vars(LoadGoesOn(l) \/ ReadGoesOn(l))
  /\ \A n \in Moves : WF_vars(MoveGoesOn(n) \/ ReadGoesOn(n))

FairSpec == Spec /\ Fairness

-----------------------------------------------------------------------------
(* Properties *)

\* As long as no new query is being parsed and no load is closing what was shown, the rows of a
\* view that is ready were read with the query's text and with the analysis of that text, unless
\* the parser has failed (dataViewDocument.ts:397, model.ts:67).
RowsOfTheQuery ==
  (/\ status = "ready" /\ ~disposed /\ "unparsed" \notin upset
   /\ \A l \in Loads : pc[l] \notin {"parsing", "closing"})
  => shown = IF text = Empty THEN None ELSE [text |-> text, analysed |-> text]

Current(l) == pc[l] # "idle" /\ latest = l

\* A view is busy only while something is under way that will say it no longer is, a call that has
\* yet to say so, the latest load, or a navigation of its session: as long as no load or cancellation
\* was overtaken while it closed what the document held (dataViewDocument.ts:532, 602).
BusyMeansWork ==
  busy /\ ~disposed =>
    \/ "overtaken" \in upset
    \/ \E a \in Loads \cup Cancels : pc[a] = "closing"
    \/ \E l \in Loads : Current(l) /\ pc[l] \notin {"starting", "parsing"}
    \/ \E n \in Moves : pc[n] # "idle" /\ latest = of[n]

\* While the latest load, or a navigation of the open session, is under way the view is busy, so
\* that no other navigation starts: two would append the same page twice.  Again as long as nothing
\* was overtaken (dataViewDocument.ts:618, offsetQuery.ts:229).
WorkIsBusy ==
  "overtaken" \notin upset /\ ~disposed =>
    /\ \A l \in Loads : Current(l) /\ pc[l] \notin {"starting", "parsing", "closing"} => busy
    /\ \A n \in Moves : pc[n] # "idle" /\ of[n] = session => busy

\* Whatever is superseded ends, also when PostgreSQL never answers its query: its client is ended.
\* Of a navigation this is said only as long as nothing was overtaken (upset): then two of them may
\* read the same open rows, which know the client of one (dataViewDocument.ts:640,
\* openRows.ts:186, offsetQuery.ts:115).
SupersededEnds ==
  /\ \A l \in Loads : pc[l] \notin {"idle", "starting", "parsing"} /\ Stale(l) ~> pc[l] = "idle"
  /\ \A n \in Moves : pc[n] # "idle" /\ session # of[n] ~> pc[n] = "idle" \/ "overtaken" \in upset
=============================================================================
