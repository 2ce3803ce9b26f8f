--------------------------- MODULE IndexerProofs ---------------------------
(***************************************************************************)
(* Proofs about the indexer, for any number of events, any page size, any  *)
(* retry limit and any number of failing calls and crashes.                *)
(***************************************************************************)
EXTENDS Indexer, FiniteSetTheorems, TLAPS

\* The first event of a page is an event number.
LEMMA FirstEventType ==
  ASSUME NEW c \in Cursor, NEW ledger \in Nat \cup {None}
  PROVE  /\ FirstEvent(c, ledger) \in Nat /\ FirstEvent(c, ledger) >= 1
         /\ c # None => FirstEvent(c, ledger) = c + 1
<1> USE IndexerAssumption
<1>1. CASE c # None
  BY <1>1 DEF FirstEvent, Cursor, Event
<1>2. CASE c = None /\ (ledger = None \/ ledger = 0)
  BY <1>2 DEF FirstEvent
<1>3. CASE c = None /\ ~(ledger = None \/ ledger = 0)
  <2>1. ledger - 1 \in Nat
    BY <1>3
  <2>2. (ledger - 1) * EventsPerLedger \in Nat
    BY <2>1
  <2> QED BY <1>3, <2>2 DEF FirstEvent
<1> QED BY <1>1, <1>2, <1>3

\* So is the first event of a worker's next page.
LEMMA FirstOfPageType ==
  ASSUME IndexerInv, NEW w \in Worker, pc[w] = "fetch"
  PROVE  /\ FirstOfPage(w) \in Nat /\ FirstOfPage(w) >= 1
         /\ cursor[w] # None => FirstOfPage(w) = cursor[w] + 1
<1>1. cursor[w] \in Cursor
  BY DEF IndexerInv, IndexerTypeOK
<1>2. LedgerAsked(w) \in Nat \cup {None}
  BY IndexerAssumption
  DEF LedgerAsked, IndexerInv, ReplayAsked, Requests, Worker
<1> QED BY <1>1, <1>2, FirstEventType DEF FirstOfPage

\* A page ends with an event that was emitted.
LEMMA PageType ==
  ASSUME IndexerInv, NEW w \in Worker, get_events(w), pc'[w] = "process"
  PROVE  \E first, end \in 1 .. MaxEvents :
           /\ first = FirstOfPage(w) /\ first <= end /\ end <= chain
           /\ pos' = [pos EXCEPT ![w] = first]
           /\ last' = [last EXCEPT ![w] = end]
<1> USE IndexerAssumption
<1> DEFINE first == FirstOfPage(w)
           end == IF chain < first + PageSize THEN chain ELSE first + PageSize - 1
<1>1. pc[w] = "fetch" /\ chain \in Nat /\ chain <= MaxEvents
  BY DEF get_events, IndexerInv, IndexerTypeOK
<1>2. first \in Nat /\ first >= 1
  BY <1>1, FirstOfPageType
<1>3. /\ ~(end < first)
      /\ pos' = [pos EXCEPT ![w] = first] /\ last' = [last EXCEPT ![w] = end]
  <2>1. pc \in [Worker -> {"idle", "load", "fetch", "process", "stopped"}]
    BY DEF IndexerInv, IndexerTypeOK
  <2> QED BY <1>1, <2>1 DEF get_events, Goto
<1> HIDE DEF first
<1>4. end \in Nat /\ end <= chain /\ first <= end
  BY <1>1, <1>2, <1>3
<1>5. first \in 1 .. MaxEvents /\ end \in 1 .. MaxEvents
  BY <1>1, <1>2, <1>4
<1> HIDE DEF end
<1> QED BY <1>3, <1>4, <1>5 DEF first

-----------------------------------------------------------------------------
\* The step of a worker keeps its own and the other's page in range.
LEMMA IndexerInvStep == IndexerInv /\ [IndexerNext]_indexerVars => IndexerInv'
<1> SUFFICES ASSUME IndexerInv, [IndexerNext]_indexerVars PROVE IndexerInv'
  OBVIOUS
<1> USE IndexerAssumption
<1> USE DEF IndexerInv, IndexerTypeOK, PagesInRange, ReplayAsked
<1>1. CASE Emit
  BY <1>1 DEF Emit, tables, memory, history
<1>2. ASSUME NEW r \in Requests, Request(r)
      PROVE  IndexerInv'
  <2>1. r.from_cursor \in Event \cup {0, None}
    BY DEF Requests
  <2>2. CASE r.from_cursor = None
    BY <1>2, <2>2 DEF Request, Goto, tables, history, Worker
  <2>3. CASE r.from_cursor # None
    <3>1. (IF r.from_cursor = 0 THEN None ELSE r.from_cursor) \in Cursor
      BY <2>1, <2>3 DEF Cursor
    <3> QED BY <1>2, <2>3, <3>1 DEF Request, Goto, tables, history, Worker
  <2> QED BY <2>2, <2>3
<1>3. ASSUME NEW w \in Worker, load_cursor(w)
      PROVE  IndexerInv'
  BY <1>3 DEF load_cursor, Goto, Gone, Fault, tables, history, Worker
<1>4. ASSUME NEW w \in Worker, get_events(w)
      PROVE  IndexerInv'
  <2>1. CASE pc'[w] = "process"
    <3>1. PICK first, end \in 1 .. MaxEvents :
            /\ first <= end /\ end <= chain
            /\ pos' = [pos EXCEPT ![w] = first]
            /\ last' = [last EXCEPT ![w] = end]
      BY <1>4, <2>1, PageType
    <3>2. pc' = [pc EXCEPT ![w] = "process"] /\ pc[w] = "fetch"
      BY <1>4, <2>1 DEF get_events, Goto
    <3> QED BY <1>4, <3>1, <3>2 DEF get_events, tables, history, Worker
  <2>2. CASE pc'[w] # "process"
    BY <1>4, <2>2 DEF get_events, Goto, tables, history, Worker
  <2> QED BY <2>1, <2>2
<1>5. ASSUME NEW w \in Worker, FetchFails(w)
      PROVE  IndexerInv'
  BY <1>5 DEF FetchFails, Goto, Fault, tables, history, Worker
<1>6. ASSUME NEW w \in Worker, NEW e \in Event, persist_event(w, e)
      PROVE  IndexerInv'
  BY <1>6 DEF persist_event, At, NextEvent, Send, Event
<1>7. ASSUME NEW w \in Worker, NEW e \in Event, PersistFails(w, e)
      PROVE  IndexerInv'
  <2>1. /\ e \in Nat /\ pos[w] = e /\ e <= last[w] /\ pc[w] = "process"
        /\ UNCHANGED <<chain, failures, savedCursor, pc, cursor, last, request,
                       crashes, streamed>>
        /\ faults' \in 0 .. MaxFaults /\ stored' \subseteq Event
    BY <1>7 DEF PersistFails, At, Fault, Event
  <2>2. CASE OutOfRetries(w)
    <3>1. /\ pos' = [pos EXCEPT ![w] = @ + 1]
          /\ attempt' = [attempt EXCEPT ![w] = 0]
          /\ dropped' \subseteq Event
      BY <1>7, <2>2 DEF PersistFails, NextEvent
    <3> QED BY <2>1, <3>1
  <2>3. CASE ~OutOfRetries(w)
    <3>1. /\ attempt' = [attempt EXCEPT ![w] = @ + 1]
          /\ attempt[w] + 1 <= MaxRetries
          /\ UNCHANGED <<pos, dropped>>
      BY <1>7, <2>3 DEF PersistFails, OutOfRetries
    <3> QED BY <2>1, <3>1
  <2> QED BY <2>2, <2>3
<1>8. ASSUME NEW w \in Worker, NEW e \in Event, record_failure(w, e)
      PROVE  IndexerInv'
  <2>1. /\ e \in Nat /\ pos[w] = e /\ e <= last[w] /\ pc[w] = "process"
        /\ UNCHANGED <<chain, stored, savedCursor, pc, cursor, last, request,
                       crashes, streamed>>
    BY <1>8 DEF record_failure, At, Event
  <2>2. /\ faults' \in 0 .. MaxFaults
        /\ failures' \subseteq Event /\ dropped' \subseteq Event
    BY <1>8 DEF record_failure, Fault
  <2>3. /\ pos' = [pos EXCEPT ![w] = @ + 1]
        /\ attempt' = [attempt EXCEPT ![w] = 0]
    BY <1>8 DEF record_failure, NextEvent
  <2> QED BY <2>1, <2>2, <2>3
<1>9. ASSUME NEW w \in Worker, save_cursor(w)
      PROVE  IndexerInv'
  <2>1. last[w] \in Cursor
    BY <1>9 DEF save_cursor, PageDone, Cursor, Event
  <2> QED BY <1>9, <2>1 DEF save_cursor, PageDone, Goto, Fault, history, Worker
<1>10. ASSUME NEW e \in Event, ReplayEnds(e)
       PROVE  IndexerInv'
  BY <1>10 DEF ReplayEnds, Goto, tables, history, Worker
<1>11. CASE Crash
  BY <1>11 DEF Crash, tables, history, Worker, Cursor
<1>12. CASE UNCHANGED indexerVars
  BY <1>12 DEF indexerVars, tables, memory, history
<1>13. "listener" \in Worker /\ "replay" \in Worker
  BY DEF Worker
<1> QED
  BY <1>1, <1>2, <1>3, <1>4, <1>5, <1>6, <1>7, <1>8, <1>9, <1>10, <1>11, <1>12,
     <1>13
  DEF IndexerNext, IndexerStep, WorkerStep

\* The indexer's invariant in every reachable state.
THEOREM IndexerInvariant == IndexerSpec => []IndexerInv
<1>1. IndexerInit => IndexerInv
  BY IndexerAssumption
  DEF IndexerInit, IndexerInv, IndexerTypeOK, PagesInRange, ReplayAsked, Worker,
      Cursor
<1> QED BY <1>1, IndexerInvStep, PTL DEF IndexerSpec

\* Tables, cursors and pages keep their types: no cursor ever points past the
\* last event, no retry loop runs past its limit.
THEOREM IndexerTypeCorrect == IndexerSpec => []IndexerTypeOK
<1>1. IndexerInv => IndexerTypeOK
  BY DEF IndexerInv
<1> QED BY <1>1, IndexerInvariant, PTL
-----------------------------------------------------------------------------
\* What was dealt with stays dealt with: rows are never deleted.
LEMMA AccountedGrows ==
  ASSUME [IndexerNext]_indexerVars
  PROVE  Accounted \subseteq Accounted'
<1> USE DEF Accounted
<1>1. CASE Emit
  BY <1>1 DEF Emit, tables, history
<1>2. ASSUME NEW r \in Requests, Request(r)
      PROVE  Accounted \subseteq Accounted'
  BY <1>2 DEF Request, tables, history
<1>3. ASSUME NEW w \in Worker, WorkerStep(w)
      PROVE  Accounted \subseteq Accounted'
  <2>1. CASE load_cursor(w) \/ get_events(w) \/ FetchFails(w) \/ save_cursor(w)
    BY <2>1 DEF load_cursor, get_events, FetchFails, save_cursor, tables, history
  <2>2. ASSUME NEW e \in Event, persist_event(w, e)
        PROVE  Accounted \subseteq Accounted'
    BY <2>2 DEF persist_event, Send
  <2>3. ASSUME NEW e \in Event, PersistFails(w, e)
        PROVE  Accounted \subseteq Accounted'
    BY <2>3 DEF PersistFails
  <2>4. ASSUME NEW e \in Event, record_failure(w, e)
        PROVE  Accounted \subseteq Accounted'
    BY <2>4 DEF record_failure
  <2> QED BY <1>3, <2>1, <2>2, <2>3, <2>4 DEF WorkerStep
<1>4. ASSUME NEW e \in Event, ReplayEnds(e)
      PROVE  Accounted \subseteq Accounted'
  BY <1>4 DEF ReplayEnds, tables, history
<1>5. CASE Crash
  BY <1>5 DEF Crash, tables, history
<1>6. CASE UNCHANGED indexerVars
  BY <1>6 DEF indexerVars, tables, history
<1>7. "listener" \in Worker /\ "replay" \in Worker
  BY DEF Worker
<1> QED BY <1>1, <1>2, <1>3, <1>4, <1>5, <1>6, <1>7 DEF IndexerNext, IndexerStep

\* A page that a worker whose cursor may be saved begins leaves nothing behind:
\* it starts right after the cursor, or no later than the listener's first page.
LEMMA PageFollows ==
  ASSUME ReplaysFollow, IndexerInv, CursorsSound, NEW w \in Worker,
         pc[w] = "fetch", Saves(w)
  PROVE  {e \in Wanted : e < FirstOfPage(w)} \subseteq Accounted
<1> USE IndexerAssumption
<1>1. UpTo(cursor[w]) \subseteq Accounted
  BY DEF CursorsSound
<1>2. CASE cursor[w] # None
  <2>1. FirstOfPage(w) = cursor[w] + 1
    BY <1>2, FirstOfPageType
  <2>2. cursor[w] \in Event
    BY <1>2 DEF IndexerInv, IndexerTypeOK, Cursor
  <2> QED BY <1>1, <1>2, <2>1, <2>2 DEF UpTo, Event, Wanted
<1>3. CASE cursor[w] = None
  <2>1. FirstOfPage(w) <= FirstEvent(None, StartLedger)
    <3>1. CASE w = "listener"
      <4>1. FirstOfPage(w) = FirstEvent(None, StartLedger)
        BY <1>3, <3>1 DEF FirstOfPage, LedgerAsked
      <4>2. FirstOfPage(w) \in Nat
        BY FirstOfPageType
      <4> QED BY <4>1, <4>2
    <3>2. CASE w = "replay"
      <4>1. request \in Requests /\ request.persist_cursor
        BY <3>2 DEF Saves, IndexerInv, ReplayAsked
      <4>2. FirstEvent(None, request.from_ledger) <= FirstEvent(None, StartLedger)
        BY <4>1 DEF ReplaysFollow
      <4> QED BY <1>3, <3>2, <4>2 DEF FirstOfPage, LedgerAsked
    <3> QED BY <3>1, <3>2 DEF Worker
  <2>2. FirstOfPage(w) \in Nat
    BY FirstOfPageType
  <2>3. FirstEvent(None, StartLedger) \in Nat
    BY FirstEventType DEF Cursor
  <2>4. \A e \in Wanted : ~(e < FirstOfPage(w))
    BY <2>1, <2>2, <2>3 DEF Wanted, Event
  <2> QED BY <2>4
<1> QED BY <1>2, <1>3
\* Every step keeps the cursors sound.
LEMMA CursorsSoundStep ==
  ASSUME ReplaysFollow, IndexerInv, CursorsSound, [IndexerNext]_indexerVars
  PROVE  CursorsSound'
<1> USE IndexerAssumption
<1>t. /\ pc \in [Worker -> {"idle", "load", "fetch", "process", "stopped"}]
      /\ cursor \in [Worker -> Cursor]
      /\ pos \in [Worker -> 1 .. MaxEvents + 1]
      /\ last \in [Worker -> 0 .. MaxEvents]
      /\ savedCursor \in Cursor
  BY DEF IndexerInv, IndexerTypeOK
<1>s. /\ UpTo(savedCursor) \subseteq Accounted
      /\ \A w \in Worker :
           Saves(w) =>
             /\ UpTo(cursor[w]) \subseteq Accounted
             /\ pc[w] = "process" => {e \in Wanted : e < pos[w]} \subseteq Accounted
  BY DEF CursorsSound
<1>g. Accounted \subseteq Accounted'
  BY AccountedGrows
<1>w. /\ "listener" \in Worker /\ "replay" \in Worker
      /\ \A w \in Worker : w = "listener" \/ w = "replay"
  BY DEF Worker
<1> HIDE DEF Accounted, Wanted, Worker
<1> USE <1>t, <1>s, <1>g, <1>w DEF CursorsSound, Saves, UpTo
<1>1. CASE Emit
  BY <1>1 DEF Emit, tables, memory
<1>2. ASSUME NEW r \in Requests, Request(r)
      PROVE  CursorsSound'
  <2>1. CASE r.from_cursor = None
    BY <1>2, <2>1 DEF Request, Goto, tables
  <2>2. CASE r.from_cursor # None
    <3>1. /\ pc' = [pc EXCEPT !["replay"] = "fetch"] /\ request' = r
          /\ cursor' = [cursor EXCEPT !["replay"] =
                          IF r.from_cursor = 0 THEN None ELSE r.from_cursor]
          /\ UNCHANGED <<savedCursor, pos>>
      BY <1>2, <2>2 DEF Request, Goto, tables
    <3>2. CASE r.persist_cursor
      <4>1. cursor'["replay"] = None
        BY <2>2, <3>1, <3>2 DEF ReplaysFollow
      <4> QED BY <3>1, <4>1
    <3>3. CASE ~r.persist_cursor
      BY <3>1, <3>3
    <3> QED BY <3>2, <3>3
  <2> QED BY <2>1, <2>2
<1>3. ASSUME NEW w \in Worker, load_cursor(w)
      PROVE  CursorsSound'
  BY <1>3 DEF load_cursor, Goto, Gone, tables
<1>4. ASSUME NEW w \in Worker, get_events(w)
      PROVE  CursorsSound'
  <2>1. CASE pc'[w] = "process"
    <3>1. /\ pos' = [pos EXCEPT ![w] = FirstOfPage(w)]
          /\ pc' = [pc EXCEPT ![w] = "process"] /\ pc[w] = "fetch"
          /\ UNCHANGED <<savedCursor, cursor, request>>
      BY <1>4, <2>1 DEF get_events, Goto, tables
    <3>2. Saves(w) => {e \in Wanted : e < FirstOfPage(w)} \subseteq Accounted
      BY <3>1, PageFollows
    <3> HIDE DEF FirstOfPage
    <3> QED BY <3>1, <3>2
  <2>2. CASE pc'[w] # "process"
    BY <1>4, <2>2 DEF get_events, Goto, tables
  <2> QED BY <2>1, <2>2
<1>5. ASSUME NEW w \in Worker, FetchFails(w)
      PROVE  CursorsSound'
  BY <1>5 DEF FetchFails, Goto, tables
<1>6. ASSUME NEW w \in Worker, NEW e \in Event, At(w, e), e \in Accounted',
             pos' = [pos EXCEPT ![w] = @ + 1],
             UNCHANGED <<savedCursor, pc, cursor, request>>
      PROVE  CursorsSound'
  <2>1. pos[w] = e /\ pc[w] = "process" /\ pos'[w] = e + 1
    BY <1>6 DEF At
  <2>2. {x \in Wanted : x < e + 1} \subseteq {x \in Wanted : x < e} \cup {e}
    BY DEF Wanted, Event
  <2>3. Saves(w) => {x \in Wanted : x < pos'[w]} \subseteq Accounted'
    BY <1>6, <2>1, <2>2
  <2> QED BY <1>6, <2>1, <2>3
<1>7. ASSUME NEW w \in Worker, NEW e \in Event, persist_event(w, e)
      PROVE  CursorsSound'
  <2>1. e \in Accounted'
    BY <1>7 DEF persist_event, Send, Accounted
  <2> QED BY <1>6, <1>7, <2>1 DEF persist_event, NextEvent
<1>8. ASSUME NEW w \in Worker, NEW e \in Event, PersistFails(w, e)
      PROVE  CursorsSound'
  <2>1. CASE OutOfRetries(w)
    <3>1. e \in Accounted'
      BY <1>8, <2>1 DEF PersistFails, Accounted
    <3> QED BY <1>6, <1>8, <2>1, <3>1 DEF PersistFails, NextEvent
  <2>2. CASE ~OutOfRetries(w)
    BY <1>8, <2>2 DEF PersistFails
  <2> QED BY <2>1, <2>2
<1>9. ASSUME NEW w \in Worker, NEW e \in Event, record_failure(w, e)
      PROVE  CursorsSound'
  <2>1. e \in Accounted'
    BY <1>9 DEF record_failure, Accounted
  <2> QED BY <1>6, <1>9, <2>1 DEF record_failure, NextEvent
<1>10. ASSUME NEW w \in Worker, save_cursor(w)
       PROVE  CursorsSound'
  <2>1. /\ pc[w] = "process" /\ pos[w] > last[w]
        /\ cursor' = [cursor EXCEPT ![w] = last[w]]
        /\ pc' \in {[pc EXCEPT ![w] = "fetch"], [pc EXCEPT ![w] = "idle"]}
        /\ UNCHANGED <<pos, request>>
        /\ savedCursor' = savedCursor \/ (Saves(w) /\ savedCursor' = last[w])
    BY <1>10 DEF save_cursor, PageDone, Goto
  <2>2. last[w] \in Event
    BY <2>1 DEF IndexerInv, PagesInRange, Event
  <2>3. UpTo(last[w]) \subseteq {e \in Wanted : e < pos[w]}
    BY <2>1, <2>2 DEF Wanted, Event
  <2>4. Saves(w) => UpTo(last[w]) \subseteq Accounted'
    BY <2>1, <2>3
  <2>5. UpTo(savedCursor)' \subseteq Accounted'
    BY <2>1, <2>4
  <2>6. Saves(w)' => Saves(w)
    BY <2>1
  <2>7. \A v \in Worker : v # w =>
          /\ cursor'[v] = cursor[v] /\ pos'[v] = pos[v] /\ pc'[v] = pc[v]
          /\ Saves(v)' <=> Saves(v)
    BY <2>1
  <2>8. pc'[w] # "process" /\ cursor'[w] = last[w]
    BY <2>1
  <2> QED BY <2>4, <2>5, <2>6, <2>7, <2>8
<1>11. ASSUME NEW e \in Event, ReplayEnds(e)
       PROVE  CursorsSound'
  BY <1>11 DEF ReplayEnds, Goto, tables
<1>12. CASE Crash
  BY <1>12 DEF Crash, tables
<1>13. CASE UNCHANGED indexerVars
  BY <1>13 DEF indexerVars, tables, memory
<1> QED
  BY <1>1, <1>2, <1>3, <1>4, <1>5, <1>7, <1>8, <1>9, <1>10, <1>11, <1>12, <1>13
  DEF IndexerNext, IndexerStep, WorkerStep

\* No cursor, the listener's or the saved one, ever passes an event that was not
\* dealt with, provided the replays that save their cursor begin at the saved one
\* or no later than the listener does.
THEOREM CursorsSkipNothing ==
  ASSUME ReplaysFollow
  PROVE  IndexerSpec => []NothingSkipped
<1>1. IndexerInit => IndexerInv /\ CursorsSound
  <2>1. ASSUME IndexerInit PROVE CursorsSound
    BY <2>1 DEF IndexerInit, CursorsSound, Saves, UpTo, Worker
  <2>2. IndexerInit => IndexerInv
    BY IndexerAssumption
    DEF IndexerInit, IndexerInv, IndexerTypeOK, PagesInRange, ReplayAsked, Worker,
        Cursor
  <2> QED BY <2>1, <2>2
<1>2. IndexerInv /\ CursorsSound /\ [IndexerNext]_indexerVars
        => (IndexerInv /\ CursorsSound)'
  BY IndexerInvStep, CursorsSoundStep
<1>3. CursorsSound => NothingSkipped
  BY DEF CursorsSound, NothingSkipped, Saves, Worker
<1> QED BY <1>1, <1>2, <1>3, PTL DEF IndexerSpec
-----------------------------------------------------------------------------
\* The cost of the drops, with one drop more.
LEMMA OneMoreDrop ==
  ASSUME NEW n \in Nat, NEW m \in Nat
  PROVE  /\ n * (m + 1) \in Nat
         /\ (n + 1) * (m + 1) = n * (m + 1) + m + 1
OBVIOUS

\* Every step pays for the attempts it makes.
LEMMA RetriesPaidStep ==
  ASSUME IndexerInv, RetriesPaid, [IndexerNext]_indexerVars
  PROVE  RetriesPaid'
<1> USE IndexerAssumption
<1> DEFINE drops == dropped \ Unparsable
           n == Cardinality(drops)
           cost == n * (MaxRetries + 1)
<1>f. \A S \in SUBSET Event : IsFiniteSet(S) /\ Cardinality(S) \in Nat
  <2>1. IsFiniteSet(Event)
    BY FS_Interval DEF Event
  <2> QED BY <2>1, FS_Subset, FS_CardinalityType
<1>t. /\ attempt \in [Worker -> 0 .. MaxRetries] /\ faults \in Nat
      /\ dropped \subseteq Event /\ drops \subseteq Event
  BY DEF IndexerInv, IndexerTypeOK
<1>n. n \in Nat /\ cost \in Nat
  <2>1. n \in Nat
    BY <1>f, <1>t
  <2> HIDE DEF n
  <2> QED BY <2>1, OneMoreDrop
<1>w. /\ "listener" \in Worker /\ "replay" \in Worker
      /\ \A w \in Worker : w = "listener" \/ w = "replay"
  BY DEF Worker
<1>p. cost + attempt["listener"] + attempt["replay"] <= faults
  BY DEF RetriesPaid
<1>1. ASSUME UNCHANGED dropped, faults' \in {faults, faults + 1},
             \/ UNCHANGED attempt
             \/ \E w \in Worker : attempt' = [attempt EXCEPT ![w] = 0]
             \/ /\ faults' = faults + 1
                /\ \E w \in Worker : attempt' = [attempt EXCEPT ![w] = @ + 1]
             \/ attempt' = [w \in Worker |-> 0]
      PROVE  RetriesPaid'
  <2>1. n' = n /\ cost' = cost
    BY <1>1
  <2> HIDE DEF n, cost
  <2>2. attempt'["listener"] \in Nat /\ attempt'["replay"] \in Nat
    BY <1>1, <1>t, <1>w
  <2>3. attempt'["listener"] + attempt'["replay"]
          <= attempt["listener"] + attempt["replay"] + (faults' - faults)
    BY <1>1, <1>t, <1>w
  <2>4. cost' + attempt'["listener"] + attempt'["replay"] <= faults'
    BY <1>1, <1>n, <1>p, <1>t, <1>w, <2>1, <2>2, <2>3
  <2> QED BY <2>4 DEF RetriesPaid, cost, n
<1>2. CASE Emit
  BY <1>1, <1>2 DEF Emit, memory, history
<1>3. ASSUME NEW r \in Requests, Request(r)
      PROVE  RetriesPaid'
  BY <1>1, <1>3 DEF Request, history
<1>4. ASSUME NEW w \in Worker,
             \/ load_cursor(w) \/ get_events(w) \/ FetchFails(w) \/ save_cursor(w)
      PROVE  RetriesPaid'
  BY <1>1, <1>4
  DEF load_cursor, get_events, FetchFails, save_cursor, Fault, history
<1>5. ASSUME NEW w \in Worker, NEW e \in Event, persist_event(w, e)
      PROVE  RetriesPaid'
  BY <1>1, <1>5 DEF persist_event, NextEvent
<1>6. ASSUME NEW w \in Worker, NEW e \in Event, PersistFails(w, e)
      PROVE  RetriesPaid'
  <2>1. faults' = faults + 1 /\ e \notin Unparsable
    BY <1>6 DEF PersistFails, Fault
  <2>2. CASE ~OutOfRetries(w)
    BY <1>1, <1>6, <2>1, <2>2 DEF PersistFails
  <2>3. CASE OutOfRetries(w)
    <3>1. /\ attempt' = [attempt EXCEPT ![w] = 0] /\ attempt[w] = MaxRetries
          /\ dropped' = dropped \cup {e}
      BY <1>6, <1>t, <2>3 DEF PersistFails, NextEvent, OutOfRetries
    <3>2. drops' = drops \cup {e}
      BY <2>1, <3>1
    <3>3. n' \in {n, n + 1}
      <4> HIDE DEF drops
      <4> QED BY <1>f, <1>t, <3>2, FS_AddElement
    <3>4. n' \in Nat
      BY <1>n, <3>3
    <3> HIDE DEF n
    <3>5. cost' = cost \/ cost' = cost + MaxRetries + 1
      BY <1>n, <3>3, <3>4, OneMoreDrop
    <3> HIDE DEF cost
    <3>6. /\ attempt'["listener"] \in Nat /\ attempt'["replay"] \in Nat
          /\ attempt'["listener"] + attempt'["replay"] + MaxRetries
               = attempt["listener"] + attempt["replay"]
      BY <1>t, <1>w, <3>1
    <3>7. cost' + attempt'["listener"] + attempt'["replay"] <= faults'
      BY <1>n, <1>p, <1>t, <1>w, <2>1, <3>5, <3>6
    <3> QED BY <3>7 DEF RetriesPaid, cost, n
  <2> QED BY <2>2, <2>3
<1>7. ASSUME NEW w \in Worker, NEW e \in Event, record_failure(w, e)
      PROVE  RetriesPaid'
  <2>1. /\ attempt' = [attempt EXCEPT ![w] = 0]
        /\ faults' \in {faults, faults + 1}
        /\ dropped' \in {dropped, dropped \cup {e}} /\ e \in Unparsable
    BY <1>7 DEF record_failure, NextEvent, Fault
  <2>2. n' = n /\ cost' = cost
    <3>1. drops' = drops
      BY <2>1
    <3> QED BY <3>1
  <2> HIDE DEF n, cost
  <2>3. /\ attempt'["listener"] \in Nat /\ attempt'["replay"] \in Nat
        /\ attempt'["listener"] + attempt'["replay"]
             <= attempt["listener"] + attempt["replay"]
    BY <1>t, <1>w, <2>1
  <2>4. cost' + attempt'["listener"] + attempt'["replay"] <= faults'
    BY <1>n, <1>p, <1>t, <1>w, <2>1, <2>2, <2>3
  <2> QED BY <2>4 DEF RetriesPaid, cost, n
<1>8. ASSUME NEW e \in Event, ReplayEnds(e)
      PROVE  RetriesPaid'
  BY <1>1, <1>8 DEF ReplayEnds, history
<1>9. CASE Crash
  BY <1>1, <1>9 DEF Crash, history
<1>10. CASE UNCHANGED indexerVars
  BY <1>1, <1>10 DEF indexerVars, memory, history
<1> QED
  BY <1>w, <1>2, <1>3, <1>4, <1>5, <1>6, <1>7, <1>8, <1>9, <1>10
  DEF IndexerNext, IndexerStep, WorkerStep

\* Giving up on an event costs MaxRetries + 1 failed calls: an outage shorter than
\* the retry loop loses no event.
THEOREM DropsAreRetried == IndexerSpec => []DropsCostRetries
<1> USE IndexerAssumption
<1>1. IndexerInit => IndexerInv /\ RetriesPaid
  <2>1. ASSUME IndexerInit PROVE RetriesPaid
    <3>1. /\ dropped \ Unparsable = {} /\ faults = 0
          /\ attempt["listener"] = 0 /\ attempt["replay"] = 0
      BY <2>1 DEF IndexerInit, Worker
    <3>2. Cardinality(dropped \ Unparsable) = 0
      BY <3>1, FS_EmptySet
    <3>3. 0 * (MaxRetries + 1) = 0
      OBVIOUS
    <3> QED BY <3>1, <3>2, <3>3 DEF RetriesPaid
  <2>2. IndexerInit => IndexerInv
    BY DEF IndexerInit, IndexerInv, IndexerTypeOK, PagesInRange, ReplayAsked,
           Worker, Cursor
  <2> QED BY <2>1, <2>2
<1>2. IndexerInv /\ RetriesPaid /\ [IndexerNext]_indexerVars
        => (IndexerInv /\ RetriesPaid)'
  BY IndexerInvStep, RetriesPaidStep
<1>3. IndexerInv /\ RetriesPaid => DropsCostRetries
  <2> SUFFICES ASSUME IndexerInv, RetriesPaid PROVE DropsCostRetries
    OBVIOUS
  <2> DEFINE n == Cardinality(dropped \ Unparsable)
  <2>1. n \in Nat
    <3>1. IsFiniteSet(Event) /\ dropped \ Unparsable \in SUBSET Event
      BY FS_Interval DEF Event, IndexerInv, IndexerTypeOK
    <3>2. IsFiniteSet(dropped \ Unparsable)
      BY <3>1, FS_Subset
    <3> QED BY <3>2, FS_CardinalityType
  <2>2. /\ attempt["listener"] \in Nat /\ attempt["replay"] \in Nat
        /\ faults \in Nat
    BY DEF IndexerInv, IndexerTypeOK, Worker
  <2>3. n * (MaxRetries + 1) + attempt["listener"] + attempt["replay"] <= faults
    BY DEF RetriesPaid
  <2> HIDE DEF n
  <2>4. n * (MaxRetries + 1) \in Nat
    BY <2>1, OneMoreDrop
  <2>5. n * (MaxRetries + 1) <= faults
    BY <2>2, <2>3, <2>4
  <2> QED BY <2>5 DEF DropsCostRetries, n
<1> QED BY <1>1, <1>2, <1>3, PTL DEF IndexerSpec
=============================================================================
