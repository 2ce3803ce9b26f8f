------------------------------ MODULE Indexer ------------------------------
(***************************************************************************)
(* The event indexer: a listener that polls the event source page by page, *)
(* stores what it reads and saves its cursor, and a replay, started by an  *)
(* API call, that runs the same page loop beside it over the same tables.  *)
(* Every database or network call may fail, and the process may crash      *)
(* between any two of them; what is not in a table is then lost.           *)
(*                                                                         *)
(* Event e is the e-th event the contract emitted; it is its own cursor.   *)
(***************************************************************************)
EXTENDS Integers, FiniteSets

CONSTANTS
  None,             \* an absent cursor, ledger or request field
  MaxEvents,        \* bound: events ever emitted
  EventsPerLedger,  \* how the events fall into ledgers
  Unparsable,       \* the events parse_event rejects
  PageSize,         \* INDEXER_PAGE_SIZE
  MaxRetries,       \* INDEXER_MAX_RETRIES
  StartLedger,      \* INDEXER_START_LEDGER, or None
  FromCursors,      \* from_cursor of replay requests, or None; 0 is ""
  FromLedgers,      \* from_ledger of replay requests, or None
  ToLedgers,        \* to_ledger of replay requests, or None
  Persists,         \* persist_cursor of replay requests
  MaxFaults,        \* bound: calls that fail
  MaxCrashes        \* bound: crashes and shutdowns

Event == 1 .. MaxEvents
Cursor == Event \cup {None}
Worker == {"listener", "replay"}
Requests == [from_cursor : FromCursors, from_ledger : FromLedgers,
             to_ledger : ToLedgers, persist_cursor : Persists]

ASSUME IndexerAssumption ==
  /\ MaxEvents \in Nat
  /\ EventsPerLedger \in Nat \ {0}
  /\ PageSize \in Nat \ {0}
  /\ MaxRetries \in Nat
  /\ StartLedger \in Nat \cup {None}
  /\ Unparsable \subseteq Event
  /\ FromCursors \subseteq Event \cup {0, None}
  /\ FromLedgers \subseteq Nat \cup {None}
  /\ ToLedgers \subseteq Nat \cup {None}
  /\ Persists \subseteq BOOLEAN
  /\ MaxFaults \in Nat
  /\ MaxCrashes \in Nat
  /\ None \notin Int

VARIABLES
  chain,        \* external: how many events the contract has emitted
  stored,       \* contract_events, by event_id
  failures,     \* event_failures, by event_id
  savedCursor,  \* indexer_state["cursor:<contract>"]
  pc,           \* where each worker is
  cursor,       \* each worker's cursor
  pos,          \* the next event of each worker's page
  last,         \* the last event of each worker's page
  attempt,      \* failed attempts of the retry loop a worker is in
  request,      \* what the running replay was asked
  faults,       \* calls that failed so far
  crashes,      \* crashes so far
  streamed,     \* history: the events pushed to the stream
  dropped       \* history: the events given up on

tables == <<stored, failures, savedCursor>>
memory == <<pc, cursor, pos, last, attempt, request>>
history == <<streamed, dropped>>
indexerVars == <<chain, tables, memory, faults, crashes, history>>

LedgerOf(e) == ((e - 1) \div EventsPerLedger) + 1

\* The first event a source returns to a request.
FirstEvent(c, ledger) ==
  IF c # None THEN c + 1
  ELSE IF ledger = None \/ ledger = 0 THEN 1
  ELSE (ledger - 1) * EventsPerLedger + 1

\* The ledger a worker's requests name while it has no cursor.
LedgerAsked(w) ==
  IF w = "listener" THEN StartLedger ELSE request.from_ledger

Goto(w, place) == pc' = [pc EXCEPT ![w] = place]
Fault == faults < MaxFaults /\ faults' = faults + 1

-----------------------------------------------------------------------------
IndexerInit ==
  /\ chain = 0
  /\ stored = {}
  /\ failures = {}
  /\ savedCursor = None
  /\ pc = [w \in Worker |-> IF w = "listener" THEN "load" ELSE "idle"]
  /\ cursor = [w \in Worker |-> None]
  /\ pos = [w \in Worker |-> 1]
  /\ last = [w \in Worker |-> 0]
  /\ attempt = [w \in Worker |-> 0]
  /\ request = None
  /\ faults = 0
  /\ crashes = 0
  /\ streamed = {}
  /\ dropped = {}

\* The contract emits an event.
Emit ==
  /\ chain < MaxEvents
  /\ chain' = chain + 1
  /\ UNCHANGED <<tables, memory, faults, crashes, history>>

\* replay: a request arrives.  An empty cursor is no cursor; no cursor at all
\* asks for the saved one.
Request(r) ==
  /\ pc["replay"] = "idle"
  /\ request' = r
  /\ IF r.from_cursor = None
     THEN Goto("replay", "load") /\ UNCHANGED cursor
     ELSE /\ Goto("replay", "fetch")
          /\ cursor' = [cursor EXCEPT !["replay"] =
               IF r.from_cursor = 0 THEN None ELSE r.from_cursor]
  /\ UNCHANGED <<chain, tables, pos, last, attempt, faults, crashes,
                 history>>

\* A worker that cannot read its cursor returns the error: the listener task
\* ends, and the process goes on serving the API without it.
Gone(w) == IF w = "listener" THEN "stopped" ELSE "idle"

load_cursor(w) ==
  /\ pc[w] = "load"
  /\ \/ /\ cursor' = [cursor EXCEPT ![w] = savedCursor]
        /\ Goto(w, "fetch")
        /\ UNCHANGED faults
     \/ /\ Fault
        /\ Goto(w, Gone(w))
        /\ UNCHANGED cursor
  /\ UNCHANGED <<chain, tables, pos, last, attempt, request, crashes,
                 history>>

-----------------------------------------------------------------------------
\* Mutant: the page is asked for from one event too far.
FirstOfPage_skips(w) ==
  FirstEvent(cursor[w], LedgerAsked(w)) + (IF cursor[w] = None THEN 0 ELSE 1)

FirstOfPage(w) == FirstEvent(cursor[w], LedgerAsked(w))

\* get_events: a page of what the chain holds now.  An empty page makes the
\* listener poll again and ends a replay.
get_events(w) ==
  LET first == FirstOfPage(w)
      end == IF chain < first + PageSize THEN chain ELSE first + PageSize - 1
  IN
  /\ pc[w] = "fetch"
  /\ IF end < first
     THEN /\ w = "replay"
          /\ Goto(w, "idle")
          /\ UNCHANGED <<pos, last>>
     ELSE /\ Goto(w, "process")
          /\ pos' = [pos EXCEPT ![w] = first]
          /\ last' = [last EXCEPT ![w] = end]
  /\ UNCHANGED <<chain, tables, cursor, attempt, request, faults, crashes,
                 history>>

\* The listener retries a failed fetch and in the end polls again; a replay
\* returns the error.
FetchFails(w) ==
  /\ pc[w] = "fetch"
  /\ Fault
  /\ Goto(w, IF w = "listener" THEN "fetch" ELSE "idle")
  /\ UNCHANGED <<chain, tables, cursor, pos, last, attempt, request,
                 crashes, history>>

\* Whether w works on its page and e is its next event.
At(w, e) == pc[w] = "process" /\ pos[w] = e /\ e <= last[w]

\* A replay stops at the first event past to_ledger.
Beyond(w, e) ==
  w = "replay" /\ request.to_ledger # None /\ LedgerOf(e) > request.to_ledger

ReplayEnds(e) ==
  /\ At("replay", e)
  /\ Beyond("replay", e)
  /\ Goto("replay", "idle")
  /\ UNCHANGED <<chain, tables, cursor, pos, last, attempt, request,
                 faults, crashes, history>>

NextEvent(w) ==
  /\ pos' = [pos EXCEPT ![w] = @ + 1]
  /\ attempt' = [attempt EXCEPT ![w] = 0]

\* The broadcast to the stream's subscribers.
Send(e) == streamed' = streamed \cup {e}

\* persist_event: the insert does nothing when the event has a row already; the
\* stream gets the event in either case.
persist_event(w, e) ==
  /\ At(w, e) /\ ~Beyond(w, e)
  /\ e \notin Unparsable
  /\ stored' = stored \cup {e}
  /\ Send(e)
  /\ NextEvent(w)
  /\ UNCHANGED <<chain, failures, savedCursor, pc, cursor, last, request, faults,
                 crashes, dropped>>

\* Mutants: the last retry is not made; one retry too many is.
OutOfRetries_early(w) == attempt[w] + 1 >= MaxRetries
OutOfRetries_late(w) == attempt[w] > MaxRetries

\* retry_with_backoff gives up.
OutOfRetries(w) == attempt[w] + 1 > MaxRetries

\* An insert that fails may have been committed before its answer was lost.
\* After the last retry the error is logged and the worker goes on.
PersistFails(w, e) ==
  /\ At(w, e) /\ ~Beyond(w, e)
  /\ e \notin Unparsable
  /\ Fault
  /\ stored' \in {stored, stored \cup {e}}
  /\ IF OutOfRetries(w)
     THEN /\ NextEvent(w)
          /\ dropped' = dropped \cup {e}
     ELSE /\ attempt' = [attempt EXCEPT ![w] = @ + 1]
          /\ UNCHANGED <<pos, dropped>>
  /\ UNCHANGED <<chain, failures, savedCursor, pc, cursor, last, request,
                 crashes, streamed>>

\* An event that does not parse is recorded, in one attempt.
record_failure(w, e) ==
  /\ At(w, e) /\ ~Beyond(w, e)
  /\ e \in Unparsable
  /\ \/ /\ failures' = failures \cup {e}
        /\ UNCHANGED <<faults, dropped>>
     \/ /\ Fault
        /\ failures' \in {failures, failures \cup {e}}
        /\ dropped' = dropped \cup {e}
  /\ NextEvent(w)
  /\ UNCHANGED <<chain, stored, savedCursor, pc, cursor, last, request,
                 crashes, streamed>>

\* Mutant: the cursor is saved before the page is processed.
PageDone_early(w) == pc[w] = "process"

PageDone(w) == pc[w] = "process" /\ pos[w] > last[w]

\* The page is processed: the cursor moves past it and, for the listener and a
\* persisting replay, is saved.  The listener only logs an error of the save.
save_cursor(w) ==
  /\ PageDone(w)
  /\ cursor' = [cursor EXCEPT ![w] = last[w]]
  /\ IF w = "replay" /\ ~request.persist_cursor
     THEN Goto(w, "fetch") /\ UNCHANGED <<savedCursor, faults>>
     ELSE \/ /\ savedCursor' = last[w]
             /\ Goto(w, "fetch")
             /\ UNCHANGED faults
          \/ /\ Fault
             /\ savedCursor' \in {savedCursor, last[w]}
             /\ Goto(w, IF w = "listener" THEN "fetch" ELSE "idle")
  /\ UNCHANGED <<chain, stored, failures, pos, last, attempt, request,
                 crashes, history>>

\* A crash, or a shutdown that aborts the listener task, and the start of the
\* next process.
Crash ==
  /\ crashes < MaxCrashes
  /\ crashes' = crashes + 1
  /\ pc' = [w \in Worker |-> IF w = "listener" THEN "load" ELSE "idle"]
  /\ cursor' = [w \in Worker |-> None]
  /\ pos' = [w \in Worker |-> 1]
  /\ last' = [w \in Worker |-> 0]
  /\ attempt' = [w \in Worker |-> 0]
  /\ request' = None
  /\ UNCHANGED <<chain, tables, faults, history>>

-----------------------------------------------------------------------------
WorkerStep(w) ==
  \/ load_cursor(w)
  \/ get_events(w)
  \/ FetchFails(w)
  \/ \E e \in Event : persist_event(w, e)
  \/ \E e \in Event : PersistFails(w, e)
  \/ \E e \in Event : record_failure(w, e)
  \/ save_cursor(w)

IndexerStep ==
  \/ Emit
  \/ \E r \in Requests : Request(r)
  \/ WorkerStep("listener")
  \/ WorkerStep("replay")
  \/ \E e \in Event : ReplayEnds(e)

IndexerNext == IndexerStep \/ Crash

\* The runtime schedules the listener task whenever it is not waiting, and
\* every retry, sleep and poll interval ends.
IndexerSpec ==
  /\ IndexerInit
  /\ [][IndexerNext]_indexerVars
  /\ WF_indexerVars(WorkerStep("listener"))

-----------------------------------------------------------------------------
IndexerTypeOK ==
  /\ chain \in 0 .. MaxEvents
  /\ stored \subseteq Event /\ failures \subseteq Event
  /\ savedCursor \in Cursor
  /\ pc \in [Worker -> {"idle", "load", "fetch", "process", "stopped"}]
  /\ cursor \in [Worker -> Cursor]
  /\ pos \in [Worker -> 1 .. MaxEvents + 1]
  /\ last \in [Worker -> 0 .. MaxEvents]
  /\ attempt \in [Worker -> 0 .. MaxRetries]
  /\ request \in Requests \cup {None}
  /\ faults \in 0 .. MaxFaults
  /\ crashes \in 0 .. MaxCrashes
  /\ streamed \subseteq Event /\ dropped \subseteq Event

\* The events the indexer is to read, and the ones it has dealt with: stored and
\* streamed, recorded as failures, or given up on after an error.
Wanted == {e \in Event : e >= FirstEvent(None, StartLedger)}
Accounted == (stored \cap streamed) \cup failures \cup dropped

UpTo(c) == IF c = None THEN {} ELSE {e \in Wanted : e <= c}

\* Neither the cursor the listener polls from nor the saved one a restart
\* begins with ever passes an event that was not dealt with, whatever calls
\* fail, wherever the process crashes, and however replays that begin at the
\* saved cursor, or from the start, interleave with the listener.  (A replay
\* that persists its cursor from a later one than the saved skips what is in
\* between.)
NothingSkipped ==
  UpTo(savedCursor) \cup UpTo(cursor["listener"]) \subseteq Accounted

\* Every replay that persists its cursor begins at the saved cursor or no later
\* than the listener does.
ReplaysFollow ==
  \A r \in Requests :
    r.persist_cursor =>
      /\ r.from_cursor \in {0, None}
      /\ FirstEvent(None, r.from_ledger) <= FirstEvent(None, StartLedger)

\* Giving up on an event costs every attempt of its retry loop: a failure that
\* is shorter loses nothing.
DropsCostRetries ==
  Cardinality(dropped \ Unparsable) * (MaxRetries + 1) <= faults

\* Every event that is emitted is dealt with in the end, unless the listener
\* could not read its cursor when it started.
EventuallyIndexed ==
  \A e \in Wanted :
    e <= chain ~> (e \in Accounted \/ pc["listener"] = "stopped")

\* The inductive invariant behind IndexerTypeOK: a worker on a page has a page
\* of emitted events and is on it or just past it, and a replay that runs was
\* asked for.
PagesInRange ==
  \A w \in Worker :
    pc[w] = "process" => pos[w] <= last[w] + 1 /\ last[w] >= 1 /\ last[w] <= chain
ReplayAsked ==
  /\ pc["replay"] # "stopped"
  /\ pc["replay"] # "idle" => request \in Requests
IndexerInv == IndexerTypeOK /\ PagesInRange /\ ReplayAsked

\* The inductive invariant behind NothingSkipped: a worker whose cursor may be
\* saved has dealt with what lies before its cursor and before its place in the
\* page.
Saves(w) ==
  \/ w = "listener"
  \/ pc["replay"] \in {"fetch", "process"} /\ request.persist_cursor
CursorsSound ==
  /\ UpTo(savedCursor) \subseteq Accounted
  /\ \A w \in Worker :
       Saves(w) =>
         /\ UpTo(cursor[w]) \subseteq Accounted
         /\ pc[w] = "process" => {e \in Wanted : e < pos[w]} \subseteq Accounted

\* The inductive invariant behind DropsCostRetries: the attempts of the retry
\* loops that run are paid for too.
RetriesPaid ==
  Cardinality(dropped \ Unparsable) * (MaxRetries + 1)
    + attempt["listener"] + attempt["replay"] <= faults
=============================================================================
