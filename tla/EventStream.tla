---------------------------- MODULE EventStream ----------------------------
(***************************************************************************)
(* The indexer's ingest loop: streamEvents (services/indexer/src/stream.ts) *)
(* with its circuit breaker, gap detector and backfill coordinator, feeding *)
(* the transactional pipeline.  The Stellar RPC closes ledgers and may      *)
(* serve the events of a ledger late; fetches and database transactions     *)
(* fail, commits lose their acknowledgement, and the process is restarted.  *)
(*                                                                          *)
(* An event is the pair <<ledger, index>>, the key of a raw_events row.     *)
(* Waits (polling, backoff, rate limits) take time and change no state.     *)
(***************************************************************************)
EXTENDS Integers, FiniteSets, FiniteSetsExt

CONSTANTS
    LastLedger,        \* bound: the network stops closing ledgers here
    MaxPerLedger,      \* bound: events in one ledger
    MaxEvents,         \* bound: events in all
    PageSize,          \* MAX_EVENTS_PER_PAGE
    GapConfirmation,   \* backfill.gapConfirmationLedgers
    MaxDepth,          \* backfill.maxDepthLedgers
    BatchSize,         \* backfill.batchSize
    MaxFailures,       \* backfill.circuitBreakerMaxFailures
    Threshold,         \* streamCircuitBreakerThreshold
    StartLedger,       \* START_LEDGER of the environment
    MaxLate,           \* bound: ledgers served late
    MaxFaults,         \* bound: failed calls
    MaxCrashes         \* bound: restarts

ASSUME StreamAssumption ==
    /\ LastLedger \in Nat \ {0} /\ StartLedger \in 1..LastLedger
    /\ PageSize \in Nat \ {0} /\ BatchSize \in Nat \ {0} /\ MaxDepth \in Nat
    /\ GapConfirmation \in Nat /\ MaxFailures \in Nat \ {0} /\ Threshold \in Nat \ {0}
    /\ {MaxPerLedger, MaxEvents, MaxLate, MaxFaults, MaxCrashes} \subseteq Nat

VARIABLES
    chain,      \* events of each ledger (fixed; what the contract will emit)
    tip,        \* the RPC's latest ledger
    hidden,     \* closed ledgers whose events the RPC does not serve yet
    lagged,     \* history: ledgers that were ever hidden
    stored,     \* raw_events rows, each with its domain rows
    cursorRow,  \* indexer_cursor.processed_cursor
    published,  \* events that went out on the bus
    stream,     \* locals of streamEvents
    breaker,    \* StreamCircuitBreaker
    backfill,   \* BackfillCoordinator
    faults, crashes

rpc == <<chain, tip, hidden, lagged>>
db  == <<stored, cursorRow, published>>
vars == <<chain, tip, hidden, lagged, stored, cursorRow, published, stream,
          breaker, backfill, faults, crashes>>

Ledgers == 1..LastLedger
Events == {e \in Ledgers \X (1..MaxPerLedger) : e[2] <= chain[e[1]]}
NoToken == <<0, 0>>
Before(e, f) == e[1] < f[1] \/ (e[1] = f[1] /\ e[2] < f[2])
LedgersOf(S) == {e[1] : e \in S}
LastOf(S) == CHOOSE e \in S : \A f \in S : ~Before(e, f)

(***************************************************************************)
(* The RPC.                                                                *)
(***************************************************************************)
Served(from, to) ==
    {e \in Events : e[1] \in from..to /\ e[1] <= tip /\ e[1] \notin hidden}

Page(S) == {e \in S : Cardinality({f \in S : Before(f, e)}) < PageSize}

\* The next ledger closes.  A late ledger is served before the RPC is
\* GapConfirmation ledgers past it, which is what that setting stands for.
CloseLedger ==
    /\ tip < LastLedger
    /\ \A l \in hidden : tip + 1 < l + GapConfirmation
    /\ tip' = tip + 1
    /\ hidden' \in {hidden, hidden \cup {tip + 1}}
    /\ GapConfirmation = 0 => hidden' = hidden
    /\ lagged' = lagged \cup hidden'
    /\ Cardinality(lagged') <= MaxLate
    /\ UNCHANGED <<chain, db, stream, breaker, backfill, faults, crashes>>

ServeLate ==
    /\ \E l \in hidden : hidden' = hidden \ {l}
    /\ UNCHANGED <<chain, tip, lagged, db, stream, breaker, backfill,
                   faults, crashes>>

(***************************************************************************)
(* The circuit breaker of the stream.                                      *)
(***************************************************************************)
Closed == [state |-> "closed", failures |-> 0]

recordPersistentFailure(b) ==
    LET n == b.failures + 1
        opens == b.state = "half_open" \/ (b.state = "closed" /\ n >= Threshold)
    IN  [state |-> IF opens THEN "open" ELSE b.state, failures |-> n]

\* The catch block: a serialization conflict or a transport fault is only
\* retried, any other error is put to the breaker first.
Caught(b, persistent) ==
    LET c == IF persistent THEN recordPersistentFailure(b) ELSE b
    IN  /\ breaker' = c
        /\ stream' = [stream EXCEPT !.pc = IF c.state = "open" THEN "open" ELSE "fetch",
                                    !.page = {}, !.latest = 0]

(***************************************************************************)
(* The pipeline: one transaction per batch.  "ok" commits and publishes,    *)
(* "rollback" does neither, "lost" commits but reports an error.           *)
(***************************************************************************)
Outcomes == {"ok", "rollback", "lost"}

Fault == faults < MaxFaults /\ faults' = faults + 1

\* Mutant: only newly inserted rows are published.
processBatchOnlyNew(batch, outcome) ==
    IF batch = {} \/ outcome = "rollback"
    THEN UNCHANGED db
    ELSE /\ stored' = stored \cup batch
         /\ cursorRow' = Max({cursorRow} \cup LedgersOf(batch))
         /\ published' = IF outcome = "ok" THEN published \cup (batch \ stored) ELSE published

processBatch(batch, outcome) ==
    IF batch = {} \/ outcome = "rollback"
    THEN UNCHANGED db
    ELSE /\ stored' = stored \cup batch
         /\ cursorRow' = Max({cursorRow} \cup LedgersOf(batch))
         /\ published' = IF outcome = "ok" THEN published \cup batch ELSE published

(***************************************************************************)
(* Gap detection on the first ledger of a page.                            *)
(***************************************************************************)
\* Mutant: the confirmation window is not waited for.
detectGapAtOnce(first, cursor, latest) ==
    CASE cursor <= 0 \/ first <= cursor + 1 -> "none"
      [] OTHER -> IF first - 1 - cursor > MaxDepth THEN "too_deep" ELSE "gap"

detectGap(first, cursor, latest) ==
    CASE cursor <= 0 \/ first <= cursor + 1 -> "none"
      [] OTHER ->
           LET to == first - 1
               size == to - cursor
           IN  IF GapConfirmation > 0 /\ latest < to + GapConfirmation THEN "catching_up"
               ELSE IF size > MaxDepth THEN "too_deep" ELSE "gap"

Healthy == [status |-> "healthy", failures |-> 0, current |-> 0, to |-> 0]

\* recoverGap up to its loop.
BeginRecovery(from, to) ==
    [backfill EXCEPT !.status = "backfilling", !.current = from, !.to = to]

(***************************************************************************)
(* Start-up: read the committed cursor, backfill to the RPC's ledger, then  *)
(* stream from START_LEDGER again.                                         *)
(***************************************************************************)
Startup(rpcAnswers) ==
    /\ stream.pc = "startup"
    /\ IF rpcAnswers THEN UNCHANGED faults ELSE Fault
    /\ LET gap == cursorRow > 0 /\ rpcAnswers /\ tip > cursorRow + 1
           deep == tip - cursorRow > MaxDepth
       IN  /\ stream' = [stream EXCEPT !.pc = IF gap /\ ~deep THEN "startup_recovery" ELSE "fetch",
                                       !.cursor = cursorRow]
           /\ backfill' = CASE gap /\ deep -> [Healthy EXCEPT !.status = "gap_too_large"]
                            [] gap /\ ~deep -> BeginRecovery(cursorRow + 1, tip)
                            [] OTHER -> Healthy
    /\ UNCHANGED <<rpc, db, breaker, crashes>>

(***************************************************************************)
(* One turn of the stream loop up to its first await on the database.      *)
(***************************************************************************)
DrainedAt(latest, cursor) == Max({latest, cursor + 1})

FetchPage ==
    /\ stream.pc = "fetch"
    /\ LET page == Page(IF stream.paging = NoToken
                        THEN Served(stream.start, LastLedger)
                        ELSE {e \in Served(1, LastLedger) : Before(stream.paging, e)})
           first == Min(LedgersOf(page))
           verdict == IF page = {} THEN "none" ELSE detectGap(first, stream.cursor, tip)
           read == [stream EXCEPT !.page = page, !.latest = tip]
       IN  CASE page = {} ->
                     /\ stream' = [stream EXCEPT !.paging = NoToken,
                                                 !.start = DrainedAt(tip, stream.cursor)]
                     /\ breaker' = Closed
                     /\ UNCHANGED backfill
                [] verdict = "gap" /\ backfill.status = "circuit_open" ->
                     /\ Caught(Closed, TRUE)
                     /\ UNCHANGED backfill
                [] verdict = "gap" /\ backfill.status # "circuit_open" ->
                     /\ stream' = [read EXCEPT !.pc = "recovery"]
                     /\ breaker' = Closed
                     /\ backfill' = BeginRecovery(stream.cursor + 1, first - 1)
                [] OTHER ->
                     /\ stream' = [read EXCEPT !.pc = "process"]
                     /\ breaker' = Closed
                     /\ UNCHANGED backfill
    /\ UNCHANGED <<rpc, db, faults, crashes>>

FetchFails(persistent) ==
    /\ stream.pc = "fetch" /\ Fault
    /\ Caught(breaker, persistent)
    /\ UNCHANGED <<rpc, db, backfill, crashes>>

(***************************************************************************)
(* The coordinator's loop: one batch of the gap.                           *)
(***************************************************************************)
\* The coordinator's range fetcher pages through the whole range.
backfillStartupGap(from, to) == Served(from, to)

Recovering == stream.pc \in {"startup_recovery", "recovery"}
BatchTo == Min({backfill.current + BatchSize - 1, backfill.to})

RecoverBatch ==
    /\ Recovering
    /\ LET batch == backfillStartupGap(backfill.current, BatchTo)
           last == IF batch = {} THEN BatchTo ELSE Max(LedgersOf(batch))
           done == last + 1 > backfill.to
       IN  /\ processBatch(batch, "ok")
           /\ backfill' = [backfill EXCEPT !.failures = 0, !.current = last + 1,
                                           !.status = IF done THEN "healthy" ELSE @]
           /\ stream' = CASE ~done -> stream
                          [] done /\ stream.pc = "recovery" ->
                               [stream EXCEPT !.pc = "process", !.cursor = Max({@, last})]
                          [] OTHER -> [stream EXCEPT !.pc = "fetch"]
    /\ UNCHANGED <<rpc, breaker, faults, crashes>>

\* The fetch or the transaction of the batch fails.  At the limit the
\* coordinator opens for good and throws: start-up logs that and goes on,
\* the stream's catch block counts it as persistent.
RecoverBatchFails(outcome) ==
    /\ Recovering /\ outcome # "ok" /\ Fault
    /\ processBatch(backfillStartupGap(backfill.current, BatchTo), outcome)
    /\ LET n == backfill.failures + 1
           open == n >= MaxFailures
       IN  /\ backfill' = [backfill EXCEPT !.failures = n,
                                           !.status = IF open THEN "circuit_open" ELSE @]
           /\ CASE ~open -> UNCHANGED <<stream, breaker>>
                [] open /\ stream.pc = "recovery" -> Caught(breaker, TRUE)
                [] OTHER -> stream' = [stream EXCEPT !.pc = "fetch"] /\ UNCHANGED breaker
    /\ UNCHANGED <<rpc, crashes>>

(***************************************************************************)
(* The page itself.                                                        *)
(***************************************************************************)
\* Mutant: the rest of a window that fills a page is not fetched.
NextWindowAlways(page, latest, cursor) ==
    [paging |-> NoToken, start |-> DrainedAt(latest, cursor)]

\* A full page is followed by the next one of the same window; a short page
\* drains the window.
NextWindow(page, latest, cursor) ==
    IF Cardinality(page) = PageSize
    THEN [paging |-> LastOf(page), start |-> stream.start]
    ELSE [paging |-> NoToken, start |-> DrainedAt(latest, cursor)]

ProcessPage ==
    /\ stream.pc = "process"
    /\ processBatch(stream.page, "ok")
    /\ LET cursor == Max(LedgersOf(stream.page))
           window == NextWindow(stream.page, stream.latest, cursor)
       IN  stream' = [pc |-> "fetch", cursor |-> cursor, page |-> {}, latest |-> 0,
                      paging |-> window.paging, start |-> window.start]
    /\ UNCHANGED <<rpc, breaker, backfill, faults, crashes>>

ProcessPageFails(outcome, persistent) ==
    /\ stream.pc = "process" /\ outcome # "ok" /\ Fault
    /\ processBatch(stream.page, outcome)
    /\ Caught(breaker, persistent)
    /\ UNCHANGED <<rpc, backfill, crashes>>

\* The open breaker has waited its probe interval.
BeginProbe ==
    /\ stream.pc = "open"
    /\ breaker' = [breaker EXCEPT !.state = "half_open"]
    /\ stream' = [stream EXCEPT !.pc = "fetch"]
    /\ UNCHANGED <<rpc, db, backfill, faults, crashes>>

Restarted == [pc |-> "startup", start |-> StartLedger, paging |-> NoToken,
              cursor |-> 0, page |-> {}, latest |-> 0]

Crash ==
    /\ crashes < MaxCrashes /\ crashes' = crashes + 1
    /\ stream' = Restarted
    /\ breaker' = Closed
    /\ backfill' = Healthy
    /\ UNCHANGED <<rpc, db, faults>>

Init ==
    /\ chain \in [Ledgers -> 0..MaxPerLedger]
    /\ Cardinality(Events) <= MaxEvents
    /\ tip = StartLedger
    /\ hidden = {} /\ lagged = {}
    /\ stored = {} /\ cursorRow = 0 /\ published = {}
    /\ stream = Restarted
    /\ breaker = Closed
    /\ backfill = Healthy
    /\ faults = 0 /\ crashes = 0

Loop ==
    \/ Startup(TRUE)
    \/ FetchPage
    \/ RecoverBatch
    \/ ProcessPage
    \/ BeginProbe

Failure ==
    \/ Startup(FALSE)
    \/ \E persistent \in BOOLEAN : FetchFails(persistent)
    \/ \E outcome \in Outcomes : RecoverBatchFails(outcome)
    \/ \E outcome \in Outcomes, persistent \in BOOLEAN : ProcessPageFails(outcome, persistent)
    \/ Crash

Next == CloseLedger \/ ServeLate \/ Loop \/ Failure

\* The event loop keeps running, ledgers keep closing and late ones are
\* served; failures may happen, but need not.
Spec == /\ Init /\ [][Next]_vars
        /\ WF_vars(Loop) /\ WF_vars(CloseLedger) /\ WF_vars(ServeLate)

(***************************************************************************)
(* Properties.                                                             *)
(***************************************************************************)
Pcs == {"startup", "startup_recovery", "fetch", "recovery", "process", "open"}
Tokens == (0..LastLedger) \X (0..MaxPerLedger)

\* The stream waits on an open breaker exactly when the breaker is open, and
\* the cursor row names a ledger with stored events.
TypeOK ==
    /\ chain \in [Ledgers -> 0..MaxPerLedger]
    /\ tip \in Ledgers
    /\ hidden \subseteq lagged /\ lagged \subseteq 1..tip
    /\ stored \subseteq Events /\ published \subseteq stored
    /\ cursorRow = Max({0} \cup LedgersOf(stored))
    /\ stream \in [pc : Pcs, start : 1..(LastLedger + 1), paging : Tokens,
                   cursor : 0..LastLedger, page : SUBSET Events, latest : 0..LastLedger]
    /\ breaker.state \in {"closed", "open", "half_open"} /\ breaker.failures \in Nat
    /\ (stream.pc = "open") = (breaker.state = "open")
    /\ backfill.status \in {"healthy", "backfilling", "gap_too_large", "circuit_open"}
    /\ backfill.failures \in 0..MaxFailures
    /\ faults \in 0..MaxFaults /\ crashes \in 0..MaxCrashes

Prompt(e) == e[1] \notin lagged

\* Once the loop has moved its window past a ledger that the RPC served as soon
\* as it closed, every event of that ledger is in the database, whatever failed,
\* was paged or was restarted on the way.
NothingSkipped ==
    \A e \in Events :
        Prompt(e) /\ StartLedger <= e[1] /\ e[1] < stream.start => e \in stored

\* When the coordinator reports a gap of the stream recovered, every event of
\* the gap is stored, the ones the RPC first served late included.
GapRecoveredBeforeAdvance ==
    [][stream.pc = "recovery" /\ stream'.pc = "process"
         => \A e \in Events :
               e[1] \in (stream.cursor + 1)..stream'.cursor => e \in stored']_vars

\* Unless the backfill coordinator has opened for good, every promptly served
\* event is stored and also published, even when the acknowledgement of its
\* commit was lost or the process died between commit and publication.
EveryPromptEventPublished ==
    \/ <>(\A e \in Events : Prompt(e) => e \in published)
    \/ <>[](backfill.status = "circuit_open")

\* The loop's variables stay in their ranges, and no position it keeps has
\* passed an event that the RPC served in time and that is not stored.
StreamConsistent == TypeOK /\ NothingSkipped
============================================================================
