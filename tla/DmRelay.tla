------------------------------ MODULE DmRelay ------------------------------
(***************************************************************************)
(* Submitting a direct message: RelayClient.sendMessage with its retries,   *)
(* and POST /messages of the relay with its signature check, idempotency    *)
(* keys, message table and pushes.                                          *)
(*                                                                          *)
(* Every call of sendMessage here is for the same sender, recipient and     *)
(* message_index, each with a ciphertext of its own (two devices that       *)
(* counted the same index).  A request's body, and so its fingerprint, is   *)
(* named by the attempt that signed it; so is an idempotency key.           *)
(*                                                                          *)
(* Time passes in units of the timestamp skew the relay tolerates.  Ages    *)
(* are kept instead of dates and stop growing once nothing compares them,   *)
(* so the state space is finite and time is not bounded.                    *)
(***************************************************************************)
EXTENDS Integers, FiniteSets

CONSTANTS
    None,         \* no answer, no key, no row
    Calls,        \* concurrent calls of sendMessage
    MaxAttempts,  \* maxRetries + 1, of each call
    RetryModes,   \* how a retry differs from the attempt before it
    Skew,         \* maxTimestampSkew
    Ahead,        \* how far the sender's clock may be ahead of the relay's
    KeyTtl,       \* idempotencyTtlHours
    MessageTtl,   \* messageTtlDays
    MaxFaults     \* bound: failed statements, stalls, crashes and shutdowns

ASSUME DmRelayAssumption ==
    /\ MaxAttempts \in [Calls -> Nat \ {0}] /\ Skew \in Nat \ {0} /\ Ahead \subseteq 0..Skew
    /\ {KeyTtl, MessageTtl, MaxFaults} \subseteq Nat
    /\ None \notin Nat /\ None \notin [by : Calls, age : Nat]
    /\ RetryModes \subseteq {"fresh", "resigned", "identical"}

VARIABLES
    call,       \* sendMessage: the attempt it is at and how it stands
    request,    \* the request of each attempt: key, body, place in the chain, answer
    offset,     \* timestamp of each signed body, relative to the relay's clock
    seen,       \* dmRelaySeenSignatures: time left before each entry is swept
    keys,       \* message_idempotency
    row,        \* the dm_messages row of the index
    stored,     \* history: calls whose ciphertext was stored
    pushes,     \* new_message pushes since the row was inserted
    writes,     \* completeIdempotencyKey calls nobody awaits
    relay, faults

vars == <<call, request, offset, seen, keys, row, stored, pushes, writes, relay, faults>>

Attempts == UNION {{c} \X (1..MaxAttempts[c]) : c \in Calls}
Pending == 0                                  \* IDEMPOTENCY_PENDING_STATUS
Answers == {201, 401, 409, 429, 500}
InRelay == {"claim", "read", "wait", "insert", "stored"}
Unsent == [key |-> None, body |-> None, pc |-> "unsent", answer |-> None]

TypeOK ==
    /\ call \in [Calls -> [n : Nat,
                           is : {"idle", "sending", "backoff", "resolved", "refused", "exhausted"}]]
    /\ \A c \in Calls : call[c].n \in 1..MaxAttempts[c]
    /\ request \in [Attempts -> [key : Attempts \cup {None}, body : Attempts \cup {None},
                                 pc : {"unsent", "sent", "answered", "over"} \cup InRelay,
                                 answer : Answers \cup {None}]]
    /\ offset \in [Attempts -> -(Skew + 1)..Skew]
    /\ seen \in [Attempts -> 0..Skew]
    /\ keys \in [Attempts -> [status : Answers \cup {Pending}, body : Attempts,
                              age : 0..(KeyTtl + 1)] \cup {None}]
    /\ row \in [by : Calls, age : 0..(MessageTtl + 1)] \cup {None}
    /\ stored \subseteq Calls /\ pushes \in Nat
    /\ writes \subseteq (Attempts \X Answers)
    /\ relay \in {"up", "draining"} /\ faults \in 0..MaxFaults

\* Nobody waits for the request's answer any more, or there will be none.
Over(r) == [r EXCEPT !.pc = "over", !.answer = None]

Init ==
    /\ call = [c \in Calls |-> [n |-> 1, is |-> "idle"]]
    /\ request = [a \in Attempts |-> Unsent]
    /\ offset = [a \in Attempts |-> -(Skew + 1)]
    /\ seen = [a \in Attempts |-> 0]
    /\ keys = [a \in Attempts |-> None]
    /\ row = None /\ stored = {} /\ pushes = 0
    /\ writes = {} /\ relay = "up" /\ faults = 0

(***************************************************************************)
(* The client.                                                             *)
(***************************************************************************)
\* Post the request of attempt n, signed now when the body is its own.
Post(c, n, key, body) ==
    /\ call' = [call EXCEPT ![c] = [n |-> n, is |-> "sending"]]
    /\ request' = [request EXCEPT ![<<c, n>>] =
                       [key |-> key, body |-> body, pc |-> "sent", answer |-> None]]
    /\ IF body = <<c, n>>
         THEN \E d \in Ahead : offset' = [offset EXCEPT ![body] = d]
         ELSE offset' = offset
    /\ UNCHANGED <<seen, keys, row, stored, pushes, writes, relay, faults>>

sendMessage(c) ==
    /\ call[c].is = "idle"
    /\ Post(c, 1, <<c, 1>>, <<c, 1>>)

\* RelayClient signs again and draws a new key for every attempt ("fresh").
\* The relay also serves clients that keep the key, with a new signature or
\* with the very same request.
Retry(c, mode) ==
    LET n == call[c].n + 1
        last == request[<<c, n - 1>>]
    IN /\ call[c].is = "backoff"
       /\ Post(c, n, IF mode = "fresh" THEN <<c, n>> ELSE last.key,
                     IF mode = "identical" THEN last.body ELSE <<c, n>>)

\* What sendMessage makes of an answer, or of none.
Outcome(c, answer) ==
    IF answer = 201 THEN "resolved"
    ELSE IF answer \in {401, 409, 429} THEN "refused"
    ELSE IF call[c].n < MaxAttempts[c] THEN "backoff" ELSE "exhausted"

\* The call is done with its attempt; an answer that is on its way is not read.
Settle(c, answer) ==
    /\ call' = [call EXCEPT ![c].is = Outcome(c, answer)]
    /\ request' = [request EXCEPT ![<<c, call[c].n>>] =
                       IF @.pc = "answered" THEN Over(@) ELSE @]
    /\ UNCHANGED <<offset, seen, keys, row, stored, pushes, writes, relay, faults>>

ReadAnswer(c) ==
    LET r == request[<<c, call[c].n>>]
    IN call[c].is = "sending" /\ r.pc = "answered" /\ Settle(c, r.answer)

\* fetchWithTimeout gives up, or the connection broke; the relay may still be
\* working on the request.
NoAnswer(c) == call[c].is = "sending" /\ Settle(c, None)

(***************************************************************************)
(* The relay: one action per stretch of code between two awaits.           *)
(***************************************************************************)
MoveTo(a, pc) == request' = [request EXCEPT ![a].pc = pc]
AnswerTo(a, s) ==
    request' = [request EXCEPT ![a] = IF call[a[1]] = [n |-> a[2], is |-> "sending"]
                                        THEN [@ EXCEPT !.pc = "answered", !.answer = s]
                                        ELSE Over(@)]

\* verifyMessageAuth: a timestamp ahead of the relay's clock is within the skew
\* by the choice of Ahead.
WithinSkew(body) == offset[body] >= -Skew

isDmRelayReplay(body) == seen[body] > 0

\* The counters of the rate limit are left out: it may refuse any request.
rateLimitMiddleware(a) == MoveTo(a, "claim") \/ AnswerTo(a, 429)

\* messageAuth, the rate limit and the schema run without a pause.  The
\* signature is entered in the replay cache before the rate limit may refuse
\* the request.
Receive(a) ==
    LET body == request[a].body
    IN /\ request[a].pc = "sent" /\ relay = "up"
       /\ IF ~WithinSkew(body) \/ isDmRelayReplay(body)
            THEN AnswerTo(a, 401) /\ UNCHANGED seen
            ELSE /\ rateLimitMiddleware(a)
                 /\ seen' = [seen EXCEPT ![body] = Skew]
       /\ UNCHANGED <<call, offset, keys, row, stored, pushes, writes, relay, faults>>

\* INSERT ... ON CONFLICT DO NOTHING: the first request owns the key.
claimIdempotencyKey(a) ==
    IF keys[request[a].key] = None
      THEN /\ keys' = [keys EXCEPT ![request[a].key] =
                           [status |-> Pending, body |-> request[a].body, age |-> 0]]
           /\ MoveTo(a, "insert")
      ELSE MoveTo(a, "read") /\ UNCHANGED keys

Claim(a) ==
    /\ request[a].pc = "claim" /\ relay = "up"
    /\ claimIdempotencyKey(a)
    /\ UNCHANGED <<call, offset, seen, row, stored, pushes, writes, relay, faults>>

\* The claim fails, or the pool was closed under it.
ClaimFails(a) ==
    /\ request[a].pc = "claim"
    /\ \/ relay = "draining" /\ UNCHANGED faults
       \/ relay = "up" /\ faults < MaxFaults /\ faults' = faults + 1
    /\ AnswerTo(a, 500)
    /\ UNCHANGED <<call, offset, seen, keys, row, stored, pushes, writes, relay>>

\* getIdempotencyRecord: a separate statement, so the row may be gone by now.
ReadKey(a) ==
    LET k == keys[request[a].key]
    IN /\ request[a].pc = "read" /\ relay = "up"
       /\ CASE k = None -> MoveTo(a, "wait")
            [] k # None /\ k.body # request[a].body -> AnswerTo(a, 409)
            [] k # None /\ k.body = request[a].body /\ k.status = Pending -> MoveTo(a, "wait")
            [] OTHER -> AnswerTo(a, k.status)
       /\ UNCHANGED <<call, offset, seen, keys, row, stored, pushes, writes, relay, faults>>

\* The pool was closed before getIdempotencyRecord: claimIdempotencyKey throws.
ReadKeyFails(a) ==
    /\ request[a].pc = "read" /\ relay = "draining"
    /\ AnswerTo(a, 500)
    /\ UNCHANGED <<call, offset, seen, keys, row, stored, pushes, writes, relay, faults>>

\* waitForCompletion: one of the polls sees the owner's answer.
WaitSees(a) ==
    LET k == keys[request[a].key]
    IN /\ request[a].pc = "wait" /\ relay = "up"
       /\ k # None /\ k.status # Pending
       /\ AnswerTo(a, k.status)
       /\ UNCHANGED <<call, offset, seen, keys, row, stored, pushes, writes, relay, faults>>

\* Mutant: a concurrent duplicate polls until the owner answers.
WaitGivesUpNever(a) == FALSE

\* CONCURRENT_WAIT_ATTEMPTS polls saw nothing.
WaitGivesUp(a) ==
    /\ request[a].pc = "wait"
    /\ AnswerTo(a, 409)
    /\ UNCHANGED <<call, offset, seen, keys, row, stored, pushes, writes, relay, faults>>

\* res.json as the middleware wraps it: record the answer without waiting.
Respond(a, s) == AnswerTo(a, s) /\ writes' = writes \cup {<<a, s>>}

\* Mutant: a second message with the same index is stored over the first.
insertMessageOverwrites(a) ==
    /\ row' = [by |-> a[1], age |-> 0] /\ stored' = stored \cup {a[1]}
    /\ MoveTo(a, "stored") /\ UNCHANGED <<writes, pushes>>

\* The UNIQUE (sender, recipient, message_index) constraint decides.
insertMessage(a) ==
    IF row = None
      THEN /\ row' = [by |-> a[1], age |-> 0] /\ stored' = stored \cup {a[1]}
           /\ MoveTo(a, "stored") /\ pushes' = 0 /\ UNCHANGED writes
      ELSE Respond(a, 409) /\ UNCHANGED <<row, stored, pushes>>

Insert(a) ==
    /\ request[a].pc = "insert" /\ relay = "up"
    /\ insertMessage(a)
    /\ UNCHANGED <<call, offset, seen, keys, relay, faults>>

InsertFails(a) ==
    /\ request[a].pc = "insert"
    /\ \/ relay = "draining" /\ UNCHANGED faults
       \/ relay = "up" /\ faults < MaxFaults /\ faults' = faults + 1
    /\ Respond(a, 500)
    /\ UNCHANGED <<call, offset, seen, keys, row, stored, pushes, relay>>

\* The handler after its await: acknowledge, push to the recipient, answer.
Stored(a) ==
    /\ request[a].pc = "stored"
    /\ pushes' = pushes + 1
    /\ Respond(a, 201)
    /\ UNCHANGED <<call, offset, seen, keys, row, stored, relay, faults>>

completeIdempotencyKey(w) ==
    LET key == request[w[1]].key
    IN keys' = IF keys[key] = None THEN keys ELSE [keys EXCEPT ![key].status = w[2]]

Complete(w) ==
    /\ w \in writes /\ relay = "up"
    /\ writes' = writes \ {w}
    /\ completeIdempotencyKey(w)
    /\ UNCHANGED <<call, request, offset, seen, row, stored, pushes, relay, faults>>

\* The write fails and is logged.
CompleteFails(w) ==
    /\ w \in writes
    /\ \/ relay = "draining" /\ UNCHANGED faults
       \/ relay = "up" /\ faults < MaxFaults /\ faults' = faults + 1
    /\ writes' = writes \ {w}
    /\ UNCHANGED <<call, request, offset, seen, keys, row, stored, pushes, relay>>

(***************************************************************************)
(* Time, the cleanup job, and the end of the process.                      *)
(***************************************************************************)
\* A request the relay has begun is over within a unit of time (the skew is 30 s,
\* the client's timeout as well), its writes included, unless the database stalls.
Older(age, last) == IF age > last THEN age ELSE age + 1
Tick ==
    /\ IF writes = {} /\ \A a \in Attempts : request[a].pc \notin InRelay
         THEN UNCHANGED faults
         ELSE faults < MaxFaults /\ faults' = faults + 1
    /\ offset' = [a \in Attempts |-> IF offset[a] < -Skew THEN offset[a] ELSE offset[a] - 1]
    /\ seen' = [a \in Attempts |-> IF seen[a] = 0 THEN 0 ELSE seen[a] - 1]
    /\ keys' = [k \in Attempts |-> IF keys[k] = None THEN None
                                   ELSE [keys[k] EXCEPT !.age = Older(@, KeyTtl)]]
    /\ row' = IF row = None THEN None ELSE [row EXCEPT !.age = Older(@, MessageTtl)]
    /\ UNCHANGED <<call, request, stored, pushes, writes, relay>>

deleteExpiredIdempotencyKeys ==
    keys' = [k \in Attempts |-> IF keys[k] # None /\ keys[k].age > KeyTtl THEN None ELSE keys[k]]

\* performCleanup deletes messages, then keys; a failure in between leaves the keys.
CleanMessages ==
    /\ row # None /\ row.age > MessageTtl
    /\ row' = None
    /\ UNCHANGED <<call, request, offset, seen, keys, stored, pushes, writes, relay, faults>>

CleanKeys ==
    /\ \E k \in Attempts : keys[k] # None /\ keys[k].age > KeyTtl
    /\ deleteExpiredIdempotencyKeys
    /\ UNCHANGED <<call, request, offset, seen, row, stored, pushes, writes, relay, faults>>

\* gracefulShutdown waits for typing notifications only, and closes the pool
\* under requests that are still being served.
Shutdown ==
    /\ relay = "up" /\ faults < MaxFaults
    /\ relay' = "draining" /\ faults' = faults + 1
    /\ UNCHANGED <<call, request, offset, seen, keys, row, stored, pushes, writes>>

\* The process ends and starts again: requests, the replay cache and unwritten
\* answers are gone; the tables stay.
Restart ==
    /\ \/ relay = "draining" /\ UNCHANGED faults
       \/ relay = "up" /\ faults < MaxFaults /\ faults' = faults + 1
    /\ relay' = "up" /\ writes' = {}
    /\ seen' = [a \in Attempts |-> 0]
    /\ request' = [a \in Attempts |-> IF request[a].pc \in InRelay
                                        THEN Over(request[a]) ELSE request[a]]
    /\ UNCHANGED <<call, offset, keys, row, stored, pushes>>

ServerStep ==
    \/ \E a \in Attempts :
          \/ Receive(a) \/ Claim(a) \/ ClaimFails(a) \/ ReadKey(a) \/ ReadKeyFails(a)
          \/ WaitSees(a) \/ WaitGivesUp(a) \/ Insert(a) \/ InsertFails(a) \/ Stored(a)
    \/ \E w \in writes : Complete(w) \/ CompleteFails(w)

Next ==
    \/ \E c \in Calls : \/ sendMessage(c) \/ ReadAnswer(c) \/ NoAnswer(c)
                        \/ \E mode \in RetryModes : Retry(c, mode)
    \/ ServerStep
    \/ Tick \/ CleanMessages \/ CleanKeys \/ Shutdown \/ Restart

\* The relay's event loop and the client's timers keep running, time passes,
\* the cleanup job is scheduled, and a process that shuts down is restarted.
Fairness ==
    /\ WF_vars(ServerStep) /\ WF_vars(Tick /\ UNCHANGED faults)
    /\ WF_vars(CleanKeys) /\ WF_vars(CleanMessages)
    /\ WF_vars(relay = "draining" /\ Restart)
    /\ \A c \in Calls : WF_vars(ReadAnswer(c) \/ NoAnswer(c))
                        /\ WF_vars(\E mode \in RetryModes : Retry(c, mode))

Spec == Init /\ [][Next]_vars
FairSpec == Spec /\ Fairness

(***************************************************************************)
(* Properties.                                                             *)
(***************************************************************************)
\* However often requests are retried, replayed after the signature cache
\* forgot them, or cut short by a restart, the recipient is sent one
\* new_message for a stored row.
OnePushPerMessage == pushes <= 1

\* A call that resolved has its own ciphertext in the table (until it expires):
\* a failed insert, a crash, or another device's message under the same index
\* is never reported as success.
ResolvedIsStored == \A c \in Calls : call[c].is = "resolved" => c \in stored

\* No key stays claimed for good, whatever became of the request that claimed
\* it: its answer is recorded or the cleanup removes it.
KeysSettle == <>[](\A k \in Attempts : keys[k] # None => keys[k].status # Pending)

\* Every call of sendMessage ends, and nothing of it is left running in the
\* relay: no request waits for a key that nobody holds.
CallsEnd ==
    <>[](\A c \in Calls :
            \/ call[c].is = "idle"
            \/ /\ call[c].is \in {"resolved", "refused", "exhausted"}
               /\ \A n \in 1..MaxAttempts[c] : request[<<c, n>>].pc \in {"unsent", "over"})

\* At most one push for a message, and success only for a stored one, in rows
\* of the right shape: what the key table, the replay cache and the unique index
\* give together.
StoredOnce == TypeOK /\ OnePushPerMessage /\ ResolvedIsStored

\* Keys and calls come to an end.
KeysAndCallsSettle == KeysSettle /\ CallsEnd
=============================================================================
