-------------------------- MODULE TransactionQueue --------------------------
(***************************************************************************)
(* The SDK's TransactionQueue (packages/sdk/src/queue.ts): ordered,        *)
(* multi-step submission of transactions by several queue objects of one   *)
(* process that share one source account.                                  *)
(*                                                                         *)
(* A job <<q, r>> is the r-th run() of queue q.  run() and the worker it   *)
(* starts for each step (executeStep) are separate threads of control: the *)
(* step timeout can settle the run while the worker goes on, so a settled  *)
(* job may still have a worker that signs, sends, polls, records hashes    *)
(* and rolls back.  One action is the code between two awaits.             *)
(*                                                                         *)
(* Not modelled here: the persistence adapter and resume(), status events, *)
(* fees, backoff delays, XDR that does not parse.  The caller awaits a     *)
(* run() before it calls run() on the same queue again, and gives each     *)
(* step a rollback callback.                                               *)
(***************************************************************************)
EXTENDS Integers, Sequences

CONSTANTS
    Queue,        \* TransactionQueue objects
    Tx,           \* transactions (unsigned envelopes; a hash names one)
    SeqNum,       \* SeqNum[tx]: the account sequence number tx was built with
    Plan,         \* Plan[q]: the transactions the caller enqueues on q
    RunOptions,   \* RunOptions[q]: the options q is run with, [dry, skip, timed]
    Guarded,      \* whether the RpcClient has getAccountSequence
    MaxRuns,      \* MaxRuns[q]: bound on the calls of run() on q
    MaxAttempts,  \* retryConfig.maxAttempts
    Threshold,    \* retryConfig.circuitBreakerThreshold
    MaxPolls      \* maxPollAttempts

ASSUME QueueAssumption ==
    /\ Tx # {}
    /\ SeqNum \in [Tx -> Nat \ {0}]
    /\ Plan \in [Queue -> Seq(Tx)]
    /\ RunOptions \in [Queue -> SUBSET [dry : BOOLEAN, skip : BOOLEAN, timed : BOOLEAN]]
    /\ MaxRuns \in [Queue -> Nat]
    /\ Guarded \in BOOLEAN
    /\ {MaxAttempts, Threshold, MaxPolls} \subseteq Nat \ {0}

Job == UNION {{q} \X (1..MaxRuns[q]) : q \in Queue}

VARIABLES
    plan,       \* what the caller has still to enqueue, per queue
    steps,      \* this.steps, per queue
    hashes,     \* this._submittedHashes, per queue
    failures,   \* the circuit breaker's consecutiveFailures, per queue
    open,       \* the circuit breaker's open flag, per queue
    runs,       \* the number of run() calls so far, per queue
    job,        \* the run() and the worker of each job
    lock,       \* accountSequenceLocks: holder first, then the waiters in order
    wire,       \* transactions a send has put in flight to the network
    status,     \* external: what the network knows about each transaction
    sequence    \* external: the account's sequence number on the network

queueVars == <<plan, steps, hashes, failures, open, runs>>
netVars   == <<wire, status, sequence>>
vars      == <<queueVars, job, lock, netVars>>

(* Indices a step can have. *)
Index == UNION {1..Len(Plan[q]) : q \in Queue}

NotFired == -1   \* expiry: the step's deadline has not fired
Rejected == 0    \* expiry: the timeout handler ended; n > 0: n rollbacks to go

NoJob == [pc |-> "idle", settled |-> "no", i |-> 1, tx |-> CHOOSE t \in Tx : TRUE,
          dry |-> FALSE, skip |-> FALSE, timed |-> FALSE, attempt |-> 0,
          polls |-> 0, completed |-> <<>>, left |-> 0,
          expiry |-> [k \in Index |-> NotFired]]

Init ==
    /\ plan = Plan
    /\ steps = [q \in Queue |-> <<>>]
    /\ hashes = [q \in Queue |-> <<>>]
    /\ failures = [q \in Queue |-> 0]
    /\ open = [q \in Queue |-> FALSE]
    /\ runs = [q \in Queue |-> 0]
    /\ job = [j \in Job |-> NoJob]
    /\ lock = <<>>
    /\ wire = {}
    /\ status = [t \in Tx |-> "none"]
    /\ sequence = 0

-----------------------------------------------------------------------------
(* The queue object. *)

Running(j) == j[2] = runs[j[1]] /\ job[j].settled = "no"
Idle(q)    == \A r \in 1..MaxRuns[q] : ~Running(<<q, r>>)
Expired(j) == job[j].expiry[job[j].i] # NotFired

UsesLock(rec) == Guarded /\ ~rec.dry

Goto(j, label) == job' = [job EXCEPT ![j].pc = label]

(* withAccountSequenceLock's finally: the holder leaves, the next one runs. *)
Released(j) == IF lock # <<>> /\ Head(lock) = j THEN Tail(lock) ELSE lock

enqueue(q) ==
    /\ plan[q] # <<>>
    /\ steps' = [steps EXCEPT ![q] = Append(@, Head(plan[q]))]
    /\ plan' = [plan EXCEPT ![q] = Tail(@)]
    /\ UNCHANGED <<hashes, failures, open, runs, job, lock, netVars>>

(* The head of run()'s loop at index rec.i, the lock being as held: start  *)
(* the step, which in a guarded run first queues for the account's lock,   *)
(* or, past the last step, drop all steps and resolve.                     *)
LoopHead(j, rec, held) ==
    IF rec.i > Len(steps[j[1]])
    THEN /\ steps' = [steps EXCEPT ![j[1]] = <<>>]
         /\ job' = [job EXCEPT ![j] = [rec EXCEPT !.pc = "idle", !.settled = "ok"]]
         /\ lock' = held
    ELSE /\ job' = [job EXCEPT ![j] = [rec EXCEPT
                        !.pc = IF UsesLock(rec) THEN "lock" ELSE "sign",
                        !.tx = steps[j[1]][rec.i], !.attempt = 0, !.polls = 0]]
         /\ lock' = IF UsesLock(rec) THEN Append(held, j) ELSE held
         /\ UNCHANGED steps

run(q, opts) ==
    LET j == <<q, runs[q] + 1>> IN
    /\ Idle(q)
    /\ runs[q] < MaxRuns[q]
    /\ runs' = [runs EXCEPT ![q] = @ + 1]
    /\ hashes' = [hashes EXCEPT ![q] = <<>>]
    /\ LoopHead(j, [NoJob EXCEPT !.dry = opts.dry, !.skip = opts.skip,
                                 !.timed = opts.timed], lock)
    /\ UNCHANGED <<plan, failures, open, netVars>>

-----------------------------------------------------------------------------
(* How a worker ends. *)

(* The worker returns: the race resolves unless the run is settled already, *)
(* and run() goes on to its next step.                                      *)
Finish(j) ==
    LET done == [job[j] EXCEPT !.pc = "idle", !.completed = Append(@, job[j].i)] IN
    IF Running(j)
    THEN LoopHead(j, [done EXCEPT !.i = @ + 1], Released(j))
    ELSE /\ job' = [job EXCEPT ![j] = done]
         /\ lock' = Released(j)
         /\ UNCHANGED steps

(* Mutant: the lock is freed only when the work returns, not in a finally. *)
ThrowKeepsLock(j) ==
    /\ job' = [job EXCEPT ![j].pc = "idle",
                          ![j].settled = IF @ = "no" THEN "error" ELSE @]
    /\ UNCHANGED <<steps, lock>>

(* The worker throws: the race rejects unless the run is settled already. *)
Throw(j) ==
    /\ job' = [job EXCEPT ![j].pc = "idle",
                          ![j].settled = IF @ = "no" THEN "error" ELSE @]
    /\ lock' = Released(j)
    /\ UNCHANGED steps

(* executeStep's catch blocks: roll back what the run completed, then throw. *)
BeginRollbacks(j) ==
    job' = [job EXCEPT ![j].pc = "rollback", ![j].left = Len(job[j].completed)]

(* One callback of runRollbacks.  It reads this.steps at the index, and    *)
(* fails with a TypeError when the array has become shorter.               *)
HasStep(q, k) == k <= Len(steps[q])

runRollbacks(j) ==
    /\ job[j].pc \in {"rollback", "refused"}
    /\ LET n == job[j].left IN
       IF n > 0 /\ HasStep(j[1], job[j].completed[n])
       THEN /\ job' = [job EXCEPT ![j].left = n - 1]
            /\ UNCHANGED <<steps, lock>>
       ELSE Throw(j)
    /\ UNCHANGED <<plan, hashes, failures, open, runs, netVars>>

-----------------------------------------------------------------------------
(* The account sequence guard (runStep's guardedWork). *)

(* Mutant: the previous holder's promise is not awaited. *)
AcquireWithoutWaiting(j) ==
    /\ job[j].pc = "lock"
    /\ IF Expired(j)
       THEN Throw(j)
       ELSE Goto(j, "check") /\ UNCHANGED <<steps, lock>>
    /\ UNCHANGED <<plan, hashes, failures, open, runs, netVars>>

(* The lock is granted.  A step whose deadline passed while it waited gives *)
(* up; executionStarted is set, so nothing is rolled back for it.           *)
AcquireLock(j) ==
    /\ job[j].pc = "lock"
    /\ lock # <<>> /\ Head(lock) = j
    /\ IF Expired(j)
       THEN Throw(j)
       ELSE Goto(j, "check") /\ UNCHANGED <<steps, lock>>
    /\ UNCHANGED <<plan, hashes, failures, open, runs, netVars>>

(* Mutant: the sequence is fetched and not compared. *)
CheckNothing(j, fetched) ==
    /\ job[j].pc = "check"
    /\ IF Expired(j)
       THEN Throw(j)
       ELSE IF fetched
            THEN Goto(j, "sign") /\ UNCHANGED <<steps, lock>>
            ELSE /\ job' = [job EXCEPT ![j].pc = "refused",
                                       ![j].left = Len(job[j].completed)]
                 /\ lock' = Released(j)
                 /\ UNCHANGED steps
    /\ UNCHANGED <<plan, hashes, failures, open, runs, netVars>>

(* The account's sequence number arrives (or the request fails, fetched =  *)
(* FALSE).  A stale step frees the lock, then rolls back outside the race. *)
CheckSequence(j, fetched) ==
    /\ job[j].pc = "check"
    /\ IF Expired(j)
       THEN Throw(j)
       ELSE IF fetched /\ SeqNum[job[j].tx] = sequence + 1
            THEN Goto(j, "sign") /\ UNCHANGED <<steps, lock>>
            ELSE /\ job' = [job EXCEPT ![j].pc = "refused",
                                       ![j].left = Len(job[j].completed)]
                 /\ lock' = Released(j)
                 /\ UNCHANGED steps
    /\ UNCHANGED <<plan, hashes, failures, open, runs, netVars>>

-----------------------------------------------------------------------------
(* executeStep. *)

Sign(j, ok) ==
    /\ job[j].pc = "sign"
    /\ IF ~ok THEN BeginRollbacks(j)
       ELSE Goto(j, IF job[j].skip /\ ~job[j].dry THEN "send" ELSE "simulate")
    /\ UNCHANGED <<queueVars, lock, netVars>>

Simulate(j, ok) ==
    /\ job[j].pc = "simulate"
    /\ IF ~ok THEN BeginRollbacks(j) /\ UNCHANGED <<steps, lock>>
       ELSE IF job[j].dry THEN Finish(j)
            ELSE Goto(j, "send") /\ UNCHANGED <<steps, lock>>
    /\ UNCHANGED <<plan, hashes, failures, open, runs, netVars>>

(* withRetry at the top of its loop: an open breaker refuses the attempt. *)
SendCall(j) ==
    /\ job[j].pc = "send"
    /\ IF open[j[1]]
       THEN BeginRollbacks(j) /\ UNCHANGED wire
       ELSE Goto(j, "sent") /\ wire' = wire \cup {job[j].tx}
    /\ UNCHANGED <<queueVars, lock, status, sequence>>

(* The network takes a transaction that is next in the account's sequence. *)
Takes(t) == status[t] = "none" /\ SeqNum[t] = sequence + 1

(* Any answer but ERROR counts as submitted and closes the breaker: PENDING  *)
(* and DUPLICATE for a transaction the network has, TRY_AGAIN_LATER for one  *)
(* it could take and has not.                                                *)
SendAccepted(j) ==
    /\ job[j].pc = "sent"
    /\ status[job[j].tx] # "none" \/ Takes(job[j].tx)
    /\ failures' = [failures EXCEPT ![j[1]] = 0]
    /\ open' = [open EXCEPT ![j[1]] = FALSE]
    /\ Goto(j, "poll")
    /\ UNCHANGED <<plan, steps, hashes, runs, lock, netVars>>

(* ERROR is permanent (retryable: false): no retry, the breaker is untouched. *)
SendRejected(j) ==
    /\ job[j].pc = "sent"
    /\ BeginRollbacks(j)
    /\ UNCHANGED <<queueVars, lock, netVars>>

(* The send throws or passes rpcTimeoutMs; it may still reach the network. *)
SendFails(j) ==
    LET n == failures[j[1]] + 1
        last == job[j].attempt + 1 = MaxAttempts IN
    /\ job[j].pc = "sent"
    /\ failures' = [failures EXCEPT ![j[1]] = n]
    /\ open' = [open EXCEPT ![j[1]] = @ \/ n >= Threshold]
    /\ IF open'[j[1]] \/ last
       THEN BeginRollbacks(j)
       ELSE job' = [job EXCEPT ![j].pc = "send", ![j].attempt = @ + 1]
    /\ UNCHANGED <<plan, steps, hashes, runs, lock, netVars>>

(* Mutant: running out of poll attempts returns instead of throwing. *)
PollGivesUpQuietly(j, answered) ==
    LET t == job[j].tx IN
    /\ job[j].pc = "poll"
    /\ IF answered /\ (status[t] = "SUCCESS" \/ job[j].polls + 1 = MaxPolls)
       THEN /\ hashes' = [hashes EXCEPT ![j[1]] = Append(@, t)]
            /\ Finish(j)
       ELSE /\ BeginRollbacks(j)
            /\ UNCHANGED <<steps, hashes, lock>>
    /\ UNCHANGED <<plan, failures, open, runs, netVars>>

(* One getTransaction of pollConfirmation; answered = FALSE: it throws or   *)
(* passes rpcTimeoutMs, which ends the polling.                             *)
pollConfirmation(j, answered) ==
    LET t == job[j].tx IN
    /\ job[j].pc = "poll"
    /\ IF answered /\ status[t] = "SUCCESS"
       THEN /\ hashes' = [hashes EXCEPT ![j[1]] = Append(@, t)]
            /\ Finish(j)
       ELSE /\ IF answered /\ status[t] # "FAILED" /\ job[j].polls + 1 < MaxPolls
               THEN job' = [job EXCEPT ![j].polls = @ + 1]
               ELSE BeginRollbacks(j)
            /\ UNCHANGED <<steps, hashes, lock>>
    /\ UNCHANGED <<plan, failures, open, runs, netVars>>

-----------------------------------------------------------------------------
(* The step timeout (withTimeout in runStep). *)

(* n of the timeout handler's rollbacks remain; with none left the deadline *)
(* promise rejects, which settles the run if step k is still being raced.   *)
HandlerAt(j, k, n) ==
    job' = [job EXCEPT
        ![j].expiry[k] = n,
        ![j].settled = IF n = Rejected /\ Running(j) /\ job[j].i = k
                          /\ job[j].pc # "refused"
                       THEN "error" ELSE @]

(* stepTimeoutMs passes while the step is being raced. *)
Expire(j) ==
    /\ Running(j)
    /\ job[j].timed
    /\ job[j].pc \notin {"idle", "refused"}
    /\ ~Expired(j)
    /\ HandlerAt(j, job[j].i, Len(job[j].completed))
    /\ UNCHANGED <<queueVars, lock, netVars>>

TimeoutRollback(j) ==
    /\ \E k \in Index :
         LET n == job[j].expiry[k] IN
         /\ n > 0
         /\ HandlerAt(j, k, IF HasStep(j[1], job[j].completed[n])
                            THEN n - 1 ELSE Rejected)
    /\ UNCHANGED <<queueVars, lock, netVars>>

-----------------------------------------------------------------------------
(* The network (external). *)

(* A sent transaction arrives, before or after the sender stops waiting. *)
Deliver(t) ==
    /\ t \in wire
    /\ wire' = wire \ {t}
    /\ status' = IF Takes(t) THEN [status EXCEPT ![t] = "pending"] ELSE status
    /\ UNCHANGED <<queueVars, job, lock, sequence>>

(* The next ledger includes it.  One that is never included stays pending. *)
Apply(t, result) ==
    /\ status[t] = "pending"
    /\ SeqNum[t] = sequence + 1
    /\ status' = [status EXCEPT ![t] = result]
    /\ sequence' = sequence + 1
    /\ UNCHANGED <<queueVars, job, lock, wire>>

-----------------------------------------------------------------------------
SendReply(j) ==
    \/ SendAccepted(j)
    \/ SendRejected(j)
    \/ SendFails(j)

(* Steps the code itself, or the time limit of an RPC call, brings about. *)
Progress(j) ==
    \/ AcquireLock(j)
    \/ SendCall(j)
    \/ SendReply(j)
    \/ \E answered \in BOOLEAN : pollConfirmation(j, answered)
    \/ runRollbacks(j)

(* Steps that wait, without a limit of their own, for the wallet or the RPC. *)
Answer(j) ==
    \/ \E fetched \in BOOLEAN : CheckSequence(j, fetched)
    \/ \E ok \in BOOLEAN : Sign(j, ok)
    \/ \E ok \in BOOLEAN : Simulate(j, ok)

Network ==
    \E t \in Tx :
        \/ Deliver(t)
        \/ \E result \in {"SUCCESS", "FAILED"} : Apply(t, result)

Next ==
    \/ \E q \in Queue : enqueue(q)
    \/ \E q \in Queue : \E opts \in RunOptions[q] : run(q, opts)
    \/ \E j \in Job : Progress(j)
    \/ \E j \in Job : Answer(j)
    \/ \E j \in Job : Expire(j)
    \/ \E j \in Job : TimeoutRollback(j)
    \/ Network

(* Timers fire, RPC calls with a limit end, rollback callbacks return.  No  *)
(* fairness for the wallet, the unlimited RPC calls, the network, the caller. *)
Fairness ==
    \A j \in Job :
        /\ WF_vars(Progress(j))
        /\ WF_vars(Expire(j))
        /\ WF_vars(TimeoutRollback(j))

Spec == Init /\ [][Next]_vars /\ Fairness

-----------------------------------------------------------------------------
(* Every variable of the queue and of the network has the expected type. *)
TypeOK ==
    /\ plan \in [Queue -> Seq(Tx)]
    /\ steps \in [Queue -> Seq(Tx)]
    /\ hashes \in [Queue -> Seq(Tx)]
    /\ failures \in [Queue -> Nat]
    /\ open \in [Queue -> BOOLEAN]
    /\ \A q \in Queue : runs[q] \in 0..MaxRuns[q]
    /\ job \in [Job -> [
         pc : {"idle", "lock", "check", "sign", "simulate", "send", "sent",
               "poll", "rollback", "refused"},
         settled : {"no", "ok", "error"},
         i : Nat \ {0}, tx : Tx,
         dry : BOOLEAN, skip : BOOLEAN, timed : BOOLEAN,
         attempt : 0..(MaxAttempts - 1), polls : 0..(MaxPolls - 1),
         completed : Seq(Index), left : Nat,
         expiry : [Index -> Nat \cup {NotFired}]]]
    /\ lock \in Seq(Job)
    /\ wire \subseteq Tx
    /\ status \in [Tx -> {"none", "pending", "SUCCESS", "FAILED"}]
    /\ sequence \in Nat

(* The guard serialises the writes of one account (ARCHITECTURE.md, "serialises *)
(* concurrent writes from the same source account"): at most one guarded worker *)
(* is between its sequence check and its last await, the workers that a step    *)
(* timeout left behind in earlier runs and in other queues included.            *)
Submitting(j) ==
    /\ UsesLock(job[j])
    /\ job[j].pc \in {"check", "sign", "simulate", "send", "sent", "poll", "rollback"}

OneSubmitterPerAccount ==
    Guarded => \A j, k \in Job : Submitting(j) /\ Submitting(k) => j = k

(* "Execute all enqueued steps in order": while a real run is at step i, every  *)
(* earlier step of it is on chain and successful, whatever earlier runs, their  *)
(* left-over workers and other queues do.                                       *)
EarlierStepsSucceeded ==
    \A j \in Job :
        Running(j) /\ ~job[j].dry =>
            \A k \in 1..(job[j].i - 1) : status[steps[j[1]][k]] = "SUCCESS"

(* submittedHashes lists confirmed transactions "in step order": each is        *)
(* successful on chain, none is listed twice, and they ascend in the account's  *)
(* sequence, also when a left-over worker appends to the list of a later run.   *)
HashesInStepOrder ==
    \A q \in Queue :
        /\ \A k \in DOMAIN hashes[q] : status[hashes[q][k]] = "SUCCESS"
        /\ \A k, l \in DOMAIN hashes[q] :
              k < l => SeqNum[hashes[q][k]] < SeqNum[hashes[q][l]]

(* stepTimeoutMs "caps the total wall-clock time spent on a single step": a run  *)
(* that has it settles even if the wallet or an RPC call without a limit of its *)
(* own never answers, and even if another worker holds the lock for ever.       *)
TimedRunSettles ==
    \A j \in Job : (Running(j) /\ job[j].timed) ~> ~Running(j)

(* If the wallet and the RPC always answer in the end, every run settles: no     *)
(* failure path keeps the account's lock.                                       *)
EveryRunSettles ==
    (\A j \in Job : WF_vars(Answer(j))) => \A j \in Job : Running(j) ~> ~Running(j)

(* The writes of an account stay serialised by its lock, in states of the       *)
(* right type, whatever workers a step timeout left behind.                     *)
SubmissionsSerialised == TypeOK /\ OneSubmitterPerAccount

(* No call of run() hangs: with a step timeout whatever the wallet and the RPC  *)
(* do, without one if they answer in the end.                                   *)
RunsSettle == TimedRunSettles /\ EveryRunSettles
=============================================================================
