---------------------------- MODULE QueueResume ----------------------------
(***************************************************************************)
(* The restart persistence of the SDK's TransactionQueue: the snapshots a   *)
(* queue saves as its steps advance, and resume(), which loads the last one *)
(* after the host app restarted.                                            *)
(*                                                                          *)
(* Nobody awaits a save, so several may be in flight, land in any order,    *)
(* fail, or die with the process.  The steps of a run are those of          *)
(* TransactionQueue without its timeouts, retries, dry runs and other       *)
(* queues; step t is the transaction built with the account's t-th sequence *)
(* number.  The app enqueues between runs and resumes before anything else. *)
(***************************************************************************)
EXTENDS Integers, Sequences, FiniteSets

CONSTANTS
    MaxSteps,     \* bound: steps the app enqueues
    Guarded,      \* whether the RpcClient has getAccountSequence
    MaxCrashes,   \* bound: restarts of the host app
    MaxRuns,      \* bound: calls of run()
    MaxInFlight   \* bound: saves in flight together

ASSUME QueueResumeAssumption ==
    MaxSteps \in Nat \ {0} /\ Guarded \in BOOLEAN /\ {MaxCrashes, MaxRuns, MaxInFlight} \subseteq Nat

Steps == 1..MaxSteps

VARIABLES
    queue,       \* this.steps and this.stepStates: [tx, status] in order
    hashes,      \* this._submittedHashes
    pc, at,      \* where run() or resume() is, and at which step
    loaded,      \* resume(): the snapshot it works through
    disk,        \* what the persistence adapter holds
    saves,       \* snapshots whose save has not landed
    enqueued,    \* steps the app has enqueued
    wire,        \* transactions a send has put in flight
    ledger,      \* external: each transaction's result
    sequence,    \* external: the account's sequence number
    crashes, runs

queueVars == <<queue, hashes, pc, at, loaded>>
storeVars == <<disk, saves>>
netVars   == <<wire, ledger, sequence>>
vars == <<queueVars, storeVars, netVars, enqueued, crashes, runs>>

Saved == {"pending", "simulated", "submitted", "confirmed"}
Snapshot == Seq([tx : Steps, status : Saved])
Fresh(t) == [tx |-> t, status |-> "pending"]

TypeOK ==
    /\ queue \in Snapshot /\ loaded \in Snapshot /\ disk \in Snapshot
    /\ saves \subseteq Snapshot /\ Cardinality(saves) <= MaxInFlight
    /\ hashes \in Seq(Steps)
    /\ pc \in {"idle", "simulate", "send", "sent", "poll", "clear",
               "down", "forget", "reconcile", "repoll"}
    /\ at \in 1..(MaxSteps + 1) /\ enqueued \in 0..MaxSteps
    /\ wire \subseteq Steps
    /\ ledger \in [Steps -> {"none", "SUCCESS", "FAILED"}] /\ sequence \in 0..MaxSteps
    /\ crashes \in 0..MaxCrashes /\ runs \in 0..MaxRuns

Init ==
    /\ queue = <<>> /\ loaded = <<>> /\ disk = <<>> /\ hashes = <<>>
    /\ pc = "idle" /\ at = 1 /\ saves = {} /\ enqueued = 0
    /\ wire = {} /\ ledger = [t \in Steps |-> "none"] /\ sequence = 0
    /\ crashes = 0 /\ runs = 0

(***************************************************************************)
(* Saving.                                                                  *)
(***************************************************************************)
\* persistSnapshot: a copy of the states goes to the adapter and is not awaited.
persistSnapshot(q) ==
    /\ Cardinality(saves \cup {q}) <= MaxInFlight
    /\ saves' = saves \cup {q}
    /\ UNCHANGED disk

\* markPersisted.  A submitted or confirmed step always has its hash.
Marked(status) == [queue EXCEPT ![at].status = status]

SaveLands ==
    /\ \E s \in saves : disk' = s /\ saves' = saves \ {s}
    /\ UNCHANGED <<queueVars, netVars, enqueued, crashes, runs>>

SaveFails ==
    /\ \E s \in saves : saves' = saves \ {s}
    /\ UNCHANGED <<queueVars, disk, netVars, enqueued, crashes, runs>>

(***************************************************************************)
(* enqueue and run.                                                         *)
(***************************************************************************)
enqueue ==
    /\ pc = "idle" /\ enqueued < MaxSteps
    /\ enqueued' = enqueued + 1
    /\ queue' = Append(queue, Fresh(enqueued'))
    /\ persistSnapshot(queue')
    /\ UNCHANGED <<hashes, pc, at, loaded, netVars, crashes, runs>>

\* The head of the loop at step i: the step, or the end of the queue.
LoopHead(i) == /\ at' = i
               /\ pc' = IF i > Len(queue) THEN "clear" ELSE "simulate"

run ==
    /\ pc = "idle" /\ runs < MaxRuns
    /\ runs' = runs + 1
    /\ hashes' = <<>>
    /\ LoopHead(1)
    /\ UNCHANGED <<queue, loaded, storeVars, netVars, enqueued, crashes>>

Tx == queue[at].tx
InOrder == Guarded => Tx = sequence + 1

\* The account sequence guard, the signature and the simulation.
Simulate ==
    /\ pc = "simulate" /\ InOrder
    /\ queue' = Marked("simulated")
    /\ persistSnapshot(queue')
    /\ pc' = "send"
    /\ UNCHANGED <<hashes, at, loaded, netVars, enqueued, crashes, runs>>

\* A step that fails rejects the run and leaves this.steps as they are.
StepFails ==
    /\ pc \in {"simulate", "sent", "poll"}
    /\ pc' = "idle"
    /\ UNCHANGED <<queue, hashes, at, loaded, storeVars, netVars, enqueued, crashes, runs>>

\* Mutant: "submitted" is saved before the transaction is sent.
SendMarksFirst ==
    /\ pc = "send"
    /\ queue' = Marked("submitted")
    /\ persistSnapshot(queue')
    /\ pc' = "sent"
    /\ UNCHANGED <<hashes, at, loaded, netVars, enqueued, crashes, runs>>

Send ==
    /\ pc = "send"
    /\ wire' = wire \cup {Tx}
    /\ pc' = "sent"
    /\ UNCHANGED <<queue, hashes, at, loaded, storeVars, ledger, sequence, enqueued, crashes, runs>>

\* The network answers with a hash.
Sent ==
    /\ pc = "sent" /\ (ledger[Tx] # "none" \/ Tx = sequence + 1)
    /\ queue' = Marked("submitted")
    /\ persistSnapshot(queue')
    /\ pc' = "poll"
    /\ UNCHANGED <<hashes, at, loaded, netVars, enqueued, crashes, runs>>

Confirmed ==
    /\ pc = "poll" /\ ledger[Tx] = "SUCCESS"
    /\ queue' = Marked("confirmed")
    /\ persistSnapshot(queue')
    /\ hashes' = Append(hashes, Tx)
    /\ LoopHead(at + 1)
    /\ UNCHANGED <<loaded, netVars, enqueued, crashes, runs>>

\* The queue is through: it drops its steps and clears the adapter.
Clear ==
    /\ pc = "clear"
    /\ queue' = <<>> /\ disk' = <<>>
    /\ pc' = "idle" /\ at' = 1
    /\ UNCHANGED <<hashes, loaded, saves, netVars, enqueued, crashes, runs>>

(***************************************************************************)
(* A restart, and resume.                                                   *)
(***************************************************************************)
Crash ==
    /\ pc # "down" /\ crashes < MaxCrashes
    /\ crashes' = crashes + 1
    /\ pc' = "down" /\ at' = 1
    /\ queue' = <<>> /\ loaded' = <<>> /\ hashes' = <<>> /\ saves' = {}
    /\ UNCHANGED <<disk, netVars, enqueued, runs>>

resume ==
    /\ pc = "down"
    /\ loaded' = disk
    /\ pc' = "forget"
    /\ UNCHANGED <<queue, hashes, at, storeVars, netVars, enqueued, crashes, runs>>

Forget ==
    /\ pc = "forget"
    /\ disk' = <<>>
    /\ pc' = IF loaded = <<>> THEN "idle" ELSE "reconcile"
    /\ UNCHANGED <<queue, hashes, at, loaded, saves, netVars, enqueued, crashes, runs>>

\* Every persisted step in turn: a confirmed one is recovered, a submitted one
\* is polled again, any other is lost and put back into the queue.
NeverSubmitted(s) == s.status \notin {"submitted", "confirmed"}

Reconcile ==
    /\ pc = "reconcile" /\ at <= Len(loaded)
    /\ LET s == loaded[at] IN
          /\ pc' = IF s.status = "submitted" THEN "repoll" ELSE "reconcile"
          /\ at' = IF s.status = "submitted" THEN at ELSE at + 1
          /\ hashes' = IF s.status = "confirmed" THEN Append(hashes, s.tx) ELSE hashes
          /\ queue' = IF NeverSubmitted(s) THEN Append(queue, Fresh(s.tx)) ELSE queue
    /\ UNCHANGED <<loaded, storeVars, netVars, enqueued, crashes, runs>>

\* Mutant: a step that polling gave up on counts as recovered.
RepollAnyway(found) ==
    /\ pc = "repoll"
    /\ hashes' = Append(hashes, loaded[at].tx)
    /\ pc' = "reconcile" /\ at' = at + 1
    /\ UNCHANGED <<queue, loaded, storeVars, netVars, enqueued, crashes, runs>>

\* Polling ends with the transaction's success, or with its failure or no more
\* attempts: the step is then reported lost with its hash.
Repoll(found) ==
    /\ pc = "repoll"
    /\ found => ledger[loaded[at].tx] = "SUCCESS"
    /\ hashes' = IF found THEN Append(hashes, loaded[at].tx) ELSE hashes
    /\ pc' = "reconcile" /\ at' = at + 1
    /\ UNCHANGED <<queue, loaded, storeVars, netVars, enqueued, crashes, runs>>

\* Mutant: resume() waits for steps to run even if none was put back.
RunUnfinishedOnly ==
    /\ pc = "reconcile" /\ at > Len(loaded) /\ queue # <<>>
    /\ loaded' = <<>>
    /\ at' = 1
    /\ pc' = "simulate"
    /\ UNCHANGED <<queue, hashes, storeVars, netVars, enqueued, crashes, runs>>

\* The steps put back run like any others; with none resume() returns.
RunUnfinished ==
    /\ pc = "reconcile" /\ at > Len(loaded)
    /\ loaded' = <<>>
    /\ at' = 1
    /\ pc' = IF queue = <<>> THEN "idle" ELSE "simulate"
    /\ UNCHANGED <<queue, hashes, storeVars, netVars, enqueued, crashes, runs>>

(***************************************************************************)
(* The network applies a transaction that is next in the account's          *)
(* sequence, once.                                                          *)
(***************************************************************************)
Ledger ==
    /\ \E t \in wire : /\ t = sequence + 1
                       /\ \E r \in {"SUCCESS", "FAILED"} : ledger' = [ledger EXCEPT ![t] = r]
    /\ sequence' = sequence + 1
    /\ UNCHANGED <<queueVars, storeVars, wire, enqueued, crashes, runs>>

Work == \/ Simulate \/ Send \/ Sent \/ Confirmed \/ StepFails \/ Clear
        \/ resume \/ Forget \/ Reconcile \/ RunUnfinished
        \/ \E found \in BOOLEAN : Repoll(found)

Next == enqueue \/ run \/ Work \/ SaveLands \/ SaveFails \/ Crash \/ Ledger

Spec == Init /\ [][Next]_vars
\* Awaited calls return, polling is bounded, and saves settle.
FairSpec == Spec /\ WF_vars(Work) /\ WF_vars(SaveLands)

(***************************************************************************)
(* Properties.                                                              *)
(***************************************************************************)
\* Whatever save landed last, the stored snapshot never claims more than has
\* happened: a step it calls submitted was sent, one it calls confirmed
\* succeeded.  resume() relies on both.
SavedNeverAhead ==
    \A s \in saves \cup {disk} : \A i \in 1..Len(s) :
        /\ s[i].status = "submitted" => s[i].tx \in wire
        /\ s[i].status = "confirmed" => ledger[s[i].tx] = "SUCCESS"

\* submittedHashes lists only transactions that succeeded, each once and in
\* the order they were enqueued, across restarts and repeated runs.
HashesInOrderOnce ==
    /\ \A i \in 1..Len(hashes) : ledger[hashes[i]] = "SUCCESS"
    /\ \A i, j \in 1..Len(hashes) : i < j => hashes[i] < hashes[j]

\* resume() and run() come to an end.
Settles == pc # "idle" ~> pc = "idle"

\* The stored record and the queue's rows are well formed, and the record is
\* never ahead of the network, whichever save landed last.
StoreConsistent == TypeOK /\ SavedNeverAhead
=============================================================================
