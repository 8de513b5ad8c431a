------------------------- MODULE TransactionQueueProofs -------------------------
(***************************************************************************)
(* Theorems about TransactionQueue for any queues, plans, options, run     *)
(* counts and retry limits.                                                *)
(***************************************************************************)
EXTENDS TransactionQueue, SequenceTheorems, TLAPS

-------------------------------------------------------------------------------
(***************************************************************************)
(* The inductive invariant                                                 *)
(***************************************************************************)

(***************************************************************************)
(* A worker is in the account's lock from the moment it queues for it to   *)
(* the end of its work; only the holder, at the head, is past the wait.    *)
(***************************************************************************)
Work == {"check", "sign", "simulate", "send", "sent", "poll", "rollback"}

Holds(rec)  == UsesLock(rec) /\ rec.pc \in Work
Queued(rec) == UsesLock(rec) /\ rec.pc \in Work \cup {"lock"}

Within(l, j) == \E n \in 1 .. Len(l) : l[n] = j
OnceEach(l)  == \A m, n \in 1 .. Len(l) : l[m] = l[n] => m = n

LockSound(f, l) ==
    /\ l \in Seq(Job) /\ OnceEach(l)
    /\ \A j \in Job : Queued(f[j]) <=> Within(l, j)
    /\ \A j \in Job : Holds(f[j]) => l # <<>> /\ Head(l) = j

(***************************************************************************)
(* The types, in parts.                                                    *)
(***************************************************************************)
Labels == Work \cup {"idle", "lock", "refused"}

JobRecord ==
    [pc : Labels, settled : {"no", "ok", "error"}, i : Nat \ {0}, tx : Tx,
     dry : BOOLEAN, skip : BOOLEAN, timed : BOOLEAN,
     attempt : 0 .. (MaxAttempts - 1), polls : 0 .. (MaxPolls - 1),
     completed : Seq(Index), left : Nat, expiry : [Index -> Nat \cup {NotFired}]]

Rows ==
    /\ plan \in [Queue -> Seq(Tx)] /\ steps \in [Queue -> Seq(Tx)]
    /\ hashes \in [Queue -> Seq(Tx)]
    /\ \A q \in Queue : Len(steps[q]) + Len(plan[q]) =< Len(Plan[q])

Counters ==
    /\ failures \in [Queue -> Nat] /\ open \in [Queue -> BOOLEAN]
    /\ runs \in [Queue -> Nat] /\ \A q \in Queue : runs[q] =< MaxRuns[q]

(***************************************************************************)
(* What the network has applied it never applies again.                    *)
(***************************************************************************)
NetSound ==
    /\ wire \subseteq Tx /\ sequence \in Nat
    /\ status \in [Tx -> {"none", "pending", "SUCCESS", "FAILED"}]
    /\ \A t \in Tx : status[t] \in {"SUCCESS", "FAILED"} => SeqNum[t] =< sequence

(***************************************************************************)
(* Where a job is.  One that has not begun is as it was at first; a worker *)
(* works on a step its queue had; a job whose run is not settled works on  *)
(* the step it is at, and if it is no dry run all before it succeeded.  A  *)
(* dry run sends nothing.                                                  *)
(***************************************************************************)
RunningAt(r, s, st) ==
    /\ r.pc # "idle" /\ r.i \in 1 .. Len(s) /\ r.tx = s[r.i]
    /\ r.dry \/ \A k \in 1 .. r.i - 1 : st[s[k]] = "SUCCESS"

NeverSends(r) == r.dry => r.pc \notin {"send", "sent", "poll"}

JobSound(j) ==
    /\ j[2] > runs[j[1]] => job[j] = NoJob
    /\ job[j].pc # "idle" => job[j].i \in Index
    /\ NeverSends(job[j])
    /\ Running(j) => RunningAt(job[j], steps[j[1]], status)

JobsSound == job \in [Job -> JobRecord] /\ \A j \in Job : JobSound(j)

(***************************************************************************)
(* Hashes are of transactions that succeeded.  With the guard, a worker    *)
(* that has passed the sequence check has a transaction beyond all that    *)
(* any queue has listed, and stays the only one to add to the lists.       *)
(***************************************************************************)
Beyond(q, t) == \A k \in 1 .. Len(hashes[q]) : SeqNum[hashes[q][k]] < SeqNum[t]

HashesSound ==
    /\ \A q \in Queue : \A k \in 1 .. Len(hashes[q]) : status[hashes[q][k]] = "SUCCESS"
    /\ Guarded =>
          /\ \A q \in Queue : \A k, l \in 1 .. Len(hashes[q]) :
                k < l => SeqNum[hashes[q][k]] < SeqNum[hashes[q][l]]
          /\ \A j \in Job : Holds(job[j]) /\ job[j].pc # "check" =>
                job[j].pc = "rollback" \/ \A q \in Queue : Beyond(q, job[j].tx)

QueueInv == LockSound(job, lock) /\ Rows /\ Counters /\ NetSound /\ JobsSound /\ HashesSound

-------------------------------------------------------------------------------
(***************************************************************************)
(* Jobs and records                                                        *)
(***************************************************************************)

(***************************************************************************)
(* A job is a queue and the number of one of its runs.                     *)
(***************************************************************************)
LEMMA JobPairs ==
    /\ \A j \in Job : /\ j[1] \in Queue /\ j[2] \in Nat \ {0} /\ j[2] =< MaxRuns[j[1]]
                      /\ j = <<j[1], j[2]>>
    /\ \A q \in Queue : \A r \in 1 .. MaxRuns[q] : <<q, r>> \in Job
  <1>1. \A q \in Queue : MaxRuns[q] \in Nat
    BY QueueAssumption
  <1>2. ASSUME NEW j \in Job
        PROVE  /\ j[1] \in Queue /\ j[2] \in Nat \ {0} /\ j[2] =< MaxRuns[j[1]]
               /\ j = <<j[1], j[2]>>
    <2>1. PICK q \in Queue : j \in {q} \X (1 .. MaxRuns[q])
      BY DEF Job
    <2> QED
      BY <1>1, <2>1
  <1>3. ASSUME NEW q \in Queue, NEW r \in 1 .. MaxRuns[q] PROVE <<q, r>> \in Job
    BY DEF Job
  <1> QED
    BY <1>2, <1>3

(***************************************************************************)
(* The parts of a job's record.                                            *)
(***************************************************************************)
LEMMA RecordParts ==
    ASSUME NEW r \in JobRecord
    PROVE  /\ r.pc \in Labels /\ r.settled \in {"no", "ok", "error"}
           /\ r.i \in Nat \ {0} /\ r.tx \in Tx /\ r.dry \in BOOLEAN /\ r.skip \in BOOLEAN
           /\ r.attempt \in 0 .. (MaxAttempts - 1) /\ r.polls \in 0 .. (MaxPolls - 1)
           /\ r.completed \in Seq(Index) /\ r.left \in Nat
           /\ r.expiry \in [Index -> Nat \cup {NotFired}]
  BY DEF JobRecord

(***************************************************************************)
(* A worker that goes on to another label.                                 *)
(***************************************************************************)
To(r, label) == [r EXCEPT !.pc = label]

LEMMA ToLabel ==
    ASSUME NEW r \in JobRecord, NEW label \in Labels
    PROVE  /\ To(r, label) \in JobRecord
           /\ To(r, label).pc = label /\ To(r, label).settled = r.settled
           /\ To(r, label).i = r.i /\ To(r, label).tx = r.tx /\ To(r, label).dry = r.dry
  BY DEF To, JobRecord

(***************************************************************************)
(* A worker that turns to its rollbacks, or has one fewer to do.           *)
(***************************************************************************)
ToRollback(r, label, n) == [r EXCEPT !.pc = label, !.left = n]

LEMMA ToRollbackLabel ==
    ASSUME NEW r \in JobRecord, NEW label \in Labels, NEW n \in Nat
    PROVE  /\ ToRollback(r, label, n) \in JobRecord
           /\ ToRollback(r, label, n).pc = label /\ ToRollback(r, label, n).settled = r.settled
           /\ ToRollback(r, label, n).i = r.i /\ ToRollback(r, label, n).tx = r.tx
           /\ ToRollback(r, label, n).dry = r.dry
  BY DEF ToRollback, JobRecord

(***************************************************************************)
(* A worker that ends, having thrown.                                      *)
(***************************************************************************)
Thrown(r) == [r EXCEPT !.pc = "idle", !.settled = IF @ = "no" THEN "error" ELSE @]

LEMMA ThrownLabel ==
    ASSUME NEW r \in JobRecord
    PROVE  /\ Thrown(r) \in JobRecord /\ Thrown(r).pc = "idle" /\ Thrown(r).settled # "no"
           /\ Thrown(r).i = r.i /\ Thrown(r).tx = r.tx /\ Thrown(r).dry = r.dry
  BY DEF Thrown, JobRecord, Labels

(***************************************************************************)
(* A worker that ends, having done its step.                               *)
(***************************************************************************)
StepDone(r) == [r EXCEPT !.pc = "idle", !.completed = Append(@, r.i)]

LEMMA StepDoneLabel ==
    ASSUME NEW r \in JobRecord, r.i \in Index
    PROVE  /\ StepDone(r) \in JobRecord /\ StepDone(r).pc = "idle"
           /\ StepDone(r).settled = r.settled
           /\ StepDone(r).i = r.i /\ StepDone(r).tx = r.tx /\ StepDone(r).dry = r.dry
  <1>1. Append(r.completed, r.i) \in Seq(Index)
    BY RecordParts, AppendProperties
  <1> HIDE DEF Index
  <1> QED
    BY <1>1 DEF StepDone, JobRecord, Labels

(***************************************************************************)
(* A job at the head of the loop with index i.                             *)
(***************************************************************************)
Started(r, label, t) == [r EXCEPT !.pc = label, !.tx = t, !.attempt = 0, !.polls = 0]

LEMMA StartedLabel ==
    ASSUME NEW r \in JobRecord, NEW label \in Labels, NEW t \in Tx
    PROVE  /\ Started(r, label, t) \in JobRecord
           /\ Started(r, label, t).pc = label /\ Started(r, label, t).settled = r.settled
           /\ Started(r, label, t).i = r.i /\ Started(r, label, t).tx = t
           /\ Started(r, label, t).dry = r.dry
  <1>1. 0 \in 0 .. (MaxAttempts - 1) /\ 0 \in 0 .. (MaxPolls - 1)
    BY QueueAssumption
  <1> QED
    BY <1>1 DEF Started, JobRecord

(***************************************************************************)
(* A deadline's handler with n rollbacks to go.                            *)
(***************************************************************************)
Handled(r, k, n, out) == [r EXCEPT !.expiry[k] = n, !.settled = out]

LEMMA HandledLabel ==
    ASSUME NEW r \in JobRecord, NEW k \in Index, NEW n \in Nat,
           NEW out \in {"no", "ok", "error"}
    PROVE  /\ Handled(r, k, n, out) \in JobRecord /\ Handled(r, k, n, out).pc = r.pc
           /\ Handled(r, k, n, out).settled = out /\ Handled(r, k, n, out).i = r.i
           /\ Handled(r, k, n, out).tx = r.tx /\ Handled(r, k, n, out).dry = r.dry
  BY DEF Handled, JobRecord

(***************************************************************************)
(* The record of a job that has not begun.                                 *)
(***************************************************************************)
LEMMA NoJobRecord ==
    /\ NoJob \in JobRecord /\ NoJob.pc = "idle" /\ NoJob.settled = "no" /\ NoJob.i = 1
    /\ \A k \in Index : NoJob.expiry[k] = -1
  <1>1. (CHOOSE t \in Tx : TRUE) \in Tx
    BY QueueAssumption
  <1>2. <<>> \in Seq(Index)
    BY EmptySeq
  <1>3. [k \in Index |-> NotFired] \in [Index -> Nat \cup {NotFired}]
    OBVIOUS
  <1>4. 0 \in 0 .. (MaxAttempts - 1) /\ 0 \in 0 .. (MaxPolls - 1) /\ 0 \in Nat /\ 1 \in Nat \ {0}
    BY QueueAssumption
  <1> HIDE DEF Index
  <1>5. NoJob \in JobRecord
    BY <1>1, <1>2, <1>3, <1>4 DEF NoJob, JobRecord, Labels
  <1> QED
    BY <1>5 DEF NoJob, NotFired

-------------------------------------------------------------------------------
(***************************************************************************)
(* The lock                                                                *)
(***************************************************************************)

(***************************************************************************)
(* The head leaves the lock.                                               *)
(***************************************************************************)
LEMMA HeadLeaves ==
    ASSUME NEW l \in Seq(Job), OnceEach(l), l # <<>>
    PROVE  /\ Tail(l) \in Seq(Job) /\ OnceEach(Tail(l))
           /\ \A j \in Job : Within(Tail(l), j) <=> Within(l, j) /\ j # Head(l)
  <1>1. /\ Len(l) \in Nat /\ Len(l) > 0 /\ Head(l) = l[1]
        /\ Tail(l) \in Seq(Job) /\ Len(Tail(l)) = Len(l) - 1
        /\ \A n \in 1 .. Len(l) - 1 : Tail(l)[n] = l[n + 1]
    BY EmptySeq, LenProperties, HeadTailProperties
  <1> DEFINE t == Tail(l)
  <1> HIDE DEF t
  <1>2. \A n \in 1 .. Len(t) : t[n] = l[n + 1] /\ n + 1 \in 1 .. Len(l)
    BY <1>1 DEF t
  <1>3. OnceEach(t)
    BY <1>1, <1>2 DEF OnceEach, t
  <1>4. ASSUME NEW j \in Job PROVE Within(t, j) <=> Within(l, j) /\ j # l[1]
    <2>1. ASSUME Within(t, j) PROVE Within(l, j) /\ j # l[1]
      <3>1. PICK n \in 1 .. Len(t) : t[n] = j
        BY <2>1 DEF Within
      <3>2. l[n + 1] = j /\ n + 1 \in 1 .. Len(l) /\ n + 1 # 1 /\ 1 \in 1 .. Len(l)
        BY <1>1, <1>2, <3>1 DEF t
      <3> QED
        BY <3>2 DEF Within, OnceEach
    <2>2. ASSUME Within(l, j), j # l[1] PROVE Within(t, j)
      <3>1. PICK n \in 1 .. Len(l) : l[n] = j
        BY <2>2 DEF Within
      <3>2. n - 1 \in 1 .. Len(t) /\ t[n - 1] = l[(n - 1) + 1] /\ (n - 1) + 1 = n
        BY <1>1, <1>2, <2>2, <3>1 DEF t
      <3> QED
        BY <3>1, <3>2 DEF Within
    <2> QED
      BY <2>1, <2>2
  <1> QED
    BY <1>1, <1>3, <1>4 DEF t

(***************************************************************************)
(* A job joins the lock at its end.                                        *)
(***************************************************************************)
LEMMA JobJoins ==
    ASSUME NEW l \in Seq(Job), OnceEach(l), NEW j \in Job, ~Within(l, j)
    PROVE  /\ Append(l, j) \in Seq(Job) /\ OnceEach(Append(l, j)) /\ Append(l, j) # <<>>
           /\ \A k \in Job : Within(Append(l, j), k) <=> Within(l, k) \/ k = j
           /\ l # <<>> => Head(Append(l, j)) = Head(l)
  <1> DEFINE a == Append(l, j)
  <1>1. /\ Len(l) \in Nat /\ a \in Seq(Job) /\ Len(a) = Len(l) + 1 /\ a[Len(l) + 1] = j
        /\ \A n \in 1 .. Len(l) : a[n] = l[n]
    BY LenProperties, AppendProperties
  <1> HIDE DEF a
  <1>2. 1 .. Len(a) = (1 .. Len(l)) \cup {Len(l) + 1}
    BY <1>1
  <1>3. OnceEach(a)
    BY <1>1, <1>2 DEF OnceEach, Within
  <1>4. \A k \in Job : Within(a, k) <=> Within(l, k) \/ k = j
    BY <1>1, <1>2 DEF Within
  <1>5. a # <<>>
    BY <1>1, EmptySeq
  <1>6. l # <<>> => Head(a) = Head(l)
    BY <1>1, <1>5, EmptySeq, LenProperties, HeadTailProperties
  <1> QED
    BY <1>1, <1>3, <1>4, <1>5, <1>6 DEF a

(***************************************************************************)
(* A worker that moves on without leaving or joining the lock.  Only the   *)
(* head may begin its work.                                                *)
(***************************************************************************)
LEMMA LockStays ==
    ASSUME LockSound(job, lock), job \in [Job -> JobRecord],
           NEW j \in Job, NEW r, job' = [job EXCEPT ![j] = r], lock' = lock,
           Queued(r) <=> Queued(job[j]),
           Holds(r) => Holds(job[j]) \/ (lock # <<>> /\ Head(lock) = j)
    PROVE  LockSound(job', lock')
  <1>1. job'[j] = r /\ \A k \in Job : k # j => job'[k] = job[k]
    OBVIOUS
  <1> QED
    BY <1>1 DEF LockSound

(***************************************************************************)
(* The end of a worker's time in the lock, if it was in it.                *)
(***************************************************************************)
LEMMA ReleasedSound ==
    ASSUME LockSound(job, lock), NEW j \in Job, Queued(job[j]) => lock # <<>> /\ Head(lock) = j
    PROVE  /\ Released(j) \in Seq(Job) /\ OnceEach(Released(j))
           /\ \A k \in Job : Within(Released(j), k) <=> Queued(job[k]) /\ k # j
           /\ \A k \in Job : Holds(job[k]) /\ k # j => Released(j) # <<>> /\ Head(Released(j)) = k
  <1>0. /\ lock \in Seq(Job) /\ OnceEach(lock) /\ \A k \in Job : Queued(job[k]) <=> Within(lock, k)
        /\ \A k \in Job : Holds(job[k]) => lock # <<>> /\ Head(lock) = k
    BY DEF LockSound
  <1>1. CASE lock # <<>> /\ Head(lock) = j
    <2>1. Released(j) = Tail(lock)
      BY <1>1 DEF Released
    <2> QED
      BY <1>0, <1>1, <2>1, HeadLeaves
  <1>2. CASE ~(lock # <<>> /\ Head(lock) = j)
    <2>1. Released(j) = lock
      BY <1>2 DEF Released
    <2> QED
      BY <1>0, <1>2, <2>1
  <1> QED
    BY <1>1, <1>2

(***************************************************************************)
(* A worker leaves the lock.                                               *)
(***************************************************************************)
LEMMA LockLeft ==
    ASSUME LockSound(job, lock), job \in [Job -> JobRecord],
           NEW j \in Job, NEW r, job' = [job EXCEPT ![j] = r], lock' = Released(j),
           Queued(job[j]) => lock # <<>> /\ Head(lock) = j,
           ~Queued(r)
    PROVE  LockSound(job', lock')
  <1>1. job'[j] = r /\ \A k \in Job : k # j => job'[k] = job[k]
    OBVIOUS
  <1>2. ~Holds(r)
    BY DEF Holds, Queued
  <1> QED
    BY <1>1, <1>2, ReleasedSound DEF LockSound

(***************************************************************************)
(* A job queues for the lock, its last turn being over.                    *)
(***************************************************************************)
LEMMA LockJoined ==
    ASSUME LockSound(job, lock), job \in [Job -> JobRecord],
           NEW j \in Job, NEW r, job' = [job EXCEPT ![j] = r], lock' = Append(Released(j), j),
           Queued(job[j]) => lock # <<>> /\ Head(lock) = j,
           Queued(r), ~Holds(r)
    PROVE  LockSound(job', lock')
  <1>1. job'[j] = r /\ \A k \in Job : k # j => job'[k] = job[k]
    OBVIOUS
  <1>2. /\ Released(j) \in Seq(Job) /\ OnceEach(Released(j)) /\ ~Within(Released(j), j)
        /\ \A k \in Job : Within(Released(j), k) <=> Queued(job[k]) /\ k # j
        /\ \A k \in Job : Holds(job[k]) /\ k # j => Released(j) # <<>> /\ Head(Released(j)) = k
    BY ReleasedSound
  <1>3. /\ lock' \in Seq(Job) /\ OnceEach(lock') /\ lock' # <<>>
        /\ \A k \in Job : Within(lock', k) <=> Within(Released(j), k) \/ k = j
        /\ Released(j) # <<>> => Head(lock') = Head(Released(j))
    BY <1>2, JobJoins
  <1> QED
    BY <1>1, <1>2, <1>3 DEF LockSound

(***************************************************************************)
(* At most one worker holds the lock.                                      *)
(***************************************************************************)
LEMMA OneHolder ==
    ASSUME LockSound(job, lock), NEW j \in Job, NEW k \in Job, Holds(job[j]), Holds(job[k])
    PROVE  j = k
  BY DEF LockSound

-------------------------------------------------------------------------------
(***************************************************************************)
(* What a step of one job leaves of the invariant                          *)
(***************************************************************************)

(***************************************************************************)
(* The other jobs stay where they are.                                     *)
(***************************************************************************)
LEMMA JobMoves ==
    ASSUME Counters, JobsSound, NEW j \in Job, NEW r \in JobRecord,
           job' = [job EXCEPT ![j] = r], UNCHANGED <<steps, runs, status>>, job[j] # NoJob,
           r.pc # "idle" => r.i \in Index, NeverSends(r),
           j[2] = runs[j[1]] /\ r.settled = "no" => RunningAt(r, steps[j[1]], status)
    PROVE  JobsSound'
  <1>1. /\ job' \in [Job -> JobRecord] /\ job'[j] = r
        /\ \A k \in Job : k # j => job'[k] = job[k]
    BY DEF JobsSound
  <1>2. ~(j[2] > runs[j[1]])
    BY DEF JobsSound, JobSound
  <1>3. ASSUME NEW k \in Job PROVE JobSound(k)'
    <2>1. CASE k = j
      BY <1>1, <1>2, <2>1 DEF JobSound, Running
    <2>2. CASE k # j
      BY <1>1, <2>2 DEF JobsSound, JobSound, Running
    <2> QED
      BY <2>1, <2>2
  <1> QED
    BY <1>1, <1>3 DEF JobsSound

(***************************************************************************)
(* A worker that stays at its step.                                        *)
(***************************************************************************)
LEMMA SameStep ==
    ASSUME Counters, JobsSound, NEW j \in Job, NEW r \in JobRecord,
           job' = [job EXCEPT ![j] = r], UNCHANGED <<steps, runs, status>>, job[j] # NoJob,
           r.i = job[j].i, r.tx = job[j].tx, r.dry = job[j].dry,
           r.settled = "no" => job[j].settled = "no", NeverSends(r),
           r.pc = "idle" <=> job[j].pc = "idle"
    PROVE  JobsSound'
  <1>1. JobSound(j)
    BY DEF JobsSound
  <1>2. r.pc # "idle" => r.i \in Index
    BY <1>1 DEF JobSound
  <1>3. j[2] = runs[j[1]] /\ r.settled = "no" => RunningAt(r, steps[j[1]], status)
    BY <1>1 DEF JobSound, Running, RunningAt
  <1> QED
    BY <1>2, <1>3, JobMoves

(***************************************************************************)
(* The lists of hashes as they are: a worker past its check has a          *)
(* transaction beyond them.                                                *)
(***************************************************************************)
PastCheck(r) == Holds(r) /\ r.pc \notin {"check", "rollback"}

LEMMA HashesKept ==
    ASSUME HashesSound, job \in [Job -> JobRecord], NEW j \in Job, NEW r,
           job' = [job EXCEPT ![j] = r], UNCHANGED <<hashes, status>>,
           Guarded /\ PastCheck(r) => \A q \in Queue : Beyond(q, r.tx)
    PROVE  HashesSound'
  <1>1. job'[j] = r /\ \A k \in Job : k # j => job'[k] = job[k]
    OBVIOUS
  <1>2. ASSUME Guarded, NEW k \in Job, Holds(job'[k]), job'[k].pc # "check",
               job'[k].pc # "rollback", NEW q \in Queue
        PROVE  Beyond(q, job'[k].tx)
    <2>1. CASE k = j
      BY <1>1, <1>2, <2>1 DEF PastCheck
    <2>2. CASE k # j
      BY <1>1, <1>2, <2>2 DEF HashesSound
    <2> QED
      BY <2>1, <2>2
  <1>3. ASSUME Guarded, NEW k \in Job, Holds(job'[k]), job'[k].pc # "check",
               job'[k].pc # "rollback", NEW q \in Queue
        PROVE  \A n \in 1 .. Len(hashes'[q]) : SeqNum[hashes'[q][n]] < SeqNum[job'[k].tx]
    BY <1>2, <1>3 DEF Beyond
  <1> QED
    BY <1>3 DEF HashesSound, Beyond, Holds, UsesLock

(***************************************************************************)
(* A worker past its check goes on with the same transaction.              *)
(***************************************************************************)
LEMMA HashesKeptOn ==
    ASSUME HashesSound, job \in [Job -> JobRecord], NEW j \in Job, NEW r,
           job' = [job EXCEPT ![j] = r], UNCHANGED <<hashes, status>>,
           r.tx = job[j].tx, PastCheck(r) => PastCheck(job[j])
    PROVE  HashesSound'
  <1>1. Guarded /\ PastCheck(r) => \A q \in Queue : Beyond(q, r.tx)
    BY DEF HashesSound, PastCheck
  <1> QED
    BY <1>1, HashesKept

(***************************************************************************)
(* The hash of a confirmed step goes to the end of its queue's list: under *)
(* the guard its worker is the only one past a check.                      *)
(***************************************************************************)
LEMMA HashAdded ==
    ASSUME HashesSound, LockSound(job, lock), job \in [Job -> JobRecord], Rows, NEW j \in Job,
           job[j].pc = "poll", NeverSends(job[j]), status[job[j].tx] = "SUCCESS",
           hashes' = [hashes EXCEPT ![j[1]] = Append(@, job[j].tx)],
           NEW r, job' = [job EXCEPT ![j] = r], ~Holds(r), status' = status
    PROVE  HashesSound' /\ hashes' \in [Queue -> Seq(Tx)]
  <1> DEFINE q == j[1]
             t == job[j].tx
             a == Append(hashes[q], t)
             n == Len(hashes[q])
  <1>1. q \in Queue /\ t \in Tx /\ hashes[q] \in Seq(Tx)
    BY JobPairs, RecordParts DEF Rows
  <1>2. /\ n \in Nat /\ a \in Seq(Tx) /\ Len(a) = n + 1 /\ a[n + 1] = t
        /\ \A k \in 1 .. n : a[k] = hashes[q][k]
    BY <1>1, LenProperties, AppendProperties
  <1>3. /\ hashes'[q] = a /\ hashes' \in [Queue -> Seq(Tx)]
        /\ \A p \in Queue : p # q => hashes'[p] = hashes[p]
    BY <1>1, <1>2 DEF Rows
  <1>4. job'[j] = r /\ \A k \in Job : k # j => job'[k] = job[k]
    OBVIOUS
  <1>5. Guarded => Holds(job[j]) /\ Beyond(q, t)
    BY <1>1 DEF NeverSends, UsesLock, Holds, Work, HashesSound
  <1>6. ASSUME Guarded, NEW k \in Job PROVE ~Holds(job'[k])
    BY <1>4, <1>5, <1>6, OneHolder
  <1> HIDE DEF a, n, t
  <1>7. 1 .. Len(a) = (1 .. n) \cup {n + 1}
    BY <1>2
  <1>8. \A p \in Queue : \A k \in 1 .. Len(hashes'[p]) : status'[hashes'[p][k]] = "SUCCESS"
    BY <1>1, <1>2, <1>3, <1>7 DEF HashesSound, t, n
  <1>9. ASSUME Guarded, NEW p \in Queue, NEW k \in 1 .. Len(hashes'[p]), NEW l \in 1 .. Len(hashes'[p]),
               k < l
        PROVE  SeqNum[hashes'[p][k]] < SeqNum[hashes'[p][l]]
    <2>1. CASE p # q
      BY <1>3, <1>9, <2>1 DEF HashesSound
    <2>2. CASE p = q
      <3>1. k \in 1 .. n
        BY <1>2, <1>3, <1>9, <2>2
      <3>2. CASE l = n + 1
        BY <1>2, <1>3, <1>5, <1>9, <2>2, <3>1, <3>2 DEF Beyond, n
      <3>3. CASE l \in 1 .. n
        BY <1>1, <1>2, <1>3, <1>9, <2>2, <3>1, <3>3 DEF HashesSound, n
      <3> QED
        BY <1>3, <1>7, <2>2, <3>2, <3>3
    <2> QED
      BY <2>1, <2>2
  <1>10. HashesSound'
    BY <1>6, <1>8, <1>9 DEF HashesSound, Holds, UsesLock
  <1> QED
    BY <1>3, <1>10

(***************************************************************************)
(* A run that is through.                                                  *)
(***************************************************************************)
Resolved(r) == [r EXCEPT !.pc = "idle", !.settled = "ok"]

LEMMA ResolvedLabel ==
    ASSUME NEW r \in JobRecord
    PROVE  /\ Resolved(r) \in JobRecord /\ Resolved(r).pc = "idle"
           /\ Resolved(r).settled = "ok" /\ Resolved(r).dry = r.dry
  BY DEF Resolved, JobRecord, Labels

(***************************************************************************)
(* The job at the head of the loop: resolved, or at its next step.         *)
(***************************************************************************)
AtHead(rec, s) ==
    IF rec.i > Len(s) THEN Resolved(rec)
    ELSE Started(rec, IF UsesLock(rec) THEN "lock" ELSE "sign", s[rec.i])

LEMMA LoopHeadShape ==
    ASSUME job \in [Job -> JobRecord], Rows, NEW j \in Job, NEW rec \in JobRecord, NEW held,
           LoopHead(j, rec, held)
    PROVE  LET r == AtHead(rec, steps[j[1]]) IN
           /\ r \in JobRecord /\ job' = [job EXCEPT ![j] = r] /\ ~Holds(r)
           /\ lock' = IF Queued(r) THEN Append(held, j) ELSE held
           /\ rec.i > Len(steps[j[1]]) =>
                 steps' = [steps EXCEPT ![j[1]] = <<>>] /\ r.pc = "idle" /\ r.settled = "ok"
           /\ ~(rec.i > Len(steps[j[1]])) =>
                 /\ steps' = steps /\ r.pc \in {"lock", "sign"} /\ r.i = rec.i
                 /\ r.tx = steps[j[1]][rec.i] /\ r.dry = rec.dry /\ r.settled = rec.settled
  <1> DEFINE s == steps[j[1]]
             r == AtHead(rec, s)
  <1>1. j[1] \in Queue /\ s \in Seq(Tx) /\ rec.i \in Nat \ {0} /\ rec.dry \in BOOLEAN
    BY JobPairs, RecordParts DEF Rows
  <1>2. CASE rec.i > Len(s)
    <2>1. r = Resolved(rec)
      BY <1>2 DEF AtHead
    <2>2. r \in JobRecord /\ r.pc = "idle" /\ r.settled = "ok"
      BY <2>1, ResolvedLabel
    <2>3. /\ steps' = [steps EXCEPT ![j[1]] = <<>>] /\ lock' = held
          /\ job' = [job EXCEPT ![j] = Resolved(rec)]
      BY <1>2 DEF LoopHead, Resolved
    <2>4. ~Holds(r) /\ ~Queued(r)
      BY <2>2 DEF Holds, Queued, Work
    <2> HIDE DEF r
    <2> QED
      BY <1>2, <2>1, <2>2, <2>3, <2>4 DEF r
  <1>3. CASE ~(rec.i > Len(s))
    <2> DEFINE label == IF UsesLock(rec) THEN "lock" ELSE "sign"
    <2>1. r = Started(rec, label, s[rec.i])
      BY <1>3 DEF AtHead
    <2>2. Len(s) \in Nat /\ rec.i \in 1 .. Len(s) /\ s[rec.i] \in Tx /\ label \in Labels
      BY <1>1, <1>3, LenProperties, ElementOfSeq DEF Labels, Work
    <2>3. /\ r \in JobRecord /\ r.pc = label /\ r.settled = rec.settled /\ r.i = rec.i
          /\ r.tx = s[rec.i] /\ r.dry = rec.dry
      BY <2>1, <2>2, StartedLabel
    <2>4. /\ steps' = steps /\ job' = [job EXCEPT ![j] = Started(rec, label, s[rec.i])]
          /\ lock' = IF UsesLock(rec) THEN Append(held, j) ELSE held
      BY <1>3 DEF LoopHead, Started
    <2>5. ~Holds(r) /\ (Queued(r) <=> UsesLock(rec))
      BY <2>3 DEF Holds, Queued, UsesLock, Work
    <2> HIDE DEF r
    <2> QED
      BY <1>3, <2>1, <2>3, <2>4, <2>5 DEF r
  <1> QED
    BY <1>2, <1>3

(***************************************************************************)
(* The current run of a queue goes on or resolves: no other run of it is   *)
(* under way, so nobody else sees its steps go.                            *)
(***************************************************************************)
LEMMA LoopHeadStep ==
    ASSUME job \in [Job -> JobRecord], \A k \in Job : JobSound(k), Rows, Counters, NEW j \in Job,
           NEW rec \in JobRecord, NEW held, LoopHead(j, rec, held), rec.settled = "no",
           ~rec.dry => \A k \in 1 .. rec.i - 1 : status[steps[j[1]][k]] = "SUCCESS",
           runs' \in [Queue -> Nat], runs'[j[1]] = j[2], runs[j[1]] =< j[2],
           \A q \in Queue : q # j[1] => runs'[q] = runs[q], status' = status, plan' = plan
    PROVE  /\ JobsSound' /\ steps' \in [Queue -> Seq(Tx)]
           /\ \A q \in Queue : Len(steps'[q]) + Len(plan'[q]) =< Len(Plan[q])
  <1> DEFINE q == j[1]
             r == AtHead(rec, steps[q])
  <1>1. /\ r \in JobRecord /\ job' = [job EXCEPT ![j] = r]
        /\ rec.i > Len(steps[q]) =>
              steps' = [steps EXCEPT ![q] = <<>>] /\ r.pc = "idle" /\ r.settled = "ok"
        /\ ~(rec.i > Len(steps[q])) =>
              /\ steps' = steps /\ r.pc \in {"lock", "sign"} /\ r.i = rec.i
              /\ r.tx = steps[q][rec.i] /\ r.dry = rec.dry /\ r.settled = rec.settled
    BY LoopHeadShape
  <1> HIDE DEF r
  <1>2. /\ q \in Queue /\ steps \in [Queue -> Seq(Tx)] /\ plan \in [Queue -> Seq(Tx)]
        /\ Plan \in [Queue -> Seq(Tx)] /\ rec.i \in Nat \ {0} /\ runs \in [Queue -> Nat]
        /\ \A p \in Queue : Len(steps[p]) + Len(plan[p]) =< Len(Plan[p])
    BY JobPairs, RecordParts, QueueAssumption DEF Rows, Counters
  <1>3. \A p \in Queue : Len(steps[p]) \in Nat /\ Len(plan[p]) \in Nat /\ Len(Plan[p]) \in Nat
    BY <1>2, LenProperties
  <1>4. <<>> \in Seq(Tx) /\ Len(<<>>) = 0
    BY EmptySeq
  <1>5. /\ steps' \in [Queue -> Seq(Tx)]
        /\ \A p \in Queue : steps'[p] = steps[p] \/ (p = q /\ steps'[p] = <<>>)
    BY <1>1, <1>2, <1>4
  <1>6. \A p \in Queue : Len(steps'[p]) + Len(plan'[p]) =< Len(Plan[p])
    BY <1>2, <1>3, <1>4, <1>5
  <1>7. job' \in [Job -> JobRecord] /\ job'[j] = r /\ \A k \in Job : k # j => job'[k] = job[k]
    BY <1>1
  <1>8. JobSound(j)'
    <2>1. CASE rec.i > Len(steps[q])
      <3>1. r.pc = "idle" /\ r.settled = "ok"
        BY <1>1, <2>1
      <3> QED
        BY <1>2, <1>7, <3>1, JobPairs DEF JobSound, Running, NeverSends
    <2>2. CASE ~(rec.i > Len(steps[q]))
      <3>1. rec.i \in 1 .. Len(steps[q]) /\ rec.i \in 1 .. Len(Plan[q])
        BY <1>2, <1>3, <2>2
      <3>2. r.i \in Index
        BY <1>1, <1>2, <2>2, <3>1 DEF Index
      <3>3. RunningAt(r, steps'[q], status') /\ NeverSends(r)
        BY <1>1, <2>2, <3>1 DEF RunningAt, NeverSends
      <3> QED
        BY <1>2, <1>7, <3>2, <3>3, JobPairs DEF JobSound
    <2> QED
      BY <2>1, <2>2
  <1>9. ASSUME NEW k \in Job, k # j PROVE JobSound(k)'
    <2>1. k[1] \in Queue /\ k[2] \in Nat /\ (k[1] = q => k[2] # j[2])
      BY <1>9, JobPairs
    <2>2. k[2] > runs'[k[1]] => job'[k] = NoJob
      <3>1. runs[k[1]] =< runs'[k[1]] /\ runs[k[1]] \in Nat /\ runs'[k[1]] \in Nat
        <4>1. runs[k[1]] \in Nat /\ runs'[k[1]] \in Nat
          BY <1>2, <2>1
        <4>2. CASE k[1] = q
          BY <4>1, <4>2
        <4>3. CASE k[1] # q
          BY <2>1, <4>1, <4>3
        <4> QED
          BY <4>1, <4>2, <4>3
      <3>2. k[2] > runs'[k[1]] => k[2] > runs[k[1]]
        BY <2>1, <3>1
      <3> QED
        BY <1>7, <1>9, <3>2 DEF JobSound
    <2>3. Running(k)' => Running(k) /\ k[1] # q
      BY <1>7, <1>9, <2>1 DEF Running
    <2>4. Running(k)' => RunningAt(job'[k], steps'[k[1]], status')
      BY <1>5, <1>7, <1>9, <2>1, <2>3 DEF JobSound
    <2> QED
      BY <1>7, <1>9, <2>2, <2>4 DEF JobSound
  <1> QED
    BY <1>5, <1>6, <1>7, <1>8, <1>9 DEF JobsSound

-------------------------------------------------------------------------------
(***************************************************************************)
(* The steps                                                               *)
(***************************************************************************)

(***************************************************************************)
(* A job moves on without leaving or joining the lock, and nothing but its *)
(* record, the breaker and the wire changes.                               *)
(***************************************************************************)
LEMMA MoveStep ==
    ASSUME QueueInv, NEW j \in Job, NEW r \in JobRecord, job' = [job EXCEPT ![j] = r],
           UNCHANGED <<plan, steps, hashes, runs, lock, status, sequence>>,
           wire' \subseteq Tx, failures' \in [Queue -> Nat], open' \in [Queue -> BOOLEAN],
           job[j] # NoJob, r.i = job[j].i, r.tx = job[j].tx, r.dry = job[j].dry,
           r.settled = "no" => job[j].settled = "no", NeverSends(r),
           r.pc = "idle" <=> job[j].pc = "idle",
           Queued(r) <=> Queued(job[j]),
           Holds(r) => Holds(job[j]) \/ (lock # <<>> /\ Head(lock) = j),
           PastCheck(r) => PastCheck(job[j]) \/ \A q \in Queue : Beyond(q, r.tx)
    PROVE  QueueInv'
  <1>0. /\ LockSound(job, lock) /\ Rows /\ Counters /\ NetSound /\ JobsSound /\ HashesSound
        /\ job \in [Job -> JobRecord]
    BY DEF QueueInv, JobsSound
  <1>1. LockSound(job', lock')
    BY <1>0, LockStays
  <1>2. JobsSound'
    BY <1>0, SameStep
  <1>3. HashesSound'
    <2>1. Guarded /\ PastCheck(r) => \A q \in Queue : Beyond(q, r.tx)
      BY <1>0 DEF HashesSound, PastCheck
    <2> QED
      BY <1>0, <2>1, HashesKept
  <1>4. Rows' /\ Counters' /\ NetSound'
    BY <1>0 DEF Rows, Counters, NetSound
  <1> QED
    BY <1>1, <1>2, <1>3, <1>4 DEF QueueInv

(***************************************************************************)
(* A worker goes on with its work, or turns to its rollbacks.              *)
(***************************************************************************)
LEMMA WorkStep ==
    ASSUME QueueInv, NEW j \in Job, NEW r \in JobRecord, job' = [job EXCEPT ![j] = r],
           UNCHANGED <<plan, steps, hashes, runs, lock, status, sequence>>,
           wire' \subseteq Tx, failures' \in [Queue -> Nat], open' \in [Queue -> BOOLEAN],
           r.i = job[j].i, r.tx = job[j].tx, r.dry = job[j].dry, r.settled = job[j].settled,
           job[j].pc \in Work, r.pc \in Work \ {"check"}, NeverSends(r),
           r.pc = "rollback" \/ job[j].pc \notin {"check", "rollback"}
    PROVE  QueueInv'
  <1>1. job[j] # NoJob /\ r.pc # "idle" /\ job[j].pc # "idle"
    BY NoJobRecord DEF Work
  <1>2. (Queued(r) <=> Queued(job[j])) /\ (Holds(r) => Holds(job[j]))
    BY DEF Queued, Holds, UsesLock
  <1>3. PastCheck(r) => PastCheck(job[j])
    BY <1>2 DEF PastCheck
  <1> QED
    BY <1>1, <1>2, <1>3, MoveStep

(***************************************************************************)
(* BeginRollbacks.                                                         *)
(***************************************************************************)
LEMMA BeginRollbacksStep ==
    ASSUME QueueInv, NEW j \in Job, BeginRollbacks(j), job[j].pc \in Work,
           UNCHANGED <<plan, steps, hashes, runs, lock, status, sequence>>,
           wire' \subseteq Tx, failures' \in [Queue -> Nat], open' \in [Queue -> BOOLEAN]
    PROVE  QueueInv'
  <1> DEFINE n == Len(job[j].completed)
             r == ToRollback(job[j], "rollback", n)
  <1>1. job \in [Job -> JobRecord] /\ job[j] \in JobRecord
    BY DEF QueueInv, JobsSound
  <1>2. job' = [job EXCEPT ![j] = r]
    BY <1>1 DEF BeginRollbacks, ToRollback
  <1>3. n \in Nat /\ "rollback" \in Labels
    BY <1>1, RecordParts, LenProperties DEF Labels, Work
  <1>4. /\ r \in JobRecord /\ r.pc = "rollback" /\ r.settled = job[j].settled
        /\ r.i = job[j].i /\ r.tx = job[j].tx /\ r.dry = job[j].dry
    BY <1>1, <1>3, ToRollbackLabel
  <1> HIDE DEF r
  <1>5. NeverSends(r) /\ r.pc \in Work \ {"check"}
    BY <1>4 DEF NeverSends, Work
  <1> QED
    BY <1>2, <1>4, <1>5, WorkStep

(***************************************************************************)
(* Goto another label of the work.                                         *)
(***************************************************************************)
LEMMA GotoStep ==
    ASSUME QueueInv, NEW j \in Job, NEW label \in Work \ {"check"}, Goto(j, label),
           job[j].pc \in Work \ {"check", "rollback"},
           label \in {"send", "sent", "poll"} => ~job[j].dry,
           UNCHANGED <<plan, steps, hashes, runs, lock, status, sequence>>,
           wire' \subseteq Tx, failures' \in [Queue -> Nat], open' \in [Queue -> BOOLEAN]
    PROVE  QueueInv'
  <1> DEFINE r == To(job[j], label)
  <1>1. job \in [Job -> JobRecord] /\ job[j] \in JobRecord /\ label \in Labels
    BY DEF QueueInv, JobsSound, Labels
  <1>2. job' = [job EXCEPT ![j] = r]
    BY <1>1 DEF Goto, To
  <1>3. /\ r \in JobRecord /\ r.pc = label /\ r.settled = job[j].settled
        /\ r.i = job[j].i /\ r.tx = job[j].tx /\ r.dry = job[j].dry
    BY <1>1, ToLabel
  <1> HIDE DEF r
  <1>4. NeverSends(r)
    BY <1>3 DEF NeverSends
  <1> QED
    BY <1>2, <1>3, <1>4, WorkStep

(***************************************************************************)
(* Who is at work in the lock is its head.                                 *)
(***************************************************************************)
LEMMA WorkerAtHead ==
    ASSUME QueueInv, NEW j \in Job, job[j].pc # "lock"
    PROVE  Queued(job[j]) => lock # <<>> /\ Head(lock) = j
  BY DEF QueueInv, LockSound, Queued, Holds

(***************************************************************************)
(* A worker throws.                                                        *)
(***************************************************************************)
LEMMA ThrowStep ==
    ASSUME QueueInv, NEW j \in Job, Throw(j), job[j].pc # "idle",
           job[j].pc = "lock" => lock # <<>> /\ Head(lock) = j,
           UNCHANGED <<plan, hashes, failures, open, runs, wire, status, sequence>>
    PROVE  QueueInv'
  <1>0. /\ LockSound(job, lock) /\ Rows /\ Counters /\ NetSound /\ JobsSound /\ HashesSound
        /\ job \in [Job -> JobRecord] /\ job[j] \in JobRecord
    BY DEF QueueInv, JobsSound
  <1> DEFINE r == Thrown(job[j])
  <1>1. job' = [job EXCEPT ![j] = r] /\ lock' = Released(j) /\ steps' = steps
    BY <1>0 DEF Throw, Thrown
  <1>2. /\ r \in JobRecord /\ r.pc = "idle" /\ r.settled # "no"
        /\ r.i = job[j].i /\ r.tx = job[j].tx /\ r.dry = job[j].dry
    BY <1>0, ThrownLabel
  <1> HIDE DEF r
  <1>3. ~Queued(r) /\ ~PastCheck(r) /\ NeverSends(r) /\ job[j] # NoJob
    BY <1>2, NoJobRecord DEF Queued, PastCheck, Holds, Work, NeverSends
  <1>4. LockSound(job', lock')
    BY <1>0, <1>1, <1>3, WorkerAtHead, LockLeft
  <1>5. JobsSound'
    BY <1>0, <1>1, <1>2, <1>3, JobMoves
  <1>6. HashesSound'
    BY <1>0, <1>1, <1>2, <1>3, HashesKeptOn
  <1>7. Rows' /\ Counters' /\ NetSound'
    BY <1>0, <1>1 DEF Rows, Counters, NetSound
  <1> QED
    BY <1>4, <1>5, <1>6, <1>7 DEF QueueInv

(***************************************************************************)
(* The record of a run that goes on to its next step.                      *)
(***************************************************************************)
NextOf(r) == [StepDone(r) EXCEPT !.i = @ + 1]

LEMMA NextOfLabel ==
    ASSUME NEW r \in JobRecord, r.i \in Index
    PROVE  /\ NextOf(r) \in JobRecord /\ NextOf(r).pc = "idle"
           /\ NextOf(r).settled = r.settled
           /\ NextOf(r).i = r.i + 1 /\ NextOf(r).dry = r.dry
  <1>1. ASSUME NEW s \in JobRecord, NEW m \in Nat \ {0}
        PROVE  /\ [s EXCEPT !.i = m] \in JobRecord /\ [s EXCEPT !.i = m].i = m
               /\ [s EXCEPT !.i = m].pc = s.pc /\ [s EXCEPT !.i = m].dry = s.dry
               /\ [s EXCEPT !.i = m].settled = s.settled
    BY DEF JobRecord
  <1>2. StepDone(r).i + 1 \in Nat \ {0}
    BY StepDoneLabel, RecordParts
  <1>3. NextOf(r) = [StepDone(r) EXCEPT !.i = StepDone(r).i + 1]
    BY DEF NextOf
  <1> QED
    BY <1>1, <1>2, <1>3, StepDoneLabel

(***************************************************************************)
(* A worker returns: the run goes on, or was settled without it.           *)
(***************************************************************************)
LEMMA FinishStep ==
    ASSUME QueueInv, NEW j \in Job, Finish(j), job[j].pc \in {"simulate", "poll"},
           ~job[j].dry => status[job[j].tx] = "SUCCESS",
           UNCHANGED <<plan, runs, status>>
    PROVE  /\ LockSound(job', lock') /\ JobsSound' /\ steps' \in [Queue -> Seq(Tx)]
           /\ \A q \in Queue : Len(steps'[q]) + Len(plan'[q]) =< Len(Plan[q])
           /\ \E r \in JobRecord : job' = [job EXCEPT ![j] = r] /\ ~Holds(r)
  <1>0. /\ LockSound(job, lock) /\ Rows /\ Counters /\ JobsSound /\ JobSound(j)
        /\ job \in [Job -> JobRecord] /\ job[j] \in JobRecord /\ j[1] \in Queue
        /\ \A k \in Job : JobSound(k)
    BY JobPairs DEF QueueInv, JobsSound
  <1>1. /\ job[j] # NoJob /\ job[j].i \in Index
        /\ (Queued(job[j]) => lock # <<>> /\ Head(lock) = j)
    BY <1>0, NoJobRecord, WorkerAtHead DEF JobSound
  <1>2. CASE Running(j)
    <2> DEFINE rec == NextOf(job[j])
               r == AtHead(rec, steps[j[1]])
    <2>1. LoopHead(j, rec, Released(j))
      BY <1>2 DEF Finish, NextOf, StepDone
    <2>2. /\ rec \in JobRecord /\ rec.settled = "no" /\ rec.i = job[j].i + 1
          /\ rec.dry = job[j].dry
      BY <1>0, <1>1, <1>2, NextOfLabel DEF Running
    <2> HIDE DEF rec
    <2>3. ~rec.dry => \A k \in 1 .. rec.i - 1 : status[steps[j[1]][k]] = "SUCCESS"
      <3>1. RunningAt(job[j], steps[j[1]], status) /\ job[j].i \in Nat
        BY <1>0, <1>2, RecordParts DEF JobSound
      <3>2. 1 .. rec.i - 1 = (1 .. job[j].i - 1) \cup {job[j].i}
        BY <2>2, <3>1 DEF RunningAt
      <3> QED
        BY <2>2, <3>1, <3>2 DEF RunningAt
    <2>4. /\ r \in JobRecord /\ job' = [job EXCEPT ![j] = r] /\ ~Holds(r)
          /\ lock' = IF Queued(r) THEN Append(Released(j), j) ELSE Released(j)
      BY <1>0, <2>1, <2>2, LoopHeadShape
    <2> HIDE DEF r
    <2>5. LockSound(job', lock')
      BY <1>0, <1>1, <2>4, LockJoined, LockLeft
    <2>6. /\ runs' \in [Queue -> Nat] /\ runs'[j[1]] = j[2] /\ runs[j[1]] =< j[2]
          /\ \A q \in Queue : q # j[1] => runs'[q] = runs[q]
      BY <1>0, <1>2, JobPairs DEF Counters, Running
    <2>7. /\ JobsSound' /\ steps' \in [Queue -> Seq(Tx)]
          /\ \A q \in Queue : Len(steps'[q]) + Len(plan'[q]) =< Len(Plan[q])
      BY <1>0, <2>1, <2>2, <2>3, <2>6, LoopHeadStep
    <2> QED
      BY <2>4, <2>5, <2>7
  <1>3. CASE ~Running(j)
    <2> DEFINE r == StepDone(job[j])
    <2>1. job' = [job EXCEPT ![j] = r] /\ lock' = Released(j) /\ steps' = steps
      BY <1>3 DEF Finish, StepDone
    <2>2. /\ r \in JobRecord /\ r.pc = "idle" /\ r.settled = job[j].settled
      BY <1>0, <1>1, StepDoneLabel
    <2> HIDE DEF r
    <2>3. ~Queued(r) /\ ~Holds(r) /\ NeverSends(r)
      BY <2>2 DEF Queued, Holds, Work, NeverSends
    <2>4. LockSound(job', lock')
      BY <1>0, <1>1, <2>1, <2>3, LockLeft
    <2>5. JobsSound'
      BY <1>0, <1>1, <1>3, <2>1, <2>2, <2>3, JobMoves DEF Running
    <2> QED
      BY <1>0, <2>1, <2>2, <2>3, <2>4, <2>5 DEF Rows
  <1> QED
    BY <1>2, <1>3

(***************************************************************************)
(* The caller adds a step at the end: the steps before it stay.            *)
(***************************************************************************)
LEMMA EnqueueStep == ASSUME QueueInv, NEW q \in Queue, enqueue(q) PROVE QueueInv'
  <1>0. /\ LockSound(job, lock) /\ Rows /\ Counters /\ NetSound /\ JobsSound /\ HashesSound
    BY DEF QueueInv
  <1>1. /\ plan[q] # <<>> /\ plan' = [plan EXCEPT ![q] = Tail(@)]
        /\ steps' = [steps EXCEPT ![q] = Append(@, Head(plan[q]))]
        /\ UNCHANGED <<hashes, failures, open, runs, job, lock, wire, status, sequence>>
    BY DEF enqueue, netVars
  <1>2. plan \in [Queue -> Seq(Tx)] /\ steps \in [Queue -> Seq(Tx)] /\ Plan \in [Queue -> Seq(Tx)]
    BY <1>0, QueueAssumption DEF Rows
  <1>3. /\ Tail(plan[q]) \in Seq(Tx) /\ Head(plan[q]) \in Tx /\ Len(plan[q]) \in Nat
        /\ Len(Tail(plan[q])) = Len(plan[q]) - 1
    BY <1>1, <1>2, HeadTailProperties, LenProperties
  <1> DEFINE a == Append(steps[q], Head(plan[q]))
  <1>4. /\ a \in Seq(Tx) /\ Len(a) = Len(steps[q]) + 1 /\ Len(steps[q]) \in Nat
        /\ \A n \in 1 .. Len(steps[q]) : a[n] = steps[q][n]
    BY <1>2, <1>3, AppendProperties, LenProperties
  <1> HIDE DEF a
  <1>5. /\ plan' \in [Queue -> Seq(Tx)] /\ steps' \in [Queue -> Seq(Tx)]
        /\ plan'[q] = Tail(plan[q]) /\ steps'[q] = a
        /\ \A p \in Queue : p # q => plan'[p] = plan[p] /\ steps'[p] = steps[p]
    BY <1>1, <1>2, <1>3, <1>4 DEF a
  <1>6. Rows'
    <2>1. ASSUME NEW p \in Queue PROVE Len(steps'[p]) + Len(plan'[p]) =< Len(Plan[p])
      <3>1. Len(steps[p]) + Len(plan[p]) =< Len(Plan[p]) /\ Len(Plan[p]) \in Nat
        BY <1>0, <1>2, LenProperties DEF Rows
      <3>2. CASE p = q
        <4>1. Len(a) + Len(Tail(plan[q])) = Len(steps[q]) + Len(plan[q])
          <5>1. \A x, y \in Nat : (x + 1) + (y - 1) = x + y
            OBVIOUS
          <5>2. Len(a) + Len(Tail(plan[q])) = (Len(steps[q]) + 1) + (Len(plan[q]) - 1)
            BY <1>3, <1>4, Zenon
          <5> QED
            BY <1>3, <1>4, <5>1, <5>2, Zenon
        <4> QED
          BY <1>5, <3>1, <3>2, <4>1
      <3>3. CASE p # q
        BY <1>5, <3>1, <3>3
      <3> QED
        BY <3>2, <3>3
    <2> QED
      BY <1>0, <1>1, <1>5, <2>1 DEF Rows
  <1>7. JobsSound'
    <2>1. ASSUME NEW j \in Job, Running(j)
          PROVE  RunningAt(job[j], steps'[j[1]], status)
      <3>1. RunningAt(job[j], steps[j[1]], status) /\ job[j].i \in Nat
        BY <1>0, <2>1, RecordParts DEF JobsSound, JobSound
      <3>2. CASE j[1] = q
        <4>1. 1 .. Len(steps[q]) \subseteq 1 .. Len(a)
          BY <1>4
        <4>2. \A k \in 1 .. job[j].i - 1 : a[k] = steps[q][k]
          BY <1>4, <3>1, <3>2 DEF RunningAt
        <4>3. RunningAt(job[j], a, status)
          BY <1>4, <3>1, <3>2, <4>1, <4>2 DEF RunningAt
        <4> QED
          BY <1>5, <3>2, <4>3
      <3>3. CASE j[1] # q
        BY <1>5, <3>1, <3>3, JobPairs
      <3> QED
        BY <3>2, <3>3
    <2> QED
      BY <1>0, <1>1, <2>1 DEF JobsSound, JobSound, Running
  <1>8. Counters' /\ NetSound' /\ HashesSound'
    BY <1>0, <1>1 DEF Counters, NetSound, HashesSound, Beyond, Holds, UsesLock
  <1> QED
    BY <1>0, <1>1, <1>6, <1>7, <1>8 DEF QueueInv

(***************************************************************************)
(* A run begins: its list is empty, and no other run of its queue goes on. *)
(***************************************************************************)
LEMMA RunStep ==
    ASSUME QueueInv, NEW q \in Queue, NEW opts \in RunOptions[q], run(q, opts)
    PROVE  QueueInv'
  <1>0. /\ LockSound(job, lock) /\ Rows /\ Counters /\ NetSound /\ JobsSound /\ HashesSound
        /\ job \in [Job -> JobRecord] /\ \A k \in Job : JobSound(k)
    BY DEF QueueInv, JobsSound
  <1> DEFINE j == <<q, runs[q] + 1>>
             rec == [NoJob EXCEPT !.dry = opts.dry, !.skip = opts.skip, !.timed = opts.timed]
             r == AtHead(rec, steps[q])
  <1>1. /\ runs[q] < MaxRuns[q] /\ runs' = [runs EXCEPT ![q] = @ + 1]
        /\ hashes' = [hashes EXCEPT ![q] = <<>>] /\ LoopHead(j, rec, lock)
        /\ UNCHANGED <<plan, failures, open, wire, status, sequence>>
    BY DEF run, netVars
  <1>2. runs \in [Queue -> Nat] /\ runs[q] \in Nat /\ MaxRuns[q] \in Nat
    BY <1>0, QueueAssumption DEF Counters
  <1>3. j \in Job /\ j[1] = q /\ j[2] = runs[q] + 1
    BY <1>1, <1>2, JobPairs
  <1>4. /\ runs' \in [Queue -> Nat] /\ runs'[q] = runs[q] + 1 /\ runs'[q] =< MaxRuns[q]
        /\ \A p \in Queue : p # q => runs'[p] = runs[p]
    BY <1>1, <1>2
  <1>5. Counters'
    BY <1>0, <1>1, <1>4 DEF Counters
  <1>6. opts.dry \in BOOLEAN /\ opts.skip \in BOOLEAN /\ opts.timed \in BOOLEAN
    BY QueueAssumption
  <1>7. rec \in JobRecord /\ rec.settled = "no" /\ rec.i = 1
    <2>1. ASSUME NEW s \in JobRecord, NEW d \in BOOLEAN, NEW e \in BOOLEAN, NEW f \in BOOLEAN
          PROVE  /\ [s EXCEPT !.dry = d, !.skip = e, !.timed = f] \in JobRecord
                 /\ [s EXCEPT !.dry = d, !.skip = e, !.timed = f].settled = s.settled
                 /\ [s EXCEPT !.dry = d, !.skip = e, !.timed = f].i = s.i
      BY DEF JobRecord
    <2> QED
      BY <1>6, <2>1, NoJobRecord
  <1>8. job[j] = NoJob /\ ~Queued(job[j])
    <2>1. j[2] > runs[j[1]]
      BY <1>2, <1>3
    <2>2. job[j] = NoJob
      BY <1>0, <1>3, <2>1 DEF JobSound
    <2> QED
      BY <2>2, NoJobRecord DEF Queued, Work
  <1> HIDE DEF j, rec
  <1>9. Released(j) = lock
    <2>1. lock # <<>> => Head(lock) = lock[1] /\ 1 \in 1 .. Len(lock)
      BY <1>0, EmptySeq, LenProperties, HeadTailProperties DEF LockSound
    <2>2. lock # <<>> /\ Head(lock) = j => Within(lock, j)
      BY <2>1 DEF Within
    <2> QED
      BY <1>0, <1>3, <1>8, <2>2 DEF LockSound, Released
  <1>10. /\ r \in JobRecord /\ job' = [job EXCEPT ![j] = r] /\ ~Holds(r)
         /\ lock' = IF Queued(r) THEN Append(lock, j) ELSE lock
    BY <1>0, <1>1, <1>3, <1>7, LoopHeadShape
  <1> HIDE DEF r
  <1>11. LockSound(job', lock')
    BY <1>0, <1>3, <1>8, <1>9, <1>10, LockJoined, LockLeft
  <1>12. /\ JobsSound' /\ steps' \in [Queue -> Seq(Tx)]
         /\ \A p \in Queue : Len(steps'[p]) + Len(plan'[p]) =< Len(Plan[p])
    <2>1. 1 .. rec.i - 1 = {}
      BY <1>7
    <2>2. /\ runs'[j[1]] = j[2] /\ runs[j[1]] =< j[2]
          /\ \A p \in Queue : p # j[1] => runs'[p] = runs[p]
      BY <1>2, <1>3, <1>4
    <2> QED
      BY <1>0, <1>1, <1>3, <1>4, <1>7, <2>1, <2>2, LoopHeadStep
  <1>13. /\ hashes' \in [Queue -> Seq(Tx)] /\ Len(hashes'[q]) = 0
         /\ \A p \in Queue : p # q => hashes'[p] = hashes[p]
    BY <1>0, <1>1, EmptySeq DEF Rows
  <1>14. HashesSound'
    <2>1. ASSUME NEW p \in Queue
          PROVE  1 .. Len(hashes'[p]) = {} \/ hashes'[p] = hashes[p]
      <3>1. 1 .. 0 = {}
        OBVIOUS
      <3> QED
        BY <1>13, <3>1
    <2>2. ASSUME NEW k \in Job, Holds(job'[k]) PROVE job'[k] = job[k]
      BY <1>0, <1>3, <1>10, <2>2
    <2>3. \A p \in Queue : \A k \in 1 .. Len(hashes'[p]) : status'[hashes'[p][k]] = "SUCCESS"
      BY <1>0, <1>1, <2>1 DEF HashesSound
    <2>4. ASSUME Guarded, NEW p \in Queue
          PROVE  \A k, l \in 1 .. Len(hashes'[p]) :
                    k < l => SeqNum[hashes'[p][k]] < SeqNum[hashes'[p][l]]
      BY <1>0, <2>1, <2>4 DEF HashesSound
    <2>5. ASSUME Guarded, NEW k \in Job, Holds(job'[k]), job'[k].pc # "check",
                 job'[k].pc # "rollback", NEW p \in Queue
          PROVE  \A n \in 1 .. Len(hashes'[p]) : SeqNum[hashes'[p][n]] < SeqNum[job'[k].tx]
      BY <1>0, <2>1, <2>2, <2>5 DEF HashesSound, Beyond
    <2> QED
      BY <2>3, <2>4, <2>5 DEF HashesSound, Beyond, Holds, UsesLock
  <1>15. Rows' /\ NetSound'
    BY <1>0, <1>1, <1>12, <1>13 DEF Rows, NetSound
  <1> QED
    BY <1>5, <1>11, <1>12, <1>14, <1>15 DEF QueueInv

(***************************************************************************)
(* One rollback, or the last of them.                                      *)
(***************************************************************************)
LEMMA RollbackStep == ASSUME QueueInv, NEW j \in Job, runRollbacks(j) PROVE QueueInv'
  <1>0. /\ job \in [Job -> JobRecord] /\ job[j] \in JobRecord /\ JobSound(j)
        /\ Counters /\ NetSound
    BY DEF QueueInv, JobsSound
  <1>1. /\ job[j].pc \in {"rollback", "refused"}
        /\ UNCHANGED <<plan, hashes, failures, open, runs, wire, status, sequence>>
    BY DEF runRollbacks, netVars
  <1>2. CASE Throw(j)
    BY <1>1, <1>2, ThrowStep
  <1>3. CASE ~Throw(j)
    <2> DEFINE n == job[j].left
               r == ToRollback(job[j], job[j].pc, n - 1)
    <2>1. n > 0 /\ job' = [job EXCEPT ![j].left = n - 1] /\ UNCHANGED <<steps, lock>>
      BY <1>3 DEF runRollbacks
    <2>2. n - 1 \in Nat /\ job[j].pc \in Labels
      BY <1>0, <2>1, RecordParts
    <2>3. /\ r \in JobRecord /\ r.pc = job[j].pc /\ r.settled = job[j].settled
          /\ r.i = job[j].i /\ r.tx = job[j].tx /\ r.dry = job[j].dry
      BY <1>0, <2>2, ToRollbackLabel
    <2>4. job' = [job EXCEPT ![j] = r]
      <3>1. ASSUME NEW s \in JobRecord, NEW m \in Nat
            PROVE  [s EXCEPT !.left = m] = [s EXCEPT !.pc = s.pc, !.left = m]
        BY DEF JobRecord
      <3>2. [job[j] EXCEPT !.left = n - 1] = r
        BY <1>0, <2>2, <3>1 DEF ToRollback
      <3> QED
        BY <2>1, <3>2
    <2> HIDE DEF r
    <2>5. NeverSends(r) /\ job[j] # NoJob
      BY <1>0, <1>1, <2>3, NoJobRecord DEF JobSound, NeverSends
    <2>6. (Queued(r) <=> Queued(job[j])) /\ (Holds(r) <=> Holds(job[j])) /\ ~PastCheck(r)
      BY <1>1, <2>3 DEF Queued, Holds, UsesLock, PastCheck, Work
    <2>7. wire' \subseteq Tx /\ failures' \in [Queue -> Nat] /\ open' \in [Queue -> BOOLEAN]
      BY <1>0, <1>1 DEF Counters, NetSound
    <2> QED
      BY <1>1, <2>1, <2>3, <2>4, <2>5, <2>6, <2>7, MoveStep
  <1> QED
    BY <1>2, <1>3

(***************************************************************************)
(* The lock is granted to its head.                                        *)
(***************************************************************************)
LEMMA AcquireStep == ASSUME QueueInv, NEW j \in Job, AcquireLock(j) PROVE QueueInv'
  <1>0. /\ job \in [Job -> JobRecord] /\ job[j] \in JobRecord /\ JobSound(j)
        /\ Counters /\ NetSound /\ LockSound(job, lock)
    BY DEF QueueInv, JobsSound
  <1>1. /\ job[j].pc = "lock" /\ lock # <<>> /\ Head(lock) = j
        /\ Throw(j) \/ (Goto(j, "check") /\ UNCHANGED <<steps, lock>>)
        /\ UNCHANGED <<plan, hashes, failures, open, runs, wire, status, sequence>>
    BY DEF AcquireLock, netVars
  <1>2. CASE Throw(j)
    BY <1>1, <1>2, ThrowStep
  <1>3. CASE Goto(j, "check") /\ UNCHANGED <<steps, lock>>
    <2> DEFINE r == To(job[j], "check")
    <2>1. job' = [job EXCEPT ![j] = r] /\ "check" \in Labels
      BY <1>0, <1>3 DEF Goto, To, Labels, Work
    <2>2. /\ r \in JobRecord /\ r.pc = "check" /\ r.settled = job[j].settled
          /\ r.i = job[j].i /\ r.tx = job[j].tx /\ r.dry = job[j].dry
      BY <1>0, <2>1, ToLabel
    <2> HIDE DEF r
    <2>3. NeverSends(r) /\ job[j] # NoJob /\ ~PastCheck(r) /\ (Queued(r) <=> Queued(job[j]))
      BY <1>1, <2>2, NoJobRecord DEF NeverSends, PastCheck, Queued, UsesLock, Work
    <2>4. wire' \subseteq Tx /\ failures' \in [Queue -> Nat] /\ open' \in [Queue -> BOOLEAN]
      BY <1>0, <1>1 DEF Counters, NetSound
    <2> QED
      BY <1>1, <1>3, <2>1, <2>2, <2>3, <2>4, MoveStep
  <1> QED
    BY <1>1, <1>2, <1>3

(***************************************************************************)
(* The sequence check: a transaction that is next on the account is beyond *)
(* all that succeeded; a stale one gives the lock back.                    *)
(***************************************************************************)
LEMMA CheckStep ==
    ASSUME QueueInv, NEW j \in Job, NEW fetched \in BOOLEAN, CheckSequence(j, fetched)
    PROVE  QueueInv'
  <1>0. /\ LockSound(job, lock) /\ Rows /\ Counters /\ NetSound /\ JobsSound /\ HashesSound
        /\ job \in [Job -> JobRecord] /\ job[j] \in JobRecord /\ JobSound(j)
    BY DEF QueueInv, JobsSound
  <1>1. /\ job[j].pc = "check"
        /\ \/ Throw(j)
           \/ SeqNum[job[j].tx] = sequence + 1 /\ Goto(j, "sign") /\ UNCHANGED <<steps, lock>>
           \/ /\ job' = [job EXCEPT ![j].pc = "refused", ![j].left = Len(job[j].completed)]
              /\ lock' = Released(j) /\ UNCHANGED steps
        /\ UNCHANGED <<plan, hashes, failures, open, runs, wire, status, sequence>>
    BY DEF CheckSequence, netVars
  <1>2. job[j] # NoJob
    BY <1>1, NoJobRecord
  <1>3. wire' \subseteq Tx /\ failures' \in [Queue -> Nat] /\ open' \in [Queue -> BOOLEAN]
    BY <1>0, <1>1 DEF Counters, NetSound
  <1>4. CASE Throw(j)
    BY <1>1, <1>4, ThrowStep
  <1>5. CASE SeqNum[job[j].tx] = sequence + 1 /\ Goto(j, "sign") /\ UNCHANGED <<steps, lock>>
    <2> DEFINE r == To(job[j], "sign")
    <2>1. job' = [job EXCEPT ![j] = r] /\ "sign" \in Labels
      BY <1>0, <1>5 DEF Goto, To, Labels, Work
    <2>2. /\ r \in JobRecord /\ r.pc = "sign" /\ r.settled = job[j].settled
          /\ r.i = job[j].i /\ r.tx = job[j].tx /\ r.dry = job[j].dry
      BY <1>0, <2>1, ToLabel
    <2> HIDE DEF r
    <2>3. NeverSends(r) /\ (Queued(r) <=> Queued(job[j])) /\ (Holds(r) <=> Holds(job[j]))
      BY <1>1, <2>2 DEF NeverSends, Holds, Queued, UsesLock, Work
    <2>4. ASSUME NEW q \in Queue PROVE Beyond(q, r.tx)
      <3>1. ASSUME NEW k \in 1 .. Len(hashes[q]) PROVE SeqNum[hashes[q][k]] < SeqNum[r.tx]
        <4>1. hashes[q] \in Seq(Tx)
          BY <1>0 DEF Rows
        <4>2. hashes[q][k] \in Tx /\ status[hashes[q][k]] = "SUCCESS"
          BY <1>0, <4>1, ElementOfSeq DEF HashesSound
        <4>3. SeqNum[hashes[q][k]] =< sequence /\ SeqNum[hashes[q][k]] \in Nat /\ sequence \in Nat
          BY <1>0, <4>2, QueueAssumption DEF NetSound
        <4> QED
          BY <1>5, <2>2, <4>3
      <3> QED
        BY <3>1 DEF Beyond
    <2> QED
      BY <1>1, <1>2, <1>3, <1>5, <2>1, <2>2, <2>3, <2>4, MoveStep
  <1>6. CASE /\ job' = [job EXCEPT ![j].pc = "refused", ![j].left = Len(job[j].completed)]
             /\ lock' = Released(j) /\ UNCHANGED steps
    <2> DEFINE r == ToRollback(job[j], "refused", Len(job[j].completed))
    <2>1. job' = [job EXCEPT ![j] = r] /\ "refused" \in Labels /\ Len(job[j].completed) \in Nat
      BY <1>0, <1>6, RecordParts, LenProperties DEF ToRollback, Labels
    <2>2. /\ r \in JobRecord /\ r.pc = "refused" /\ r.settled = job[j].settled
          /\ r.i = job[j].i /\ r.tx = job[j].tx /\ r.dry = job[j].dry
      BY <1>0, <2>1, ToRollbackLabel
    <2> HIDE DEF r
    <2>3. NeverSends(r) /\ ~Queued(r) /\ ~PastCheck(r)
      BY <2>2 DEF NeverSends, Queued, PastCheck, Holds, Work
    <2>4. LockSound(job', lock')
      BY <1>0, <1>1, <1>6, <2>1, <2>3, WorkerAtHead, LockLeft
    <2>5. JobsSound'
      BY <1>0, <1>1, <1>2, <1>6, <2>1, <2>2, <2>3, SameStep
    <2>6. HashesSound'
      BY <1>0, <1>1, <2>1, <2>2, <2>3, HashesKeptOn
    <2>7. Rows' /\ Counters' /\ NetSound'
      BY <1>0, <1>1, <1>6 DEF Rows, Counters, NetSound
    <2> QED
      BY <2>4, <2>5, <2>6, <2>7 DEF QueueInv
  <1> QED
    BY <1>1, <1>4, <1>5, <1>6

(***************************************************************************)
(* The wallet's answer.                                                    *)
(***************************************************************************)
LEMMA SignStep == ASSUME QueueInv, NEW j \in Job, NEW ok \in BOOLEAN, Sign(j, ok) PROVE QueueInv'
  <1>0. Counters /\ NetSound
    BY DEF QueueInv
  <1>1. /\ job[j].pc = "sign"
        /\ \/ BeginRollbacks(j)
           \/ Goto(j, IF job[j].skip /\ ~job[j].dry THEN "send" ELSE "simulate")
        /\ UNCHANGED <<plan, steps, hashes, failures, open, runs, lock, wire, status, sequence>>
    BY DEF Sign, queueVars, netVars
  <1>2. /\ wire' \subseteq Tx /\ failures' \in [Queue -> Nat] /\ open' \in [Queue -> BOOLEAN]
        /\ job[j].pc \in Work \ {"check", "rollback"}
    BY <1>0, <1>1 DEF Counters, NetSound, Work
  <1>3. CASE BeginRollbacks(j)
    BY <1>1, <1>2, <1>3, BeginRollbacksStep
  <1>4. CASE Goto(j, IF job[j].skip /\ ~job[j].dry THEN "send" ELSE "simulate")
    <2>1. CASE job[j].skip /\ ~job[j].dry
      BY <1>1, <1>2, <1>4, <2>1, GotoStep DEF Work
    <2>2. CASE ~(job[j].skip /\ ~job[j].dry)
      BY <1>1, <1>2, <1>4, <2>2, GotoStep DEF Work
    <2> QED
      BY <2>1, <2>2
  <1> QED
    BY <1>1, <1>3, <1>4

(***************************************************************************)
(* The simulation, the end of a dry run's step.                            *)
(***************************************************************************)
LEMMA SimulateStep == ASSUME QueueInv, NEW j \in Job, NEW ok \in BOOLEAN, Simulate(j, ok) PROVE QueueInv'
  <1>0. /\ LockSound(job, lock) /\ Rows /\ Counters /\ NetSound /\ JobsSound /\ HashesSound
        /\ job \in [Job -> JobRecord]
    BY DEF QueueInv, JobsSound
  <1>1. /\ job[j].pc = "simulate"
        /\ \/ BeginRollbacks(j) /\ UNCHANGED <<steps, lock>>
           \/ job[j].dry /\ Finish(j)
           \/ ~job[j].dry /\ Goto(j, "send") /\ UNCHANGED <<steps, lock>>
        /\ UNCHANGED <<plan, hashes, failures, open, runs, wire, status, sequence>>
    BY DEF Simulate, netVars
  <1>2. /\ wire' \subseteq Tx /\ failures' \in [Queue -> Nat] /\ open' \in [Queue -> BOOLEAN]
        /\ job[j].pc \in Work \ {"check", "rollback"}
    BY <1>0, <1>1 DEF Counters, NetSound, Work
  <1>3. CASE BeginRollbacks(j) /\ UNCHANGED <<steps, lock>>
    BY <1>1, <1>2, <1>3, BeginRollbacksStep
  <1>4. CASE ~job[j].dry /\ Goto(j, "send") /\ UNCHANGED <<steps, lock>>
    BY <1>1, <1>2, <1>4, GotoStep DEF Work
  <1>5. CASE job[j].dry /\ Finish(j)
    <2>1. /\ LockSound(job', lock') /\ JobsSound' /\ steps' \in [Queue -> Seq(Tx)]
          /\ \A q \in Queue : Len(steps'[q]) + Len(plan'[q]) =< Len(Plan[q])
          /\ \E r \in JobRecord : job' = [job EXCEPT ![j] = r] /\ ~Holds(r)
      BY <1>1, <1>5, FinishStep
    <2>2. HashesSound'
      <3>1. PICK r : job' = [job EXCEPT ![j] = r] /\ ~Holds(r)
        BY <2>1
      <3> QED
        BY <1>0, <1>1, <3>1, HashesKept DEF PastCheck
    <2>3. Rows' /\ Counters' /\ NetSound'
      BY <1>0, <1>1, <2>1 DEF Rows, Counters, NetSound
    <2> QED
      BY <2>1, <2>2, <2>3 DEF QueueInv
  <1> QED
    BY <1>1, <1>3, <1>4, <1>5

(***************************************************************************)
(* The send and its answers.                                               *)
(***************************************************************************)
LEMMA SendStep ==
    ASSUME QueueInv, NEW j \in Job, SendCall(j) \/ SendReply(j)
    PROVE  QueueInv'
  <1>0. /\ Counters /\ NetSound /\ JobSound(j) /\ job[j] \in JobRecord /\ j[1] \in Queue
        /\ job \in [Job -> JobRecord] /\ job[j].tx \in Tx
    BY JobPairs, RecordParts DEF QueueInv, JobsSound
  <1>1. job[j].pc \in {"send", "sent"}
    BY DEF SendCall, SendReply, SendAccepted, SendRejected, SendFails
  <1>2. ~job[j].dry /\ job[j].pc \in Work \ {"check", "rollback"}
    BY <1>0, <1>1 DEF JobSound, NeverSends, Work
  <1>3. CASE SendCall(j)
    <2>1. /\ (BeginRollbacks(j) /\ wire' = wire) \/ (Goto(j, "sent") /\ wire' = wire \cup {job[j].tx})
          /\ UNCHANGED <<plan, steps, hashes, failures, open, runs, lock, status, sequence>>
      BY <1>3 DEF SendCall, queueVars
    <2>2. wire' \subseteq Tx /\ failures' \in [Queue -> Nat] /\ open' \in [Queue -> BOOLEAN]
      BY <1>0, <2>1 DEF Counters, NetSound
    <2> QED
      BY <1>2, <2>1, <2>2, BeginRollbacksStep, GotoStep DEF Work
  <1>4. CASE SendAccepted(j)
    <2>1. /\ failures' = [failures EXCEPT ![j[1]] = 0] /\ open' = [open EXCEPT ![j[1]] = FALSE]
          /\ Goto(j, "poll")
          /\ UNCHANGED <<plan, steps, hashes, runs, lock, wire, status, sequence>>
      BY <1>4 DEF SendAccepted, netVars
    <2>2. wire' \subseteq Tx /\ failures' \in [Queue -> Nat] /\ open' \in [Queue -> BOOLEAN]
      BY <1>0, <2>1 DEF Counters, NetSound
    <2> QED
      BY <1>2, <2>1, <2>2, GotoStep DEF Work
  <1>5. CASE SendRejected(j)
    <2>1. /\ BeginRollbacks(j)
          /\ UNCHANGED <<plan, steps, hashes, failures, open, runs, lock, wire, status, sequence>>
      BY <1>5 DEF SendRejected, queueVars, netVars
    <2>2. wire' \subseteq Tx /\ failures' \in [Queue -> Nat] /\ open' \in [Queue -> BOOLEAN]
      BY <1>0, <2>1 DEF Counters, NetSound
    <2> QED
      BY <1>2, <2>1, <2>2, BeginRollbacksStep
  <1>6. CASE SendFails(j)
    <2>1. /\ failures' = [failures EXCEPT ![j[1]] = failures[j[1]] + 1]
          /\ open' = [open EXCEPT ![j[1]] = @ \/ failures[j[1]] + 1 >= Threshold]
          /\ \/ BeginRollbacks(j)
             \/ /\ job[j].attempt + 1 # MaxAttempts
                /\ job' = [job EXCEPT ![j].pc = "send", ![j].attempt = @ + 1]
          /\ UNCHANGED <<plan, steps, hashes, runs, lock, wire, status, sequence>>
      BY <1>6 DEF SendFails, netVars
    <2>2. wire' \subseteq Tx /\ failures' \in [Queue -> Nat]
      BY <1>0, <2>1 DEF Counters, NetSound
    <2>3. open' \in [Queue -> BOOLEAN]
      <3>1. ASSUME NEW b \in BOOLEAN PROVE [open EXCEPT ![j[1]] = b] \in [Queue -> BOOLEAN]
        BY <1>0 DEF Counters
      <3>2. (open[j[1]] \/ failures[j[1]] + 1 >= Threshold) \in BOOLEAN
        OBVIOUS
      <3> QED
        BY <2>1, <3>1, <3>2
    <2>4. CASE BeginRollbacks(j)
      BY <1>2, <2>1, <2>2, <2>3, <2>4, BeginRollbacksStep
    <2>5. CASE /\ job[j].attempt + 1 # MaxAttempts
               /\ job' = [job EXCEPT ![j].pc = "send", ![j].attempt = @ + 1]
      <3> DEFINE n == job[j].attempt + 1
                 r == [job[j] EXCEPT !.pc = "send", !.attempt = n]
      <3>1. n \in 0 .. (MaxAttempts - 1)
        BY <1>0, <2>5, RecordParts, QueueAssumption
      <3>2. job' = [job EXCEPT ![j] = r]
        BY <2>5
      <3> HIDE DEF n
      <3>3. /\ r \in JobRecord /\ r.pc = "send" /\ r.settled = job[j].settled
            /\ r.i = job[j].i /\ r.tx = job[j].tx /\ r.dry = job[j].dry
        BY <1>0, <3>1 DEF JobRecord, Labels, Work
      <3> HIDE DEF r
      <3>4. NeverSends(r) /\ r.pc \in Work \ {"check"}
        BY <1>2, <3>3 DEF NeverSends, Work
      <3> QED
        BY <1>2, <2>1, <2>2, <2>3, <3>2, <3>3, <3>4, WorkStep
    <2> QED
      BY <2>1, <2>4, <2>5
  <1> QED
    BY <1>3, <1>4, <1>5, <1>6 DEF SendReply

(***************************************************************************)
(* One poll: the step is confirmed, is asked for again, or is given up.    *)
(***************************************************************************)
LEMMA PollStep ==
    ASSUME QueueInv, NEW j \in Job, NEW answered \in BOOLEAN, pollConfirmation(j, answered)
    PROVE  QueueInv'
  <1>0. /\ LockSound(job, lock) /\ Rows /\ Counters /\ NetSound /\ JobsSound /\ HashesSound
        /\ job \in [Job -> JobRecord] /\ job[j] \in JobRecord /\ NeverSends(job[j])
    BY DEF QueueInv, JobsSound, JobSound
  <1>1. /\ job[j].pc = "poll"
        /\ \/ /\ status[job[j].tx] = "SUCCESS" /\ Finish(j)
              /\ hashes' = [hashes EXCEPT ![j[1]] = Append(@, job[j].tx)]
           \/ /\ \/ job[j].polls + 1 < MaxPolls /\ job' = [job EXCEPT ![j].polls = @ + 1]
                 \/ BeginRollbacks(j)
              /\ UNCHANGED <<steps, hashes, lock>>
        /\ UNCHANGED <<plan, failures, open, runs, wire, status, sequence>>
    BY DEF pollConfirmation, netVars
  <1>2. /\ wire' \subseteq Tx /\ failures' \in [Queue -> Nat] /\ open' \in [Queue -> BOOLEAN]
        /\ job[j].pc \in Work \ {"check", "rollback"}
    BY <1>0, <1>1 DEF Counters, NetSound, Work
  <1>3. CASE /\ status[job[j].tx] = "SUCCESS" /\ Finish(j)
             /\ hashes' = [hashes EXCEPT ![j[1]] = Append(@, job[j].tx)]
    <2>1. /\ LockSound(job', lock') /\ JobsSound' /\ steps' \in [Queue -> Seq(Tx)]
          /\ \A q \in Queue : Len(steps'[q]) + Len(plan'[q]) =< Len(Plan[q])
          /\ \E r \in JobRecord : job' = [job EXCEPT ![j] = r] /\ ~Holds(r)
      BY <1>1, <1>3, FinishStep
    <2>2. HashesSound' /\ hashes' \in [Queue -> Seq(Tx)]
      <3>1. PICK r : job' = [job EXCEPT ![j] = r] /\ ~Holds(r)
        BY <2>1
      <3> QED
        BY <1>0, <1>1, <1>3, <3>1, HashAdded
    <2>3. Rows' /\ Counters' /\ NetSound'
      BY <1>0, <1>1, <2>1, <2>2 DEF Rows, Counters, NetSound
    <2> QED
      BY <2>1, <2>2, <2>3 DEF QueueInv
  <1>4. CASE BeginRollbacks(j) /\ UNCHANGED <<steps, hashes, lock>>
    BY <1>1, <1>2, <1>4, BeginRollbacksStep
  <1>5. CASE /\ job[j].polls + 1 < MaxPolls /\ job' = [job EXCEPT ![j].polls = @ + 1]
             /\ UNCHANGED <<steps, hashes, lock>>
    <2> DEFINE n == job[j].polls + 1
               r == [job[j] EXCEPT !.polls = n]
    <2>1. n \in 0 .. (MaxPolls - 1)
      BY <1>0, <1>5, RecordParts, QueueAssumption
    <2>2. job' = [job EXCEPT ![j] = r]
      BY <1>5
    <2> HIDE DEF n
    <2>3. /\ r \in JobRecord /\ r.pc = job[j].pc /\ r.settled = job[j].settled
          /\ r.i = job[j].i /\ r.tx = job[j].tx /\ r.dry = job[j].dry
      BY <1>0, <2>1 DEF JobRecord
    <2> HIDE DEF r
    <2>4. NeverSends(r) /\ r.pc \in Work \ {"check"}
      BY <1>0, <1>2, <2>3 DEF NeverSends
    <2> QED
      BY <1>1, <1>2, <1>5, <2>2, <2>3, <2>4, WorkStep
  <1> QED
    BY <1>1, <1>3, <1>4, <1>5

(***************************************************************************)
(* A deadline's handler settles the run at most: the worker stays where it *)
(* is, the lock included.                                                  *)
(***************************************************************************)
LEMMA HandlerStep ==
    ASSUME QueueInv, NEW j \in Job, NEW k \in Index, NEW n \in Nat, HandlerAt(j, k, n),
           job[j] # NoJob, UNCHANGED <<queueVars, lock, netVars>>
    PROVE  QueueInv'
  <1>0. /\ Counters /\ NetSound /\ JobSound(j) /\ job \in [Job -> JobRecord] /\ job[j] \in JobRecord
    BY DEF QueueInv, JobsSound
  <1> DEFINE out == IF n = Rejected /\ Running(j) /\ job[j].i = k /\ job[j].pc # "refused"
                    THEN "error" ELSE job[j].settled
             r == Handled(job[j], k, n, out)
  <1>1. job' = [job EXCEPT ![j] = r]
    BY <1>0 DEF HandlerAt, Handled
  <1>2. out \in {"no", "ok", "error"} /\ (out = "no" => job[j].settled = "no")
    BY <1>0, RecordParts
  <1> HIDE DEF out
  <1>3. /\ r \in JobRecord /\ r.pc = job[j].pc /\ r.settled = out
        /\ r.i = job[j].i /\ r.tx = job[j].tx /\ r.dry = job[j].dry
    BY <1>0, <1>2, HandledLabel
  <1> HIDE DEF r
  <1>4. /\ NeverSends(r) /\ (Queued(r) <=> Queued(job[j])) /\ (Holds(r) <=> Holds(job[j]))
        /\ (PastCheck(r) <=> PastCheck(job[j]))
    BY <1>0, <1>3 DEF JobSound, NeverSends, Queued, Holds, PastCheck, UsesLock
  <1>5. /\ UNCHANGED <<plan, steps, hashes, runs, lock, status, sequence>>
        /\ wire' \subseteq Tx /\ failures' \in [Queue -> Nat] /\ open' \in [Queue -> BOOLEAN]
    BY <1>0 DEF queueVars, netVars, Counters, NetSound
  <1> QED
    BY <1>1, <1>2, <1>3, <1>4, <1>5, MoveStep

(***************************************************************************)
(* The deadline fires, and its handler goes on.                            *)
(***************************************************************************)
LEMMA TimeoutStep ==
    ASSUME QueueInv, NEW j \in Job, Expire(j) \/ TimeoutRollback(j)
    PROVE  QueueInv'
  <1>0. JobSound(j) /\ job[j] \in JobRecord
    BY DEF QueueInv, JobsSound
  <1>1. CASE Expire(j)
    <2>1. /\ job[j].pc # "idle" /\ HandlerAt(j, job[j].i, Len(job[j].completed))
          /\ UNCHANGED <<queueVars, lock, netVars>>
      BY <1>1 DEF Expire
    <2>2. job[j].i \in Index /\ Len(job[j].completed) \in Nat /\ job[j] # NoJob
      BY <1>0, <2>1, NoJobRecord, RecordParts, LenProperties DEF JobSound
    <2> QED
      BY <2>1, <2>2, HandlerStep
  <1>2. CASE TimeoutRollback(j)
    <2>1. PICK k \in Index :
            /\ job[j].expiry[k] > 0
            /\ HandlerAt(j, k, IF HasStep(j[1], job[j].completed[job[j].expiry[k]])
                               THEN job[j].expiry[k] - 1 ELSE Rejected)
      BY <1>2 DEF TimeoutRollback
    <2>2. UNCHANGED <<queueVars, lock, netVars>>
      BY <1>2 DEF TimeoutRollback
    <2>3. job[j] # NoJob
      BY <2>1, NoJobRecord
    <2>4. job[j].expiry[k] - 1 \in Nat /\ Rejected \in Nat
      <3>1. job[j].expiry[k] \in Nat \cup {-1}
        BY <1>0, RecordParts DEF NotFired
      <3> QED
        BY <2>1, <3>1 DEF Rejected
    <2> QED
      BY <2>1, <2>2, <2>3, <2>4, HandlerStep
  <1> QED
    BY <1>1, <1>2

(***************************************************************************)
(* The network: what succeeded stays so.                                   *)
(***************************************************************************)
LEMMA NetworkStep == ASSUME QueueInv, Network PROVE QueueInv'
  <1>0. /\ LockSound(job, lock) /\ Rows /\ Counters /\ NetSound /\ JobsSound /\ HashesSound
    BY DEF QueueInv
  <1>1. UNCHANGED <<plan, steps, hashes, failures, open, runs, job, lock>>
    BY DEF Network, Deliver, Apply, queueVars
  <1>2. NetSound' /\ \A t \in Tx : status[t] = "SUCCESS" => status'[t] = "SUCCESS"
    <2>1. PICK t \in Tx : Deliver(t) \/ \E result \in {"SUCCESS", "FAILED"} : Apply(t, result)
      BY DEF Network
    <2>2. CASE Deliver(t)
      <3>1. /\ wire' \subseteq wire /\ sequence' = sequence
            /\ status' = status \/ (status[t] = "none" /\ status' = [status EXCEPT ![t] = "pending"])
        BY <2>2 DEF Deliver, Takes
      <3> QED
        BY <1>0, <3>1 DEF NetSound
    <2>3. ASSUME NEW result \in {"SUCCESS", "FAILED"}, Apply(t, result)
          PROVE  NetSound' /\ \A u \in Tx : status[u] = "SUCCESS" => status'[u] = "SUCCESS"
      <3>1. /\ status[t] = "pending" /\ SeqNum[t] = sequence + 1
            /\ status' = [status EXCEPT ![t] = result] /\ sequence' = sequence + 1 /\ wire' = wire
        BY <2>3 DEF Apply
      <3>2. \A u \in Tx : SeqNum[u] \in Nat
        BY QueueAssumption
      <3> QED
        BY <1>0, <3>1, <3>2 DEF NetSound
    <2> QED
      BY <2>1, <2>2, <2>3
  <1>3. JobsSound'
    <2>1. ASSUME NEW j \in Job, Running(j) PROVE RunningAt(job[j], steps[j[1]], status')
      <3>1. RunningAt(job[j], steps[j[1]], status) /\ job[j].i \in Nat /\ steps[j[1]] \in Seq(Tx)
        BY <1>0, <2>1, RecordParts, JobPairs DEF JobsSound, JobSound, Rows
      <3>2. Len(steps[j[1]]) \in Nat /\ \A k \in 1 .. Len(steps[j[1]]) : steps[j[1]][k] \in Tx
        BY <3>1, LenProperties, ElementOfSeq
      <3>3. \A k \in 1 .. job[j].i - 1 : k \in 1 .. Len(steps[j[1]])
        BY <3>1, <3>2 DEF RunningAt
      <3> QED
        BY <1>2, <3>1, <3>2, <3>3 DEF RunningAt
    <2> QED
      BY <1>0, <1>1, <2>1 DEF JobsSound, JobSound, Running
  <1>4. HashesSound'
    <2>1. ASSUME NEW q \in Queue, NEW k \in 1 .. Len(hashes[q]) PROVE hashes[q][k] \in Tx
      BY <1>0, ElementOfSeq DEF Rows
    <2>2. ASSUME NEW q \in Queue, NEW k \in 1 .. Len(hashes[q]) PROVE status'[hashes[q][k]] = "SUCCESS"
      BY <1>0, <1>2, <2>1 DEF HashesSound
    <2> QED
      BY <1>0, <1>1, <2>2 DEF HashesSound, Beyond, Holds, UsesLock
  <1>5. Rows' /\ Counters'
    BY <1>0, <1>1 DEF Rows, Counters
  <1> QED
    BY <1>0, <1>1, <1>2, <1>3, <1>4, <1>5 DEF QueueInv

-------------------------------------------------------------------------------
(***************************************************************************)
(* The theorems                                                            *)
(***************************************************************************)

(***************************************************************************)
(* Nothing enqueued, nothing run, nothing sent.                            *)
(***************************************************************************)
LEMMA QueueInit == ASSUME Init PROVE QueueInv
  <1>1. \A j \in Job : job[j] = NoJob
    BY DEF Init
  <1>2. /\ <<>> \in Seq(Tx) /\ <<>> \in Seq(Job) /\ Len(<<>>) = 0 /\ 1 .. 0 = {}
    BY EmptySeq
  <1>3. LockSound(job, lock)
    <2>1. \A j \in Job : ~Queued(job[j]) /\ ~Holds(job[j])
      BY <1>1, NoJobRecord DEF Queued, Holds, Work
    <2>2. lock = <<>>
      BY DEF Init
    <2> QED
      BY <1>2, <2>1, <2>2 DEF LockSound, OnceEach, Within
  <1>4. Rows
    <2>1. /\ plan = Plan /\ Plan \in [Queue -> Seq(Tx)]
          /\ steps = [q \in Queue |-> <<>>] /\ hashes = [q \in Queue |-> <<>>]
      BY QueueAssumption DEF Init
    <2>2. \A q \in Queue : Len(Plan[q]) \in Nat
      BY <2>1, LenProperties
    <2> QED
      BY <1>2, <2>1, <2>2 DEF Rows
  <1>5. Counters /\ NetSound
    BY QueueAssumption DEF Init, Counters, NetSound
  <1>6. JobsSound
    <2>1. job \in [Job -> JobRecord]
      BY NoJobRecord DEF Init
    <2>2. ASSUME NEW j \in Job PROVE JobSound(j)
      <3>1. ~Running(j)
        BY JobPairs DEF Init, Running
      <3> QED
        BY <1>1, <3>1, NoJobRecord DEF JobSound, NeverSends
    <2> QED
      BY <2>1, <2>2 DEF JobsSound
  <1>7. HashesSound
    <2>1. \A q \in Queue : 1 .. Len(hashes[q]) = {}
      BY <1>2 DEF Init
    <2>2. \A j \in Job : ~Holds(job[j])
      BY <1>1, NoJobRecord DEF Holds, Work
    <2> QED
      BY <2>1, <2>2 DEF HashesSound
  <1> QED
    BY <1>3, <1>4, <1>5, <1>6, <1>7 DEF QueueInv

(***************************************************************************)
(* The invariant survives every step: of the callers, of the runs, of the  *)
(* workers that a deadline left behind, and of the network.                *)
(***************************************************************************)
THEOREM QueueInvariant == Spec => []QueueInv
  <1>1. Init => QueueInv
    BY QueueInit
  <1>2. QueueInv /\ [Next]_vars => QueueInv'
    <2> SUFFICES ASSUME QueueInv, [Next]_vars PROVE QueueInv'
      OBVIOUS
    <2>1. CASE \E q \in Queue : enqueue(q)
      BY <2>1, EnqueueStep
    <2>2. CASE \E q \in Queue : \E opts \in RunOptions[q] : run(q, opts)
      BY <2>2, RunStep
    <2>3. CASE \E j \in Job : Progress(j)
      BY <2>3, AcquireStep, SendStep, PollStep, RollbackStep DEF Progress
    <2>4. CASE \E j \in Job : Answer(j)
      BY <2>4, CheckStep, SignStep, SimulateStep DEF Answer
    <2>5. CASE (\E j \in Job : Expire(j)) \/ (\E j \in Job : TimeoutRollback(j))
      BY <2>5, TimeoutStep
    <2>6. CASE Network
      BY <2>6, NetworkStep
    <2>7. CASE UNCHANGED vars
      <3>1. UNCHANGED <<plan, steps, hashes, failures, open, runs, job, lock, wire, status, sequence>>
        BY <2>7 DEF vars, queueVars, netVars
      <3> QED
        BY <3>1 DEF QueueInv, Rows, Counters, NetSound, JobsSound, JobSound, Running,
           HashesSound, Beyond, Holds, UsesLock
    <2> QED
      BY <2>1, <2>2, <2>3, <2>4, <2>5, <2>6, <2>7 DEF Next
  <1> QED
    BY <1>1, <1>2, PTL DEF Spec

(***************************************************************************)
(* The guard serialises the writes of the account: however many queues     *)
(* share it, and whatever workers their step timeouts left behind, at most *)
(* one is between its sequence check and its last await.                   *)
(***************************************************************************)
THEOREM WritesAreSerialised == Spec => []SubmissionsSerialised
  <1>1. QueueInv => SubmissionsSerialised
    <2> SUFFICES ASSUME QueueInv PROVE SubmissionsSerialised
      OBVIOUS
    <2>1. \A j \in Job : Submitting(j) => Holds(job[j])
      BY DEF Submitting, Holds, Work
    <2>2. OneSubmitterPerAccount
      BY <2>1, OneHolder DEF QueueInv, OneSubmitterPerAccount
    <2>3. job \in [Job -> JobRecord] /\ lock \in Seq(Job)
      BY DEF QueueInv, JobsSound, LockSound
    <2>4. ASSUME NEW q \in Queue PROVE runs[q] \in 0 .. MaxRuns[q]
      <3>1. runs[q] \in Nat /\ MaxRuns[q] \in Nat /\ runs[q] =< MaxRuns[q]
        BY QueueAssumption DEF QueueInv, Counters
      <3> QED
        BY <3>1
    <2>5. Labels = {"idle", "lock", "check", "sign", "simulate", "send", "sent",
                    "poll", "rollback", "refused"}
      BY DEF Labels, Work
    <2>6. JobRecord = [
            pc : {"idle", "lock", "check", "sign", "simulate", "send", "sent",
                  "poll", "rollback", "refused"},
            settled : {"no", "ok", "error"}, i : Nat \ {0}, tx : Tx,
            dry : BOOLEAN, skip : BOOLEAN, timed : BOOLEAN,
            attempt : 0 .. (MaxAttempts - 1), polls : 0 .. (MaxPolls - 1),
            completed : Seq(Index), left : Nat, expiry : [Index -> Nat \cup {NotFired}]]
      BY <2>5, Zenon DEF JobRecord
    <2>7. Rows /\ Counters /\ NetSound
      BY DEF QueueInv
    <2>8. TypeOK
      BY <2>3, <2>4, <2>6, <2>7, Zenon DEF Rows, Counters, NetSound, TypeOK
    <2> QED
      BY <2>2, <2>8 DEF SubmissionsSerialised
  <1> QED
    BY <1>1, QueueInvariant, PTL

(***************************************************************************)
(* A run that is at a step has all its earlier steps on chain, with the    *)
(* guard or without.                                                       *)
(***************************************************************************)
THEOREM StepsRunInOrder == Spec => []EarlierStepsSucceeded
  <1>1. QueueInv => EarlierStepsSucceeded
    BY DEF QueueInv, JobsSound, JobSound, RunningAt, EarlierStepsSucceeded
  <1> QED
    BY <1>1, QueueInvariant, PTL

(***************************************************************************)
(* With the guard, a queue's hashes are of successful transactions and     *)
(* ascend in the account's sequence, although a left-over worker may add   *)
(* to the list of a later run.  Without it two workers may confirm the     *)
(* same transaction, so the hypothesis is needed.                          *)
(***************************************************************************)
THEOREM HashesAscend ==
    ASSUME Guarded
    PROVE  Spec => []HashesInStepOrder
  <1>1. QueueInv => HashesInStepOrder
    <2> SUFFICES ASSUME QueueInv PROVE HashesInStepOrder
      OBVIOUS
    <2>1. \A q \in Queue : DOMAIN hashes[q] = 1 .. Len(hashes[q])
      BY LenProperties DEF QueueInv, Rows
    <2> QED
      BY <2>1 DEF QueueInv, HashesSound, HashesInStepOrder
  <1> QED
    BY <1>1, QueueInvariant, PTL
================================================================================
