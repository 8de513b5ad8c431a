--------------------------- MODULE QueueResumeProofs ---------------------------
(***************************************************************************)
(* Theorems about QueueResume for any number of steps, crashes, runs and   *)
(* saves in flight; and, at the end, about OfflineFeed, the mobile app's   *)
(* queue of posts that are composed offline.                               *)
(***************************************************************************)
EXTENDS QueueResume, OfflineFeed, FiniteSetTheorems, SequenceTheorems, TLAPS

-------------------------------------------------------------------------------
(***************************************************************************)
(* The inductive invariant                                                 *)
(***************************************************************************)

(***************************************************************************)
(* What is true of every copy of the step states, the queue's own, the     *)
(* stored one, those in flight and the one resume() works through: at most *)
(* the enqueued steps in the order they were enqueued, and never ahead of  *)
(* the network.                                                            *)
(***************************************************************************)
Ascending(s) == \A i, j \in 1 .. Len(s) : i < j => s[i].tx < s[j].tx

NotAhead(s, w, l) ==
    \A i \in 1 .. Len(s) : /\ s[i].status = "submitted" => s[i].tx \in w
                           /\ s[i].status = "confirmed" => l[s[i].tx] = "SUCCESS"

(***************************************************************************)
(* With the guard a step is begun only when all before it are confirmed,   *)
(* and a confirmed one never again: its sequence number is used up.        *)
(***************************************************************************)
ConfirmedBefore(s) ==
    \A i, j \in 1 .. Len(s) : i < j /\ s[j].status # "pending" => s[i].status = "confirmed"

Sound(s, n, w, l) ==
    /\ s \in Snapshot /\ Len(s) =< n
    /\ \A i \in 1 .. Len(s) : s[i].tx =< n
    /\ Ascending(s) /\ NotAhead(s, w, l)
    /\ Guarded => ConfirmedBefore(s)

CopySound(s) == Sound(s, enqueued, wire, ledger)

CopiesSound ==
    /\ CopySound(queue) /\ CopySound(loaded) /\ CopySound(disk)
    /\ \A s \in saves : CopySound(s)

SavesBounded == IsFiniteSet(saves) /\ Cardinality(saves) =< MaxInFlight

CountersTyped ==
    /\ enqueued \in 0 .. MaxSteps /\ wire \subseteq Steps
    /\ ledger \in [Steps -> {"none", "SUCCESS", "FAILED"}] /\ sequence \in 0 .. MaxSteps
    /\ \A t \in Steps : ledger[t] # "none" => t =< sequence
    /\ crashes \in 0 .. MaxCrashes /\ runs \in 0 .. MaxRuns

(***************************************************************************)
(* Where run() is: the step it is at has the status of that point, and in  *)
(* this run all before it were confirmed.                                  *)
(***************************************************************************)
InRun == {"simulate", "send", "sent", "poll"}

RunPlace ==
    /\ at \in 1 .. Len(queue)
    /\ \A i \in 1 .. at - 1 : queue[i].status = "confirmed"
    /\ pc \in {"send", "sent"} => queue[at].status = "simulated"
    /\ pc = "poll" => queue[at].status = "submitted"
    /\ pc = "sent" => queue[at].tx \in wire
    /\ Guarded => \A h \in 1 .. Len(hashes) : hashes[h] < queue[at].tx

(***************************************************************************)
(* Where resume() is: the steps put back so far are fresh ones from before *)
(* the place it is at, and with the guard none of the recovered ones comes *)
(* after a step put back.                                                  *)
(***************************************************************************)
ResumePlace ==
    /\ at \in 1 .. Len(loaded) + 1
    /\ pc = "repoll" => at \in 1 .. Len(loaded) /\ loaded[at].status = "submitted"
    /\ Len(queue) < at
    /\ \A i \in 1 .. Len(queue) : queue[i].status = "pending"
    /\ \A k \in at .. Len(loaded) :
          /\ \A i \in 1 .. Len(queue) : queue[i].tx < loaded[k].tx
          /\ Guarded => \A h \in 1 .. Len(hashes) : hashes[h] < loaded[k].tx
    /\ queue # <<>> => \E k \in 1 .. at - 1 : NeverSubmitted(loaded[k])
    /\ Guarded => \A h \in 1 .. Len(hashes), i \in 1 .. Len(queue) : hashes[h] < queue[i].tx

Place ==
    /\ pc \in {"idle", "clear", "down", "forget", "reconcile", "repoll"} \cup InRun
    /\ at \in 1 .. MaxSteps + 1
    /\ pc \in InRun => RunPlace
    /\ pc \in {"down", "forget"} => queue = <<>> /\ hashes = <<>> /\ at = 1
    /\ pc \in {"reconcile", "repoll"} => ResumePlace

HashesSound ==
    /\ hashes \in Seq(Steps)
    /\ \A h \in 1 .. Len(hashes) : ledger[hashes[h]] = "SUCCESS"
    /\ Guarded => \A h, k \in 1 .. Len(hashes) : h < k => hashes[h] < hashes[k]

ResumeInv == CopiesSound /\ SavesBounded /\ CountersTyped /\ Place /\ HashesSound

-------------------------------------------------------------------------------
(***************************************************************************)
(* Copies of the step states                                               *)
(***************************************************************************)
Entry == [tx : Steps, status : Saved]

(***************************************************************************)
(* A sequence of entries has a length and an entry in every place.         *)
(***************************************************************************)
LEMMA SnapshotEntries ==
    ASSUME NEW s \in Snapshot
    PROVE  /\ s \in Seq(Entry) /\ Len(s) \in Nat /\ DOMAIN s = 1 .. Len(s)
           /\ \A i \in 1 .. Len(s) : s[i] \in Entry /\ s[i].tx \in Nat \ {0} /\ s[i].tx \in Steps
  <1>1. s \in Seq(Entry)
    BY DEF Snapshot, Entry
  <1>2. Len(s) \in Nat /\ DOMAIN s = 1 .. Len(s) /\ \A i \in 1 .. Len(s) : s[i] \in Entry
    BY <1>1, LenProperties, ElementOfSeq
  <1>3. ASSUME NEW e \in Entry PROVE e.tx \in Nat \ {0} /\ e.tx \in Steps
    BY QueueResumeAssumption DEF Entry, Steps
  <1> QED
    BY <1>1, <1>2, <1>3

(***************************************************************************)
(* A copy stays sound while more is enqueued, sent and confirmed.          *)
(***************************************************************************)
LEMMA SoundKept ==
    ASSUME NEW s, NEW n \in Nat, NEW w, NEW l, Sound(s, n, w, l),
           NEW m \in Nat, NEW v, NEW k, n =< m, w \subseteq v,
           \A t \in Steps : l[t] = "SUCCESS" => k[t] = "SUCCESS"
    PROVE  Sound(s, m, v, k)
  <1>1. s \in Snapshot
    BY DEF Sound
  <1>2. Len(s) \in Nat /\ \A i \in 1 .. Len(s) : s[i].tx \in Nat /\ s[i].tx \in Steps
    BY <1>1, SnapshotEntries
  <1>3. Len(s) =< m /\ \A i \in 1 .. Len(s) : s[i].tx =< m
    BY <1>2 DEF Sound
  <1>4. NotAhead(s, v, k)
    BY <1>2 DEF Sound, NotAhead
  <1> QED
    BY <1>3, <1>4 DEF Sound

(***************************************************************************)
(* An empty record claims nothing.                                         *)
(***************************************************************************)
LEMMA SoundEmpty ==
    ASSUME NEW n \in Nat, NEW w, NEW l
    PROVE  Sound(<<>>, n, w, l)
  <1>1. <<>> \in Snapshot /\ Len(<<>>) = 0
    BY EmptySeq DEF Snapshot
  <1>2. 1 .. 0 = {}
    OBVIOUS
  <1> QED
    BY <1>1, <1>2 DEF Sound, Ascending, NotAhead, ConfirmedBefore

(***************************************************************************)
(* A step that is put at the end, or back, is a fresh one.                 *)
(***************************************************************************)
LEMMA SoundAppend ==
    ASSUME NEW n \in Nat, NEW w, NEW l, NEW s, Sound(s, n, w, l), NEW t \in Steps,
           NEW m \in Nat, n =< m, t =< m, Len(s) + 1 =< m,
           \A i \in 1 .. Len(s) : s[i].tx < t
    PROVE  /\ Sound(Append(s, Fresh(t)), m, w, l)
           /\ Len(Append(s, Fresh(t))) = Len(s) + 1
           /\ \A i \in 1 .. Len(s) : Append(s, Fresh(t))[i] = s[i]
           /\ Append(s, Fresh(t))[Len(s) + 1] = Fresh(t)
  <1>1. /\ s \in Seq(Entry) /\ Len(s) \in Nat
        /\ \A i \in 1 .. Len(s) : s[i] \in Entry /\ s[i].tx \in Nat \ {0} /\ s[i].tx \in Steps
    BY SnapshotEntries DEF Sound
  <1>2. Fresh(t) \in Entry /\ Fresh(t).tx = t /\ Fresh(t).status = "pending"
    BY DEF Fresh, Entry, Saved
  <1>3. t \in Nat
    BY QueueResumeAssumption DEF Steps
  <1> DEFINE e == Fresh(t)
             a == Append(s, e)
  <1> HIDE DEF e
  <1>4. /\ a \in Seq(Entry) /\ Len(a) = Len(s) + 1 /\ a[Len(s) + 1] = e
        /\ \A i \in 1 .. Len(s) : a[i] = s[i]
    BY <1>1, <1>2, AppendProperties DEF e
  <1> HIDE DEF a
  <1>5. 1 .. Len(a) = (1 .. Len(s)) \cup {Len(s) + 1} /\ Len(s) + 1 \notin 1 .. Len(s)
    BY <1>1, <1>4
  <1>6. a \in Snapshot /\ Len(a) =< m
    BY <1>4 DEF Snapshot, Entry
  <1>7. \A i \in 1 .. Len(a) : a[i].tx =< m
    BY <1>1, <1>2, <1>3, <1>4, <1>5 DEF Sound, e
  <1>8. Ascending(a)
    BY <1>1, <1>2, <1>3, <1>4, <1>5 DEF Sound, Ascending, e
  <1>9. NotAhead(a, w, l)
    BY <1>2, <1>4, <1>5 DEF Sound, NotAhead, e
  <1>10. Guarded => ConfirmedBefore(a)
    BY <1>1, <1>2, <1>4, <1>5 DEF Sound, ConfirmedBefore, e
  <1>11. Sound(a, m, w, l)
    BY <1>6, <1>7, <1>8, <1>9, <1>10 DEF Sound
  <1> QED
    BY <1>4, <1>11 DEF a, e

(***************************************************************************)
(* The states with step k at another status.                               *)
(***************************************************************************)
WithStatus(s, k, st) == [s EXCEPT ![k].status = st]

(***************************************************************************)
(* markPersisted changes the status of one step.                           *)
(***************************************************************************)
LEMMA SoundMark ==
    ASSUME NEW n \in Nat, NEW w, NEW l, NEW s, Sound(s, n, w, l),
           NEW k \in 1 .. Len(s), NEW st \in Saved,
           st = "submitted" => s[k].tx \in w,
           st = "confirmed" => l[s[k].tx] = "SUCCESS",
           Guarded => \A i \in 1 .. k - 1 : s[i].status = "confirmed",
           Guarded /\ st # "confirmed" =>
               \A j \in 1 .. Len(s) : k < j => s[j].status = "pending"
    PROVE  /\ Sound(WithStatus(s, k, st), n, w, l)
           /\ Len(WithStatus(s, k, st)) = Len(s)
           /\ WithStatus(s, k, st)[k].status = st
           /\ \A i \in 1 .. Len(s) : WithStatus(s, k, st)[i].tx = s[i].tx
           /\ \A i \in 1 .. Len(s) : i # k => WithStatus(s, k, st)[i] = s[i]
  <1>1. /\ s \in Seq(Entry) /\ Len(s) \in Nat /\ DOMAIN s = 1 .. Len(s)
        /\ \A i \in 1 .. Len(s) : s[i] \in Entry /\ s[i].tx \in Nat \ {0}
    BY SnapshotEntries DEF Sound
  <1>2. ASSUME NEW e \in Entry
        PROVE  /\ [e EXCEPT !.status = st] \in Entry
               /\ [e EXCEPT !.status = st].status = st
               /\ [e EXCEPT !.status = st].tx = e.tx
    BY DEF Entry
  <1> DEFINE e == [s[k] EXCEPT !.status = st]
             a == [s EXCEPT ![k].status = st]
  <1>3. e \in Entry /\ e.status = st /\ e.tx = s[k].tx
    BY <1>1, <1>2
  <1>4. a = [s EXCEPT ![k] = e]
    OBVIOUS
  <1> HIDE DEF e, a
  <1>5. /\ a \in Seq(Entry) /\ Len(a) = Len(s)
        /\ \A i \in 1 .. Len(s) : a[i] = IF i = k THEN e ELSE s[i]
    BY <1>1, <1>3, <1>4, ExceptSeq
  <1>6. /\ \A i \in 1 .. Len(s) : a[i].tx = s[i].tx
        /\ \A i \in 1 .. Len(s) : a[i].status = IF i = k THEN st ELSE s[i].status
    BY <1>3, <1>5
  <1>7. a \in Snapshot
    BY <1>5 DEF Snapshot, Entry
  <1>8. Ascending(a)
    BY <1>5, <1>6 DEF Sound, Ascending
  <1>9. NotAhead(a, w, l)
    BY <1>5, <1>6 DEF Sound, NotAhead
  <1>10. Guarded => ConfirmedBefore(a)
    <2> SUFFICES ASSUME Guarded, NEW i \in 1 .. Len(s), NEW j \in 1 .. Len(s), i < j,
                        a[j].status # "pending"
                 PROVE  a[i].status = "confirmed"
      BY <1>5 DEF ConfirmedBefore
    <2>1. CASE j = k
      BY <1>1, <1>6, <2>1
    <2>2. CASE j # k /\ i = k
      BY <1>6, <2>2
    <2>3. CASE j # k /\ i # k
      BY <1>6, <2>3 DEF Sound, ConfirmedBefore
    <2> QED
      BY <2>1, <2>2, <2>3
  <1>11. Sound(a, n, w, l)
    BY <1>5, <1>6, <1>7, <1>8, <1>9, <1>10 DEF Sound
  <1> QED
    BY <1>5, <1>6, <1>11 DEF a, WithStatus

-------------------------------------------------------------------------------
(***************************************************************************)
(* The steps                                                               *)
(***************************************************************************)

(***************************************************************************)
(* The numbers and lengths that the invariant bounds.                      *)
(***************************************************************************)
LEMMA Lengths ==
    ASSUME ResumeInv
    PROVE  /\ enqueued \in Nat /\ enqueued =< MaxSteps /\ MaxSteps \in Nat
           /\ sequence \in Nat /\ at \in Nat /\ at > 0
           /\ Len(queue) \in Nat /\ Len(queue) =< enqueued
           /\ Len(loaded) \in Nat /\ Len(loaded) =< enqueued
           /\ Len(hashes) \in Nat
           /\ \A i \in 1 .. Len(queue) : queue[i].tx \in Steps /\ queue[i].tx \in Nat \ {0}
           /\ \A i \in 1 .. Len(loaded) : loaded[i].tx \in Steps /\ loaded[i].tx \in Nat \ {0}
           /\ \A h \in 1 .. Len(hashes) : hashes[h] \in Steps /\ hashes[h] \in Nat
  <1>1. /\ enqueued \in Nat /\ enqueued =< MaxSteps /\ MaxSteps \in Nat /\ sequence \in Nat
        /\ at \in Nat /\ at > 0
    BY QueueResumeAssumption DEF ResumeInv, CountersTyped, Place
  <1>2. queue \in Snapshot /\ loaded \in Snapshot
        /\ Len(queue) =< enqueued /\ Len(loaded) =< enqueued
    BY DEF ResumeInv, CopiesSound, CopySound, Sound
  <1>3. /\ Len(queue) \in Nat /\ Len(loaded) \in Nat
        /\ \A i \in 1 .. Len(queue) : queue[i].tx \in Steps /\ queue[i].tx \in Nat \ {0}
        /\ \A i \in 1 .. Len(loaded) : loaded[i].tx \in Steps /\ loaded[i].tx \in Nat \ {0}
    BY <1>2, SnapshotEntries
  <1>4. hashes \in Seq(Steps)
    BY DEF ResumeInv, HashesSound
  <1>5. Len(hashes) \in Nat /\ \A h \in 1 .. Len(hashes) : hashes[h] \in Steps
    BY <1>4, LenProperties, ElementOfSeq
  <1>6. Steps \subseteq Nat
    BY QueueResumeAssumption DEF Steps
  <1> QED
    BY <1>1, <1>2, <1>3, <1>5, <1>6

(***************************************************************************)
(* A sound copy is handed to the adapter.                                  *)
(***************************************************************************)
LEMMA SaveStarts ==
    ASSUME NEW n, NEW w, NEW l, \A s \in saves : Sound(s, n, w, l), SavesBounded,
           NEW q, Sound(q, n, w, l), persistSnapshot(q)
    PROVE  /\ SavesBounded' /\ disk' = disk
           /\ \A s \in saves' : Sound(s, n, w, l)
  <1>1. saves' = saves \cup {q} /\ disk' = disk /\ Cardinality(saves \cup {q}) =< MaxInFlight
    BY DEF persistSnapshot
  <1>2. IsFiniteSet(saves \cup {q})
    BY FS_AddElement DEF SavesBounded
  <1> QED
    BY <1>1, <1>2 DEF SavesBounded

(***************************************************************************)
(* A save that lands, fails, or dies with the process.                     *)
(***************************************************************************)
LEMMA SaveEnds ==
    ASSUME SavesBounded, NEW s \in saves, saves' = saves \ {s}
    PROVE  SavesBounded' /\ saves' \subseteq saves
  <1>1. IsFiniteSet(saves \ {s}) /\ Cardinality(saves \ {s}) = Cardinality(saves) - 1
    BY FS_RemoveElement DEF SavesBounded
  <1>2. Cardinality(saves) \in Nat
    BY FS_CardinalityType DEF SavesBounded
  <1>3. MaxInFlight \in Nat
    BY QueueResumeAssumption
  <1>4. Cardinality(saves') =< MaxInFlight
    BY <1>1, <1>2, <1>3 DEF SavesBounded
  <1> QED
    BY <1>1, <1>4 DEF SavesBounded

(***************************************************************************)
(* Appending a larger number to recovered hashes.                          *)
(***************************************************************************)
LEMMA HashAppended ==
    ASSUME HashesSound, NEW t \in Steps, ledger[t] = "SUCCESS", UNCHANGED ledger,
           hashes' = Append(hashes, t),
           Guarded => \A h \in 1 .. Len(hashes) : hashes[h] < t
    PROVE  /\ HashesSound' /\ Len(hashes') = Len(hashes) + 1
           /\ hashes'[Len(hashes) + 1] = t
           /\ \A h \in 1 .. Len(hashes) : hashes'[h] = hashes[h]
  <1>1. hashes \in Seq(Steps) /\ Len(hashes) \in Nat
    BY LenProperties DEF HashesSound
  <1>2. /\ hashes' \in Seq(Steps) /\ Len(hashes') = Len(hashes) + 1
        /\ hashes'[Len(hashes) + 1] = t
        /\ \A h \in 1 .. Len(hashes) : hashes'[h] = hashes[h]
    BY <1>1, AppendProperties
  <1>3. 1 .. Len(hashes') = (1 .. Len(hashes)) \cup {Len(hashes) + 1}
    BY <1>1, <1>2
  <1>4. \A h \in 1 .. Len(hashes') : ledger'[hashes'[h]] = "SUCCESS"
    BY <1>2, <1>3 DEF HashesSound
  <1>5. Guarded => \A h, k \in 1 .. Len(hashes') : h < k => hashes'[h] < hashes'[k]
    BY <1>1, <1>2, <1>3 DEF HashesSound
  <1> QED
    BY <1>2, <1>4, <1>5 DEF HashesSound

(***************************************************************************)
(* No hashes yet.                                                          *)
(***************************************************************************)
LEMMA HashesCleared == ASSUME hashes' = <<>> PROVE HashesSound' /\ Len(hashes') = 0
  <1>1. <<>> \in Seq(Steps) /\ Len(<<>>) = 0
    BY EmptySeq
  <1>2. 1 .. 0 = {}
    OBVIOUS
  <1> QED
    BY <1>1, <1>2 DEF HashesSound

(***************************************************************************)
(* enqueue adds a fresh step, with a number above all earlier ones.        *)
(***************************************************************************)
LEMMA EnqueueStep == ASSUME ResumeInv, enqueue PROVE ResumeInv'
  <1>0. /\ CopiesSound /\ SavesBounded /\ CountersTyped /\ Place /\ HashesSound
    BY DEF ResumeInv
  <1> DEFINE n == enqueued + 1
  <1>1. /\ enqueued' = n /\ queue' = Append(queue, Fresh(n)) /\ persistSnapshot(queue')
        /\ pc = "idle" /\ n =< MaxSteps
        /\ UNCHANGED <<hashes, pc, at, loaded, wire, ledger, sequence, crashes, runs>>
    BY QueueResumeAssumption DEF enqueue, netVars, ResumeInv, CountersTyped
  <1>2. n \in Nat /\ enqueued \in Nat /\ enqueued =< n /\ n \in Steps /\ n \in 0 .. MaxSteps
    BY <1>1, Lengths DEF Steps
  <1>3. Sound(queue', n, wire, ledger)
    <2>1. \A i \in 1 .. Len(queue) : queue[i].tx < n
      BY <1>0, <1>2, Lengths DEF CopiesSound, CopySound, Sound
    <2>2. Len(queue) + 1 =< n
      BY Lengths
    <2>3. Sound(queue, enqueued, wire, ledger)
      BY <1>0 DEF CopiesSound, CopySound
    <2> HIDE DEF n
    <2> QED
      BY <1>1, <1>2, <2>1, <2>2, <2>3, SoundAppend
  <1>4. /\ Sound(loaded, n, wire, ledger) /\ Sound(disk, n, wire, ledger)
        /\ \A s \in saves : Sound(s, n, wire, ledger)
    BY <1>0, <1>2, SoundKept DEF CopiesSound, CopySound
  <1> HIDE DEF n
  <1>5. SavesBounded' /\ disk' = disk /\ \A s \in saves' : Sound(s, n, wire, ledger)
    BY <1>0, <1>1, <1>3, <1>4, SaveStarts
  <1>6. CopiesSound'
    BY <1>1, <1>3, <1>4, <1>5 DEF CopiesSound, CopySound
  <1>7. CountersTyped'
    BY <1>0, <1>1, <1>2 DEF CountersTyped
  <1>8. Place' /\ HashesSound'
    BY <1>0, <1>1 DEF Place, HashesSound, InRun
  <1> QED
    BY <1>5, <1>6, <1>7, <1>8 DEF ResumeInv

(***************************************************************************)
(* run() starts at the first step with no hashes.                          *)
(***************************************************************************)
LEMMA RunStep == ASSUME ResumeInv, run PROVE ResumeInv'
  <1>0. /\ CopiesSound /\ SavesBounded /\ CountersTyped /\ Place /\ HashesSound
    BY DEF ResumeInv
  <1>1. /\ runs' = runs + 1 /\ runs < MaxRuns /\ hashes' = <<>> /\ at' = 1
        /\ pc' = IF 1 > Len(queue) THEN "clear" ELSE "simulate"
        /\ UNCHANGED <<queue, loaded, disk, saves, wire, ledger, sequence, enqueued, crashes>>
    BY DEF run, LoopHead, storeVars, netVars
  <1>2. HashesSound' /\ Len(hashes') = 0
    BY <1>1, HashesCleared
  <1>3. Place'
    <2>1. at' \in 1 .. MaxSteps + 1
      BY <1>1, QueueResumeAssumption
    <2>2. pc' \in InRun => RunPlace'
      BY <1>1, <1>2, Lengths DEF RunPlace, InRun
    <2> QED
      BY <1>1, <2>1, <2>2 DEF Place, InRun
  <1>4. CountersTyped'
    BY <1>0, <1>1, QueueResumeAssumption DEF CountersTyped
  <1>5. CopiesSound' /\ SavesBounded'
    BY <1>0, <1>1 DEF CopiesSound, CopySound, SavesBounded
  <1> QED
    BY <1>2, <1>3, <1>4, <1>5 DEF ResumeInv

(***************************************************************************)
(* run() marks the step it is at and saves the states.  With the guard the *)
(* steps after it have not been begun, unless it was confirmed before, and *)
(* then its number is used up and it is not begun again.                   *)
(***************************************************************************)
LEMMA MarkStep ==
    ASSUME ResumeInv, pc \in InRun, NEW st \in {"simulated", "submitted", "confirmed"},
           queue' = Marked(st), persistSnapshot(queue'),
           st = "simulated" => InOrder,
           st # "simulated" => pc # "simulate",
           st = "submitted" => queue[at].tx \in wire,
           st = "confirmed" => ledger[queue[at].tx] = "SUCCESS",
           UNCHANGED <<loaded, wire, ledger, sequence, enqueued, crashes, runs>>
    PROVE  /\ CopiesSound' /\ SavesBounded' /\ CountersTyped'
           /\ Len(queue') = Len(queue) /\ queue'[at].status = st
           /\ \A i \in 1 .. Len(queue) : queue'[i].tx = queue[i].tx
           /\ \A i \in 1 .. Len(queue) : i # at => queue'[i] = queue[i]
  <1>0. CopiesSound /\ SavesBounded /\ CountersTyped /\ RunPlace
    BY DEF ResumeInv, Place
  <1>1. /\ Sound(queue, enqueued, wire, ledger) /\ enqueued \in Nat
        /\ at \in 1 .. Len(queue) /\ st \in Saved
        /\ \A i \in 1 .. at - 1 : queue[i].status = "confirmed"
    BY <1>0, Lengths DEF CopiesSound, CopySound, RunPlace, Saved
  <1>2. ASSUME Guarded, st # "confirmed", NEW j \in 1 .. Len(queue), at < j
        PROVE  queue[j].status = "pending"
    <2> SUFFICES ASSUME queue[j].status # "pending" PROVE FALSE
      OBVIOUS
    <2>1. queue[at].status = "confirmed"
      BY <1>1, <1>2 DEF Sound, ConfirmedBefore
    <2>2. pc = "simulate"
      BY <1>0, <2>1 DEF RunPlace, InRun
    <2>3. st = "simulated" /\ queue[at].tx = sequence + 1
      BY <1>2, <2>2 DEF InOrder, Tx
    <2>4. ledger[queue[at].tx] = "SUCCESS" /\ queue[at].tx \in Steps
      BY <1>1, <2>1, Lengths DEF Sound, NotAhead
    <2>5. queue[at].tx =< sequence
      BY <1>0, <2>4 DEF CountersTyped
    <2> QED
      BY <2>3, <2>5, Lengths
  <1>3. queue' = WithStatus(queue, at, st)
    BY DEF Marked, WithStatus
  <1>4. /\ Sound(queue', enqueued, wire, ledger) /\ Len(queue') = Len(queue)
        /\ queue'[at].status = st
        /\ \A i \in 1 .. Len(queue) : queue'[i].tx = queue[i].tx
        /\ \A i \in 1 .. Len(queue) : i # at => queue'[i] = queue[i]
    BY <1>1, <1>2, <1>3, SoundMark
  <1>5. SavesBounded' /\ disk' = disk /\ \A s \in saves' : Sound(s, enqueued, wire, ledger)
    BY <1>0, <1>4, SaveStarts DEF CopiesSound, CopySound
  <1>6. CopiesSound'
    BY <1>0, <1>4, <1>5 DEF CopiesSound, CopySound
  <1>7. CountersTyped'
    BY <1>0 DEF CountersTyped
  <1> QED
    BY <1>4, <1>5, <1>6, <1>7

(***************************************************************************)
(* The guard lets a step through to its simulation.                        *)
(***************************************************************************)
LEMMA SimulateStep == ASSUME ResumeInv, Simulate PROVE ResumeInv'
  <1>1. /\ pc = "simulate" /\ InOrder /\ queue' = Marked("simulated") /\ pc' = "send"
        /\ persistSnapshot(queue')
        /\ UNCHANGED <<hashes, at, loaded, wire, ledger, sequence, enqueued, crashes, runs>>
    BY DEF Simulate, netVars
  <1>2. /\ CopiesSound' /\ SavesBounded' /\ CountersTyped'
        /\ Len(queue') = Len(queue) /\ queue'[at].status = "simulated"
        /\ \A i \in 1 .. Len(queue) : queue'[i].tx = queue[i].tx
        /\ \A i \in 1 .. Len(queue) : i # at => queue'[i] = queue[i]
    BY <1>1, MarkStep DEF InRun
  <1>3. RunPlace /\ at \in 1 .. MaxSteps + 1
    BY <1>1 DEF ResumeInv, Place, InRun
  <1>4. RunPlace'
    BY <1>1, <1>2, <1>3 DEF RunPlace
  <1>5. Place' /\ HashesSound'
    BY <1>1, <1>3, <1>4 DEF Place, InRun, ResumeInv, HashesSound
  <1> QED
    BY <1>2, <1>5 DEF ResumeInv

(***************************************************************************)
(* The network's answer: the step was sent, so the copy may say so.        *)
(***************************************************************************)
LEMMA SentStep == ASSUME ResumeInv, Sent PROVE ResumeInv'
  <1>1. /\ pc = "sent" /\ queue' = Marked("submitted") /\ pc' = "poll"
        /\ persistSnapshot(queue')
        /\ UNCHANGED <<hashes, at, loaded, wire, ledger, sequence, enqueued, crashes, runs>>
    BY DEF Sent, netVars
  <1>2. RunPlace /\ at \in 1 .. MaxSteps + 1
    BY <1>1 DEF ResumeInv, Place, InRun
  <1>3. /\ CopiesSound' /\ SavesBounded' /\ CountersTyped'
        /\ Len(queue') = Len(queue) /\ queue'[at].status = "submitted"
        /\ \A i \in 1 .. Len(queue) : queue'[i].tx = queue[i].tx
        /\ \A i \in 1 .. Len(queue) : i # at => queue'[i] = queue[i]
    BY <1>1, <1>2, MarkStep DEF InRun, RunPlace
  <1>4. RunPlace'
    BY <1>1, <1>2, <1>3 DEF RunPlace
  <1>5. Place' /\ HashesSound'
    BY <1>1, <1>2, <1>4 DEF Place, InRun, ResumeInv, HashesSound
  <1> QED
    BY <1>3, <1>5 DEF ResumeInv

(***************************************************************************)
(* A confirmed step's hash is larger than those before it.                 *)
(***************************************************************************)
LEMMA ConfirmedStep == ASSUME ResumeInv, Confirmed PROVE ResumeInv'
  <1>1. /\ pc = "poll" /\ queue' = Marked("confirmed") /\ persistSnapshot(queue')
        /\ ledger[queue[at].tx] = "SUCCESS" /\ hashes' = Append(hashes, queue[at].tx)
        /\ at' = at + 1 /\ pc' = IF at + 1 > Len(queue) THEN "clear" ELSE "simulate"
        /\ UNCHANGED <<loaded, wire, ledger, sequence, enqueued, crashes, runs>>
    BY DEF Confirmed, Tx, LoopHead, netVars
  <1>2. RunPlace /\ HashesSound /\ Ascending(queue)
    BY <1>1 DEF ResumeInv, Place, InRun, CopiesSound, CopySound, Sound
  <1>3. /\ CopiesSound' /\ SavesBounded' /\ CountersTyped'
        /\ Len(queue') = Len(queue) /\ queue'[at].status = "confirmed"
        /\ \A i \in 1 .. Len(queue) : queue'[i].tx = queue[i].tx
        /\ \A i \in 1 .. Len(queue) : i # at => queue'[i] = queue[i]
    BY <1>1, MarkStep DEF InRun
  <1>4. /\ HashesSound' /\ Len(hashes') = Len(hashes) + 1
        /\ hashes'[Len(hashes) + 1] = queue[at].tx
        /\ \A h \in 1 .. Len(hashes) : hashes'[h] = hashes[h]
    <2>1. /\ queue[at].tx \in Steps
          /\ Guarded => \A h \in 1 .. Len(hashes) : hashes[h] < queue[at].tx
      BY <1>2, Lengths DEF RunPlace
    <2> QED
      BY <1>1, <1>2, <2>1, HashAppended
  <1>5. at' \in 1 .. MaxSteps + 1
    BY <1>1, <1>2, Lengths DEF RunPlace
  <1>6. pc' = "simulate" => RunPlace'
    <2> SUFFICES ASSUME pc' = "simulate" PROVE RunPlace'
      OBVIOUS
    <2>1. at' \in 1 .. Len(queue')
      BY <1>1, <1>3, Lengths
    <2>2. \A i \in 1 .. at' - 1 : queue'[i].status = "confirmed"
      BY <1>1, <1>2, <1>3, Lengths DEF RunPlace
    <2>3. ASSUME Guarded, NEW h \in 1 .. Len(hashes') PROVE hashes'[h] < queue'[at'].tx
      <3>1. queue[at].tx < queue[at'].tx /\ queue[at].tx \in Nat /\ queue[at'].tx \in Nat
        <4>1. at \in 1 .. Len(queue) /\ at' \in 1 .. Len(queue) /\ at < at'
          BY <1>1, <1>2, <1>3, <2>1, Lengths DEF RunPlace
        <4> QED
          BY <1>2, <4>1, Lengths DEF Ascending
      <3>2. queue'[at'].tx = queue[at'].tx
        BY <1>3, <2>1
      <3>3. CASE h = Len(hashes) + 1
        BY <1>4, <3>1, <3>2, <3>3
      <3>4. CASE h \in 1 .. Len(hashes)
        <4>1. hashes[h] < queue[at].tx
          BY <1>2, <2>3, <3>4 DEF RunPlace
        <4>2. hashes'[h] = hashes[h]
          BY <1>4, <3>4
        <4>3. hashes[h] \in Nat
          <5>1. hashes \in Seq(Steps)
            BY <1>2 DEF HashesSound
          <5>2. hashes[h] \in Steps
            BY <3>4, <5>1
          <5>3. \A t \in Steps : t \in Nat
            BY Lengths DEF Steps
          <5> QED
            BY <5>2, <5>3
        <4>4. ASSUME NEW a \in Nat, NEW b \in Nat, NEW c \in Nat, a < b, b < c
              PROVE  a < c
          BY <4>4
        <4> QED
          BY <3>1, <3>2, <4>1, <4>2, <4>3, <4>4
      <3> QED
        BY <1>4, <3>3, <3>4, Lengths
    <2> QED
      BY <2>1, <2>2, <2>3 DEF RunPlace
  <1>7. Place'
    BY <1>1, <1>5, <1>6 DEF Place, InRun
  <1> QED
    BY <1>3, <1>4, <1>7 DEF ResumeInv

(***************************************************************************)
(* A send puts the step's transaction in flight before any copy says so.   *)
(***************************************************************************)
LEMMA SendStep == ASSUME ResumeInv, Send PROVE ResumeInv'
  <1>0. /\ CopiesSound /\ SavesBounded /\ CountersTyped /\ Place /\ HashesSound
    BY DEF ResumeInv
  <1>1. /\ pc = "send" /\ pc' = "sent" /\ wire' = wire \cup {queue[at].tx}
        /\ UNCHANGED <<queue, hashes, at, loaded, disk, saves, ledger, sequence, enqueued, crashes, runs>>
    BY DEF Send, Tx, storeVars
  <1>2. RunPlace
    BY <1>0, <1>1 DEF Place, InRun
  <1>3. RunPlace'
    BY <1>1, <1>2 DEF RunPlace
  <1>4. Place'
    BY <1>0, <1>1, <1>3 DEF Place, InRun
  <1>5. CopiesSound'
    <2>1. ASSUME NEW s, Sound(s, enqueued, wire, ledger)
          PROVE  Sound(s, enqueued, wire', ledger)
      BY <1>1, <2>1, SoundKept, Lengths
    <2> QED
      BY <1>0, <1>1, <2>1 DEF CopiesSound, CopySound
  <1>6. CountersTyped'
    BY <1>0, <1>1, <1>2, Lengths DEF CountersTyped, RunPlace
  <1>7. SavesBounded' /\ HashesSound'
    BY <1>0, <1>1 DEF SavesBounded, HashesSound
  <1> QED
    BY <1>4, <1>5, <1>6, <1>7 DEF ResumeInv

(***************************************************************************)
(* A failed step leaves the states as they are.                            *)
(***************************************************************************)
LEMMA StepFailsStep == ASSUME ResumeInv, StepFails PROVE ResumeInv'
  <1>0. /\ CopiesSound /\ SavesBounded /\ CountersTyped /\ Place /\ HashesSound
    BY DEF ResumeInv
  <1>1. /\ pc' = "idle"
        /\ UNCHANGED <<queue, hashes, at, loaded, disk, saves, wire, ledger, sequence, enqueued, crashes, runs>>
    BY DEF StepFails, storeVars, netVars
  <1> QED
    BY <1>0, <1>1
    DEF ResumeInv, CopiesSound, CopySound, SavesBounded, CountersTyped, Place, InRun, HashesSound

(***************************************************************************)
(* The end of the queue.                                                   *)
(***************************************************************************)
LEMMA ClearStep == ASSUME ResumeInv, Clear PROVE ResumeInv'
  <1>0. /\ CopiesSound /\ SavesBounded /\ CountersTyped /\ Place /\ HashesSound
    BY DEF ResumeInv
  <1>1. /\ pc' = "idle" /\ at' = 1 /\ queue' = <<>> /\ disk' = <<>>
        /\ UNCHANGED <<hashes, loaded, saves, wire, ledger, sequence, enqueued, crashes, runs>>
    BY DEF Clear, netVars
  <1>2. CopiesSound'
    BY <1>0, <1>1, SoundEmpty, Lengths DEF CopiesSound, CopySound
  <1>3. Place'
    BY <1>1, QueueResumeAssumption DEF Place, InRun
  <1> QED
    BY <1>0, <1>1, <1>2, <1>3 DEF ResumeInv, SavesBounded, CountersTyped, HashesSound

(***************************************************************************)
(* A save lands, out of order or not, or fails: either way the store holds *)
(* some copy the queue once had.                                           *)
(***************************************************************************)
LEMMA SaveSettles == ASSUME ResumeInv, SaveLands \/ SaveFails PROVE ResumeInv'
  <1>0. /\ CopiesSound /\ SavesBounded /\ CountersTyped /\ Place /\ HashesSound
    BY DEF ResumeInv
  <1>1. PICK s \in saves : saves' = saves \ {s} /\ (disk' = s \/ disk' = disk)
    BY DEF SaveLands, SaveFails
  <1>2. UNCHANGED <<queue, hashes, pc, at, loaded, wire, ledger, sequence, enqueued, crashes, runs>>
    BY DEF SaveLands, SaveFails, queueVars, netVars
  <1>3. SavesBounded' /\ saves' \subseteq saves
    BY <1>0, <1>1, SaveEnds
  <1>4. CopiesSound'
    BY <1>0, <1>1, <1>2, <1>3 DEF CopiesSound, CopySound
  <1>5. CountersTyped' /\ HashesSound'
    BY <1>0, <1>2 DEF CountersTyped, HashesSound
  <1>6. Place'
    BY <1>0, <1>2 DEF Place, RunPlace, ResumePlace, InRun
  <1> QED
    BY <1>3, <1>4, <1>5, <1>6 DEF ResumeInv

(***************************************************************************)
(* The process ends: what is left is the stored copy.                      *)
(***************************************************************************)
LEMMA CrashStep == ASSUME ResumeInv, Crash PROVE ResumeInv'
  <1>0. /\ CopiesSound /\ SavesBounded /\ CountersTyped /\ Place /\ HashesSound
    BY DEF ResumeInv
  <1>1. /\ crashes < MaxCrashes /\ crashes' = crashes + 1 /\ pc' = "down" /\ at' = 1
        /\ queue' = <<>> /\ loaded' = <<>> /\ hashes' = <<>> /\ saves' = {}
        /\ UNCHANGED <<disk, wire, ledger, sequence, enqueued, runs>>
    BY DEF Crash, netVars
  <1>2. SavesBounded'
    BY <1>1, FS_EmptySet, QueueResumeAssumption DEF SavesBounded
  <1>3. CopiesSound'
    BY <1>0, <1>1, SoundEmpty, Lengths DEF CopiesSound, CopySound
  <1>4. CountersTyped'
    BY <1>0, <1>1, QueueResumeAssumption DEF CountersTyped
  <1>5. Place' /\ HashesSound'
    BY <1>1, HashesCleared, QueueResumeAssumption DEF Place, InRun
  <1> QED
    BY <1>2, <1>3, <1>4, <1>5 DEF ResumeInv

(***************************************************************************)
(* resume() loads the stored copy and clears it.                           *)
(***************************************************************************)
LEMMA LoadStep == ASSUME ResumeInv, resume \/ Forget PROVE ResumeInv'
  <1>0. /\ CopiesSound /\ SavesBounded /\ CountersTyped /\ Place /\ HashesSound
    BY DEF ResumeInv
  <1>1. CASE resume
    <2>1. /\ pc = "down" /\ loaded' = disk /\ pc' = "forget"
          /\ UNCHANGED <<queue, hashes, at, disk, saves, wire, ledger, sequence, enqueued, crashes, runs>>
      BY <1>1 DEF resume, storeVars, netVars
    <2>2. CopiesSound' /\ SavesBounded' /\ CountersTyped' /\ HashesSound'
      BY <1>0, <2>1 DEF CopiesSound, CopySound, SavesBounded, CountersTyped, HashesSound
    <2>3. Place'
      BY <1>0, <2>1 DEF Place, InRun
    <2> QED
      BY <2>2, <2>3 DEF ResumeInv
  <1>2. CASE Forget
    <2>1. /\ pc = "forget" /\ disk' = <<>>
          /\ pc' = IF loaded = <<>> THEN "idle" ELSE "reconcile"
          /\ UNCHANGED <<queue, hashes, at, loaded, saves, wire, ledger, sequence, enqueued, crashes, runs>>
      BY <1>2 DEF Forget, netVars
    <2>2. CopiesSound'
      BY <1>0, <2>1, SoundEmpty, Lengths DEF CopiesSound, CopySound
    <2>3. SavesBounded' /\ CountersTyped' /\ HashesSound'
      BY <1>0, <2>1 DEF SavesBounded, CountersTyped, HashesSound
    <2>4. queue = <<>> /\ hashes = <<>> /\ at = 1
      BY <1>0, <2>1 DEF Place
    <2>5. Len(<<>>) = 0 /\ 1 .. 0 = {}
      BY EmptySeq
    <2>6. pc' = "reconcile" => ResumePlace'
      BY <2>1, <2>4, <2>5, Lengths DEF ResumePlace
    <2>7. Place'
      BY <1>0, <2>1, <2>6 DEF Place, InRun
    <2> QED
      BY <2>2, <2>3, <2>7 DEF ResumeInv
  <1> QED
    BY <1>1, <1>2

(***************************************************************************)
(* With the guard, a step the copy calls submitted or confirmed comes      *)
(* before every step resume() puts back, so none has been put back yet.    *)
(***************************************************************************)
LEMMA NonePutBack ==
    ASSUME ResumeInv, pc \in {"reconcile", "repoll"}, Guarded, at \in 1 .. Len(loaded),
           loaded[at].status \in {"submitted", "confirmed"}
    PROVE  queue = <<>>
  <1>1. ResumePlace /\ ConfirmedBefore(loaded)
    BY DEF ResumeInv, Place, CopiesSound, CopySound, Sound
  <1>2. \A k \in 1 .. at - 1 : loaded[k].status = "confirmed"
    BY <1>1, Lengths DEF ConfirmedBefore
  <1> QED
    BY <1>1, <1>2 DEF ResumePlace, NeverSubmitted

(***************************************************************************)
(* A recovered step: its hash comes after those recovered before it.       *)
(***************************************************************************)
LEMMA RecoverStep ==
    ASSUME ResumeInv, pc \in {"reconcile", "repoll"}, at \in 1 .. Len(loaded),
           loaded[at].status \in {"submitted", "confirmed"},
           ledger[loaded[at].tx] = "SUCCESS",
           hashes' = Append(hashes, loaded[at].tx), pc' = "reconcile", at' = at + 1,
           UNCHANGED <<queue, loaded, disk, saves, wire, ledger, sequence, enqueued, crashes, runs>>
    PROVE  ResumeInv'
  <1>0. /\ CopiesSound /\ SavesBounded /\ CountersTyped /\ ResumePlace /\ HashesSound
        /\ Ascending(loaded)
    BY DEF ResumeInv, Place, CopiesSound, CopySound, Sound
  <1> DEFINE t == loaded[at].tx
  <1>1. t \in Steps /\ t \in Nat /\ (Guarded => \A h \in 1 .. Len(hashes) : hashes[h] < t)
    BY <1>0, Lengths DEF ResumePlace
  <1>2. /\ HashesSound' /\ Len(hashes') = Len(hashes) + 1
        /\ hashes'[Len(hashes) + 1] = t
        /\ \A h \in 1 .. Len(hashes) : hashes'[h] = hashes[h]
    BY <1>0, <1>1, HashAppended
  <1>3. CopiesSound' /\ SavesBounded' /\ CountersTyped'
    BY <1>0 DEF CopiesSound, CopySound, SavesBounded, CountersTyped
  <1>4. at' \in 1 .. Len(loaded) + 1 /\ at' \in 1 .. MaxSteps + 1 /\ Len(queue) < at'
    BY <1>0, Lengths DEF ResumePlace
  <1>5. Guarded => queue = <<>> /\ 1 .. Len(queue) = {}
    BY NonePutBack, EmptySeq
  <1>6. ASSUME NEW k \in at' .. Len(loaded)
        PROVE  /\ \A i \in 1 .. Len(queue) : queue[i].tx < loaded[k].tx
               /\ Guarded => \A h \in 1 .. Len(hashes') : hashes'[h] < loaded[k].tx
    <2>1. k \in at .. Len(loaded) /\ k \in 1 .. Len(loaded) /\ at < k
      BY Lengths
    <2>2. t < loaded[k].tx /\ loaded[k].tx \in Nat
      BY <1>0, <2>1, Lengths DEF Ascending
    <2>3. \A i \in 1 .. Len(queue) : queue[i].tx < loaded[k].tx
      BY <1>0, <2>1 DEF ResumePlace
    <2>4. ASSUME Guarded, NEW h \in 1 .. Len(hashes') PROVE hashes'[h] < loaded[k].tx
      <3>1. CASE h = Len(hashes) + 1
        BY <1>2, <2>2, <3>1
      <3>2. CASE h \in 1 .. Len(hashes)
        BY <1>0, <1>2, <2>1, <2>4, <3>2 DEF ResumePlace
      <3> QED
        BY <1>2, <3>1, <3>2, Lengths
    <2> QED
      BY <2>3, <2>4
  <1>7. queue # <<>> => \E k \in 1 .. at' - 1 : NeverSubmitted(loaded[k])
    <2>1. 1 .. at - 1 \subseteq 1 .. at' - 1
      BY Lengths
    <2> QED
      BY <1>0, <2>1 DEF ResumePlace
  <1>8. ResumePlace'
    <2>1. \A i \in 1 .. Len(queue) : queue[i].status = "pending"
      BY <1>0 DEF ResumePlace
    <2> QED
      BY <1>4, <1>5, <1>6, <1>7, <2>1 DEF ResumePlace, NeverSubmitted
  <1>9. Place'
    BY <1>4, <1>8 DEF Place, InRun
  <1> QED
    BY <1>2, <1>3, <1>9 DEF ResumeInv

(***************************************************************************)
(* A step nobody sent goes back to the end of the queue, a fresh one.      *)
(***************************************************************************)
LEMMA PutBackStep ==
    ASSUME ResumeInv, pc = "reconcile", at \in 1 .. Len(loaded), NeverSubmitted(loaded[at]),
           queue' = Append(queue, Fresh(loaded[at].tx)), pc' = "reconcile", at' = at + 1,
           UNCHANGED <<hashes, loaded, disk, saves, wire, ledger, sequence, enqueued, crashes, runs>>
    PROVE  ResumeInv'
  <1>0. /\ CopiesSound /\ SavesBounded /\ CountersTyped /\ ResumePlace /\ HashesSound
        /\ Sound(loaded, enqueued, wire, ledger) /\ Ascending(loaded)
        /\ Sound(queue, enqueued, wire, ledger)
    BY DEF ResumeInv, Place, CopiesSound, CopySound, Sound
  <1> DEFINE t == loaded[at].tx
             n == Len(queue)
  <1>1. t \in Steps /\ t \in Nat /\ t =< enqueued /\ n \in Nat /\ n + 1 =< enqueued
    BY <1>0, Lengths DEF ResumePlace, Sound
  <1>2. \A i \in 1 .. n : queue[i].tx < t
    BY <1>0, Lengths DEF ResumePlace
  <1> HIDE DEF t
  <1>3. /\ Sound(queue', enqueued, wire, ledger) /\ Len(queue') = n + 1
        /\ \A i \in 1 .. n : queue'[i] = queue[i]
        /\ queue'[n + 1] = Fresh(t)
    <2>1. enqueued \in Nat /\ enqueued =< enqueued /\ queue' = Append(queue, Fresh(t))
      BY Lengths DEF t
    <2> QED
      BY <1>0, <1>1, <1>2, <2>1, SoundAppend
  <1>4. Fresh(t).tx = t /\ Fresh(t).status = "pending"
    BY DEF Fresh
  <1>5. /\ \A i \in 1 .. n + 1 : queue'[i].status = "pending"
        /\ \A i \in 1 .. n + 1 : queue'[i].tx = IF i = n + 1 THEN t ELSE queue[i].tx
    <2>1. 1 .. n + 1 = (1 .. n) \cup {n + 1}
      BY <1>1
    <2> QED
      BY <1>0, <1>1, <1>3, <1>4, <2>1 DEF ResumePlace
  <1>6. CopiesSound'
    BY <1>0, <1>3 DEF CopiesSound, CopySound
  <1>7. SavesBounded' /\ CountersTyped' /\ HashesSound'
    BY <1>0 DEF SavesBounded, CountersTyped, HashesSound
  <1>8. at' \in 1 .. Len(loaded) + 1 /\ at' \in 1 .. MaxSteps + 1 /\ n + 1 < at'
    BY <1>0, <1>1, Lengths DEF ResumePlace
  <1>9. ASSUME NEW k \in at' .. Len(loaded)
        PROVE  /\ \A i \in 1 .. n + 1 : queue'[i].tx < loaded[k].tx
               /\ Guarded => \A h \in 1 .. Len(hashes) : hashes[h] < loaded[k].tx
    <2>1. k \in at .. Len(loaded) /\ k \in 1 .. Len(loaded) /\ at < k
      BY Lengths
    <2>2. t < loaded[k].tx
      BY <1>0, <2>1 DEF Ascending, t
    <2>3. \A i \in 1 .. n : queue[i].tx < loaded[k].tx
      BY <1>0, <2>1 DEF ResumePlace
    <2>4. \A i \in 1 .. n + 1 : queue'[i].tx < loaded[k].tx
      BY <1>1, <1>5, <2>2, <2>3
    <2> QED
      BY <1>0, <2>1, <2>4 DEF ResumePlace
  <1>10. ASSUME Guarded, NEW h \in 1 .. Len(hashes), NEW i \in 1 .. n + 1
         PROVE  hashes[h] < queue'[i].tx
    <2>1. hashes[h] < t
      BY <1>0, <1>10, Lengths DEF ResumePlace, t
    <2>2. i # n + 1 => hashes[h] < queue[i].tx
      BY <1>0, <1>1, <1>10 DEF ResumePlace
    <2> QED
      BY <1>5, <2>1, <2>2
  <1>11. \E k \in 1 .. at' - 1 : NeverSubmitted(loaded[k])
    <2>1. at \in 1 .. at' - 1
      BY Lengths
    <2> QED
      BY <2>1
  <1> HIDE DEF n
  <1>12. ResumePlace'
    BY <1>3, <1>5, <1>8, <1>9, <1>10, <1>11 DEF ResumePlace, NeverSubmitted
  <1>13. Place'
    BY <1>8, <1>12 DEF Place, InRun
  <1> QED
    BY <1>6, <1>7, <1>13 DEF ResumeInv

(***************************************************************************)
(* resume() takes the next step of the loaded copy.                        *)
(***************************************************************************)
LEMMA ReconcileStep == ASSUME ResumeInv, Reconcile PROVE ResumeInv'
  <1>0. /\ CopiesSound /\ SavesBounded /\ CountersTyped /\ Place /\ HashesSound
    BY DEF ResumeInv
  <1>1. /\ pc = "reconcile" /\ at =< Len(loaded)
        /\ pc' = IF loaded[at].status = "submitted" THEN "repoll" ELSE "reconcile"
        /\ at' = IF loaded[at].status = "submitted" THEN at ELSE at + 1
        /\ hashes' = IF loaded[at].status = "confirmed"
                     THEN Append(hashes, loaded[at].tx) ELSE hashes
        /\ queue' = IF NeverSubmitted(loaded[at])
                    THEN Append(queue, Fresh(loaded[at].tx)) ELSE queue
        /\ UNCHANGED <<loaded, disk, saves, wire, ledger, sequence, enqueued, crashes, runs>>
    BY DEF Reconcile, storeVars, netVars
  <1>2. ResumePlace /\ at \in 1 .. Len(loaded) /\ NotAhead(loaded, wire, ledger)
    BY <1>0, <1>1, Lengths DEF Place, CopiesSound, CopySound, Sound
  <1>3. CASE loaded[at].status = "confirmed"
    <2>1. ledger[loaded[at].tx] = "SUCCESS"
      BY <1>2, <1>3 DEF NotAhead
    <2>2. /\ pc' = "reconcile" /\ at' = at + 1 /\ hashes' = Append(hashes, loaded[at].tx)
          /\ queue' = queue
      BY <1>1, <1>3 DEF NeverSubmitted
    <2> QED
      BY <1>1, <1>2, <1>3, <2>1, <2>2, RecoverStep
  <1>4. CASE loaded[at].status = "submitted"
    <2>1. pc' = "repoll" /\ UNCHANGED <<queue, hashes, at>>
      BY <1>1, <1>4 DEF NeverSubmitted
    <2>2. ResumePlace'
      BY <1>1, <1>2, <1>4, <2>1 DEF ResumePlace, NeverSubmitted
    <2>3. Place'
      BY <1>0, <2>1, <2>2 DEF Place, InRun
    <2> QED
      BY <1>0, <1>1, <2>1, <2>3
      DEF ResumeInv, CopiesSound, CopySound, SavesBounded, CountersTyped, HashesSound
  <1>5. CASE NeverSubmitted(loaded[at])
    <2>1. /\ pc' = "reconcile" /\ at' = at + 1 /\ hashes' = hashes
          /\ queue' = Append(queue, Fresh(loaded[at].tx))
      BY <1>1, <1>5 DEF NeverSubmitted
    <2> QED
      BY <1>1, <1>2, <1>5, <2>1, PutBackStep
  <1> QED
    BY <1>3, <1>4, <1>5 DEF NeverSubmitted

(***************************************************************************)
(* Polling a submitted step again ends in its success or gives it up.      *)
(***************************************************************************)
LEMMA RepollStep == ASSUME ResumeInv, NEW found \in BOOLEAN, Repoll(found) PROVE ResumeInv'
  <1>0. /\ CopiesSound /\ SavesBounded /\ CountersTyped /\ Place /\ HashesSound
    BY DEF ResumeInv
  <1>1. /\ pc = "repoll" /\ (found => ledger[loaded[at].tx] = "SUCCESS")
        /\ hashes' = (IF found THEN Append(hashes, loaded[at].tx) ELSE hashes)
        /\ pc' = "reconcile" /\ at' = at + 1
        /\ UNCHANGED <<queue, loaded, disk, saves, wire, ledger, sequence, enqueued, crashes, runs>>
    BY DEF Repoll, storeVars, netVars
  <1>2. ResumePlace /\ at \in 1 .. Len(loaded) /\ loaded[at].status = "submitted"
    BY <1>0, <1>1 DEF Place, ResumePlace
  <1>3. CASE found
    BY <1>1, <1>2, <1>3, RecoverStep
  <1>4. CASE ~found
    <2>1. hashes' = hashes
      BY <1>1, <1>4
    <2>2. /\ at' \in 1 .. Len(loaded) + 1 /\ at' \in 1 .. MaxSteps + 1 /\ Len(queue) < at'
          /\ at' .. Len(loaded) \subseteq at .. Len(loaded)
          /\ 1 .. at - 1 \subseteq 1 .. at' - 1
      BY <1>1, <1>2, Lengths DEF ResumePlace
    <2>3. ResumePlace'
      BY <1>1, <1>2, <2>1, <2>2 DEF ResumePlace, NeverSubmitted
    <2>4. Place'
      BY <1>1, <2>2, <2>3 DEF Place, InRun
    <2> QED
      BY <1>0, <1>1, <2>1, <2>4
      DEF ResumeInv, CopiesSound, CopySound, SavesBounded, CountersTyped, HashesSound
  <1> QED
    BY <1>3, <1>4

(***************************************************************************)
(* The steps put back begin to run: every recovered one comes before them. *)
(***************************************************************************)
LEMMA RunUnfinishedStep == ASSUME ResumeInv, RunUnfinished PROVE ResumeInv'
  <1>0. /\ CopiesSound /\ SavesBounded /\ CountersTyped /\ Place /\ HashesSound
    BY DEF ResumeInv
  <1>1. /\ pc = "reconcile" /\ loaded' = <<>> /\ at' = 1
        /\ pc' = IF queue = <<>> THEN "idle" ELSE "simulate"
        /\ UNCHANGED <<queue, hashes, disk, saves, wire, ledger, sequence, enqueued, crashes, runs>>
    BY DEF RunUnfinished, storeVars, netVars
  <1>2. ResumePlace
    BY <1>0, <1>1 DEF Place
  <1>3. CopiesSound'
    BY <1>0, <1>1, SoundEmpty, Lengths DEF CopiesSound, CopySound
  <1>4. queue # <<>> => 1 \in 1 .. Len(queue)
    <2>1. queue \in Seq(Entry)
      BY <1>0, SnapshotEntries DEF CopiesSound, CopySound, Sound
    <2> QED
      BY <2>1, EmptySeq, LenProperties, Lengths
  <1>5. pc' = "simulate" => RunPlace'
    <2>1. 1 .. 1 - 1 = {}
      OBVIOUS
    <2> QED
      BY <1>1, <1>2, <1>4, <2>1 DEF RunPlace, ResumePlace
  <1>6. Place'
    BY <1>1, <1>5, QueueResumeAssumption DEF Place, InRun
  <1> QED
    BY <1>0, <1>1, <1>3, <1>6 DEF ResumeInv, SavesBounded, CountersTyped, HashesSound

(***************************************************************************)
(* The network applies a transaction once: what it has answered stays.     *)
(***************************************************************************)
LEMMA LedgerStep == ASSUME ResumeInv, Ledger PROVE ResumeInv'
  <1>0. /\ CopiesSound /\ SavesBounded /\ CountersTyped /\ Place /\ HashesSound
    BY DEF ResumeInv
  <1>1. PICK t \in wire, r \in {"SUCCESS", "FAILED"} :
            t = sequence + 1 /\ ledger' = [ledger EXCEPT ![t] = r]
    BY DEF Ledger
  <1>2. /\ sequence' = sequence + 1
        /\ UNCHANGED <<queue, hashes, pc, at, loaded, disk, saves, wire, enqueued, crashes, runs>>
    BY DEF Ledger, queueVars, storeVars
  <1>3. t \in Steps /\ ledger[t] = "none"
    BY <1>0, <1>1, Lengths DEF CountersTyped
  <1>4. \A u \in Steps : ledger[u] = "SUCCESS" => ledger'[u] = "SUCCESS"
    BY <1>0, <1>1, <1>3 DEF CountersTyped
  <1>5. CountersTyped'
    <2>1. sequence' \in 0 .. MaxSteps
      BY <1>0, <1>1, <1>2, <1>3, QueueResumeAssumption DEF Steps, CountersTyped
    <2>2. ledger' \in [Steps -> {"none", "SUCCESS", "FAILED"}]
      BY <1>0, <1>1 DEF CountersTyped
    <2>3. ASSUME NEW u \in Steps, ledger'[u] # "none" PROVE u =< sequence'
      <3>1. u \in Nat
        BY QueueResumeAssumption DEF Steps
      <3>2. CASE u = t
        BY <1>1, <1>2, <3>1, <3>2, Lengths
      <3>3. CASE u # t
        BY <1>0, <1>1, <1>2, <2>3, <3>1, <3>3, Lengths DEF CountersTyped
      <3> QED
        BY <3>2, <3>3
    <2> QED
      BY <1>0, <1>2, <2>1, <2>2, <2>3 DEF CountersTyped
  <1>6. CopiesSound'
    <2>1. ASSUME NEW s, Sound(s, enqueued, wire, ledger)
          PROVE  Sound(s, enqueued, wire, ledger')
      BY <1>4, <2>1, SoundKept, Lengths
    <2> QED
      BY <1>0, <1>2, <2>1 DEF CopiesSound, CopySound
  <1>7. HashesSound'
    BY <1>0, <1>2, <1>4, Lengths DEF HashesSound
  <1>8. SavesBounded' /\ Place'
    BY <1>0, <1>2 DEF SavesBounded, Place, RunPlace, ResumePlace, InRun
  <1> QED
    BY <1>5, <1>6, <1>7, <1>8 DEF ResumeInv

-------------------------------------------------------------------------------
(***************************************************************************)
(* The theorems                                                            *)
(***************************************************************************)

(***************************************************************************)
(* A new queue and an empty store.                                         *)
(***************************************************************************)
LEMMA ResumeInit == Init => ResumeInv
  <1> SUFFICES ASSUME Init PROVE ResumeInv
    OBVIOUS
  <1>1. CountersTyped
    BY QueueResumeAssumption DEF Init, CountersTyped, Steps
  <1>2. SavesBounded
    BY FS_EmptySet, QueueResumeAssumption DEF Init, SavesBounded
  <1>3. CopiesSound
    BY SoundEmpty DEF Init, CopiesSound, CopySound
  <1>4. Place
    BY QueueResumeAssumption DEF Init, Place, InRun
  <1>5. HashesSound
    <2>1. hashes = <<>> /\ <<>> \in Seq(Steps) /\ Len(<<>>) = 0 /\ 1 .. 0 = {}
      BY EmptySeq DEF Init
    <2> QED
      BY <2>1 DEF HashesSound
  <1> QED
    BY <1>1, <1>2, <1>3, <1>4, <1>5 DEF ResumeInv

(***************************************************************************)
(* The invariant survives every step: of the app, of a run, of a save that *)
(* settles, of a crash, of resume() and of the network.                    *)
(***************************************************************************)
THEOREM ResumeInvariant == Spec => []ResumeInv
  <1>1. ResumeInv /\ [Next]_vars => ResumeInv'
    <2> SUFFICES ASSUME ResumeInv, [Next]_vars PROVE ResumeInv'
      OBVIOUS
    <2>1. CASE enqueue \/ run
      BY <2>1, EnqueueStep, RunStep
    <2>2. CASE Work
      BY <2>2, SimulateStep, SendStep, SentStep, ConfirmedStep, StepFailsStep, ClearStep,
         LoadStep, ReconcileStep, RunUnfinishedStep, RepollStep DEF Work
    <2>3. CASE SaveLands \/ SaveFails \/ Crash \/ Ledger
      BY <2>3, SaveSettles, CrashStep, LedgerStep
    <2>4. CASE UNCHANGED vars
      <3>1. UNCHANGED <<queue, hashes, pc, at, loaded, disk, saves, wire, ledger, sequence,
                        enqueued, crashes, runs>>
        BY <2>4 DEF vars, queueVars, storeVars, netVars
      <3> QED
        BY <3>1 DEF ResumeInv, CopiesSound, CopySound, SavesBounded, CountersTyped,
           Place, RunPlace, ResumePlace, InRun, HashesSound
    <2> QED
      BY <2>1, <2>2, <2>3, <2>4 DEF Next
  <1> QED
    BY <1>1, ResumeInit, PTL DEF Spec

(***************************************************************************)
(* Whichever save landed last, and however often the app restarted, the    *)
(* stored snapshot claims no more than has happened, and everything has    *)
(* its type.                                                               *)
(***************************************************************************)
THEOREM StoreNeverAhead == Spec => []StoreConsistent
  <1>1. ResumeInv => StoreConsistent
    <2> SUFFICES ASSUME ResumeInv PROVE StoreConsistent
      OBVIOUS
    <2>1. SavedNeverAhead
      <3>1. \A s \in saves \cup {disk} : NotAhead(s, wire, ledger)
        BY DEF ResumeInv, CopiesSound, CopySound, Sound
      <3> QED
        BY <3>1 DEF NotAhead, SavedNeverAhead
    <2>2. queue \in Snapshot /\ loaded \in Snapshot /\ disk \in Snapshot /\ saves \subseteq Snapshot
      BY DEF ResumeInv, CopiesSound, CopySound, Sound
    <2>3. TypeOK
      BY <2>2 DEF ResumeInv, SavesBounded, CountersTyped, Place, InRun, HashesSound, TypeOK
    <2> QED
      BY <2>1, <2>3 DEF StoreConsistent
  <1> QED
    BY <1>1, ResumeInvariant, PTL

(***************************************************************************)
(* With a client that has getAccountSequence, the hashes of a run and of a *)
(* resume() are of transactions that succeeded, each once and in the order *)
(* they were enqueued.  Without the guard a failed run may be repeated and *)
(* the order is lost, so the hypothesis is needed.                         *)
(***************************************************************************)
THEOREM HashesStayInOrder ==
    ASSUME Guarded
    PROVE  Spec => []HashesInOrderOnce
  <1>1. ResumeInv => HashesInOrderOnce
    BY DEF ResumeInv, HashesSound, HashesInOrderOnce
  <1> QED
    BY <1>1, ResumeInvariant, PTL

-------------------------------------------------------------------------------
(***************************************************************************)
(* OfflineFeed: the other durable queue of a client, the posts composed    *)
(* offline and the feed cache beside them.  It shares no state with        *)
(* QueueResume.  First its inductive invariant.                            *)
(***************************************************************************)
Sizes ==
    /\ Text \in [Drafts -> Texts] /\ Other \notin Texts /\ None \notin Drafts
    /\ Earlier \in Nat /\ MaxFaults \in Nat

Rows == [Drafts -> {"none", "gone"} \cup Unsynced]
Feeds == [pc : {"idle", "merge", "reload"}, more : BOOLEAN]
Txns(n) == [open : BOOLEAN, local : Rows, cache : SUBSET (1 .. n)]
Merges(n) == [pc : {"idle", "begin", "upsert", "delete", "evict", "commit", "rollback"},
              page : SUBSET (1 .. n), evict : BOOLEAN, home : BOOLEAN]
Calls(n) == [pc : {"idle", "submit", "poll", "read", "begin", "swap", "commit", "rollback", "mark"},
             todo : SUBSET Drafts, post : Drafts \cup {None}, id : 0 .. n, exists : BOOLEAN]

NetTyped(ch, s, n) == ch \in Seq(Texts \cup {Other}) /\ s \in [Texts -> Nat] /\ n \in 0 .. Len(ch)

Typed ==
    /\ Sizes /\ NetTyped(chain, sent, indexed) /\ served \in BOOLEAN /\ kit \in BOOLEAN
    /\ local \in Rows /\ cache \in SUBSET (1 .. indexed) /\ txn \in Txns(indexed)
    /\ composer \in [Drafts -> {"writing", "starting", "left"}]
    /\ caught \in SUBSET Drafts /\ crossed \in BOOLEAN /\ faults \in 0 .. MaxFaults
    /\ feed \in Feeds /\ merge \in [Slots -> Merges(indexed)] /\ calls \in [Runs -> Calls(indexed)]

(***************************************************************************)
(* A run works on composed posts only, and the id it confirms is that of a *)
(* post of its own text.                                                   *)
(***************************************************************************)
CallSound(c, w, ch, n) ==
    /\ \A d \in c.todo : w[d] # "writing"
    /\ c.pc \notin {"idle", "submit"} => c.post \in Drafts /\ w[c.post] # "writing"
    /\ c.pc \in {"read", "begin", "swap"} => c.id \in 1 .. n /\ ch[c.id] = Text[c.post]

CallsSound == \A r \in Runs : CallSound(calls[r], composer, chain, indexed)

(***************************************************************************)
(* A post that is still being written, and whose text no other draft has,  *)
(* is in no transaction and on no chain.                                   *)
(***************************************************************************)
Sole(d) == \A e \in Drafts \ {d} : Text[e] # Text[d]
Own(d, i, ch) == Sole(d) /\ i > Earlier /\ ch[i] = Text[d]

Unwritten(w, s, ch) ==
    \A d \in Drafts : w[d] = "writing" /\ Sole(d) =>
       s[Text[d]] = 0 /\ \A i \in 1 .. Len(ch) : ~Own(d, i, ch)

(***************************************************************************)
(* The optimistic rows, in the tables and in those a rollback restores.    *)
(***************************************************************************)
RowsSound(l, w, lost, ch, n) ==
    \A d \in Drafts : /\ l[d] = "gone" => \E i \in 1 .. n : ch[i] = Text[d]
                      /\ w[d] = "writing" => l[d] = "none"
                      /\ w[d] # "writing" /\ l[d] = "none" => d \in lost

BothRowsSound ==
    /\ RowsSound(local, composer, caught, chain, indexed)
    /\ txn.open => RowsSound(txn.local, composer, caught, chain, indexed)

(***************************************************************************)
(* Until two transactions cross, the open one belongs to one caller, and   *)
(* nobody believes to be in a transaction when none is open.               *)
(***************************************************************************)
MergeHolds(k) == merge[k].pc \in {"upsert", "delete", "evict", "commit", "rollback"}
RunHolds(r) == calls[r].pc \in {"swap", "commit", "rollback"}

OneHolder ==
    /\ \A k \in Slots : MergeHolds(k) => txn.open
    /\ \A r \in Runs : RunHolds(r) => txn.open
    /\ \A j, k \in Slots : MergeHolds(j) /\ MergeHolds(k) => j = k
    /\ \A q, r \in Runs : RunHolds(q) /\ RunHolds(r) => q = r
    /\ \A k \in Slots, r \in Runs : ~(MergeHolds(k) /\ RunHolds(r))

(***************************************************************************)
(* A row that waits is beside its own post only between the upsert and the *)
(* delete of the transaction that brings the post, or before its rollback. *)
(***************************************************************************)
Apart(l, c, ch) == \A d \in Drafts : \A i \in c : l[d] \in Unsynced => ~Own(d, i, ch)

Between(i) == \E k \in Slots : merge[k].pc = "rollback" \/ (merge[k].pc = "delete" /\ i \in merge[k].page)

ApartUntilCrossed ==
    served /\ ~crossed =>
       /\ txn.open => Apart(txn.local, txn.cache, chain)
       /\ \A d \in Drafts : \A i \in cache : local[d] \in Unsynced /\ Own(d, i, chain) => Between(i)

FeedInv ==
    /\ Typed /\ CallsSound /\ Unwritten(composer, sent, chain) /\ BothRowsSound
    /\ (~crossed => OneHolder) /\ ApartUntilCrossed

-----------------------------------------------------------------------------
LEMMA Basics ==
    ASSUME Typed
    PROVE  /\ indexed \in Nat /\ Len(chain) \in Nat /\ indexed =< Len(chain)
           /\ chain \in Seq(Texts \cup {Other}) /\ sent \in [Texts -> Nat] /\ Sizes
  <1>1. chain \in Seq(Texts \cup {Other}) /\ indexed \in 0 .. Len(chain) /\ sent \in [Texts -> Nat]
    BY DEF Typed, NetTyped
  <1> QED
    BY <1>1 DEF Typed

LEMMA FaultTyped == ASSUME Typed, Fault PROVE faults' \in 0 .. MaxFaults
  BY DEF Typed, Sizes, Fault

LEMMA NoTxnTyped == ASSUME NEW n PROVE NoTxn \in Txns(n) /\ ~NoTxn.open
  <1>1. [d \in Drafts |-> "none"] \in Rows
    BY DEF Rows
  <1> QED
    BY <1>1 DEF NoTxn, Txns

LEMMA IdleTyped ==
    ASSUME NEW n \in Nat
    PROVE  IdleMerge \in Merges(n) /\ IdleRun \in Calls(n) /\ IdleFeed \in Feeds
  <1>1. 0 \in 0 .. n /\ {} \in SUBSET (1 .. n) /\ {} \in SUBSET Drafts
    OBVIOUS
  <1> QED
    BY <1>1 DEF IdleMerge, IdleRun, IdleFeed, Merges, Calls, Feeds

LEMMA LeaveTyped ==
    ASSUME NEW l \in Rows, NEW ds
    PROVE  /\ Leave(l, ds) \in Rows
           /\ \A d \in Drafts : Leave(l, ds)[d] = IF d \in ds /\ l[d] \in Unsynced THEN "gone" ELSE l[d]
  <1>1. \A d \in Drafts : l[d] \in {"none", "gone"} \cup Unsynced
    BY DEF Rows
  <1> QED
    BY <1>1 DEF Leave, Rows

LEMMA MarkTyped ==
    ASSUME NEW l \in Rows, NEW d \in Drafts
    PROVE  /\ markPendingPostFailed(l, d) \in Rows
           /\ \A e \in Drafts : markPendingPostFailed(l, d)[e] = IF e = d /\ l[e] \in Unsynced THEN "failed" ELSE l[e]
  <1>1. \A e \in Drafts : l[e] \in {"none", "gone"} \cup Unsynced
    BY DEF Rows
  <1>2. \A e \in Drafts : markPendingPostFailed(l, d)[e] = IF e = d /\ l[e] \in Unsynced THEN "failed" ELSE l[e]
    BY DEF markPendingPostFailed, Rows
  <1>3. markPendingPostFailed(l, d) \in Rows
    BY <1>1 DEF markPendingPostFailed, Rows, Unsynced
  <1> QED
    BY <1>2, <1>3

LEMMA NextPostSound ==
    ASSUME NEW todo \in SUBSET Drafts, NEW w, NEW ch, NEW n \in Nat, \A d \in todo : w[d] # "writing"
    PROVE  /\ NextPost(todo) \in Calls(n) /\ CallSound(NextPost(todo), w, ch, n)
           /\ NextPost(todo).pc \in {"idle", "submit"}
  <1>1. NextPost(todo) = [pc |-> IF todo = {} THEN "idle" ELSE "submit", todo |-> todo,
                          post |-> None, id |-> 0, exists |-> FALSE]
    BY DEF NextPost, IdleRun
  <1>2. 0 \in 0 .. n
    OBVIOUS
  <1>3. NextPost(todo) \in Calls(n)
    BY <1>1, <1>2 DEF Calls
  <1>4. NextPost(todo).todo = todo /\ NextPost(todo).pc \in {"idle", "submit"}
    BY <1>1
  <1> QED
    BY <1>3, <1>4 DEF CallSound

\* What a start of syncPendingPosts does to the runs.
LEMMA StartRunSound ==
    ASSUME FeedInv, StartRun(local)
    PROVE  /\ calls' \in [Runs -> Calls(indexed)]
           /\ \A r \in Runs : CallSound(calls'[r], composer, chain, indexed)
           /\ \A r \in Runs : calls'[r] = calls[r] \/ calls'[r].pc \in {"idle", "submit"}
  <1> DEFINE todo == getPendingPosts(local)
  <1>1. todo \in SUBSET Drafts /\ \A d \in todo : composer[d] # "writing"
    BY DEF getPendingPosts, Unsynced, FeedInv, BothRowsSound, RowsSound
  <1>2. /\ NextPost(todo) \in Calls(indexed) /\ CallSound(NextPost(todo), composer, chain, indexed)
        /\ NextPost(todo).pc \in {"idle", "submit"}
    BY <1>1, NextPostSound, Basics DEF FeedInv
  <1>3. \/ calls' = calls
        \/ \E r \in Runs : calls' = [calls EXCEPT ![r] = NextPost(todo)]
    <2> DEFINE free == {r \in Runs : calls[r].pc = "idle"}
               x == CHOOSE x \in free : TRUE
    <2>1. CASE ~kit \/ todo = {} \/ free = {}
      BY <2>1 DEF StartRun
    <2>2. CASE ~(~kit \/ todo = {} \/ free = {})
      <3>1. x \in Runs
        BY <2>2
      <3>2. calls' = [calls EXCEPT ![x] = NextPost(todo)]
        BY <2>2 DEF StartRun
      <3> QED
        BY <3>1, <3>2
    <2> QED
      BY <2>1, <2>2
  <1> HIDE DEF todo
  <1>4. calls \in [Runs -> Calls(indexed)] /\ \A r \in Runs : CallSound(calls[r], composer, chain, indexed)
    BY DEF FeedInv, Typed, CallsSound
  <1> QED
    BY <1>2, <1>3, <1>4

-----------------------------------------------------------------------------
(***************************************************************************)
(* The steps.                                                              *)
(***************************************************************************)
\* A step that inserts, deletes and restores no row but synced ones it drops,
\* and begins and ends no transaction.
LEMMA QuietStep ==
    ASSUME FeedInv, Typed', Unwritten(composer', sent', chain),
           \A r \in Runs : CallSound(calls'[r], composer', chain, indexed),
           \A d \in Drafts : composer'[d] = "writing" <=> composer[d] = "writing",
           UNCHANGED <<chain, indexed, served, local, txn, caught>>, cache' \subseteq cache,
           ~crossed' => /\ ~crossed
                        /\ \A k \in Slots : MergeHolds(k)' => MergeHolds(k)
                        /\ \A r \in Runs : RunHolds(r)' => RunHolds(r)
                        /\ \A k \in Slots : merge[k].pc \in {"delete", "rollback"} =>
                              merge'[k] = merge[k] \/ merge'[k].pc = "rollback"
    PROVE  FeedInv'
  <1>1. CallsSound' /\ Unwritten(composer, sent, chain)'
    BY DEF CallsSound, Unwritten, Own
  <1>2. BothRowsSound'
    BY DEF FeedInv, BothRowsSound, RowsSound
  <1>3. ~crossed' => OneHolder'
    BY DEF FeedInv, OneHolder
  <1>4. ApartUntilCrossed'
    <2> SUFFICES ASSUME served, ~crossed'
                 PROVE  /\ txn.open => Apart(txn.local, txn.cache, chain)
                        /\ \A d \in Drafts : \A i \in cache' :
                              local[d] \in Unsynced /\ Own(d, i, chain) => Between(i)'
      BY DEF ApartUntilCrossed, Apart, Own
    <2>1. /\ txn.open => Apart(txn.local, txn.cache, chain)
          /\ \A d \in Drafts : \A i \in cache' : local[d] \in Unsynced /\ Own(d, i, chain) => Between(i)
      BY DEF FeedInv, ApartUntilCrossed
    <2>2. ASSUME NEW i, Between(i) PROVE Between(i)'
      BY <2>2 DEF Between
    <2> QED
      BY <2>1, <2>2
  <1> QED
    BY <1>1, <1>2, <1>3, <1>4 DEF FeedInv

LEMMA MergeTyped ==
    ASSUME Typed, NEW k \in Slots, NEW m \in Merges(indexed), merge' = [merge EXCEPT ![k] = m]
    PROVE  /\ merge' \in [Slots -> Merges(indexed)] /\ merge'[k] = m
           /\ \A j \in Slots : j # k => merge'[j] = merge[j]
  BY DEF Typed

LEMMA CallTyped ==
    ASSUME FeedInv, NEW r \in Runs, NEW c \in Calls(indexed), CallSound(c, composer, chain, indexed),
           calls' = [calls EXCEPT ![r] = c]
    PROVE  /\ calls' \in [Runs -> Calls(indexed)] /\ calls'[r] = c
           /\ \A q \in Runs : q # r => calls'[q] = calls[q]
           /\ \A q \in Runs : CallSound(calls'[q], composer, chain, indexed)
  BY DEF FeedInv, Typed, CallsSound

LEMMA FeedStarts == ASSUME FeedInit PROVE FeedInv
  <1>1. Sizes
    BY OfflineFeedAssumption DEF Sizes
  <1>2. chain \in Seq(Texts \cup {Other}) /\ Len(chain) = Earlier
    BY <1>1 DEF FeedInit, Sizes
  <1>3. indexed = Earlier /\ sent \in [Texts -> Nat] /\ \A t \in Texts : sent[t] = 0
    BY DEF FeedInit
  <1>4. NetTyped(chain, sent, indexed)
    BY <1>1, <1>2, <1>3 DEF NetTyped, Sizes
  <1>5. local \in Rows /\ \A d \in Drafts : local[d] = "none"
    BY DEF FeedInit, Rows
  <1>6. txn \in Txns(indexed) /\ ~txn.open
    BY NoTxnTyped DEF FeedInit
  <1>7. /\ composer \in [Drafts -> {"writing", "starting", "left"}]
        /\ \A d \in Drafts : composer[d] = "writing"
    BY DEF FeedInit
  <1>8. indexed \in Nat
    BY <1>1, <1>3 DEF Sizes
  <1>9. feed \in Feeds /\ merge \in [Slots -> Merges(indexed)] /\ calls \in [Runs -> Calls(indexed)]
    BY <1>8, IdleTyped DEF FeedInit
  <1>10. Typed
    <2>1. /\ served \in BOOLEAN /\ kit \in BOOLEAN /\ cache \in SUBSET (1 .. indexed)
          /\ caught \in SUBSET Drafts /\ crossed \in BOOLEAN
      BY DEF FeedInit
    <2>2. faults \in 0 .. MaxFaults
      BY <1>1 DEF FeedInit, Sizes
    <2> QED
      BY <1>1, <1>4, <1>5, <1>6, <1>7, <1>9, <2>1, <2>2 DEF Typed
  <1>11. (\A k \in Slots : merge[k].pc = "idle") /\ \A r \in Runs : calls[r].pc = "idle" /\ calls[r].todo = {}
    BY DEF FeedInit, IdleMerge, IdleRun
  <1>12. CallsSound
    BY <1>11 DEF CallsSound, CallSound
  <1>13. Unwritten(composer, sent, chain)
    BY <1>1, <1>2, <1>3 DEF Unwritten, Own, Sizes
  <1>14. BothRowsSound
    BY <1>5, <1>6, <1>7 DEF BothRowsSound, RowsSound
  <1>15. OneHolder
    BY <1>11 DEF OneHolder, MergeHolds, RunHolds
  <1>16. ApartUntilCrossed
    BY <1>5, <1>6 DEF ApartUntilCrossed, Unsynced
  <1> QED
    BY <1>10, <1>12, <1>13, <1>14, <1>15, <1>16 DEF FeedInv

LEMMA ComposeStep == ASSUME FeedInv, NEW d \in Drafts, Compose(d) PROVE FeedInv'
  <1>1. /\ composer[d] = "writing" /\ composer' = [composer EXCEPT ![d] = "starting"]
        /\ local' = [local EXCEPT ![d] = "pending"]
        /\ caught' = IF txn.open THEN caught \cup {d} ELSE caught
        /\ UNCHANGED <<chain, sent, indexed, served, kit, cache, txn, crossed, feed, merge, calls, faults>>
    BY DEF Compose, net, setting
  <1>2. local' \in Rows /\ \A e \in Drafts : local'[e] = IF e = d THEN "pending" ELSE local[e]
    BY <1>1 DEF FeedInv, Typed, Rows, Unsynced
  <1>3. /\ composer' \in [Drafts -> {"writing", "starting", "left"}]
        /\ \A e \in Drafts : composer'[e] = IF e = d THEN "starting" ELSE composer[e]
    BY <1>1 DEF FeedInv, Typed
  <1>4. Typed'
    BY <1>1, <1>2, <1>3 DEF FeedInv, Typed, Sizes
  <1>5. CallsSound'
    <2> SUFFICES ASSUME NEW r \in Runs PROVE CallSound(calls[r], composer', chain, indexed)
      BY <1>1 DEF CallsSound
    <2>1. CallSound(calls[r], composer, chain, indexed) /\ calls[r].todo \subseteq Drafts
      BY DEF FeedInv, CallsSound, Typed, Calls
    <2> QED
      BY <1>3, <2>1 DEF CallSound
  <1>6. Unwritten(composer, sent, chain)'
    BY <1>1, <1>3 DEF FeedInv, Unwritten, Own
  <1>7. BothRowsSound'
    BY <1>1, <1>2, <1>3 DEF FeedInv, BothRowsSound, RowsSound
  <1>8. ~crossed' => OneHolder'
    BY <1>1 DEF FeedInv, OneHolder, MergeHolds, RunHolds
  <1>9. ApartUntilCrossed'
    <2>1. \A i \in cache : ~Own(d, i, chain)
      <3>1. \A i \in cache : i \in 1 .. Len(chain)
        BY Basics DEF FeedInv, Typed
      <3> QED
        BY <1>1, <3>1 DEF FeedInv, Unwritten, Own
    <2>2. \A i \in cache : Between(i)' <=> Between(i)
      BY <1>1 DEF Between
    <2> QED
      BY <1>1, <1>2, <2>1, <2>2 DEF FeedInv, ApartUntilCrossed, Apart, Own, Sole
  <1> QED
    BY <1>4, <1>5, <1>6, <1>7, <1>8, <1>9 DEF FeedInv

LEMMA StartComposedStep == ASSUME FeedInv, NEW d \in Drafts, StartComposed(d) PROVE FeedInv'
  <1>1. /\ composer[d] = "starting" /\ composer' = [composer EXCEPT ![d] = "left"] /\ StartRun(local)
        /\ UNCHANGED <<chain, sent, indexed, served, kit, local, cache, txn, caught, crossed, feed, merge, faults>>
    BY DEF StartComposed, net, setting, tables, history
  <1>2. /\ composer' \in [Drafts -> {"writing", "starting", "left"}]
        /\ \A e \in Drafts : composer'[e] = "writing" <=> composer[e] = "writing"
    BY <1>1 DEF FeedInv, Typed
  <1>3. /\ calls' \in [Runs -> Calls(indexed)]
        /\ \A r \in Runs : CallSound(calls'[r], composer, chain, indexed)
        /\ \A r \in Runs : calls'[r] = calls[r] \/ calls'[r].pc \in {"idle", "submit"}
    BY <1>1, StartRunSound
  <1>4. Typed'
    BY <1>1, <1>2, <1>3 DEF FeedInv, Typed, Sizes
  <1>5. Unwritten(composer', sent', chain)
    BY <1>1, <1>2 DEF FeedInv, Unwritten
  <1>6. \A r \in Runs : CallSound(calls'[r], composer', chain, indexed)
    <2> TAKE r \in Runs
    <2>1. CallSound(calls'[r], composer, chain, indexed) /\ calls'[r].todo \subseteq Drafts
      BY <1>3 DEF Calls
    <2> QED
      BY <1>2, <2>1 DEF CallSound
  <1> QED
    BY <1>1, <1>2, <1>3, <1>4, <1>5, <1>6, QuietStep DEF MergeHolds, RunHolds

LEMMA PageTyped ==
    ASSUME Typed, NEW offset
    PROVE  Page(offset) \in SUBSET (1 .. indexed) /\ AuthorPage \in SUBSET (1 .. indexed)
  BY DEF Page, AuthorPage

\* A page is answered, to the feed or to another screen.
LEMMA StartMergeKeeps ==
    ASSUME FeedInv, NEW page \in SUBSET (1 .. indexed), NEW evict \in BOOLEAN, NEW home \in BOOLEAN,
           StartMerge(page, evict, home) \/ UNCHANGED merge
    PROVE  /\ merge' \in [Slots -> Merges(indexed)]
           /\ \A k \in Slots : merge'[k] = merge[k] \/ (merge[k].pc = "idle" /\ merge'[k].pc = "begin")
  <1>1. CASE UNCHANGED merge
    BY <1>1 DEF FeedInv, Typed
  <1>2. CASE StartMerge(page, evict, home)
    <2> DEFINE m == [pc |-> "begin", page |-> page, evict |-> evict, home |-> home]
    <2>1. PICK k \in Slots : merge[k].pc = "idle" /\ merge' = [merge EXCEPT ![k] = m]
      BY <1>2 DEF StartMerge
    <2>2. m \in Merges(indexed) /\ m.pc = "begin"
      BY DEF Merges
    <2> HIDE DEF m
    <2> QED
      BY <2>1, <2>2, MergeTyped DEF FeedInv
  <1> QED
    BY <1>1, <1>2

LEMMA FetchStep == ASSUME FeedInv, Refresh \/ LoadMore \/ OpenScreen PROVE FeedInv'
  <1>1. PICK page \in SUBSET (1 .. indexed), evict \in BOOLEAN, home \in BOOLEAN :
           StartMerge(page, evict, home) \/ UNCHANGED merge
    <2>1. Page(0) \in SUBSET (1 .. indexed) /\ \A offset \in 0 .. indexed : Page(offset) \in SUBSET (1 .. indexed)
      BY PageTyped DEF FeedInv
    <2>2. CASE Refresh
      BY <2>1, <2>2 DEF Refresh, Fetched
    <2>3. CASE LoadMore
      BY <2>1, <2>3 DEF LoadMore, Fetched
    <2>4. CASE OpenScreen
      <3>1. \A page \in {{i} : i \in (1 .. indexed) \ cache} \cup {AuthorPage, {}} : page \in SUBSET (1 .. indexed)
        BY PageTyped DEF FeedInv
      <3> QED
        BY <2>4, <3>1 DEF OpenScreen
    <2> QED
      BY <2>2, <2>3, <2>4
  <1>2. /\ UNCHANGED <<chain, sent, indexed, served, kit, local, cache, txn, composer, caught, crossed, calls, faults>>
        /\ feed' \in Feeds
    <2>1. CASE Refresh \/ LoadMore
      <3>0. Page(0) \in SUBSET (1 .. indexed) /\ \A offset \in 0 .. indexed : Page(offset) \in SUBSET (1 .. indexed)
        BY PageTyped DEF FeedInv
      <3>1. PICK more \in BOOLEAN, pg \in SUBSET (1 .. indexed) : Fetched(more, pg)
        BY <2>1, <3>0 DEF Refresh, LoadMore
      <3>2. \E step \in {"merge", "reload"} : feed' = [pc |-> step, more |-> more]
        BY <3>1 DEF Fetched
      <3>3. feed' \in Feeds
        BY <3>1, <3>2 DEF Feeds
      <3> QED
        BY <3>1, <3>3 DEF Fetched, net, setting, tables, history
    <2>2. CASE OpenScreen
      BY <2>2 DEF OpenScreen, FeedInv, Typed, net, setting, tables, history
    <2> QED
      BY <2>1, <2>2
  <1>3. /\ merge' \in [Slots -> Merges(indexed)]
        /\ \A k \in Slots : merge'[k] = merge[k] \/ (merge[k].pc = "idle" /\ merge'[k].pc = "begin")
    BY <1>1, StartMergeKeeps
  <1>4. Typed'
    BY <1>2, <1>3 DEF FeedInv, Typed, Sizes
  <1>5. /\ Unwritten(composer', sent', chain)
        /\ \A r \in Runs : CallSound(calls'[r], composer', chain, indexed)
    BY <1>2 DEF FeedInv, Unwritten, CallsSound
  <1> QED
    BY <1>2, <1>3, <1>4, <1>5, QuietStep DEF MergeHolds, RunHolds

LEMMA EvictedSubset == ASSUME NEW c, NEW cutoff PROVE Evicted(c, cutoff) \subseteq c
  BY DEF Evicted

LEMMA DropStep == ASSUME FeedInv, Reload \/ SyncFails \/ EvictStale \/ DeletePost PROVE FeedInv'
  <1>1. /\ cache' \subseteq cache
        /\ UNCHANGED <<chain, sent, indexed, served, kit, local, txn, composer, caught, crossed, merge>>
    BY EvictedSubset DEF Reload, SyncFails, EvictStale, DeletePost, net, setting, history
  <1>2. feed' \in Feeds
    BY IdleTyped, Basics DEF FeedInv, Typed, Reload, SyncFails, EvictStale, DeletePost
  <1>3. faults' \in 0 .. MaxFaults
    BY FaultTyped DEF FeedInv, Typed, Reload, SyncFails, EvictStale, DeletePost
  <1>4. /\ calls' \in [Runs -> Calls(indexed)]
        /\ \A r \in Runs : CallSound(calls'[r], composer, chain, indexed)
        /\ \A r \in Runs : calls'[r] = calls[r] \/ calls'[r].pc \in {"idle", "submit"}
    <2>1. CASE Reload
      BY <2>1, StartRunSound DEF Reload
    <2>2. CASE UNCHANGED calls
      BY <2>2 DEF FeedInv, Typed, CallsSound
    <2> QED
      BY <2>1, <2>2 DEF SyncFails, EvictStale, DeletePost
  <1>5. Typed'
    BY <1>1, <1>2, <1>3, <1>4 DEF FeedInv, Typed, Sizes
  <1>6. Unwritten(composer', sent', chain)
    BY <1>1 DEF FeedInv, Unwritten
  <1> QED
    BY <1>1, <1>4, <1>5, <1>6, QuietStep DEF MergeHolds, RunHolds

-----------------------------------------------------------------------------
(***************************************************************************)
(* A caller's transaction.                                                 *)
(***************************************************************************)
\* The next state of a call, as a record of the right shape.
LEMMA MergeNext ==
    ASSUME Typed, NEW k \in Slots, NEW step \in {"upsert", "delete", "evict", "commit", "rollback"},
           merge' = Ends(k, step) \/ merge' = [merge EXCEPT ![k].pc = step]
    PROVE  /\ merge' \in [Slots -> Merges(indexed)] /\ merge'[k].pc = step
           /\ \A j \in Slots : j # k => merge'[j] = merge[j]
           /\ merge' = [merge EXCEPT ![k].pc = step] => merge'[k].page = merge[k].page
  <1>1. merge[k] \in Merges(indexed) /\ IdleMerge \in Merges(indexed)
    BY Basics, IdleTyped DEF Typed
  <1> DEFINE m == [IdleMerge EXCEPT !.pc = step, !.home = merge[k].home]
             n == [merge[k] EXCEPT !.pc = step]
  <1>2. m \in Merges(indexed) /\ m.pc = step /\ n \in Merges(indexed) /\ n.pc = step /\ n.page = merge[k].page
    BY <1>1 DEF Merges
  <1>3. merge' = [merge EXCEPT ![k] = m] \/ merge' = [merge EXCEPT ![k] = n]
    BY DEF Ends, Typed
  <1>4. merge' = [merge EXCEPT ![k].pc = step] => merge' = [merge EXCEPT ![k] = n]
    BY DEF Typed
  <1> HIDE DEF m, n
  <1> QED
    BY <1>2, <1>3, <1>4, MergeTyped

LEMMA MergeFailsStep ==
    ASSUME FeedInv, NEW k \in Slots, BeginMergeFails(k) \/ StatementFails(k) \/ EvictOthers(k)
    PROVE  FeedInv'
  <1>1. /\ UNCHANGED <<chain, sent, indexed, served, kit, local, txn, composer, caught, feed, calls>>
        /\ cache' \subseteq cache
    BY DEF BeginMergeFails, StatementFails, EvictOthers, net, setting, tables, history
  <1>2. faults' \in 0 .. MaxFaults /\ crossed' \in BOOLEAN
    BY FaultTyped DEF FeedInv, Typed, BeginMergeFails, StatementFails, EvictOthers, history
  <1>3. \E step \in {"commit", "rollback"} : merge' = Ends(k, step) /\ (merge[k].pc = "delete" => step = "rollback")
    BY DEF BeginMergeFails, StatementFails, EvictOthers
  <1>4. PICK step \in {"commit", "rollback"} :
           /\ merge' \in [Slots -> Merges(indexed)] /\ merge'[k].pc = step
           /\ \A j \in Slots : j # k => merge'[j] = merge[j]
           /\ merge[k].pc = "delete" => step = "rollback"
    BY <1>3, MergeNext DEF FeedInv
  <1>5. Typed'
    BY <1>1, <1>2, <1>4 DEF FeedInv, Typed, Sizes
  <1>6. /\ Unwritten(composer', sent', chain)
        /\ \A r \in Runs : CallSound(calls'[r], composer', chain, indexed)
    BY <1>1 DEF FeedInv, Unwritten, CallsSound
  <1>7. ~crossed' => ~crossed /\ MergeHolds(k) /\ merge[k].pc # "rollback"
    BY DEF BeginMergeFails, StatementFails, EvictOthers, MergeHolds, history
  <1> QED
    BY <1>1, <1>4, <1>5, <1>6, <1>7, QuietStep DEF MergeHolds, RunHolds

\* A transaction begins: whoever holds it is alone if nobody crossed.
LEMMA BeginTyped ==
    ASSUME FeedInv, Begin
    PROVE  txn' \in Txns(indexed) /\ txn'.open /\ txn'.local = local /\ txn'.cache = cache /\ ~txn.open
  <1>1. txn' = [open |-> TRUE, local |-> local, cache |-> cache] /\ ~txn.open
    BY DEF Begin
  <1>2. local \in Rows /\ cache \in SUBSET (1 .. indexed)
    BY DEF FeedInv, Typed
  <1> QED
    BY <1>1, <1>2 DEF Txns

LEMMA ClosedApart ==
    ASSUME FeedInv, ~txn.open, ~crossed, served PROVE Apart(local, cache, chain)
  <1>1. \A k \in Slots : ~MergeHolds(k)
    BY DEF FeedInv, OneHolder
  <1>2. \A i : ~Between(i)
    BY <1>1 DEF MergeHolds, Between
  <1> QED
    BY <1>2 DEF FeedInv, ApartUntilCrossed, Apart

LEMMA BeginStep ==
    ASSUME FeedInv, Begin, Typed', CallsSound', UNCHANGED <<chain, sent, indexed, served, local, cache, composer, caught, crossed>>,
           \A k \in Slots : merge[k].pc \in {"delete", "rollback"} => merge'[k] = merge[k],
           ~crossed => OneHolder'
    PROVE  FeedInv'
  <1>1. txn'.open /\ txn'.local = local /\ txn'.cache = cache /\ ~txn.open
    BY BeginTyped
  <1>2. Unwritten(composer, sent, chain)'
    BY DEF FeedInv, Unwritten, Own
  <1>3. BothRowsSound'
    BY <1>1 DEF FeedInv, BothRowsSound, RowsSound
  <1>4. ApartUntilCrossed'
    <2> SUFFICES ASSUME served, ~crossed PROVE ApartUntilCrossed'
      BY DEF ApartUntilCrossed
    <2>1. Apart(local, cache, chain)
      BY <1>1, ClosedApart
    <2> QED
      BY <1>1, <2>1 DEF ApartUntilCrossed, Apart, Own
  <1> QED
    BY <1>2, <1>3, <1>4 DEF FeedInv

LEMMA BeginMergeStep == ASSUME FeedInv, NEW k \in Slots, BeginMerge(k) PROVE FeedInv'
  <1>1. /\ merge[k].pc = "begin" /\ Begin
        /\ UNCHANGED <<chain, sent, indexed, served, kit, local, cache, composer, caught, crossed, feed, calls, faults>>
    BY DEF BeginMerge, net, setting, tables, history
  <1>2. PICK step \in {"upsert", "commit"} : merge' = Ends(k, step) \/ merge' = [merge EXCEPT ![k].pc = step]
    BY DEF BeginMerge
  <1>3. /\ merge' \in [Slots -> Merges(indexed)] /\ merge'[k].pc \in {"upsert", "commit"}
        /\ \A j \in Slots : j # k => merge'[j] = merge[j]
    BY <1>2, MergeNext DEF FeedInv
  <1>4. txn' \in Txns(indexed) /\ txn'.open /\ ~txn.open
    BY <1>1, BeginTyped
  <1>5. Typed'
    BY <1>1, <1>3, <1>4 DEF FeedInv, Typed, Sizes
  <1>6. ~crossed => OneHolder'
    BY <1>1, <1>3, <1>4 DEF FeedInv, OneHolder, MergeHolds, RunHolds
  <1>7. CallsSound'
    BY <1>1 DEF FeedInv, CallsSound
  <1> QED
    BY <1>1, <1>3, <1>5, <1>6, <1>7, BeginStep

LEMMA UpsertStep == ASSUME FeedInv, NEW k \in Slots, UpsertPage(k) PROVE FeedInv'
  <1>1. /\ merge[k].pc = "upsert" /\ cache' = cache \cup merge[k].page
        /\ merge' = [merge EXCEPT ![k].pc = "delete"]
        /\ UNCHANGED <<chain, sent, indexed, served, kit, local, txn, composer, caught, crossed, feed, calls, faults>>
    BY DEF UpsertPage, net, setting, history
  <1>2. /\ merge' \in [Slots -> Merges(indexed)] /\ merge'[k].pc = "delete" /\ merge'[k].page = merge[k].page
        /\ \A j \in Slots : j # k => merge'[j] = merge[j]
    BY <1>1, MergeNext DEF FeedInv
  <1>3. merge[k].page \in SUBSET (1 .. indexed)
    BY DEF FeedInv, Typed, Merges
  <1>4. Typed'
    BY <1>1, <1>2, <1>3 DEF FeedInv, Typed, Sizes
  <1>5. CallsSound' /\ Unwritten(composer, sent, chain)'
    BY <1>1 DEF FeedInv, CallsSound, Unwritten, Own
  <1>6. BothRowsSound'
    BY <1>1 DEF FeedInv, BothRowsSound, RowsSound
  <1>7. ~crossed' => OneHolder'
    BY <1>1, <1>2 DEF FeedInv, OneHolder, MergeHolds, RunHolds
  <1>8. ApartUntilCrossed'
    <2>1. ASSUME NEW i, Between(i) PROVE Between(i)'
      BY <1>1, <1>2, <2>1 DEF Between
    <2>2. \A i \in merge[k].page : Between(i)'
      BY <1>2 DEF Between
    <2> QED
      BY <1>1, <2>1, <2>2 DEF FeedInv, ApartUntilCrossed, Apart, Own
  <1> QED
    BY <1>4, <1>5, <1>6, <1>7, <1>8 DEF FeedInv

LEMMA DeleteStep == ASSUME FeedInv, NEW k \in Slots, DeleteSuperseded(k) PROVE FeedInv'
  <1> DEFINE page == merge[k].page
  <1>1. /\ merge[k].pc = "delete" /\ local' = Leave(local, Superseded(page))
        /\ UNCHANGED <<chain, sent, indexed, served, kit, cache, txn, composer, caught, crossed, feed, calls, faults>>
    BY DEF DeleteSuperseded, net, setting, history
  <1>2. PICK step \in {"evict", "commit"} : merge' = Ends(k, step) \/ merge' = [merge EXCEPT ![k].pc = step]
    BY DEF DeleteSuperseded
  <1>3. /\ merge' \in [Slots -> Merges(indexed)] /\ merge'[k].pc \in {"evict", "commit"}
        /\ \A j \in Slots : j # k => merge'[j] = merge[j]
    BY <1>2, MergeNext DEF FeedInv
  <1>4. /\ local' \in Rows
        /\ \A d \in Drafts : local'[d] = IF d \in Superseded(page) /\ local[d] \in Unsynced THEN "gone" ELSE local[d]
    BY <1>1, LeaveTyped DEF FeedInv, Typed
  <1>5. page \in SUBSET (1 .. indexed)
    BY DEF FeedInv, Typed, Merges
  <1>6. Typed'
    BY <1>1, <1>3, <1>4 DEF FeedInv, Typed, Sizes
  <1>7. CallsSound' /\ Unwritten(composer, sent, chain)'
    BY <1>1 DEF FeedInv, CallsSound, Unwritten, Own
  <1>8. BothRowsSound'
    <2>1. \A d \in Superseded(page) : \E i \in 1 .. indexed : chain[i] = Text[d]
      BY <1>5 DEF Superseded
    <2>2. RowsSound(local', composer, caught, chain, indexed)
      BY <1>4, <2>1 DEF FeedInv, BothRowsSound, RowsSound, Unsynced
    <2> QED
      BY <1>1, <2>2 DEF FeedInv, BothRowsSound, RowsSound
  <1>9. ~crossed' => OneHolder'
    BY <1>1, <1>3 DEF FeedInv, OneHolder, MergeHolds, RunHolds
  <1>10. ApartUntilCrossed'
    <2> SUFFICES ASSUME served, ~crossed,
                        NEW d \in Drafts, NEW i \in cache, local'[d] \in Unsynced, Own(d, i, chain)
                 PROVE  FALSE
      BY <1>1 DEF FeedInv, ApartUntilCrossed, Apart, Own
    <2>1. local[d] \in Unsynced /\ d \notin Superseded(page)
      BY <1>4 DEF Unsynced
    <2>2. PICK j \in Slots : merge[j].pc = "rollback" \/ (merge[j].pc = "delete" /\ i \in merge[j].page)
      BY <2>1 DEF FeedInv, ApartUntilCrossed, Between
    <2>3. j = k
      BY <1>1, <2>2 DEF FeedInv, OneHolder, MergeHolds
    <2>4. i \in page /\ chain[i] = Text[d]
      BY <1>1, <2>2, <2>3 DEF Own
    <2> QED
      BY <2>1, <2>4 DEF Superseded
  <1> QED
    BY <1>6, <1>7, <1>8, <1>9, <1>10 DEF FeedInv

\* A COMMIT makes the tables durable.
LEMMA CommitStep ==
    ASSUME FeedInv, Commit, Typed', CallsSound',
           UNCHANGED <<chain, sent, indexed, served, local, cache, composer, caught, crossed>>,
           \A k \in Slots : merge[k].pc \in {"delete", "rollback"} => merge'[k] = merge[k],
           ~crossed => \A k \in Slots : ~MergeHolds(k)', ~crossed => \A r \in Runs : ~RunHolds(r)'
    PROVE  FeedInv'
  <1>1. ~txn'.open
    BY NoTxnTyped DEF Commit
  <1>2. Unwritten(composer, sent, chain)'
    BY DEF FeedInv, Unwritten, Own
  <1>3. BothRowsSound'
    BY <1>1 DEF FeedInv, BothRowsSound, RowsSound
  <1>4. ApartUntilCrossed'
    <2>1. ASSUME NEW i, Between(i) PROVE Between(i)'
      BY <2>1 DEF Between
    <2> QED
      BY <1>1, <2>1 DEF FeedInv, ApartUntilCrossed, Apart, Own
  <1>5. ~crossed' => OneHolder'
    BY DEF OneHolder
  <1> QED
    BY <1>2, <1>3, <1>4, <1>5 DEF FeedInv

LEMMA IdleMergeNext ==
    ASSUME Typed, NEW k \in Slots, merge' = [merge EXCEPT ![k] = IdleMerge]
    PROVE  /\ merge' \in [Slots -> Merges(indexed)] /\ merge'[k].pc = "idle"
           /\ \A j \in Slots : j # k => merge'[j] = merge[j]
  <1>1. IdleMerge \in Merges(indexed) /\ IdleMerge.pc = "idle"
    BY Basics, IdleTyped DEF IdleMerge
  <1> QED
    BY <1>1, MergeTyped

LEMMA CommitMergeStep == ASSUME FeedInv, NEW k \in Slots, CommitMerge(k) PROVE FeedInv'
  <1>1. /\ merge[k].pc = "commit" /\ Commit /\ merge' = [merge EXCEPT ![k] = IdleMerge]
        /\ feed' = IF merge[k].home THEN [feed EXCEPT !.pc = "reload"] ELSE feed
        /\ UNCHANGED <<chain, sent, indexed, served, kit, local, cache, composer, caught, crossed, calls, faults>>
    BY DEF CommitMerge, net, setting, tables, history
  <1>2. /\ merge' \in [Slots -> Merges(indexed)] /\ merge'[k].pc = "idle"
        /\ \A j \in Slots : j # k => merge'[j] = merge[j]
    BY <1>1, IdleMergeNext DEF FeedInv
  <1>3. feed' \in Feeds
    BY <1>1 DEF FeedInv, Typed, Feeds
  <1>4. txn' \in Txns(indexed)
    BY <1>1, NoTxnTyped DEF Commit
  <1>5. Typed'
    BY <1>1, <1>2, <1>3, <1>4 DEF FeedInv, Typed, Sizes
  <1>6. CallsSound'
    BY <1>1 DEF FeedInv, CallsSound
  <1>7. ~crossed => (\A j \in Slots : ~MergeHolds(j)') /\ \A r \in Runs : ~RunHolds(r)'
    BY <1>1, <1>2 DEF FeedInv, OneHolder, MergeHolds, RunHolds
  <1> QED
    BY <1>1, <1>2, <1>5, <1>6, <1>7, CommitStep

\* A ROLLBACK restores the tables of the last BEGIN, if a transaction is open.
LEMMA RollbackTyped ==
    ASSUME FeedInv, Rollback
    PROVE  /\ local' \in Rows /\ cache' \in SUBSET (1 .. indexed) /\ txn' \in Txns(indexed) /\ ~txn'.open
           /\ RowsSound(local', composer, caught, chain, indexed)
           /\ served /\ ~crossed => Apart(local', cache', chain)
  <1>1. txn \in Txns(indexed) /\ local \in Rows /\ cache \in SUBSET (1 .. indexed)
    BY DEF FeedInv, Typed
  <1>2. local' = (IF txn.open THEN txn.local ELSE local) /\ cache' = IF txn.open THEN txn.cache ELSE cache
    BY DEF Rollback
  <1>3. local' \in Rows /\ cache' \in SUBSET (1 .. indexed)
    BY <1>1, <1>2 DEF Txns
  <1>4. txn' \in Txns(indexed) /\ ~txn'.open
    BY NoTxnTyped DEF Rollback
  <1>5. RowsSound(local', composer, caught, chain, indexed)
    BY <1>2 DEF FeedInv, BothRowsSound
  <1>6. served /\ ~crossed => Apart(local', cache', chain)
    BY <1>2, ClosedApart DEF FeedInv, ApartUntilCrossed
  <1> QED
    BY <1>3, <1>4, <1>5, <1>6

LEMMA RollbackStep ==
    ASSUME FeedInv, Rollback, Typed', CallsSound', UNCHANGED <<chain, sent, indexed, served, caught, crossed>>,
           \A d \in Drafts : composer'[d] = "writing" <=> composer[d] = "writing",
           ~crossed => \A k \in Slots : ~MergeHolds(k)', ~crossed => \A r \in Runs : ~RunHolds(r)'
    PROVE  FeedInv'
  <1>1. /\ ~txn'.open /\ RowsSound(local', composer, caught, chain, indexed)
        /\ served /\ ~crossed => Apart(local', cache', chain)
    BY RollbackTyped
  <1>2. Unwritten(composer, sent, chain)'
    BY DEF FeedInv, Unwritten, Own
  <1>3. BothRowsSound'
    BY <1>1 DEF BothRowsSound, RowsSound
  <1>4. ApartUntilCrossed'
    BY <1>1 DEF ApartUntilCrossed, Apart, Own
  <1>5. ~crossed' => OneHolder'
    BY DEF OneHolder
  <1> QED
    BY <1>2, <1>3, <1>4, <1>5 DEF FeedInv

LEMMA RollbackMergeStep == ASSUME FeedInv, NEW k \in Slots, RollbackMerge(k) PROVE FeedInv'
  <1>1. /\ merge[k].pc = "rollback" /\ Rollback /\ merge' = [merge EXCEPT ![k] = IdleMerge]
        /\ feed' = IF merge[k].home THEN IdleFeed ELSE feed
        /\ UNCHANGED <<chain, sent, indexed, served, kit, composer, caught, crossed, calls, faults>>
    BY DEF RollbackMerge, net, setting, history
  <1>2. /\ merge' \in [Slots -> Merges(indexed)] /\ merge'[k].pc = "idle"
        /\ \A j \in Slots : j # k => merge'[j] = merge[j]
    BY <1>1, IdleMergeNext DEF FeedInv
  <1>3. feed' \in Feeds
    BY <1>1, IdleTyped, Basics DEF FeedInv, Typed
  <1>4. local' \in Rows /\ cache' \in SUBSET (1 .. indexed) /\ txn' \in Txns(indexed)
    BY <1>1, RollbackTyped
  <1>5. Typed'
    BY <1>1, <1>2, <1>3, <1>4 DEF FeedInv, Typed, Sizes
  <1>6. CallsSound'
    BY <1>1 DEF FeedInv, CallsSound
  <1>7. ~crossed => (\A j \in Slots : ~MergeHolds(j)') /\ \A r \in Runs : ~RunHolds(r)'
    BY <1>1, <1>2 DEF FeedInv, OneHolder, MergeHolds, RunHolds
  <1> QED
    BY <1>1, <1>5, <1>6, <1>7, RollbackStep

-----------------------------------------------------------------------------
(***************************************************************************)
(* A run of syncPendingPosts.                                              *)
(***************************************************************************)
LEMMA Least ==
    ASSUME NEW S \in SUBSET Nat, S # {}
    PROVE  \E x \in S : \A y \in S : x =< y
  <1> DEFINE R == OpToRel(<, Nat)
  <1>1. IsWellFoundedOn(R, Nat)
    BY NatLessThanWellFounded
  <1>2. \A x, y \in Nat : <<y, x>> \in R <=> y < x
    BY DEF OpToRel
  <1> HIDE DEF R
  <1>3. PICK x \in S : \A y \in S : ~(<<y, x>> \in R)
    BY <1>1, WFMin
  <1>4. x \in Nat /\ \A y \in S : y \in Nat
    OBVIOUS
  <1>5. ASSUME NEW y \in S PROVE x =< y
    <2>1. ~(y < x)
      BY <1>2, <1>3, <1>4, Zenon
    <2> QED
      BY <1>4, <2>1
  <1> QED
    BY <1>5

LEMMA MaxOf ==
    ASSUME NEW S \in SUBSET Nat, S # {}, NEW n \in Nat, \A x \in S : x =< n
    PROVE  Max(S) \in S /\ \A y \in S : y =< Max(S)
  <1> DEFINE T == {n - x : x \in S}
  <1>1. \A x \in S : x \in Nat /\ n - x \in Nat
    OBVIOUS
  <1>2. T \in SUBSET Nat /\ T # {}
    BY <1>1
  <1>3. PICK t \in T : \A y \in T : t =< y
    BY <1>2, Least
  <1>4. PICK x \in S : t = n - x
    OBVIOUS
  <1>5. ASSUME NEW y \in S PROVE x >= y
    <2>1. n - x =< n - y
      BY <1>3, <1>4
    <2> QED
      BY <1>1, <2>1
  <1>6. \A y \in S : Max(S) >= y
    BY <1>5 DEF Max
  <1>7. Max(S) \in S
    BY <1>5 DEF Max
  <1> QED
    BY <1>1, <1>6, <1>7

LEMMA Greatest ==
    ASSUME NEW n \in Nat, NEW S \in SUBSET (1 .. n), S # {}
    PROVE  Max(S) \in S
  <1>1. S \in SUBSET Nat /\ \A x \in S : x =< n
    OBVIOUS
  <1> QED
    BY <1>1, MaxOf

LEMMA CallBasics ==
    ASSUME FeedInv, NEW r \in Runs
    PROVE  /\ calls[r] \in Calls(indexed) /\ CallSound(calls[r], composer, chain, indexed)
           /\ calls \in [Runs -> Calls(indexed)] /\ calls[r].todo \in SUBSET Drafts
  BY DEF FeedInv, Typed, CallsSound, Calls

\* A step of a run that touches only the run itself.
LEMMA CallStep ==
    ASSUME FeedInv, NEW r \in Runs, NEW c \in Calls(indexed), CallSound(c, composer, chain, indexed),
           calls' = [calls EXCEPT ![r] = c], c.pc \in {"swap", "commit", "rollback"} => RunHolds(r) \/ crossed',
           crossed => crossed', crossed' \in BOOLEAN, faults' \in 0 .. MaxFaults,
           sent' \in [Texts -> Nat], Unwritten(composer, sent', chain),
           UNCHANGED <<chain, indexed, served, kit, local, cache, txn, composer, caught, feed, merge>>
    PROVE  FeedInv'
  <1>1. /\ calls' \in [Runs -> Calls(indexed)] /\ calls'[r] = c
        /\ \A q \in Runs : q # r => calls'[q] = calls[q]
        /\ \A q \in Runs : CallSound(calls'[q], composer, chain, indexed)
    BY CallTyped
  <1>2. Typed'
    BY <1>1 DEF FeedInv, Typed, Sizes, NetTyped
  <1>3. ~crossed' => \A q \in Runs : RunHolds(q)' => RunHolds(q)
    BY <1>1 DEF RunHolds
  <1> QED
    BY <1>1, <1>2, <1>3, QuietStep DEF MergeHolds

LEMMA AcceptedTyped ==
    ASSUME FeedInv, NEW d \in Drafts, composer[d] # "writing"
    PROVE  Accepted(Text[d]) \in [Texts -> Nat] /\ Unwritten(composer, Accepted(Text[d]), chain)
  <1>1. Text[d] \in Texts /\ sent \in [Texts -> Nat] /\ \A e \in Drafts : Text[e] \in Texts
    BY Basics DEF FeedInv, Sizes
  <1>2. Accepted(Text[d]) = sent \/ Accepted(Text[d]) = [sent EXCEPT ![Text[d]] = @ + 1]
    BY DEF Accepted
  <1>3. Accepted(Text[d]) \in [Texts -> Nat] /\ \A t \in Texts : t # Text[d] => Accepted(Text[d])[t] = sent[t]
    <2> DEFINE s == Accepted(Text[d])
    <2>1. s = sent \/ s = [sent EXCEPT ![Text[d]] = @ + 1]
      BY <1>2
    <2> HIDE DEF s
    <2>2. s \in [Texts -> Nat] /\ \A t \in Texts : t # Text[d] => s[t] = sent[t]
      BY <1>1, <2>1
    <2> QED
      BY <2>2 DEF s
  <1>4. \A e \in Drafts : composer[e] = "writing" /\ Sole(e) => Text[d] # Text[e]
    BY DEF Sole
  <1> QED
    BY <1>1, <1>3, <1>4 DEF FeedInv, Unwritten

LEMMA SubmitStep == ASSUME FeedInv, NEW r \in Runs, Submit(r) \/ SubmitFails(r) PROVE FeedInv'
  <1>1. PICK d \in calls[r].todo, step \in {"poll", "mark"} :
           /\ sent' \in {sent, Accepted(Text[d])}
           /\ calls' = [calls EXCEPT ![r].pc = step, ![r].post = d, ![r].todo = @ \ {d}]
    BY DEF Submit, SubmitFails
  <1>2. /\ UNCHANGED <<chain, indexed, served, kit, local, cache, txn, composer, caught, crossed, feed, merge>>
        /\ faults' \in 0 .. MaxFaults
    BY FaultTyped DEF Submit, SubmitFails, setting, tables, history, FeedInv, Typed
  <1>3. d \in Drafts /\ composer[d] # "writing"
    BY <1>1, CallBasics DEF CallSound
  <1> DEFINE c == [calls[r] EXCEPT !.pc = step, !.post = d, !.todo = @ \ {d}]
  <1>4. c \in Calls(indexed) /\ c.pc = step /\ c.post = d /\ c.todo \subseteq calls[r].todo
    BY <1>3, CallBasics DEF Calls
  <1>5. CallSound(c, composer, chain, indexed)
    BY <1>3, <1>4, CallBasics DEF CallSound
  <1>6. calls' = [calls EXCEPT ![r] = c]
    BY <1>1, CallBasics
  <1>7. sent' \in [Texts -> Nat] /\ Unwritten(composer, sent', chain)
    BY <1>1, <1>3, AcceptedTyped, Basics DEF FeedInv
  <1>8. crossed' \in BOOLEAN
    BY <1>2 DEF FeedInv, Typed
  <1> HIDE DEF c
  <1> QED
    BY <1>2, <1>4, <1>5, <1>6, <1>7, <1>8, CallStep

LEMMA MatchesOwn ==
    ASSUME FeedInv, NEW d \in Drafts, Matches(d) # {}
    PROVE  Max(Matches(d)) \in 1 .. indexed /\ chain[Max(Matches(d))] = Text[d]
  <1>1. Matches(d) \in SUBSET (1 .. indexed) /\ \A i \in Matches(d) : chain[i] = Text[d]
    BY DEF Matches
  <1>2. Max(Matches(d)) \in Matches(d)
    BY <1>1, Basics, Greatest DEF FeedInv
  <1> QED
    BY <1>1, <1>2

\* The run finds its post, looks it up, gives up or fails.
LEMMA RunOnStep ==
    ASSUME FeedInv, NEW r \in Runs,
           PollFinds(r) \/ PollGivesUp(r) \/ ReadExists(r) \/ BeginSwapFails(r) \/ SwapFails(r) \/ MarkFails(r)
    PROVE  FeedInv'
  <1>1. UNCHANGED <<chain, sent, indexed, served, kit, local, cache, txn, composer, caught, feed, merge>>
    BY DEF PollFinds, PollGivesUp, ReadExists, BeginSwapFails, SwapFails, MarkFails, net, setting, tables, history
  <1>2. faults' \in 0 .. MaxFaults
    BY FaultTyped DEF PollFinds, PollGivesUp, ReadExists, BeginSwapFails, SwapFails, MarkFails, FeedInv, Typed
  <1>3. (crossed => crossed') /\ crossed' \in BOOLEAN
    BY DEF PollFinds, PollGivesUp, ReadExists, BeginSwapFails, SwapFails, MarkFails, history, FeedInv, Typed
  <1>4. PICK c : /\ c \in Calls(indexed) /\ CallSound(c, composer, chain, indexed)
                 /\ calls' = [calls EXCEPT ![r] = c]
                 /\ c.pc \in {"swap", "commit", "rollback"} => RunHolds(r) \/ crossed'
    <2>1. calls[r].pc \notin {"idle", "submit"} /\ calls[r].post \in Drafts /\ composer[calls[r].post] # "writing"
      BY CallBasics DEF PollFinds, PollGivesUp, ReadExists, BeginSwapFails, SwapFails, MarkFails, CallSound
    <2>2. CASE PollFinds(r)
      <3> DEFINE m == Max(Matches(calls[r].post))
                 c == [calls[r] EXCEPT !.pc = "read", !.id = m]
      <3>1. m \in 1 .. indexed /\ chain[m] = Text[calls[r].post]
        BY <2>1, <2>2, MatchesOwn DEF PollFinds
      <3>2. calls' = [calls EXCEPT ![r].pc = "read", ![r].id = m]
        BY <2>2 DEF PollFinds
      <3> HIDE DEF m
      <3>3. m \in 0 .. indexed
        BY <3>1, Basics DEF FeedInv
      <3>4. c \in Calls(indexed) /\ c.pc = "read" /\ c.post = calls[r].post /\ c.todo = calls[r].todo /\ c.id = m
        BY <3>3, CallBasics DEF Calls
      <3>5. CallSound(c, composer, chain, indexed)
        BY <2>1, <3>1, <3>4, CallBasics DEF CallSound
      <3>6. calls' = [calls EXCEPT ![r] = c]
        BY <3>2, CallBasics
      <3> HIDE DEF c
      <3> QED
        BY <3>4, <3>5, <3>6
    <2>3. CASE ReadExists(r)
      <3> DEFINE x == calls[r].id \in cache
                 c == [calls[r] EXCEPT !.pc = "begin", !.exists = x]
      <3>1. calls' = [calls EXCEPT ![r].pc = "begin", ![r].exists = x] /\ calls[r].pc = "read" /\ x \in BOOLEAN
        BY <2>3 DEF ReadExists
      <3> HIDE DEF x
      <3>2. /\ c \in Calls(indexed) /\ c.pc = "begin" /\ c.post = calls[r].post /\ c.todo = calls[r].todo
            /\ c.id = calls[r].id
        BY <3>1, CallBasics DEF Calls
      <3>3. CallSound(c, composer, chain, indexed)
        BY <2>1, <3>1, <3>2, CallBasics DEF CallSound
      <3>4. calls' = [calls EXCEPT ![r] = c]
        BY <3>1, CallBasics
      <3> HIDE DEF c
      <3> QED
        BY <3>2, <3>3, <3>4
    <2>4. CASE PollGivesUp(r)
      <3> DEFINE c == [calls[r] EXCEPT !.pc = "mark", !.id = 0, !.exists = FALSE]
      <3>1. 0 \in 0 .. indexed
        BY Basics DEF FeedInv
      <3>2. c \in Calls(indexed) /\ c.pc = "mark" /\ c.post = calls[r].post /\ c.todo = calls[r].todo
        BY <3>1, CallBasics DEF Calls
      <3>3. CallSound(c, composer, chain, indexed)
        BY <2>1, <3>2, CallBasics DEF CallSound
      <3>4. calls' = [calls EXCEPT ![r] = c]
        BY <2>4, CallBasics DEF PollGivesUp
      <3> HIDE DEF c
      <3> QED
        BY <3>2, <3>3, <3>4
    <2>5. CASE BeginSwapFails(r) \/ SwapFails(r)
      <3> DEFINE c == [calls[r] EXCEPT !.pc = "rollback"]
      <3>1. c \in Calls(indexed) /\ c.pc = "rollback" /\ c.post = calls[r].post /\ c.todo = calls[r].todo
        BY CallBasics DEF Calls
      <3>2. CallSound(c, composer, chain, indexed)
        BY <2>1, <3>1, CallBasics DEF CallSound
      <3>3. calls' = [calls EXCEPT ![r] = c]
        BY <2>5, CallBasics DEF BeginSwapFails, SwapFails
      <3>4. RunHolds(r) \/ crossed'
        BY <2>5 DEF BeginSwapFails, SwapFails, RunHolds
      <3> HIDE DEF c
      <3> QED
        BY <3>1, <3>2, <3>3, <3>4
    <2>6. CASE MarkFails(r)
      <3>1. IdleRun \in Calls(indexed) /\ IdleRun.pc = "idle" /\ IdleRun.todo = {}
        BY IdleTyped, Basics DEF FeedInv, IdleRun
      <3>2. CallSound(IdleRun, composer, chain, indexed)
        BY <3>1 DEF CallSound
      <3> QED
        BY <2>6, <3>1, <3>2 DEF MarkFails
    <2> QED
      BY <2>2, <2>3, <2>4, <2>5, <2>6
  <1>5. sent' \in [Texts -> Nat] /\ Unwritten(composer, sent', chain)
    BY <1>1, Basics DEF FeedInv
  <1> QED
    BY <1>1, <1>2, <1>3, <1>4, <1>5, CallStep

LEMMA BeginSwapStep == ASSUME FeedInv, NEW r \in Runs, BeginSwap(r) PROVE FeedInv'
  <1>1. /\ calls[r].pc = "begin" /\ Begin /\ calls' = [calls EXCEPT ![r].pc = "swap"]
        /\ UNCHANGED <<chain, sent, indexed, served, kit, local, cache, composer, caught, crossed, feed, merge, faults>>
    BY DEF BeginSwap, net, setting, tables, history
  <1> DEFINE c == [calls[r] EXCEPT !.pc = "swap"]
  <1>2. c \in Calls(indexed) /\ c.pc = "swap" /\ c.post = calls[r].post /\ c.todo = calls[r].todo /\ c.id = calls[r].id
    BY CallBasics DEF Calls
  <1>3. CallSound(c, composer, chain, indexed)
    BY <1>1, <1>2, CallBasics DEF CallSound
  <1>4. calls' = [calls EXCEPT ![r] = c]
    BY <1>1, CallBasics
  <1> HIDE DEF c
  <1>5. /\ calls' \in [Runs -> Calls(indexed)] /\ calls'[r] = c
        /\ \A q \in Runs : q # r => calls'[q] = calls[q]
        /\ \A q \in Runs : CallSound(calls'[q], composer, chain, indexed)
    BY <1>2, <1>3, <1>4, CallTyped
  <1>6. txn' \in Txns(indexed) /\ txn'.open /\ ~txn.open
    BY <1>1, BeginTyped
  <1>7. Typed'
    BY <1>1, <1>5, <1>6 DEF FeedInv, Typed, Sizes
  <1>8. ~crossed => OneHolder'
    BY <1>1, <1>5, <1>6 DEF FeedInv, OneHolder, MergeHolds, RunHolds
  <1>9. CallsSound'
    BY <1>1, <1>5 DEF CallsSound
  <1> QED
    BY <1>1, <1>7, <1>8, <1>9, BeginStep

\* The rows a run changes, inside its transaction or when it marks one failed.
LEMMA RunRowsStep ==
    ASSUME FeedInv, Typed', CallsSound',
           \A d \in Drafts : /\ local'[d] \in Unsynced => local[d] \in Unsynced
                             /\ local'[d] = "none" <=> local[d] = "none"
                             /\ local'[d] = "gone" => local[d] = "gone" \/ \E i \in 1 .. indexed : chain[i] = Text[d],
           \A d \in Drafts : \A i \in cache' \ cache : local'[d] \in Unsynced => ~Own(d, i, chain),
           \A q \in Runs : RunHolds(q)' => RunHolds(q),
           UNCHANGED <<chain, sent, indexed, served, txn, composer, caught, crossed, merge>>
    PROVE  FeedInv'
  <1>1. Unwritten(composer, sent, chain)'
    BY DEF FeedInv, Unwritten, Own
  <1>2. BothRowsSound'
    <2>1. RowsSound(local', composer, caught, chain, indexed)
      BY DEF FeedInv, BothRowsSound, RowsSound
    <2> QED
      BY <2>1 DEF FeedInv, BothRowsSound, RowsSound
  <1>3. ~crossed' => OneHolder'
    BY DEF FeedInv, OneHolder, MergeHolds
  <1>4. ApartUntilCrossed'
    <2> SUFFICES ASSUME served, ~crossed,
                        NEW e \in Drafts, NEW i \in cache', local'[e] \in Unsynced, Own(e, i, chain)
                 PROVE  Between(i)
      BY DEF FeedInv, ApartUntilCrossed, Apart, Own, Between
    <2>1. i \in cache
      OBVIOUS
    <2> QED
      BY <2>1 DEF FeedInv, ApartUntilCrossed
  <1> QED
    BY <1>1, <1>2, <1>3, <1>4 DEF FeedInv

LEMMA ConfirmStep == ASSUME FeedInv, NEW r \in Runs, Confirm(r) PROVE FeedInv'
  <1> DEFINE d == calls[r].post
             clash == ~calls[r].exists /\ local[d] \in Unsynced /\ calls[r].id \in cache
             S == IF clash THEN {} ELSE {d}
  <1>1. /\ calls[r].pc = "swap"
        /\ local' = IF clash THEN local ELSE Leave(local, {d})
        /\ cache' = IF calls[r].exists \/ local[d] \notin Unsynced THEN cache ELSE cache \cup {calls[r].id}
        /\ calls' = [calls EXCEPT ![r].pc = IF clash THEN "rollback" ELSE "commit"]
        /\ UNCHANGED <<chain, sent, indexed, served, kit, txn, composer, caught, crossed, feed, merge, faults>>
    BY DEF Confirm, net, setting, history
  <1>2. d \in Drafts /\ composer[d] # "writing" /\ calls[r].id \in 1 .. indexed /\ chain[calls[r].id] = Text[d]
    BY <1>1, CallBasics DEF CallSound
  <1>3. PICK step \in {"rollback", "commit"} : calls' = [calls EXCEPT ![r].pc = step]
    BY <1>1
  <1> DEFINE c == [calls[r] EXCEPT !.pc = step]
  <1>4. c \in Calls(indexed) /\ c.pc = step /\ c.post = d /\ c.todo = calls[r].todo
    BY CallBasics DEF Calls
  <1>5. CallSound(c, composer, chain, indexed)
    BY <1>2, <1>4, CallBasics DEF CallSound
  <1>6. calls' = [calls EXCEPT ![r] = c]
    BY <1>3, CallBasics
  <1> HIDE DEF c
  <1>7. /\ calls' \in [Runs -> Calls(indexed)] /\ calls'[r] = c
        /\ \A q \in Runs : q # r => calls'[q] = calls[q]
        /\ \A q \in Runs : CallSound(calls'[q], composer, chain, indexed)
    BY <1>4, <1>5, <1>6, CallTyped
  <1>8. local \in Rows /\ cache \in SUBSET (1 .. indexed)
    BY DEF FeedInv, Typed
  <1>9. /\ local' \in Rows
        /\ \A e \in Drafts : local'[e] = IF e \in S /\ local[e] \in Unsynced THEN "gone" ELSE local[e]
    BY <1>1, <1>8, LeaveTyped
  <1>10. cache' \in SUBSET (1 .. indexed) /\ \A i \in cache' \ cache : chain[i] = Text[d] /\ d \in S /\ local[d] \in Unsynced
    BY <1>1, <1>2, <1>8
  <1> HIDE DEF clash, d
  <1>11. Typed'
    BY <1>1, <1>7, <1>9, <1>10 DEF FeedInv, Typed, Sizes
  <1>12. CallsSound'
    BY <1>1, <1>7 DEF CallsSound
  <1>13. \A q \in Runs : RunHolds(q)' => RunHolds(q)
    BY <1>1, <1>7 DEF RunHolds
  <1>14. \A e \in Drafts : /\ local'[e] \in Unsynced => local[e] \in Unsynced
                           /\ local'[e] = "none" <=> local[e] = "none"
                           /\ local'[e] = "gone" => local[e] = "gone" \/ \E i \in 1 .. indexed : chain[i] = Text[e]
    <2>1. \A e \in S : e = d
      OBVIOUS
    <2> HIDE DEF S
    <2> QED
      BY <1>2, <1>9, <2>1 DEF Unsynced
  <1>15. \A e \in Drafts : \A i \in cache' \ cache : local'[e] \in Unsynced => ~Own(e, i, chain)
    <2> HIDE DEF S
    <2> SUFFICES ASSUME NEW e \in Drafts, NEW i \in cache' \ cache, Own(e, i, chain) PROVE local'[e] \notin Unsynced
      OBVIOUS
    <2>1. e = d
      BY <1>2, <1>10 DEF Own, Sole
    <2> QED
      BY <1>2, <1>9, <1>10, <2>1 DEF Unsynced
  <1> HIDE DEF S
  <1> QED
    BY <1>1, <1>11, <1>12, <1>13, <1>14, <1>15, RunRowsStep

\* The run is through with its post.
LEMMA DoneTyped ==
    ASSUME FeedInv, NEW r \in Runs, Done(r)
    PROVE  /\ calls' \in [Runs -> Calls(indexed)] /\ calls'[r].pc \in {"idle", "submit"}
           /\ \A q \in Runs : q # r => calls'[q] = calls[q]
           /\ \A q \in Runs : CallSound(calls'[q], composer, chain, indexed)
  <1>1. calls[r].todo \in SUBSET Drafts /\ \A d \in calls[r].todo : composer[d] # "writing"
    BY CallBasics DEF CallSound
  <1>2. /\ NextPost(calls[r].todo) \in Calls(indexed) /\ NextPost(calls[r].todo).pc \in {"idle", "submit"}
        /\ CallSound(NextPost(calls[r].todo), composer, chain, indexed)
    BY <1>1, Basics, NextPostSound DEF FeedInv
  <1> QED
    BY <1>2, CallTyped DEF Done

LEMMA MarkFailedStep == ASSUME FeedInv, NEW r \in Runs, MarkFailed(r) PROVE FeedInv'
  <1> DEFINE d == calls[r].post
  <1>1. /\ calls[r].pc = "mark" /\ local' = markPendingPostFailed(local, d) /\ Done(r)
        /\ UNCHANGED <<chain, sent, indexed, served, kit, cache, txn, composer, caught, crossed, feed, merge, faults>>
    BY DEF MarkFailed, net, setting, history
  <1>2. d \in Drafts
    BY <1>1, CallBasics DEF CallSound
  <1>3. /\ local' \in Rows
        /\ \A e \in Drafts : local'[e] = IF e = d /\ local[e] \in Unsynced THEN "failed" ELSE local[e]
    BY <1>1, <1>2, MarkTyped DEF FeedInv, Typed
  <1>4. /\ calls' \in [Runs -> Calls(indexed)] /\ calls'[r].pc \in {"idle", "submit"}
        /\ \A q \in Runs : q # r => calls'[q] = calls[q]
        /\ \A q \in Runs : CallSound(calls'[q], composer, chain, indexed)
    BY <1>1, DoneTyped
  <1> HIDE DEF d
  <1>5. Typed'
    BY <1>1, <1>3, <1>4 DEF FeedInv, Typed, Sizes
  <1>6. CallsSound'
    BY <1>1, <1>4 DEF CallsSound
  <1>7. \A q \in Runs : RunHolds(q)' => RunHolds(q)
    BY <1>4 DEF RunHolds
  <1>8. \A e \in Drafts : /\ local'[e] \in Unsynced => local[e] \in Unsynced
                          /\ local'[e] = "none" <=> local[e] = "none"
                          /\ local'[e] = "gone" => local[e] = "gone"
    BY <1>3 DEF Unsynced
  <1> QED
    BY <1>1, <1>5, <1>6, <1>7, <1>8, RunRowsStep

LEMMA CommitSwapStep == ASSUME FeedInv, NEW r \in Runs, CommitSwap(r) PROVE FeedInv'
  <1>1. /\ calls[r].pc = "commit" /\ Commit /\ Done(r)
        /\ UNCHANGED <<chain, sent, indexed, served, kit, local, cache, composer, caught, crossed, feed, merge, faults>>
    BY DEF CommitSwap, net, setting, tables, history
  <1>2. /\ calls' \in [Runs -> Calls(indexed)] /\ calls'[r].pc \in {"idle", "submit"}
        /\ \A q \in Runs : q # r => calls'[q] = calls[q]
        /\ \A q \in Runs : CallSound(calls'[q], composer, chain, indexed)
    BY <1>1, DoneTyped
  <1>3. txn' \in Txns(indexed)
    BY <1>1, NoTxnTyped DEF Commit
  <1>4. Typed'
    BY <1>1, <1>2, <1>3 DEF FeedInv, Typed, Sizes
  <1>5. CallsSound'
    BY <1>1, <1>2 DEF CallsSound
  <1>6. ~crossed => (\A j \in Slots : ~MergeHolds(j)') /\ \A q \in Runs : ~RunHolds(q)'
    BY <1>1, <1>2 DEF FeedInv, OneHolder, MergeHolds, RunHolds
  <1> QED
    BY <1>1, <1>4, <1>5, <1>6, CommitStep

LEMMA RollbackSwapStep == ASSUME FeedInv, NEW r \in Runs, RollbackSwap(r) PROVE FeedInv'
  <1> DEFINE c == [calls[r] EXCEPT !.pc = "mark", !.id = 0, !.exists = FALSE]
  <1>1. /\ calls[r].pc = "rollback" /\ Rollback /\ calls' = [calls EXCEPT ![r] = c]
        /\ UNCHANGED <<chain, sent, indexed, served, kit, composer, caught, crossed, feed, merge, faults>>
    BY CallBasics DEF RollbackSwap, net, setting, history
  <1>2. 0 \in 0 .. indexed
    BY Basics DEF FeedInv
  <1>3. c \in Calls(indexed) /\ c.pc = "mark" /\ c.post = calls[r].post /\ c.todo = calls[r].todo
    BY <1>2, CallBasics DEF Calls
  <1>4. CallSound(c, composer, chain, indexed)
    BY <1>1, <1>3, CallBasics DEF CallSound
  <1> HIDE DEF c
  <1>5. /\ calls' \in [Runs -> Calls(indexed)] /\ calls'[r] = c
        /\ \A q \in Runs : q # r => calls'[q] = calls[q]
        /\ \A q \in Runs : CallSound(calls'[q], composer, chain, indexed)
    BY <1>1, <1>3, <1>4, CallTyped
  <1>6. local' \in Rows /\ cache' \in SUBSET (1 .. indexed) /\ txn' \in Txns(indexed)
    BY <1>1, RollbackTyped
  <1>7. Typed'
    BY <1>1, <1>5, <1>6 DEF FeedInv, Typed, Sizes
  <1>8. CallsSound'
    BY <1>1, <1>5 DEF CallsSound
  <1>9. ~crossed => (\A j \in Slots : ~MergeHolds(j)') /\ \A q \in Runs : ~RunHolds(q)'
    BY <1>1, <1>3, <1>5 DEF FeedInv, OneHolder, MergeHolds, RunHolds
  <1> QED
    BY <1>1, <1>7, <1>8, <1>9, RollbackStep

-----------------------------------------------------------------------------
(***************************************************************************)
(* The network, the indexer, and the end of the process.                   *)
(***************************************************************************)
LEMMA LandStep == ASSUME FeedInv, NEW t \in Texts, Land(t) PROVE FeedInv'
  <1>1. /\ sent[t] > 0 /\ sent' = [sent EXCEPT ![t] = @ - 1] /\ chain' = Append(chain, t)
        /\ UNCHANGED <<indexed, served, kit, local, cache, txn, composer, caught, crossed, feed, merge, calls, faults>>
    BY DEF Land, setting, tables, history
  <1>2. /\ indexed \in Nat /\ Len(chain) \in Nat /\ indexed =< Len(chain)
        /\ chain \in Seq(Texts \cup {Other}) /\ sent \in [Texts -> Nat]
    BY Basics DEF FeedInv
  <1>3. /\ chain' \in Seq(Texts \cup {Other}) /\ Len(chain') = Len(chain) + 1
        /\ \A i \in 1 .. Len(chain) : chain'[i] = chain[i]
        /\ chain'[Len(chain) + 1] = t
    BY <1>1, <1>2
  <1>4. sent' \in [Texts -> Nat] /\ sent'[t] = sent[t] - 1 /\ \A u \in Texts : u # t => sent'[u] = sent[u]
    BY <1>1, <1>2
  <1>5. \A i \in 1 .. indexed : chain'[i] = chain[i]
    BY <1>2, <1>3
  <1>6. Typed'
    <2>1. NetTyped(chain', sent', indexed)
      BY <1>2, <1>3, <1>4 DEF NetTyped
    <2> QED
      BY <1>1, <2>1 DEF FeedInv, Typed, Sizes
  <1>7. CallsSound'
    BY <1>1, <1>5 DEF FeedInv, CallsSound, CallSound
  <1>8. Unwritten(composer, sent, chain)'
    <2> SUFFICES ASSUME NEW d \in Drafts, composer[d] = "writing", Sole(d)
                 PROVE  sent'[Text[d]] = 0 /\ \A i \in 1 .. Len(chain') : ~Own(d, i, chain')
      BY <1>1 DEF Unwritten
    <2>1. sent[Text[d]] = 0 /\ \A i \in 1 .. Len(chain) : ~Own(d, i, chain)
      BY DEF FeedInv, Unwritten
    <2>2. Text[d] \in Texts /\ Text[d] # t
      BY <1>1, <2>1, Basics DEF FeedInv, Sizes
    <2>3. \A i \in 1 .. Len(chain') : i \in 1 .. Len(chain) \/ i = Len(chain) + 1
      BY <1>2, <1>3
    <2> QED
      BY <1>3, <1>4, <2>1, <2>2, <2>3 DEF Own
  <1>9. BothRowsSound'
    BY <1>1, <1>5 DEF FeedInv, BothRowsSound, RowsSound
  <1>10. ~crossed' => OneHolder'
    BY <1>1 DEF FeedInv, OneHolder, MergeHolds, RunHolds
  <1>11. ApartUntilCrossed'
    <2>1. cache \in SUBSET (1 .. indexed) /\ txn.cache \in SUBSET (1 .. indexed)
      BY DEF FeedInv, Typed, Txns
    <2>2. \A d \in Drafts : \A i \in 1 .. indexed : Own(d, i, chain') <=> Own(d, i, chain)
      BY <1>5 DEF Own
    <2>3. \A i : Between(i)' <=> Between(i)
      BY <1>1 DEF Between
    <2>4. served' = served /\ crossed' = crossed /\ txn' = txn /\ local' = local /\ cache' = cache
      BY <1>1
    <2> QED
      BY <2>1, <2>2, <2>3, <2>4 DEF FeedInv, ApartUntilCrossed, Apart
  <1> QED
    BY <1>6, <1>7, <1>8, <1>9, <1>10, <1>11 DEF FeedInv

LEMMA LostStep == ASSUME FeedInv, NEW t \in Texts, Drop(t) PROVE FeedInv'
  <1>1. /\ sent[t] > 0 /\ sent' = [sent EXCEPT ![t] = @ - 1]
        /\ UNCHANGED <<chain, indexed, served, kit, local, cache, txn, composer, caught, crossed, feed, merge, calls>>
        /\ faults' \in 0 .. MaxFaults
    BY FaultTyped DEF Drop, setting, tables, history, FeedInv
  <1>2. sent \in [Texts -> Nat] /\ \A d \in Drafts : Text[d] \in Texts
    BY Basics DEF FeedInv, Sizes
  <1>3. sent' \in [Texts -> Nat] /\ \A u \in Texts : sent[u] = 0 => sent'[u] = 0
    BY <1>1, <1>2
  <1>4. Typed'
    BY <1>1, <1>3 DEF FeedInv, Typed, NetTyped, Sizes
  <1>5. Unwritten(composer', sent', chain)
    BY <1>1, <1>2, <1>3 DEF FeedInv, Unwritten
  <1>6. \A r \in Runs : CallSound(calls'[r], composer', chain, indexed)
    BY <1>1 DEF FeedInv, CallsSound
  <1> QED
    BY <1>1, <1>4, <1>5, <1>6, QuietStep DEF MergeHolds, RunHolds

LEMMA IndexStep == ASSUME FeedInv, Index PROVE FeedInv'
  <1>1. /\ indexed < Len(chain) /\ indexed' = indexed + 1
        /\ UNCHANGED <<chain, sent, served, kit, local, cache, txn, composer, caught, crossed, feed, merge, calls, faults>>
    BY DEF Index, setting, tables, history
  <1>2. indexed \in Nat /\ Len(chain) \in Nat
    BY Basics DEF FeedInv
  <1>3. /\ indexed' \in 0 .. Len(chain) /\ 1 .. indexed \subseteq 1 .. indexed' /\ 0 .. indexed \subseteq 0 .. indexed'
    BY <1>1, <1>2
  <1>4. /\ Txns(indexed) \subseteq Txns(indexed') /\ Merges(indexed) \subseteq Merges(indexed')
        /\ Calls(indexed) \subseteq Calls(indexed')
    <2>1. Txns(indexed) \subseteq Txns(indexed')
      BY <1>3 DEF Txns
    <2>2. Merges(indexed) \subseteq Merges(indexed')
      BY <1>3 DEF Merges
    <2>3. Calls(indexed) \subseteq Calls(indexed')
      BY <1>3 DEF Calls
    <2> QED
      BY <2>1, <2>2, <2>3
  <1>5. Typed'
    <2>1. txn' \in Txns(indexed') /\ merge' \in [Slots -> Merges(indexed')] /\ calls' \in [Runs -> Calls(indexed')]
      BY <1>1, <1>4 DEF FeedInv, Typed
    <2>2. NetTyped(chain', sent', indexed') /\ cache' \in SUBSET (1 .. indexed')
      BY <1>1, <1>3 DEF FeedInv, Typed, NetTyped
    <2> QED
      BY <1>1, <2>1, <2>2 DEF FeedInv, Typed, Sizes
  <1>6. CallsSound'
    BY <1>1, <1>3 DEF FeedInv, CallsSound, CallSound
  <1>7. Unwritten(composer, sent, chain)'
    BY <1>1 DEF FeedInv, Unwritten, Own
  <1>8. BothRowsSound'
    BY <1>1, <1>3 DEF FeedInv, BothRowsSound, RowsSound
  <1>9. ~crossed' => OneHolder'
    BY <1>1 DEF FeedInv, OneHolder, MergeHolds, RunHolds
  <1>10. ApartUntilCrossed'
    BY <1>1 DEF FeedInv, ApartUntilCrossed, Apart, Own, Between
  <1> QED
    BY <1>5, <1>6, <1>7, <1>8, <1>9, <1>10 DEF FeedInv

LEMMA RestartStep == ASSUME FeedInv, Restart PROVE FeedInv'
  <1>1. /\ Rollback /\ calls' = [r \in Runs |-> IdleRun] /\ merge' = [k \in Slots |-> IdleMerge]
        /\ composer' = [d \in Drafts |-> IF composer[d] = "starting" THEN "left" ELSE composer[d]]
        /\ feed' = IdleFeed /\ faults' \in 0 .. MaxFaults
        /\ UNCHANGED <<chain, sent, indexed, served, kit, caught, crossed>>
    BY FaultTyped DEF Restart, net, setting, history, FeedInv
  <1>2. IdleMerge \in Merges(indexed) /\ IdleRun \in Calls(indexed) /\ IdleFeed \in Feeds
    BY IdleTyped, Basics DEF FeedInv
  <1>3. IdleMerge.pc = "idle" /\ IdleRun.pc = "idle" /\ IdleRun.todo = {}
    BY DEF IdleMerge, IdleRun
  <1>4. /\ merge' \in [Slots -> Merges(indexed)] /\ \A k \in Slots : merge'[k] = IdleMerge
        /\ calls' \in [Runs -> Calls(indexed)] /\ \A r \in Runs : calls'[r] = IdleRun
    BY <1>1, <1>2
  <1>5. local' \in Rows /\ cache' \in SUBSET (1 .. indexed) /\ txn' \in Txns(indexed)
    BY <1>1, RollbackTyped
  <1>6. /\ composer' \in [Drafts -> {"writing", "starting", "left"}]
        /\ \A d \in Drafts : composer'[d] = "writing" <=> composer[d] = "writing"
    BY <1>1 DEF FeedInv, Typed
  <1>7. Typed'
    BY <1>1, <1>2, <1>4, <1>5, <1>6 DEF FeedInv, Typed, Sizes
  <1>8. CallsSound'
    BY <1>3, <1>4 DEF CallsSound, CallSound
  <1>9. (\A k \in Slots : ~MergeHolds(k)') /\ \A r \in Runs : ~RunHolds(r)'
    BY <1>3, <1>4 DEF MergeHolds, RunHolds
  <1> QED
    BY <1>1, <1>6, <1>7, <1>8, <1>9, RollbackStep

LEMMA FeedStutter == ASSUME FeedInv, UNCHANGED feedVars PROVE FeedInv'
  <1>1. UNCHANGED <<chain, sent, indexed, served, kit, local, cache, txn, composer, caught, crossed, feed, merge,
                    calls, faults>>
    BY DEF feedVars, net, setting, tables, history
  <1>2. Typed'
    BY <1>1 DEF FeedInv, Typed, NetTyped, Sizes
  <1>3. /\ Unwritten(composer', sent', chain)
        /\ \A r \in Runs : CallSound(calls'[r], composer', chain, indexed)
    BY <1>1 DEF FeedInv, CallsSound
  <1> QED
    BY <1>1, <1>2, <1>3, QuietStep DEF MergeHolds, RunHolds

LEMMA MergeStepSound == ASSUME FeedInv, NEW k \in Slots, MergeStep(k) PROVE FeedInv'
  BY BeginMergeStep, MergeFailsStep, UpsertStep, DeleteStep, CommitMergeStep, RollbackMergeStep DEF MergeStep

LEMMA SyncStepSound == ASSUME FeedInv, NEW r \in Runs, SyncStep(r) PROVE FeedInv'
  BY SubmitStep, RunOnStep, BeginSwapStep, ConfirmStep, CommitSwapStep, RollbackSwapStep, MarkFailedStep DEF SyncStep

-----------------------------------------------------------------------------
LEMMA FeedInvConsistent == ASSUME FeedInv PROVE CacheConsistent
  <1>1. FeedTypeOK
    BY DEF FeedInv, Typed, NetTyped, FeedTypeOK, Rows, Feeds, Txns, Merges, Calls
  <1>2. NoPostLost
    BY DEF FeedInv, BothRowsSound, RowsSound, NoPostLost, OnChain, Composed
  <1>3. ShownOnce
    <2> SUFFICES ASSUME served, ~crossed PROVE Apart(SavedLocal, SavedCache, chain)
      BY DEF ShownOnce, getPendingPosts, Apart, Own, Sole
    <2>1. CASE txn.open
      BY <2>1 DEF FeedInv, ApartUntilCrossed, SavedLocal, SavedCache
    <2>2. CASE ~txn.open
      BY <2>2, ClosedApart DEF SavedLocal, SavedCache
    <2> QED
      BY <2>1, <2>2
  <1> QED
    BY <1>1, <1>2, <1>3 DEF CacheConsistent

(***************************************************************************)
(* For any number of drafts, equal texts among them, calls and runs: the   *)
(* cache of the mobile app is consistent although its transactions share   *)
(* one connection.  A composed post leaves the queue only once the indexer *)
(* has its text, its row is lost only to someone else's rollback, and no   *)
(* post is stored beside its own optimistic row as long as no BEGIN found  *)
(* the connection taken.                                                   *)
(***************************************************************************)
THEOREM OfflineCacheConsistent == FeedSpec => []CacheConsistent
  <1>1. FeedInit => FeedInv
    BY FeedStarts
  <1>2. FeedInv /\ [FeedNext]_feedVars => FeedInv'
    <2> SUFFICES ASSUME FeedInv, [FeedNext]_feedVars PROVE FeedInv'
      OBVIOUS
    <2>1. CASE \E d \in Drafts : Compose(d) \/ StartComposed(d)
      BY <2>1, ComposeStep, StartComposedStep
    <2>2. CASE \E t \in Texts : Land(t) \/ Drop(t)
      BY <2>2, LandStep, LostStep
    <2>3. CASE Refresh \/ LoadMore \/ OpenScreen
      BY <2>3, FetchStep
    <2>4. CASE Reload \/ SyncFails \/ EvictStale \/ DeletePost
      BY <2>4, DropStep
    <2>5. CASE Index
      BY <2>5, IndexStep
    <2>6. CASE Restart
      BY <2>6, RestartStep
    <2>7. CASE \E k \in Slots : MergeStep(k)
      BY <2>7, MergeStepSound
    <2>8. CASE \E r \in Runs : SyncStep(r)
      BY <2>8, SyncStepSound
    <2>9. CASE UNCHANGED feedVars
      BY <2>9, FeedStutter
    <2> QED
      BY <2>1, <2>2, <2>3, <2>4, <2>5, <2>6, <2>7, <2>8, <2>9 DEF FeedNext
  <1>3. FeedInv => CacheConsistent
    BY FeedInvConsistent
  <1> QED
    BY <1>1, <1>2, <1>3, PTL DEF FeedSpec
===============================================================================
