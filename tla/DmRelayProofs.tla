----------------------------- MODULE DmRelayProofs -----------------------------
(***************************************************************************)
(* Theorems about DmRelay for any calls, retry limits and modes, clocks,   *)
(* lifetimes and faults.                                                   *)
(***************************************************************************)
EXTENDS DmRelay, TLAPS

-------------------------------------------------------------------------------
(***************************************************************************)
(* The inductive invariant                                                 *)
(***************************************************************************)

(***************************************************************************)
(* The types, in parts.                                                    *)
(***************************************************************************)
Places == {"unsent", "sent", "answered", "over"} \cup InRelay
Request == [key : Attempts \cup {None}, body : Attempts \cup {None}, pc : Places,
            answer : Answers \cup {None}]
States == {"idle", "sending", "backoff", "resolved", "refused", "exhausted"}
Call == [n : Nat, is : States]
Key == [status : Answers \cup {Pending}, body : Attempts, age : 0 .. (KeyTtl + 1)]
Row == [by : Calls, age : 0 .. (MessageTtl + 1)]

OtherTypes ==
    /\ offset \in [Attempts -> -(Skew + 1) .. Skew] /\ seen \in [Attempts -> 0 .. Skew]
    /\ row \in Row \cup {None} /\ stored \subseteq Calls /\ pushes \in Nat
    /\ relay \in {"up", "draining"} /\ faults \in 0 .. MaxFaults

(***************************************************************************)
(* A request that was posted has a key of its own call; it is answered     *)
(* with 201 only when that call's ciphertext has been stored.              *)
(***************************************************************************)
Sound(a, r, st) ==
    /\ r \in Request
    /\ r.pc # "unsent" => r.key \in Attempts /\ r.body \in Attempts /\ r.key[1] = a[1]
    /\ r.pc = "stored" \/ r.answer = 201 => a[1] \in st

RequestsSound ==
    /\ request \in [Attempts -> Request]
    /\ \A a \in Attempts : Sound(a, request[a], stored)

(***************************************************************************)
(* A call has posted the attempt it is at, backs off only when it may      *)
(* retry, and resolves only when its ciphertext has been stored.           *)
(***************************************************************************)
CallSound(c) ==
    /\ call[c].n \in 1 .. MaxAttempts[c]
    /\ call[c].is = "backoff" => call[c].n < MaxAttempts[c]
    /\ call[c].is = "resolved" => c \in stored
    /\ call[c].is # "idle" => request[<<c, call[c].n>>].pc # "unsent"

CallsSound == call \in [Calls -> Call] /\ \A c \in Calls : CallSound(c)

(***************************************************************************)
(* The answers recorded, and those about to be, are of the key's own call. *)
(***************************************************************************)
KeysSound ==
    /\ keys \in [Attempts -> Key \cup {None}]
    /\ \A k \in Attempts : keys[k] # None /\ keys[k].status = 201 => k[1] \in stored

WritesSound ==
    /\ writes \subseteq Attempts \X Answers
    /\ \A w \in writes : /\ request[w[1]].pc # "unsent"
                         /\ w[2] = 201 => w[1][1] \in stored

RelayInv == OtherTypes /\ RequestsSound /\ CallsSound /\ KeysSound /\ WritesSound

(***************************************************************************)
(* While a handler is between its insert and its push, every unit of time  *)
(* is a stall.                                                             *)
(***************************************************************************)
Pushing(a) == request[a].pc = "stored"

StallsCounted == \A a \in Attempts : Pushing(a) /\ row # None => row.age =< faults

(***************************************************************************)
(* At most one handler is there, its row is in the table and its push is   *)
(* still to come.                                                          *)
(***************************************************************************)
PushInv ==
    /\ pushes =< 1
    /\ \A a \in Attempts : Pushing(a) => row # None /\ pushes = 0
    /\ \A a, b \in Attempts : Pushing(a) /\ Pushing(b) => a = b

(***************************************************************************)
(* What the second needs: no handler stalls there until its own message    *)
(* has expired, messageTtlDays later.                                      *)
(***************************************************************************)
NoStalePush == \A a \in Attempts : Pushing(a) /\ row # None => row.age =< MessageTtl

-------------------------------------------------------------------------------
(***************************************************************************)
(* Attempts and requests                                                   *)
(***************************************************************************)

(***************************************************************************)
(* An attempt is a call and the number of one of its attempts.             *)
(***************************************************************************)
LEMMA AttemptPairs ==
    /\ \A a \in Attempts : /\ a[1] \in Calls /\ a[2] \in 1 .. MaxAttempts[a[1]]
                           /\ a = <<a[1], a[2]>>
    /\ \A c \in Calls : \A n \in 1 .. MaxAttempts[c] : <<c, n>> \in Attempts
  <1>1. ASSUME NEW a \in Attempts
        PROVE  a[1] \in Calls /\ a[2] \in 1 .. MaxAttempts[a[1]] /\ a = <<a[1], a[2]>>
    <2>1. PICK c \in Calls : a \in {c} \X (1 .. MaxAttempts[c])
      BY DEF Attempts
    <2> QED
      BY <2>1
  <1>2. ASSUME NEW c \in Calls, NEW n \in 1 .. MaxAttempts[c] PROVE <<c, n>> \in Attempts
    BY DEF Attempts
  <1> QED
    BY <1>1, <1>2

(***************************************************************************)
(* The parts of a request.                                                 *)
(***************************************************************************)
Moved(r, pc) == [r EXCEPT !.pc = pc]
Answered(r, s) == [r EXCEPT !.pc = "answered", !.answer = s]

LEMMA RequestParts ==
    ASSUME NEW r \in Request, NEW pc \in Places, NEW s \in Answers
    PROVE  /\ r.key \in Attempts \cup {None} /\ r.body \in Attempts \cup {None}
           /\ r.pc \in Places /\ r.answer \in Answers \cup {None}
           /\ Moved(r, pc) \in Request /\ Moved(r, pc).pc = pc /\ Moved(r, pc).key = r.key
           /\ Moved(r, pc).body = r.body /\ Moved(r, pc).answer = r.answer
           /\ Answered(r, s) \in Request /\ Answered(r, s).pc = "answered"
           /\ Answered(r, s).key = r.key /\ Answered(r, s).body = r.body
           /\ Answered(r, s).answer = s
           /\ Over(r) \in Request /\ Over(r).pc = "over" /\ Over(r).key = r.key
           /\ Over(r).body = r.body /\ Over(r).answer = None
  <1>1. {"answered", "over"} \subseteq Places
    BY DEF Places
  <1> HIDE DEF Places, Answers, Attempts
  <1>2. r.key \in Attempts \cup {None} /\ r.body \in Attempts \cup {None}
        /\ r.pc \in Places /\ r.answer \in Answers \cup {None}
    BY DEF Request
  <1>3. /\ Moved(r, pc) \in Request /\ Moved(r, pc).pc = pc /\ Moved(r, pc).key = r.key
        /\ Moved(r, pc).body = r.body /\ Moved(r, pc).answer = r.answer
    BY DEF Request, Moved
  <1>4. /\ Answered(r, s) \in Request /\ Answered(r, s).pc = "answered"
        /\ Answered(r, s).key = r.key /\ Answered(r, s).body = r.body
        /\ Answered(r, s).answer = s
    BY <1>1 DEF Request, Answered
  <1>5. /\ Over(r) \in Request /\ Over(r).pc = "over" /\ Over(r).key = r.key
        /\ Over(r).body = r.body /\ Over(r).answer = None
    BY <1>1 DEF Request, Over
  <1> QED
    BY <1>2, <1>3, <1>4, <1>5

(***************************************************************************)
(* None is not an answer.                                                  *)
(***************************************************************************)
LEMMA NoneIsNoAnswer == None # 201 /\ Answers \subseteq Nat /\ Pending \notin Answers
  BY DmRelayAssumption DEF Answers, Pending

(***************************************************************************)
(* A request that moves on stays sound.                                    *)
(***************************************************************************)
LEMMA SoundMoved ==
    ASSUME NEW st, NEW a, NEW r, Sound(a, r, st), NEW pc \in Places, r.pc # "unsent",
           pc # "unsent", pc = "stored" => a[1] \in st
    PROVE  Sound(a, Moved(r, pc), st) /\ Moved(r, pc).pc = pc
  BY RequestParts DEF Sound, Answers

(***************************************************************************)
(* An answer of 201 needs the stored ciphertext.                           *)
(***************************************************************************)
LEMMA SoundAnswered ==
    ASSUME NEW st, NEW a, NEW r, Sound(a, r, st), NEW s \in Answers, r.pc # "unsent",
           s = 201 => a[1] \in st
    PROVE  Sound(a, Answered(r, s), st) /\ Answered(r, s).pc = "answered"
  BY RequestParts DEF Sound, Places

(***************************************************************************)
(* A request nobody waits for has no answer.                               *)
(***************************************************************************)
LEMMA SoundOver ==
    ASSUME NEW st, NEW a, NEW r, Sound(a, r, st), r.pc # "unsent"
    PROVE  Sound(a, Over(r), st) /\ Over(r).pc = "over"
  BY RequestParts, NoneIsNoAnswer DEF Sound, Places, Answers

(***************************************************************************)
(* More stored is no harm.                                                 *)
(***************************************************************************)
LEMMA SoundKept ==
    ASSUME NEW st, NEW a, NEW r, Sound(a, r, st), NEW su, st \subseteq su
    PROVE  Sound(a, r, su)
  BY DEF Sound

-------------------------------------------------------------------------------
(***************************************************************************)
(* What a step of one request leaves of the invariant                      *)
(***************************************************************************)

(***************************************************************************)
(* A posted request changes and stays sound.                               *)
(***************************************************************************)
LEMMA RequestMoves ==
    ASSUME RelayInv, NEW a \in Attempts, NEW r, Sound(a, r, stored'), r.pc # "unsent",
           request' = [request EXCEPT ![a] = r], call' = call, stored \subseteq stored'
    PROVE  /\ RequestsSound' /\ CallsSound' /\ request'[a] = r
           /\ \A b \in Attempts : b # a => request'[b] = request[b]
           /\ \A w \in writes : /\ request'[w[1]].pc # "unsent"
                                /\ w[2] = 201 => w[1][1] \in stored'
  <1>0. /\ request \in [Attempts -> Request] /\ \A b \in Attempts : Sound(b, request[b], stored)
        /\ CallsSound /\ WritesSound /\ r \in Request
    BY DEF RelayInv, RequestsSound, Sound
  <1>1. /\ request' \in [Attempts -> Request] /\ request'[a] = r
        /\ \A b \in Attempts : b # a => request'[b] = request[b]
    BY <1>0
  <1>2. \A b \in Attempts : Sound(b, request'[b], stored')
    BY <1>0, <1>1, SoundKept
  <1>3. ASSUME NEW c \in Calls PROVE CallSound(c)'
    <2>1. CallSound(c) /\ <<c, call[c].n>> \in Attempts
      BY <1>0, AttemptPairs DEF CallsSound, CallSound
    <2> QED
      BY <1>1, <2>1 DEF CallSound
  <1>4. \A w \in writes : w[1] \in Attempts
    BY <1>0 DEF WritesSound
  <1> QED
    BY <1>0, <1>1, <1>2, <1>3, <1>4 DEF RequestsSound, CallsSound, WritesSound

(***************************************************************************)
(* MoveTo, to a place that is not the handler's last one.                  *)
(***************************************************************************)
LEMMA MoveStep ==
    ASSUME RelayInv, NEW a \in Attempts, request[a].pc # "unsent",
           NEW pc \in Places \ {"unsent", "stored"}, MoveTo(a, pc), UNCHANGED <<call, stored>>
    PROVE  /\ RequestsSound' /\ CallsSound' /\ request'[a].pc # "unsent"
           /\ \A b \in Attempts : Pushing(b)' => Pushing(b) /\ b # a
           /\ \A w \in writes : request'[w[1]].pc # "unsent"
  <1>1. Sound(a, request[a], stored) /\ request \in [Attempts -> Request]
    BY DEF RelayInv, RequestsSound
  <1>2. request' = [request EXCEPT ![a] = Moved(request[a], pc)]
    BY DEF MoveTo, Moved
  <1> DEFINE r == Moved(request[a], pc)
  <1>3. Sound(a, r, stored') /\ r.pc = pc
    BY <1>1, SoundMoved
  <1> HIDE DEF r
  <1>4. /\ RequestsSound' /\ CallsSound' /\ request'[a] = r
        /\ \A b \in Attempts : b # a => request'[b] = request[b]
        /\ \A w \in writes : request'[w[1]].pc # "unsent"
    BY <1>2, <1>3, RequestMoves DEF r
  <1> QED
    BY <1>3, <1>4 DEF Pushing

(***************************************************************************)
(* AnswerTo: the request is answered, or nobody waits for it any more.     *)
(***************************************************************************)
LEMMA AnswerStep ==
    ASSUME RelayInv, NEW a \in Attempts, request[a].pc # "unsent", NEW s \in Answers,
           s = 201 => a[1] \in stored, AnswerTo(a, s), UNCHANGED <<call, stored>>
    PROVE  /\ RequestsSound' /\ CallsSound' /\ request'[a].pc # "unsent"
           /\ \A b \in Attempts : Pushing(b)' => Pushing(b) /\ b # a
           /\ \A w \in writes : request'[w[1]].pc # "unsent"
  <1>1. Sound(a, request[a], stored) /\ request \in [Attempts -> Request]
    BY DEF RelayInv, RequestsSound
  <1>2. PICK r : /\ request' = [request EXCEPT ![a] = r]
                 /\ r = Answered(request[a], s) \/ r = Over(request[a])
    BY DEF AnswerTo, Answered
  <1>3. Sound(a, r, stored') /\ r.pc \in {"answered", "over"}
    <2>1. /\ Sound(a, Answered(request[a], s), stored) /\ Answered(request[a], s).pc = "answered"
      BY <1>1, SoundAnswered
    <2>2. Sound(a, Over(request[a]), stored) /\ Over(request[a]).pc = "over"
      BY <1>1, SoundOver
    <2> QED
      BY <1>2, <2>1, <2>2
  <1>4. /\ RequestsSound' /\ CallsSound' /\ request'[a] = r
        /\ \A b \in Attempts : b # a => request'[b] = request[b]
        /\ \A w \in writes : request'[w[1]].pc # "unsent"
    BY <1>2, <1>3, RequestMoves
  <1> QED
    BY <1>3, <1>4 DEF Pushing

(***************************************************************************)
(* A step that neither inserts nor pushes.                                 *)
(***************************************************************************)
Quiet ==
    /\ UNCHANGED <<row, pushes>> /\ faults =< faults'
    /\ \A a \in Attempts : Pushing(a)' => Pushing(a)

LEMMA QuietStep ==
    ASSUME RelayInv, RelayInv', Quiet
    PROVE  (StallsCounted => StallsCounted') /\ (PushInv => PushInv')
  <1>1. row \in Row \cup {None} /\ faults \in Nat /\ faults' \in Nat
    BY DmRelayAssumption DEF RelayInv, OtherTypes
  <1>2. row # None => row.age \in Nat
    BY <1>1, DmRelayAssumption DEF Row
  <1>3. StallsCounted => StallsCounted'
    BY <1>1, <1>2 DEF Quiet, StallsCounted, Pushing
  <1>4. PushInv => PushInv'
    BY DEF Quiet, PushInv, Pushing
  <1> QED
    BY <1>3, <1>4

(***************************************************************************)
(* A fault, where the relay is up; a closed pool fails for free.           *)
(***************************************************************************)
LEMMA FaultCounted ==
    ASSUME RelayInv, \/ relay = "draining" /\ UNCHANGED faults
                     \/ relay = "up" /\ faults < MaxFaults /\ faults' = faults + 1
    PROVE  faults =< faults' /\ faults' \in 0 .. MaxFaults
  BY DmRelayAssumption DEF RelayInv, OtherTypes

-------------------------------------------------------------------------------
(***************************************************************************)
(* The steps of the client                                                 *)
(***************************************************************************)

(***************************************************************************)
(* A call posts its first or next attempt.                                 *)
(***************************************************************************)
LEMMA PostStep ==
    ASSUME RelayInv, NEW c \in Calls, NEW n \in 1 .. MaxAttempts[c],
           NEW key \in Attempts, NEW body \in Attempts, key[1] = c, Post(c, n, key, body)
    PROVE  RelayInv' /\ Quiet
  <1>0. OtherTypes /\ RequestsSound /\ CallsSound /\ KeysSound /\ WritesSound
    BY DEF RelayInv
  <1> DEFINE a == <<c, n>>
             r == [key |-> key, body |-> body, pc |-> "sent", answer |-> None]
  <1>1. /\ call' = [call EXCEPT ![c] = [n |-> n, is |-> "sending"]]
        /\ request' = [request EXCEPT ![a] = r]
        /\ offset' = offset \/ \E d \in Ahead : offset' = [offset EXCEPT ![body] = d]
        /\ UNCHANGED <<seen, keys, row, stored, pushes, writes, relay, faults>>
    BY DEF Post
  <1>2. a \in Attempts /\ a[1] = c /\ n \in Nat
    BY AttemptPairs, DmRelayAssumption
  <1>3. r \in Request /\ r.pc = "sent" /\ r.key = key /\ r.body = body /\ r.answer # 201
    BY NoneIsNoAnswer DEF Request, Places
  <1> HIDE DEF r
  <1>4. Sound(a, r, stored)
    BY <1>2, <1>3 DEF Sound
  <1> HIDE DEF a
  <1>5. /\ request' \in [Attempts -> Request] /\ request'[a] = r
        /\ \A b \in Attempts : b # a => request'[b] = request[b]
    BY <1>0, <1>1, <1>2, <1>3 DEF RequestsSound
  <1>6. RequestsSound'
    BY <1>0, <1>1, <1>4, <1>5 DEF RequestsSound
  <1>7. CallsSound'
    <2>1. /\ call' \in [Calls -> Call] /\ call'[c] = [n |-> n, is |-> "sending"]
          /\ \A d \in Calls : d # c => call'[d] = call[d]
      BY <1>0, <1>1, <1>2 DEF CallsSound, Call, States
    <2>2. CallSound(c)'
      BY <1>3, <1>5, <2>1 DEF CallSound, a
    <2>3. ASSUME NEW d \in Calls, d # c PROVE CallSound(d)'
      <3>1. CallSound(d) /\ <<d, call[d].n>> \in Attempts /\ <<d, call[d].n>> # a
        BY <1>0, <2>3, AttemptPairs DEF CallsSound, CallSound, a
      <3> QED
        BY <1>1, <1>5, <2>1, <2>3, <3>1 DEF CallSound
    <2> QED
      BY <2>1, <2>2, <2>3 DEF CallsSound
  <1>8. KeysSound' /\ WritesSound'
    <2>1. \A w \in writes : w[1] \in Attempts
      BY <1>0 DEF WritesSound
    <2> QED
      BY <1>0, <1>1, <1>3, <1>5, <2>1 DEF KeysSound, WritesSound
  <1>9. OtherTypes'
    <2>1. \A d \in Ahead : d \in -(Skew + 1) .. Skew
      BY DmRelayAssumption
    <2>2. offset' \in [Attempts -> -(Skew + 1) .. Skew]
      BY <1>0, <1>1, <2>1 DEF OtherTypes
    <2> QED
      BY <1>0, <1>1, <2>2 DEF OtherTypes
  <1>10. Quiet
    <2>1. faults =< faults'
      BY <1>0, <1>1, DmRelayAssumption DEF OtherTypes
    <2> QED
      BY <1>1, <1>3, <1>5, <2>1 DEF Quiet, Pushing
  <1> QED
    BY <1>6, <1>7, <1>8, <1>9, <1>10 DEF RelayInv

(***************************************************************************)
(* sendMessage and a retry, with a new key or the last one's.              *)
(***************************************************************************)
LEMMA SubmitStep ==
    ASSUME RelayInv, NEW c \in Calls,
           sendMessage(c) \/ \E mode \in RetryModes : Retry(c, mode)
    PROVE  RelayInv' /\ Quiet
  <1>0. /\ CallSound(c) /\ MaxAttempts[c] \in Nat \ {0}
        /\ \A a \in Attempts : Sound(a, request[a], stored)
    BY DmRelayAssumption DEF RelayInv, CallsSound, RequestsSound
  <1>1. CASE sendMessage(c)
    <2>1. Post(c, 1, <<c, 1>>, <<c, 1>>) /\ 1 \in 1 .. MaxAttempts[c]
      BY <1>0, <1>1 DEF sendMessage
    <2>2. <<c, 1>> \in Attempts /\ <<c, 1>>[1] = c
      BY <2>1, AttemptPairs
    <2> QED
      BY <2>1, <2>2, PostStep
  <1>2. ASSUME NEW mode \in RetryModes, Retry(c, mode) PROVE RelayInv' /\ Quiet
    <2> DEFINE n == call[c].n + 1
               last == request[<<c, n - 1>>]
               key == IF mode = "fresh" THEN <<c, n>> ELSE last.key
               body == IF mode = "identical" THEN last.body ELSE <<c, n>>
    <2>1. call[c].is = "backoff" /\ Post(c, n, key, body)
      BY <1>2 DEF Retry
    <2>2. n \in 1 .. MaxAttempts[c] /\ n - 1 = call[c].n /\ n - 1 \in 1 .. MaxAttempts[c]
      BY <1>0, <2>1 DEF CallSound
    <2>3. /\ <<c, n>> \in Attempts /\ <<c, n - 1>> \in Attempts /\ <<c, n>>[1] = c
          /\ <<c, n - 1>>[1] = c
      BY <2>2, AttemptPairs
    <2>4. last.pc # "unsent"
      BY <1>0, <2>1, <2>2 DEF CallSound
    <2>5. last.key \in Attempts /\ last.body \in Attempts /\ last.key[1] = c
      BY <1>0, <2>3, <2>4 DEF Sound
    <2>6. key \in Attempts /\ body \in Attempts /\ key[1] = c
      BY <2>3, <2>5
    <2> HIDE DEF key, body, n
    <2> QED
      BY <2>1, <2>2, <2>6, PostStep
  <1> QED
    BY <1>1, <1>2

(***************************************************************************)
(* A call settles on an answer, or on none.                                *)
(***************************************************************************)
LEMMA SettleStep ==
    ASSUME RelayInv, NEW c \in Calls, ReadAnswer(c) \/ NoAnswer(c)
    PROVE  RelayInv' /\ Quiet
  <1>0. /\ OtherTypes /\ RequestsSound /\ CallsSound /\ KeysSound /\ WritesSound /\ CallSound(c)
    BY DEF RelayInv, CallsSound
  <1> DEFINE a == <<c, call[c].n>>
             r == IF request[a].pc = "answered" THEN Over(request[a]) ELSE request[a]
  <1>1. a \in Attempts /\ a[1] = c
    BY <1>0, AttemptPairs DEF CallSound
  <1>2. PICK answer : /\ answer = request[a].answer \/ answer = None
                      /\ Settle(c, answer) /\ call[c].is = "sending"
    BY DEF ReadAnswer, NoAnswer
  <1>3. /\ call' = [call EXCEPT ![c].is = Outcome(c, answer)]
        /\ request' = [request EXCEPT ![a] = r]
        /\ UNCHANGED <<offset, seen, keys, row, stored, pushes, writes, relay, faults>>
    BY <1>2 DEF Settle
  <1>4. Sound(a, request[a], stored) /\ request[a].pc # "unsent"
    BY <1>0, <1>1, <1>2 DEF RequestsSound, CallSound
  <1>5. Sound(a, r, stored) /\ r.pc # "unsent" /\ (r.pc = "stored" => request[a].pc = "stored")
    BY <1>4, SoundOver
  <1> HIDE DEF r
  <1>6. /\ request' \in [Attempts -> Request] /\ request'[a] = r
        /\ \A b \in Attempts : b # a => request'[b] = request[b]
    BY <1>0, <1>1, <1>3, <1>5 DEF RequestsSound, Sound
  <1>7. RequestsSound'
    BY <1>0, <1>3, <1>5, <1>6 DEF RequestsSound
  <1>8. CallsSound'
    <2>1. /\ Outcome(c, answer) \in States
          /\ Outcome(c, answer) = "backoff" => call[c].n < MaxAttempts[c]
          /\ Outcome(c, answer) = "resolved" => c \in stored
      <3>1. answer = 201 => c \in stored
        BY <1>1, <1>2, <1>4, NoneIsNoAnswer DEF Sound
      <3> QED
        BY <3>1 DEF Outcome, States
    <2> DEFINE out == Outcome(c, answer)
    <2> HIDE DEF out
    <2>2. ASSUME NEW s \in Call, NEW o \in States
          PROVE  /\ [s EXCEPT !.is = o] \in Call /\ [s EXCEPT !.is = o].n = s.n
                 /\ [s EXCEPT !.is = o].is = o
      BY DEF Call
    <2>3. /\ call' \in [Calls -> Call] /\ call'[c].n = call[c].n /\ call'[c].is = out
          /\ \A d \in Calls : d # c => call'[d] = call[d]
      <3>1. call \in [Calls -> Call] /\ call' = [call EXCEPT ![c] = [call[c] EXCEPT !.is = out]]
        BY <1>0, <1>3 DEF CallsSound, out
      <3> QED
        BY <2>1, <2>2, <3>1 DEF out
    <2>4. CallSound(c)'
      BY <1>0, <1>3, <1>5, <1>6, <2>1, <2>3 DEF CallSound, out
    <2>5. ASSUME NEW d \in Calls, d # c PROVE CallSound(d)'
      <3>1. CallSound(d) /\ <<d, call[d].n>> \in Attempts /\ <<d, call[d].n>> # a
        BY <1>0, <2>5, AttemptPairs DEF CallsSound, CallSound
      <3> QED
        BY <1>3, <1>6, <2>3, <2>5, <3>1 DEF CallSound
    <2> QED
      BY <2>3, <2>4, <2>5 DEF CallsSound
  <1>9. KeysSound' /\ WritesSound'
    <2>1. \A w \in writes : w[1] \in Attempts
      BY <1>0 DEF WritesSound
    <2> QED
      BY <1>0, <1>3, <1>5, <1>6, <2>1 DEF KeysSound, WritesSound
  <1>10. OtherTypes' /\ faults =< faults'
    BY <1>0, <1>3, DmRelayAssumption DEF OtherTypes
  <1>11. Quiet
    BY <1>3, <1>5, <1>6, <1>10 DEF Quiet, Pushing
  <1> QED
    BY <1>7, <1>8, <1>9, <1>10, <1>11 DEF RelayInv

-------------------------------------------------------------------------------
(***************************************************************************)
(* The steps of the relay                                                  *)
(***************************************************************************)

(***************************************************************************)
(* A handler that does not insert moves on or answers, and may have its    *)
(* answer recorded.                                                        *)
(***************************************************************************)
Truthful(a, s) == s \in Answers /\ (s = 201 => a[1] \in stored)

Handled(a) ==
    \/ \E pc \in Places \ {"unsent", "stored"} : MoveTo(a, pc)
    \/ \E s : Truthful(a, s) /\ AnswerTo(a, s)

LEMMA HandlerStep ==
    ASSUME RelayInv, NEW a \in Attempts, request[a].pc # "unsent", Handled(a),
           UNCHANGED <<call, offset, row, stored, relay>>,
           seen' \in [Attempts -> 0 .. Skew], KeysSound', pushes' \in Nat,
           faults =< faults', faults' \in 0 .. MaxFaults,
           writes' = writes \/ \E s : Truthful(a, s) /\ writes' = writes \cup {<<a, s>>}
    PROVE  /\ RelayInv' /\ (pushes' = pushes => Quiet)
           /\ \A b \in Attempts : Pushing(b)' => Pushing(b) /\ b # a
  <1>0. OtherTypes /\ WritesSound
    BY DEF RelayInv
  <1>1. /\ RequestsSound' /\ CallsSound' /\ request'[a].pc # "unsent"
        /\ \A b \in Attempts : Pushing(b)' => Pushing(b) /\ b # a
        /\ \A w \in writes : request'[w[1]].pc # "unsent"
    <2>1. CASE \E pc \in Places \ {"unsent", "stored"} : MoveTo(a, pc)
      BY <2>1, MoveStep
    <2>2. CASE \E s : Truthful(a, s) /\ AnswerTo(a, s)
      BY <2>2, AnswerStep DEF Truthful
    <2> QED
      BY <2>1, <2>2 DEF Handled
  <1>2. OtherTypes'
    BY <1>0 DEF OtherTypes
  <1>3. WritesSound'
    <2>1. CASE writes' = writes
      BY <1>0, <1>1, <2>1 DEF WritesSound
    <2>2. ASSUME NEW s, Truthful(a, s), writes' = writes \cup {<<a, s>>} PROVE WritesSound'
      <3>1. writes' \subseteq Attempts \X Answers
        BY <1>0, <2>2 DEF WritesSound, Truthful
      <3>2. ASSUME NEW w \in writes'
            PROVE  request'[w[1]].pc # "unsent" /\ (w[2] = 201 => w[1][1] \in stored')
        <4>1. CASE w \in writes
          BY <1>0, <1>1, <4>1 DEF WritesSound
        <4>2. CASE w = <<a, s>>
          BY <1>1, <2>2, <4>2 DEF Truthful
        <4> QED
          BY <2>2, <4>1, <4>2
      <3> QED
        BY <3>1, <3>2 DEF WritesSound
    <2> QED
      BY <2>1, <2>2
  <1>4. pushes' = pushes => Quiet
    BY <1>1 DEF Quiet
  <1> QED
    BY <1>1, <1>2, <1>3, <1>4 DEF RelayInv

(***************************************************************************)
(* What HandlerStep asks of the variables that most handlers leave alone.  *)
(***************************************************************************)
LEMMA Unmoved ==
    ASSUME RelayInv
    PROVE  /\ seen \in [Attempts -> 0 .. Skew] /\ pushes \in Nat /\ faults =< faults
           /\ faults \in 0 .. MaxFaults
           /\ UNCHANGED <<keys, stored>> => KeysSound'
  <1>1. OtherTypes /\ KeysSound
    BY DEF RelayInv
  <1>2. faults \in Nat
    BY <1>1, DmRelayAssumption DEF OtherTypes
  <1> QED
    BY <1>1, <1>2 DEF OtherTypes, KeysSound

(***************************************************************************)
(* A posted request has its key and its body.                              *)
(***************************************************************************)
LEMMA PostedRequest ==
    ASSUME RelayInv, NEW a \in Attempts, request[a].pc # "unsent"
    PROVE  /\ request[a].key \in Attempts /\ request[a].body \in Attempts
           /\ request[a].key[1] = a[1]
  BY DEF RelayInv, RequestsSound, Sound

(***************************************************************************)
(* An answer read from the key's row may be given.                         *)
(***************************************************************************)
LEMMA RecordedAnswer ==
    ASSUME RelayInv, NEW a \in Attempts, request[a].pc # "unsent",
           keys[request[a].key] # None, keys[request[a].key].status # Pending
    PROVE  Truthful(a, keys[request[a].key].status)
  <1>1. /\ request[a].key \in Attempts /\ request[a].key[1] = a[1]
    BY PostedRequest
  <1>2. KeysSound
    BY DEF RelayInv
  <1>3. keys[request[a].key] \in Key
    BY <1>1, <1>2 DEF KeysSound
  <1>4. keys[request[a].key].status \in Answers
    BY <1>3 DEF Key
  <1> QED
    BY <1>1, <1>2, <1>4 DEF Truthful, KeysSound

(***************************************************************************)
(* Receiving a request: refused, or on its way to the key.                 *)
(***************************************************************************)
LEMMA ReceiveStep ==
    ASSUME RelayInv, NEW a \in Attempts, Receive(a)
    PROVE  RelayInv' /\ Quiet
  <1>1. /\ request[a].pc # "unsent"
        /\ UNCHANGED <<call, offset, keys, row, stored, pushes, writes, relay, faults>>
    BY DEF Receive
  <1>2. Truthful(a, 401) /\ Truthful(a, 429) /\ "claim" \in Places \ {"unsent", "stored"}
    BY DEF Truthful, Answers, Places, InRelay
  <1>3. Handled(a)
    BY <1>2 DEF Receive, rateLimitMiddleware, Handled
  <1>4. seen' \in [Attempts -> 0 .. Skew]
    BY <1>1, Unmoved, PostedRequest, DmRelayAssumption DEF Receive
  <1> QED
    BY <1>1, <1>3, <1>4, Unmoved, HandlerStep

(***************************************************************************)
(* Claiming a key: a new row is pending.                                   *)
(***************************************************************************)
LEMMA ClaimStep ==
    ASSUME RelayInv, NEW a \in Attempts, Claim(a)
    PROVE  RelayInv' /\ Quiet
  <1> DEFINE key == request[a].key
             new == [status |-> Pending, body |-> request[a].body, age |-> 0]
  <1>1. /\ request[a].pc # "unsent"
        /\ UNCHANGED <<call, offset, seen, row, stored, pushes, writes, relay, faults>>
        /\ keys' = keys \/ keys' = [keys EXCEPT ![key] = new]
    BY DEF Claim, claimIdempotencyKey
  <1>2. {"insert", "read"} \subseteq Places \ {"unsent", "stored"}
    BY DEF Places, InRelay
  <1>3. Handled(a)
    BY <1>2 DEF Claim, claimIdempotencyKey, Handled
  <1>4. KeysSound'
    <2>1. CASE keys' = keys
      BY <1>1, <2>1, Unmoved
    <2>2. CASE keys' = [keys EXCEPT ![key] = new]
      <3>1. key \in Attempts /\ request[a].body \in Attempts
        BY <1>1, PostedRequest
      <3>2. new \in Key /\ new.status # 201
        BY <3>1, DmRelayAssumption DEF Key, Pending
      <3> HIDE DEF new, key
      <3>3. KeysSound
        BY DEF RelayInv
      <3>4. /\ keys' \in [Attempts -> Key \cup {None}] /\ keys'[key] = new
            /\ \A k \in Attempts : k # key => keys'[k] = keys[k]
        BY <2>2, <3>1, <3>2, <3>3 DEF KeysSound
      <3> QED
        BY <1>1, <3>2, <3>3, <3>4 DEF KeysSound
    <2> QED
      BY <1>1, <2>1, <2>2
  <1> QED
    BY <1>1, <1>3, <1>4, Unmoved, HandlerStep

(***************************************************************************)
(* The claim fails.                                                        *)
(***************************************************************************)
LEMMA ClaimFailsStep ==
    ASSUME RelayInv, NEW a \in Attempts, ClaimFails(a)
    PROVE  RelayInv' /\ Quiet
  <1>1. /\ request[a].pc # "unsent" /\ AnswerTo(a, 500)
        /\ UNCHANGED <<call, offset, seen, keys, row, stored, pushes, writes, relay>>
        /\ faults =< faults' /\ faults' \in 0 .. MaxFaults
    BY FaultCounted DEF ClaimFails
  <1>2. Handled(a)
    BY <1>1 DEF Handled, Truthful, Answers
  <1> QED
    BY <1>1, <1>2, Unmoved, HandlerStep

(***************************************************************************)
(* Reading the key's row, and waiting for its answer.                      *)
(***************************************************************************)
LEMMA ReadStep ==
    ASSUME RelayInv, NEW a \in Attempts,
           ReadKey(a) \/ ReadKeyFails(a) \/ WaitSees(a) \/ WaitGivesUp(a)
    PROVE  RelayInv' /\ Quiet
  <1> DEFINE k == keys[request[a].key]
  <1>1. /\ request[a].pc # "unsent"
        /\ UNCHANGED <<call, offset, seen, keys, row, stored, pushes, writes, relay, faults>>
    BY DEF ReadKey, ReadKeyFails, WaitSees, WaitGivesUp
  <1>2. Truthful(a, 409) /\ Truthful(a, 500) /\ "wait" \in Places \ {"unsent", "stored"}
    BY DEF Truthful, Answers, Places, InRelay
  <1>3. k # None /\ k.status # Pending => Truthful(a, k.status)
    BY <1>1, RecordedAnswer
  <1> HIDE DEF k
  <1>4. Handled(a)
    <2>1. CASE ReadKey(a)
      <3>1. \/ MoveTo(a, "wait") \/ AnswerTo(a, 409)
            \/ k # None /\ k.status # Pending /\ AnswerTo(a, k.status)
        BY <2>1 DEF ReadKey, k
      <3> QED
        BY <1>2, <1>3, <3>1 DEF Handled
    <2>2. CASE ReadKeyFails(a)
      BY <1>2, <2>2 DEF ReadKeyFails, Handled
    <2>3. CASE WaitSees(a)
      <3>1. k # None /\ k.status # Pending /\ AnswerTo(a, k.status)
        BY <2>3 DEF WaitSees, k
      <3> QED
        BY <1>3, <3>1 DEF Handled
    <2>4. CASE WaitGivesUp(a)
      BY <1>2, <2>4 DEF WaitGivesUp, Handled
    <2> QED
      BY <2>1, <2>2, <2>3, <2>4
  <1> QED
    BY <1>1, <1>4, Unmoved, HandlerStep

(***************************************************************************)
(* An insert that is refused or fails is answered, and the answer will be  *)
(* recorded.                                                               *)
(***************************************************************************)
LEMMA InsertRefusedStep ==
    ASSUME RelayInv, NEW a \in Attempts, InsertFails(a) \/ (Insert(a) /\ row # None)
    PROVE  RelayInv' /\ Quiet
  <1>1. PICK s \in {409, 500} :
          /\ request[a].pc # "unsent" /\ AnswerTo(a, s) /\ writes' = writes \cup {<<a, s>>}
          /\ UNCHANGED <<call, offset, seen, keys, row, stored, pushes, relay>>
          /\ faults =< faults' /\ faults' \in 0 .. MaxFaults
    <2>1. CASE InsertFails(a)
      BY <2>1, FaultCounted DEF InsertFails, Respond
    <2>2. CASE Insert(a) /\ row # None
      BY <2>2, Unmoved DEF Insert, insertMessage, Respond
    <2> QED
      BY <2>1, <2>2
  <1>2. Truthful(a, s)
    BY DEF Truthful, Answers
  <1>3. Handled(a)
    BY <1>1, <1>2 DEF Handled
  <1> QED
    BY <1>1, <1>2, <1>3, Unmoved, HandlerStep

(***************************************************************************)
(* The insert that wins the unique index: the ciphertext is stored, and    *)
(* the handler goes on to its push.                                        *)
(***************************************************************************)
LEMMA InsertStep ==
    ASSUME RelayInv, NEW a \in Attempts, Insert(a), row = None
    PROVE  /\ RelayInv' /\ row' # None /\ row'.age = 0 /\ pushes' = 0
           /\ \A b \in Attempts : Pushing(b)' => Pushing(b) \/ b = a
  <1>0. OtherTypes /\ RequestsSound /\ KeysSound /\ WritesSound /\ a[1] \in Calls
    BY AttemptPairs DEF RelayInv
  <1>1. /\ request[a].pc # "unsent" /\ row' = [by |-> a[1], age |-> 0]
        /\ stored' = stored \cup {a[1]} /\ MoveTo(a, "stored") /\ pushes' = 0
        /\ UNCHANGED <<call, offset, seen, keys, relay, faults, writes>>
    BY DEF Insert, insertMessage
  <1> DEFINE r == Moved(request[a], "stored")
  <1>2. request' = [request EXCEPT ![a] = r]
    BY <1>1 DEF MoveTo, Moved
  <1>3. Sound(a, r, stored') /\ r.pc = "stored"
    <2>1. Sound(a, request[a], stored') /\ a[1] \in stored'
      BY <1>0, <1>1, SoundKept DEF RequestsSound
    <2>2. "stored" \in Places
      BY DEF Places, InRelay
    <2> QED
      BY <1>1, <2>1, <2>2, SoundMoved
  <1> HIDE DEF r
  <1>4. /\ RequestsSound' /\ CallsSound' /\ request'[a] = r
        /\ \A b \in Attempts : b # a => request'[b] = request[b]
        /\ \A w \in writes : /\ request'[w[1]].pc # "unsent"
                             /\ w[2] = 201 => w[1][1] \in stored'
    BY <1>1, <1>2, <1>3, RequestMoves
  <1>5. KeysSound'
    BY <1>0, <1>1 DEF KeysSound
  <1>6. WritesSound'
    BY <1>0, <1>1, <1>4 DEF WritesSound
  <1>7. row' \in Row /\ row'.age = 0
    BY <1>0, <1>1, DmRelayAssumption DEF Row
  <1>8. OtherTypes'
    BY <1>0, <1>1, <1>7 DEF OtherTypes
  <1>9. row' # None
    BY <1>0, <1>1, DmRelayAssumption
  <1> QED
    BY <1>1, <1>4, <1>5, <1>6, <1>7, <1>8, <1>9 DEF RelayInv, Pushing

(***************************************************************************)
(* The handler pushes and answers 201.                                     *)
(***************************************************************************)
LEMMA StoredStep ==
    ASSUME RelayInv, NEW a \in Attempts, Stored(a)
    PROVE  /\ RelayInv' /\ row' = row /\ pushes' = pushes + 1 /\ faults' = faults /\ Pushing(a)
           /\ \A b \in Attempts : Pushing(b)' => Pushing(b) /\ b # a
  <1>1. /\ request[a].pc = "stored" /\ AnswerTo(a, 201) /\ writes' = writes \cup {<<a, 201>>}
        /\ pushes' = pushes + 1 /\ UNCHANGED <<call, offset, seen, keys, row, stored, relay, faults>>
    BY DEF Stored, Respond
  <1>2. Truthful(a, 201)
    BY <1>1 DEF Truthful, Answers, RelayInv, RequestsSound, Sound
  <1>3. Handled(a)
    BY <1>1, <1>2 DEF Handled
  <1>4. pushes' \in Nat
    BY <1>1, Unmoved
  <1>5. \E s : Truthful(a, s) /\ writes' = writes \cup {<<a, s>>}
    BY <1>1, <1>2
  <1>6. /\ request[a].pc # "unsent" /\ seen' \in [Attempts -> 0 .. Skew] /\ KeysSound'
        /\ faults =< faults' /\ faults' \in 0 .. MaxFaults
    BY <1>1, Unmoved
  <1> QED
    BY <1>1, <1>3, <1>4, <1>5, <1>6, HandlerStep DEF Pushing

(***************************************************************************)
(* An answer is recorded in the key's row, or the write is lost.           *)
(***************************************************************************)
LEMMA CompleteStep ==
    ASSUME RelayInv, NEW w \in writes, Complete(w) \/ CompleteFails(w)
    PROVE  RelayInv' /\ Quiet
  <1>0. OtherTypes /\ RequestsSound /\ CallsSound /\ KeysSound /\ WritesSound
    BY DEF RelayInv
  <1> DEFINE key == request[w[1]].key
  <1>1. /\ writes' = writes \ {w}
        /\ UNCHANGED <<call, request, offset, seen, row, stored, pushes, relay>>
        /\ faults =< faults' /\ faults' \in 0 .. MaxFaults
        /\ keys' = keys \/ (keys[key] # None /\ keys' = [keys EXCEPT ![key].status = w[2]])
    BY FaultCounted, Unmoved DEF Complete, CompleteFails, completeIdempotencyKey
  <1>2. w[1] \in Attempts /\ w[2] \in Answers /\ (w[2] = 201 => w[1][1] \in stored)
        /\ request[w[1]].pc # "unsent"
    BY <1>0 DEF WritesSound
  <1>3. key \in Attempts /\ key[1] = w[1][1]
    BY <1>2, PostedRequest
  <1> HIDE DEF key
  <1>4. KeysSound'
    <2>1. CASE keys' = keys
      BY <1>0, <1>1, <2>1 DEF KeysSound
    <2>2. CASE keys[key] # None /\ keys' = [keys EXCEPT ![key].status = w[2]]
      <3>1. ASSUME NEW k \in Key, NEW s \in Answers
            PROVE  [k EXCEPT !.status = s] \in Key /\ [k EXCEPT !.status = s].status = s
        BY DEF Key
      <3> DEFINE new == [keys[key] EXCEPT !.status = w[2]]
      <3>2. new \in Key /\ new.status = w[2] /\ keys' = [keys EXCEPT ![key] = new]
        BY <1>0, <1>2, <1>3, <2>2, <3>1 DEF KeysSound
      <3> HIDE DEF new
      <3>3. /\ keys' \in [Attempts -> Key \cup {None}] /\ keys'[key] = new
            /\ \A k \in Attempts : k # key => keys'[k] = keys[k]
        BY <1>0, <1>3, <3>2 DEF KeysSound
      <3> QED
        BY <1>0, <1>1, <1>2, <1>3, <3>2, <3>3 DEF KeysSound
    <2> QED
      BY <1>1, <2>1, <2>2
  <1>5. OtherTypes' /\ RequestsSound' /\ CallsSound' /\ WritesSound'
    BY <1>0, <1>1 DEF OtherTypes, RequestsSound, CallsSound, CallSound, WritesSound
  <1> QED
    BY <1>1, <1>4, <1>5 DEF RelayInv, Quiet, Pushing

-------------------------------------------------------------------------------
(***************************************************************************)
(* Time, the cleanup job, and the end of the process                       *)
(***************************************************************************)

(***************************************************************************)
(* A row grows older, and stops when nothing compares its age.             *)
(***************************************************************************)
LEMMA OlderAge ==
    ASSUME NEW last \in Nat, NEW age \in 0 .. (last + 1)
    PROVE  Older(age, last) \in 0 .. (last + 1) /\ Older(age, last) =< age + 1
  BY DEF Older

(***************************************************************************)
(* A unit of time passes.                                                  *)
(***************************************************************************)
LEMMA TickStep ==
    ASSUME RelayInv, Tick
    PROVE  /\ RelayInv' /\ pushes' = pushes /\ request' = request
           /\ row = None => row' = None
           /\ row # None => row' # None /\ row'.age =< row.age + 1
           /\ (\E a \in Attempts : Pushing(a)) => faults' = faults + 1
  <1>0. OtherTypes /\ RequestsSound /\ CallsSound /\ KeysSound /\ WritesSound
    BY DEF RelayInv
  <1>1. /\ UNCHANGED <<call, request, stored, pushes, writes, relay>>
        /\ \/ (\A a \in Attempts : request[a].pc \notin InRelay) /\ faults' = faults
           \/ faults < MaxFaults /\ faults' = faults + 1
    BY DEF Tick
  <1>2. offset' \in [Attempts -> -(Skew + 1) .. Skew]
    <2>1. ASSUME NEW x \in -(Skew + 1) .. Skew
          PROVE  (IF x < -Skew THEN x ELSE x - 1) \in -(Skew + 1) .. Skew
      BY DmRelayAssumption
    <2> QED
      BY <1>0, <2>1 DEF OtherTypes, Tick
  <1>3. seen' \in [Attempts -> 0 .. Skew]
    <2>1. ASSUME NEW x \in 0 .. Skew PROVE (IF x = 0 THEN 0 ELSE x - 1) \in 0 .. Skew
      BY DmRelayAssumption
    <2> QED
      BY <1>0, <2>1 DEF OtherTypes, Tick
  <1>4. ASSUME NEW k \in Key
        PROVE  /\ [k EXCEPT !.age = Older(@, KeyTtl)] \in Key
               /\ [k EXCEPT !.age = Older(@, KeyTtl)].status = k.status
    <2>1. k.age \in 0 .. (KeyTtl + 1) /\ Older(k.age, KeyTtl) \in 0 .. (KeyTtl + 1)
      BY OlderAge, DmRelayAssumption DEF Key
    <2> QED
      BY <2>1 DEF Key
  <1>5. KeysSound'
    <2>1. keys' = [k \in Attempts |-> IF keys[k] = None THEN None
                                      ELSE [keys[k] EXCEPT !.age = Older(@, KeyTtl)]]
      BY DEF Tick
    <2>2. keys' \in [Attempts -> Key \cup {None}]
      BY <1>0, <1>4, <2>1 DEF KeysSound
    <2>3. ASSUME NEW k \in Attempts, keys'[k] # None
          PROVE  keys[k] # None /\ keys'[k].status = keys[k].status
      BY <1>0, <1>4, <2>1, <2>3 DEF KeysSound
    <2> QED
      BY <1>0, <1>1, <2>2, <2>3 DEF KeysSound
  <1>6. /\ row' \in Row \cup {None} /\ (row = None => row' = None)
        /\ row # None => row' # None /\ row'.age =< row.age + 1
    <2>1. CASE row = None
      BY <2>1 DEF Tick
    <2>2. CASE row # None
      <3>1. row \in Row /\ row' = [row EXCEPT !.age = Older(row.age, MessageTtl)]
        BY <1>0, <2>2 DEF OtherTypes, Tick
      <3>2. /\ row.age \in 0 .. (MessageTtl + 1)
            /\ Older(row.age, MessageTtl) \in 0 .. (MessageTtl + 1)
            /\ Older(row.age, MessageTtl) =< row.age + 1
        BY <3>1, OlderAge, DmRelayAssumption DEF Row
      <3> DEFINE age == Older(row.age, MessageTtl)
      <3> HIDE DEF age
      <3>3. row' \in Row /\ row'.age = age
        BY <3>1, <3>2 DEF Row, age
      <3>4. row' \in [by : Calls, age : Nat]
        BY <3>3, DmRelayAssumption DEF Row
      <3> QED
        BY <2>2, <3>2, <3>3, <3>4, DmRelayAssumption DEF age
    <2> QED
      BY <2>1, <2>2
  <1>7. faults' \in 0 .. MaxFaults
    BY <1>0, <1>1, DmRelayAssumption DEF OtherTypes
  <1>8. OtherTypes'
    BY <1>0, <1>1, <1>2, <1>3, <1>6, <1>7 DEF OtherTypes
  <1>9. RequestsSound' /\ CallsSound' /\ WritesSound'
    BY <1>0, <1>1 DEF RequestsSound, CallsSound, CallSound, WritesSound
  <1>10. (\E a \in Attempts : Pushing(a)) => faults' = faults + 1
    BY <1>1 DEF Pushing, InRelay
  <1> QED
    BY <1>1, <1>5, <1>6, <1>8, <1>9, <1>10 DEF RelayInv

(***************************************************************************)
(* The cleanup job deletes expired keys.                                   *)
(***************************************************************************)
LEMMA CleanKeysStep ==
    ASSUME RelayInv, CleanKeys
    PROVE  RelayInv' /\ Quiet
  <1>0. OtherTypes /\ RequestsSound /\ CallsSound /\ KeysSound /\ WritesSound
    BY DEF RelayInv
  <1>1. /\ UNCHANGED <<call, request, offset, seen, row, stored, pushes, writes, relay, faults>>
        /\ keys' = [k \in Attempts |-> IF keys[k] # None /\ keys[k].age > KeyTtl
                                         THEN None ELSE keys[k]]
    BY DEF CleanKeys, deleteExpiredIdempotencyKeys
  <1>2. KeysSound'
    BY <1>0, <1>1 DEF KeysSound
  <1>3. OtherTypes' /\ RequestsSound' /\ CallsSound' /\ WritesSound'
    BY <1>0, <1>1 DEF OtherTypes, RequestsSound, CallsSound, CallSound, WritesSound
  <1> QED
    BY <1>1, <1>2, <1>3, Unmoved DEF RelayInv, Quiet, Pushing

(***************************************************************************)
(* The cleanup job deletes the expired message; what was stored once       *)
(* counts as stored.                                                       *)
(***************************************************************************)
LEMMA CleanMessagesStep ==
    ASSUME RelayInv, CleanMessages
    PROVE  /\ RelayInv' /\ row # None /\ ~(row.age =< MessageTtl) /\ row' = None
           /\ pushes' = pushes /\ request' = request
  <1>0. OtherTypes /\ RequestsSound /\ CallsSound /\ KeysSound /\ WritesSound
    BY DEF RelayInv
  <1>1. /\ UNCHANGED <<call, request, offset, seen, keys, stored, pushes, writes, relay, faults>>
        /\ row # None /\ row.age > MessageTtl /\ row' = None
    BY DEF CleanMessages
  <1>2. ~(row.age =< MessageTtl)
    <2>1. row.age \in Nat
      BY <1>0, <1>1, DmRelayAssumption DEF OtherTypes, Row
    <2> QED
      BY <1>1, <2>1, DmRelayAssumption
  <1>3. /\ OtherTypes' /\ RequestsSound' /\ CallsSound' /\ KeysSound' /\ WritesSound'
    BY <1>0, <1>1
       DEF OtherTypes, RequestsSound, CallsSound, CallSound, KeysSound, WritesSound
  <1> QED
    BY <1>1, <1>2, <1>3 DEF RelayInv

(***************************************************************************)
(* Shutting down closes the pool and nothing else.                         *)
(***************************************************************************)
LEMMA ShutdownStep ==
    ASSUME RelayInv, Shutdown
    PROVE  RelayInv' /\ Quiet
  <1>0. OtherTypes /\ RequestsSound /\ CallsSound /\ KeysSound /\ WritesSound
    BY DEF RelayInv
  <1>1. /\ UNCHANGED <<call, request, offset, seen, keys, row, stored, pushes, writes>>
        /\ relay' = "draining" /\ faults =< faults' /\ faults' \in 0 .. MaxFaults
    BY FaultCounted DEF Shutdown
  <1>2. /\ OtherTypes' /\ RequestsSound' /\ CallsSound' /\ KeysSound' /\ WritesSound'
    BY <1>0, <1>1
       DEF OtherTypes, RequestsSound, CallsSound, CallSound, KeysSound, WritesSound
  <1> QED
    BY <1>1, <1>2 DEF RelayInv, Quiet, Pushing

(***************************************************************************)
(* A restart ends the requests being served and forgets what was not       *)
(* written.                                                                *)
(***************************************************************************)
LEMMA RestartStep ==
    ASSUME RelayInv, Restart
    PROVE  RelayInv' /\ Quiet
  <1>0. OtherTypes /\ RequestsSound /\ CallsSound /\ KeysSound /\ WritesSound
    BY DEF RelayInv
  <1>1. /\ UNCHANGED <<call, offset, keys, row, stored, pushes>>
        /\ relay' = "up" /\ writes' = {} /\ seen' = [a \in Attempts |-> 0]
        /\ request' = [a \in Attempts |-> IF request[a].pc \in InRelay
                                            THEN Over(request[a]) ELSE request[a]]
        /\ faults =< faults' /\ faults' \in 0 .. MaxFaults
    BY FaultCounted DEF Restart
  <1>2. ASSUME NEW a \in Attempts
        PROVE  /\ Sound(a, request'[a], stored) /\ request'[a] \in Request
               /\ request[a].pc # "unsent" => request'[a].pc # "unsent"
               /\ request'[a].pc # "stored"
    <2>1. Sound(a, request[a], stored)
      BY <1>0 DEF RequestsSound
    <2>2. CASE request[a].pc \in InRelay
      <3>1. request'[a] = Over(request[a]) /\ request[a].pc # "unsent"
        BY <1>1, <2>2 DEF InRelay
      <3>2. Sound(a, Over(request[a]), stored) /\ Over(request[a]).pc = "over"
        BY <2>1, <3>1, SoundOver
      <3> QED
        BY <3>1, <3>2 DEF Sound
    <2>3. CASE request[a].pc \notin InRelay
      <3>1. request'[a] = request[a] /\ request[a].pc # "stored"
        BY <1>1, <2>3 DEF InRelay
      <3> QED
        BY <2>1, <3>1 DEF Sound
    <2> QED
      BY <2>2, <2>3
  <1>3. RequestsSound'
    <2>1. request' \in [Attempts -> Request]
      BY <1>1, <1>2
    <2> QED
      BY <1>1, <1>2, <2>1 DEF RequestsSound
  <1>4. CallsSound'
    <2>1. ASSUME NEW c \in Calls PROVE CallSound(c)'
      <3>1. CallSound(c) /\ <<c, call[c].n>> \in Attempts
        BY <1>0, AttemptPairs DEF CallsSound, CallSound
      <3> QED
        BY <1>1, <1>2, <3>1 DEF CallSound
    <2> QED
      BY <1>0, <1>1, <2>1 DEF CallsSound
  <1>5. OtherTypes'
    <2>1. seen' \in [Attempts -> 0 .. Skew]
      BY <1>1, DmRelayAssumption
    <2> QED
      BY <1>0, <1>1, <2>1 DEF OtherTypes
  <1>6. KeysSound' /\ WritesSound'
    BY <1>0, <1>1 DEF KeysSound, WritesSound
  <1>7. Quiet
    BY <1>1, <1>2 DEF Quiet, Pushing
  <1> QED
    BY <1>3, <1>4, <1>5, <1>6, <1>7 DEF RelayInv

-------------------------------------------------------------------------------
(***************************************************************************)
(* The theorems                                                            *)
(***************************************************************************)

(***************************************************************************)
(* Nothing has been sent.                                                  *)
(***************************************************************************)
LEMMA RelayInit == Init => RelayInv /\ StallsCounted /\ PushInv
  <1> SUFFICES ASSUME Init PROVE RelayInv /\ StallsCounted /\ PushInv
    OBVIOUS
  <1>1. OtherTypes
    <2>1. -(Skew + 1) \in -(Skew + 1) .. Skew /\ 0 \in 0 .. Skew /\ 0 \in 0 .. MaxFaults
      BY DmRelayAssumption
    <2> QED
      BY <2>1 DEF Init, OtherTypes
  <1>2. Unsent \in Request /\ Unsent.pc = "unsent" /\ Unsent.answer # 201
    BY NoneIsNoAnswer DEF Unsent, Request, Places
  <1>3. RequestsSound /\ \A a \in Attempts : request[a].pc = "unsent"
    BY <1>2 DEF Init, RequestsSound, Sound
  <1>4. CallsSound
    <2>1. \A c \in Calls : 1 \in 1 .. MaxAttempts[c]
      BY DmRelayAssumption
    <2> QED
      BY <2>1 DEF Init, CallsSound, CallSound, Call, States
  <1>5. KeysSound /\ WritesSound
    BY DEF Init, KeysSound, WritesSound
  <1>6. StallsCounted /\ PushInv
    BY <1>3 DEF Init, StallsCounted, PushInv, Pushing
  <1> QED
    BY <1>1, <1>3, <1>4, <1>5, <1>6 DEF RelayInv

(***************************************************************************)
(* Every step keeps the invariant and the count of stalls; and the push    *)
(* is still to come for one handler at most, unless a message expired      *)
(* under it.                                                               *)
(***************************************************************************)
LEMMA RelayStep ==
    ASSUME RelayInv, [Next]_vars
    PROVE  /\ RelayInv' /\ (StallsCounted => StallsCounted')
           /\ PushInv /\ NoStalePush => PushInv'
  <1> DEFINE Goal == /\ RelayInv' /\ (StallsCounted => StallsCounted')
                     /\ PushInv /\ NoStalePush => PushInv'
  <1>0. ASSUME RelayInv' /\ Quiet PROVE Goal
    BY <1>0, QuietStep
  <1>1. ASSUME NEW a \in Attempts, Insert(a), row = None PROVE Goal
    <2>1. /\ RelayInv' /\ row' # None /\ row'.age = 0 /\ pushes' = 0
          /\ \A b \in Attempts : Pushing(b)' => Pushing(b) \/ b = a
      BY <1>1, InsertStep
    <2>2. row'.age =< faults'
      BY <2>1, DmRelayAssumption DEF RelayInv, OtherTypes
    <2>3. StallsCounted'
      BY <2>2 DEF StallsCounted
    <2>4. PushInv => PushInv'
      <3>1. PushInv => \A b \in Attempts : ~Pushing(b)
        BY <1>1 DEF PushInv
      <3> QED
        BY <2>1, <3>1 DEF PushInv
    <2> QED
      BY <2>1, <2>3, <2>4
  <1>2. ASSUME NEW a \in Attempts, Stored(a) PROVE Goal
    <2>1. /\ RelayInv' /\ row' = row /\ pushes' = pushes + 1 /\ faults' = faults /\ Pushing(a)
          /\ \A b \in Attempts : Pushing(b)' => Pushing(b) /\ b # a
      BY <1>2, StoredStep
    <2>2. StallsCounted => StallsCounted'
      BY <2>1 DEF StallsCounted
    <2>3. PushInv => PushInv'
      <3>1. PushInv => pushes' = 1 /\ \A b \in Attempts : ~Pushing(b)'
        BY <2>1 DEF PushInv
      <3> QED
        BY <3>1 DEF PushInv
    <2> QED
      BY <2>1, <2>2, <2>3
  <1>3. ASSUME Tick PROVE Goal
    <2>1. /\ RelayInv' /\ pushes' = pushes /\ request' = request
          /\ row = None => row' = None
          /\ row # None => row' # None /\ row'.age =< row.age + 1
          /\ (\E a \in Attempts : Pushing(a)) => faults' = faults + 1
      BY <1>3, TickStep
    <2>2. \A a \in Attempts : Pushing(a)' <=> Pushing(a)
      BY <2>1 DEF Pushing
    <2>3. StallsCounted => StallsCounted'
      <3>1. ASSUME StallsCounted, NEW a \in Attempts, Pushing(a)', row' # None
            PROVE  row'.age =< faults'
        <4>1. Pushing(a) /\ row # None /\ row.age =< faults /\ faults' = faults + 1
          BY <2>1, <2>2, <3>1 DEF StallsCounted
        <4>2. row.age \in Nat /\ row'.age \in Nat /\ faults \in Nat
          BY <2>1, <3>1, <4>1, DmRelayAssumption DEF RelayInv, OtherTypes, Row
        <4> QED
          BY <2>1, <4>1, <4>2
      <3> QED
        BY <3>1 DEF StallsCounted
    <2>4. PushInv => PushInv'
      BY <2>1, <2>2 DEF PushInv
    <2> QED
      BY <2>1, <2>3, <2>4
  <1>4. ASSUME CleanMessages PROVE Goal
    <2>1. /\ RelayInv' /\ row # None /\ ~(row.age =< MessageTtl) /\ row' = None
          /\ pushes' = pushes /\ request' = request
      BY <1>4, CleanMessagesStep
    <2>2. StallsCounted'
      BY <2>1 DEF StallsCounted
    <2>3. PushInv /\ NoStalePush => PushInv'
      BY <2>1 DEF PushInv, NoStalePush, Pushing
    <2> QED
      BY <2>1, <2>2, <2>3
  <1>5. ASSUME NEW c \in Calls, sendMessage(c) \/ \E mode \in RetryModes : Retry(c, mode)
        PROVE Goal
    BY <1>0, <1>5, SubmitStep
  <1>6. ASSUME NEW c \in Calls, ReadAnswer(c) \/ NoAnswer(c) PROVE Goal
    BY <1>0, <1>6, SettleStep
  <1>7. ASSUME NEW a \in Attempts, Receive(a) \/ Claim(a) \/ ClaimFails(a) PROVE Goal
    BY <1>0, <1>7, ReceiveStep, ClaimStep, ClaimFailsStep
  <1>8. ASSUME NEW a \in Attempts,
               ReadKey(a) \/ ReadKeyFails(a) \/ WaitSees(a) \/ WaitGivesUp(a)
        PROVE Goal
    BY <1>0, <1>8, ReadStep
  <1>9. ASSUME NEW a \in Attempts, InsertFails(a) \/ (Insert(a) /\ row # None) PROVE Goal
    BY <1>0, <1>9, InsertRefusedStep
  <1>10. ASSUME NEW w \in writes, Complete(w) \/ CompleteFails(w) PROVE Goal
    BY <1>0, <1>10, CompleteStep
  <1>11. ASSUME CleanKeys \/ Shutdown \/ Restart PROVE Goal
    BY <1>0, <1>11, CleanKeysStep, ShutdownStep, RestartStep
  <1>12. ASSUME UNCHANGED vars PROVE Goal
    <2>1. RelayInv'
      BY <1>12 DEF vars, RelayInv, OtherTypes, RequestsSound, CallsSound, CallSound, KeysSound,
                   WritesSound
    <2>2. Quiet
      BY <1>12, Unmoved DEF vars, Quiet, Pushing
    <2> QED
      BY <1>0, <2>1, <2>2
  <1> HIDE DEF Goal
  <1>13. ASSUME Next PROVE Goal
    <2>1. ASSUME ServerStep PROVE Goal
      BY <1>1, <1>2, <1>7, <1>8, <1>9, <1>10, <2>1 DEF ServerStep
    <2> QED
      BY <1>3, <1>4, <1>5, <1>6, <1>11, <1>13, <2>1 DEF Next
  <1>14. Goal
    BY <1>12, <1>13
  <1> QED
    BY <1>14 DEF Goal

(***************************************************************************)
(* The inductive invariant always holds.                                   *)
(***************************************************************************)
THEOREM RelayInvariant == Spec => [](RelayInv /\ StallsCounted)
  <1>1. RelayInv /\ StallsCounted /\ [Next]_vars => (RelayInv /\ StallsCounted)'
    BY RelayStep
  <1> QED
    BY <1>1, RelayInit, PTL DEF Spec

(***************************************************************************)
(* The rows have their types, and a call of sendMessage that resolved has  *)
(* had its own ciphertext stored: no failed insert, lost answer, replayed  *)
(* key, restart or other device's message is reported as success, however  *)
(* many faults there are.                                                  *)
(***************************************************************************)
THEOREM SuccessMeansStored == Spec => [](TypeOK /\ ResolvedIsStored)
  <1>1. RelayInv => TypeOK /\ ResolvedIsStored
    <2> SUFFICES ASSUME RelayInv PROVE TypeOK /\ ResolvedIsStored
      OBVIOUS
    <2>1. OtherTypes /\ RequestsSound /\ CallsSound /\ KeysSound /\ WritesSound
      BY DEF RelayInv
    <2>2. /\ call \in [Calls -> [n : Nat, is : States]]
          /\ \A c \in Calls : call[c].n \in 1 .. MaxAttempts[c]
          /\ ResolvedIsStored
      BY <2>1 DEF CallsSound, CallSound, Call, ResolvedIsStored
    <2>3. request \in [Attempts -> Request] /\ keys \in [Attempts -> Key \cup {None}]
          /\ writes \subseteq Attempts \X Answers
      BY <2>1 DEF RequestsSound, KeysSound, WritesSound
    <2>4. TypeOK
      BY <2>1, <2>2, <2>3 DEF TypeOK, OtherTypes, States, Request, Places, Key, Row
    <2> QED
      BY <2>2, <2>4
  <1> QED
    BY <1>1, RelayInvariant, PTL

(***************************************************************************)
(* As long as no handler stalls between its insert and its push until its  *)
(* message has expired, a stored message is pushed once at most, whatever  *)
(* is retried, replayed, answered late or cut short.                       *)
(***************************************************************************)
THEOREM PushedOnce == Spec /\ []NoStalePush => []OnePushPerMessage
  <1>1. RelayInv /\ PushInv /\ NoStalePush /\ [Next]_vars => PushInv'
    BY RelayStep
  <1>2. PushInv => OnePushPerMessage
    BY DEF PushInv, OnePushPerMessage
  <1> QED
    BY <1>1, <1>2, RelayInit, RelayInvariant, PTL DEF Spec

(***************************************************************************)
(* So success is reported for stored messages only and each is pushed at   *)
(* most once, in every run with fewer units of stalled time than a message *)
(* lives.                                                                  *)
(***************************************************************************)
THEOREM EachMessageOnce ==
    ASSUME MaxFaults =< MessageTtl
    PROVE  Spec => []StoredOnce
  <1>1. RelayInv /\ StallsCounted => NoStalePush
    <2> SUFFICES ASSUME RelayInv, StallsCounted, NEW a \in Attempts, Pushing(a), row # None
                 PROVE  row.age =< MessageTtl
      BY DEF NoStalePush
    <2>1. row.age =< faults
      BY DEF StallsCounted
    <2>2. row.age \in Nat /\ faults \in 0 .. MaxFaults
      BY DmRelayAssumption DEF RelayInv, OtherTypes, Row
    <2> QED
      BY <2>1, <2>2, DmRelayAssumption
  <1>2. TypeOK /\ ResolvedIsStored /\ OnePushPerMessage => StoredOnce
    BY DEF StoredOnce
  <1> QED
    BY <1>1, <1>2, RelayInvariant, SuccessMeansStored, PushedOnce, PTL
================================================================================
