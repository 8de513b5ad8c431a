--------------------------- MODULE EventStreamProofs ---------------------------
(***************************************************************************)
(* Theorems about EventStream for any ledgers, page and batch sizes,       *)
(* confirmation window, depths, thresholds, late ledgers, faults and       *)
(* restarts; and, at the end, about EventFanout, the websockets the        *)
(* stored events go out to.                                                *)
(***************************************************************************)
EXTENDS EventStream, EventFanout, FiniteSetTheorems, SequenceTheorems, TLAPS

-------------------------------------------------------------------------------
(***************************************************************************)
(* The inductive invariant                                                 *)
(***************************************************************************)

(***************************************************************************)
(* The types, in parts.                                                    *)
(***************************************************************************)
Stream == [pc : Pcs, start : 1 .. (LastLedger + 1), paging : Tokens, cursor : 0 .. LastLedger,
           page : SUBSET Events, latest : 0 .. LastLedger]
Breaker == [state : {"closed", "open", "half_open"}, failures : Nat]
Backfill == [status : {"healthy", "backfilling", "gap_too_large", "circuit_open"},
             failures : 0 .. MaxFailures, current : Nat, to : Nat]

(***************************************************************************)
(* The RPC: a ledger that is served late is within the confirmation window *)
(* of the latest one.                                                      *)
(***************************************************************************)
RpcSound ==
    /\ chain \in [Ledgers -> 0 .. MaxPerLedger] /\ tip \in Ledgers /\ StartLedger =< tip
    /\ hidden \subseteq lagged /\ lagged \subseteq 1 .. tip
    /\ \A l \in hidden : tip < l + GapConfirmation

(***************************************************************************)
(* The tables hold events of closed ledgers.                               *)
(***************************************************************************)
TablesSound ==
    /\ stored \subseteq Events /\ published \subseteq stored
    /\ \A e \in stored : e[1] =< tip
    /\ cursorRow = Max({0} \cup LedgersOf(stored))

(***************************************************************************)
(* The loop, the breaker and the coordinator agree on where they are.      *)
(***************************************************************************)
LoopSound ==
    /\ stream \in Stream /\ breaker \in Breaker /\ backfill \in Backfill
    /\ stream.start =< tip + 1 /\ stream.cursor =< tip /\ stream.paging[1] =< tip
    /\ (stream.pc = "open") = (breaker.state = "open")
    /\ backfill.status # "circuit_open" => backfill.failures < MaxFailures
    /\ Recovering => backfill.status = "backfilling" /\ backfill.to =< tip
    /\ stream.pc = "startup" => backfill.status # "circuit_open"
    /\ faults \in 0 .. MaxFaults /\ crashes \in 0 .. MaxCrashes

(***************************************************************************)
(* What the loop has passed: the ledgers before its window, and in a       *)
(* window of several pages the events up to its paging token.              *)
(***************************************************************************)
Passed(e) ==
    \/ e[1] < stream.start
    \/ stream.paging # NoToken /\ ~Before(stream.paging, e)

PassedIsStored ==
    \A e \in Events : Prompt(e) /\ StartLedger =< e[1] /\ Passed(e) => e \in stored

(***************************************************************************)
(* A page in hand holds every prompt event it should, up to its last one   *)
(* if it is full, and up to the RPC's ledger at the time if it is short.   *)
(***************************************************************************)
InHand == stream.pc \in {"recovery", "process"}

PageSound ==
    InHand =>
        /\ stream.page # {} /\ stream.latest =< tip /\ Cardinality(stream.page) =< PageSize
        /\ \A e \in stream.page : e[1] =< stream.latest
        /\ \A e \in Events : 
              Prompt(e) /\ StartLedger =< e[1] /\ ~Passed(e) /\ e[1] =< stream.latest =>
                  \/ e \in stream.page
                  \/ Cardinality(stream.page) = PageSize /\ \A f \in stream.page : Before(f, e)

(***************************************************************************)
(* A gap under recovery lies outside the confirmation window, and its      *)
(* ledgers before the next batch are stored.                               *)
(***************************************************************************)
GapSound ==
    stream.pc = "recovery" =>
        /\ backfill.to + GapConfirmation =< tip
        /\ stream.cursor < backfill.current /\ backfill.current =< backfill.to
        /\ \A e \in Events : stream.cursor < e[1] /\ e[1] < backfill.current => e \in stored

StreamInv == RpcSound /\ TablesSound /\ LoopSound /\ PassedIsStored /\ PageSound /\ GapSound

-------------------------------------------------------------------------------
(***************************************************************************)
(* Extremes                                                                *)
(***************************************************************************)

(***************************************************************************)
(* A set of naturals has a least element.                                  *)
(***************************************************************************)
LEMMA Least ==
    ASSUME NEW S \in SUBSET Nat, S # {}
    PROVE  \E x \in S : \A y \in S : x =< y
  <1> DEFINE R == OpToRel(<, Nat)
  <1>1. IsWellFoundedOn(R, Nat)
    BY NatLessThanWellFounded
  <1>2. \A x, y \in Nat : <<y, x>> \in R <=> y < x
    BY DEF OpToRel
  <1> HIDE DEF R
  <1>3. PICK x \in S : \A y \in S : ~(<<y, x>> \in R)
    BY <1>1, WFMin
  <1>4. x \in Nat /\ \A y \in S : y \in Nat
    OBVIOUS
  <1>5. ASSUME NEW y \in S PROVE x =< y
    <2>1. ~(y < x)
      BY <1>2, <1>3, <1>4, Zenon
    <2> QED
      BY <1>4, <2>1
  <1> QED
    BY <1>5

(***************************************************************************)
(* Min and Max of sets of naturals.                                        *)
(***************************************************************************)
LEMMA MinOf ==
    ASSUME NEW S \in SUBSET Nat, S # {}
    PROVE  Min(S) \in S /\ \A y \in S : Min(S) =< y
  BY Least DEF Min

LEMMA MaxOf ==
    ASSUME NEW S \in SUBSET Nat, S # {}, NEW n \in Nat, \A x \in S : x =< n
    PROVE  Max(S) \in S /\ \A y \in S : y =< Max(S)
  <1> DEFINE T == {n - x : x \in S}
  <1>1. \A x \in S : x \in Nat /\ n - x \in Nat
    OBVIOUS
  <1>2. T \in SUBSET Nat /\ T # {}
    BY <1>1
  <1>3. PICK t \in T : \A y \in T : t =< y
    BY <1>2, Least
  <1>4. PICK x \in S : t = n - x
    OBVIOUS
  <1>5. ASSUME NEW y \in S PROVE x >= y
    <2>1. n - x =< n - y
      BY <1>3, <1>4
    <2> QED
      BY <1>1, <2>1
  <1>6. \A y \in S : Max(S) >= y
    BY <1>5 DEF Max
  <1>7. Max(S) \in S
    BY <1>5 DEF Max
  <1> QED
    BY <1>1, <1>6, <1>7

-------------------------------------------------------------------------------
(***************************************************************************)
(* Events and pages of them                                                *)
(***************************************************************************)
Places == Ledgers \X (1 .. MaxPerLedger)

(***************************************************************************)
(* The places of events are finitely many and totally ordered.             *)
(***************************************************************************)
LEMMA PlaceFacts ==
    /\ IsFiniteSet(Places) /\ Events \subseteq Places
    /\ \A e \in Places : /\ e[1] \in Nat /\ e[2] \in Nat /\ e[1] \in Ledgers
                         /\ e[1] =< LastLedger /\ e[2] =< MaxPerLedger /\ 1 =< e[1]
                         /\ e = <<e[1], e[2]>>
  <1>1. IsFiniteSet(Ledgers) /\ IsFiniteSet(1 .. MaxPerLedger)
    BY StreamAssumption, FS_Interval DEF Ledgers
  <1>2. IsFiniteSet(Places)
    BY <1>1, FS_Product DEF Places
  <1>3. Events \subseteq Places
    BY DEF Events, Places
  <1>4. \A e \in Places : /\ e[1] \in Nat /\ e[2] \in Nat /\ e[1] \in Ledgers
                          /\ e[1] =< LastLedger /\ e[2] =< MaxPerLedger /\ 1 =< e[1]
                          /\ e = <<e[1], e[2]>>
    BY StreamAssumption DEF Places, Ledgers
  <1> QED
    BY <1>2, <1>3, <1>4

LEMMA BeforeOrder ==
    /\ \A e \in Places : ~Before(e, e)
    /\ \A e, f \in Places : e # f => Before(e, f) \/ Before(f, e)
    /\ \A e, f \in Places : ~(Before(e, f) /\ Before(f, e))
    /\ \A e, f, g \in Places : Before(e, f) /\ Before(f, g) => Before(e, g)
  <1>1. \A e \in Places : ~Before(e, e)
    BY PlaceFacts DEF Before
  <1>2. \A e, f \in Places : e # f => Before(e, f) \/ Before(f, e)
    <2> SUFFICES ASSUME NEW e \in Places, NEW f \in Places, ~Before(e, f), ~Before(f, e)
                 PROVE  e = f
      OBVIOUS
    <2>1. e[1] = f[1] /\ e[2] = f[2]
      BY PlaceFacts DEF Before
    <2> QED
      BY <2>1, PlaceFacts
  <1>3. \A e, f \in Places : ~(Before(e, f) /\ Before(f, e))
    BY PlaceFacts DEF Before
  <1>4. \A e, f, g \in Places : Before(e, f) /\ Before(f, g) => Before(e, g)
    BY PlaceFacts DEF Before
  <1> QED
    BY <1>1, <1>2, <1>3, <1>4

(***************************************************************************)
(* A set of events has a first and a last one.                             *)
(***************************************************************************)
LEMMA FirstEvent ==
    ASSUME NEW S \in SUBSET Places, S # {}
    PROVE  \E e \in S : \A f \in S : ~Before(f, e)
  <1>0. \A e \in S : e[1] \in Nat /\ e[2] \in Nat
    BY PlaceFacts
  <1>1. PICK l \in {e[1] : e \in S} : \A k \in {e[1] : e \in S} : l =< k
    <2>1. {e[1] : e \in S} \in SUBSET Nat /\ {e[1] : e \in S} # {}
      BY <1>0
    <2> QED
      BY <2>1, Least
  <1> DEFINE T == {e \in S : e[1] = l}
  <1>2. PICK i \in {e[2] : e \in T} : \A k \in {e[2] : e \in T} : i =< k
    <2>1. {e[2] : e \in T} \in SUBSET Nat /\ {e[2] : e \in T} # {}
      BY <1>0, <1>1
    <2> QED
      BY <2>1, Least
  <1>3. PICK e \in T : i = e[2]
    BY <1>2
  <1>4. ASSUME NEW f \in S PROVE ~Before(f, e)
    <2>1. e[1] = l /\ l =< f[1] /\ (f[1] = l => e[2] =< f[2])
      BY <1>1, <1>2, <1>3
    <2> QED
      BY <1>0, <2>1 DEF Before
  <1> QED
    BY <1>4

LEMMA LastEvent ==
    ASSUME NEW S \in SUBSET Places, S # {}
    PROVE  LastOf(S) \in S /\ \A f \in S : ~Before(LastOf(S), f)
  <1>0. \A e \in S : e[1] \in Nat /\ e[2] \in Nat /\ e[1] =< LastLedger /\ e[2] =< MaxPerLedger
    BY PlaceFacts
  <1> DEFINE L == {e[1] : e \in S}
             l == Max(L)
             T == {e \in S : e[1] = l}
             I == {e[2] : e \in T}
  <1>1. l \in L /\ \A k \in L : k =< l
    <2>1. L \in SUBSET Nat /\ L # {} /\ \A k \in L : k =< LastLedger
      BY <1>0
    <2> QED
      BY <2>1, MaxOf, StreamAssumption
  <1>2. Max(I) \in I /\ \A k \in I : k =< Max(I)
    <2>1. I \in SUBSET Nat /\ I # {} /\ \A k \in I : k =< MaxPerLedger
      BY <1>0, <1>1
    <2> QED
      BY <2>1, MaxOf, StreamAssumption
  <1>3. PICK e \in T : Max(I) = e[2]
    BY <1>2
  <1>4. ASSUME NEW f \in S PROVE ~Before(e, f)
    <2>1. e[1] = l /\ f[1] =< l /\ (f[1] = l => f[2] =< e[2])
      BY <1>1, <1>2, <1>3
    <2> QED
      BY <1>0, <2>1 DEF Before
  <1> QED
    BY <1>4 DEF LastOf

(***************************************************************************)
(* A page of S: its first events, PageSize of them if S has that many.     *)
(***************************************************************************)
LEMMA PageFacts ==
    ASSUME NEW S \in SUBSET Places
    PROVE  /\ Page(S) \subseteq S /\ Cardinality(Page(S)) =< PageSize
           /\ S # {} => Page(S) # {}
           /\ \A e \in Page(S) : \A f \in S \ Page(S) : Before(e, f)
           /\ Page(S) # S => Cardinality(Page(S)) = PageSize
  <1> DEFINE Prior(e) == {f \in S : Before(f, e)}
             P == Page(S)
  <1>1. P = {e \in S : Cardinality(Prior(e)) < PageSize}
    BY DEF Page
  <1>2. IsFiniteSet(S) /\ \A e \in S : IsFiniteSet(Prior(e)) /\ Cardinality(Prior(e)) \in Nat
    <2>1. IsFiniteSet(S)
      BY PlaceFacts, FS_Subset
    <2>2. \A e \in S : Prior(e) \in SUBSET S
      OBVIOUS
    <2> HIDE DEF Prior
    <2> QED
      BY <2>1, <2>2, FS_Subset, FS_CardinalityType
  <1>3. P \in SUBSET S /\ IsFiniteSet(P) /\ Cardinality(P) \in Nat
    <2>1. P \in SUBSET S
      BY <1>1
    <2> QED
      BY <1>2, <2>1, FS_Subset, FS_CardinalityType
  <1>4. PageSize \in Nat /\ PageSize > 0
    BY StreamAssumption
  <1>5. ASSUME NEW e \in P, NEW f \in S \ P PROVE Before(e, f)
    <2> SUFFICES ASSUME Before(f, e) PROVE FALSE
      BY <1>3, <1>5, BeforeOrder
    <2>1. Prior(f) \subseteq Prior(e)
      BY <1>3, <1>5, BeforeOrder
    <2>2. Cardinality(Prior(f)) =< Cardinality(Prior(e))
      BY <1>2, <1>3, <2>1, FS_Subset
    <2>3. Cardinality(Prior(e)) < PageSize /\ ~(Cardinality(Prior(f)) < PageSize)
      BY <1>1, <1>5
    <2> HIDE DEF Prior
    <2> QED
      BY <1>2, <1>3, <1>4, <2>2, <2>3
  <1>6. S # {} => P # {}
    <2> SUFFICES ASSUME S # {} PROVE P # {}
      OBVIOUS
    <2>1. PICK e \in S : \A f \in S : ~Before(f, e)
      BY FirstEvent
    <2>2. Prior(e) = {}
      BY <2>1
    <2>3. Cardinality(Prior(e)) = 0
      BY <2>2, FS_EmptySet
    <2> QED
      BY <1>1, <1>4, <2>3
  <1>7. Cardinality(P) =< PageSize
    <2>1. CASE P = {}
      BY <1>4, <2>1, FS_EmptySet
    <2>2. CASE P # {}
      <3>1. LastOf(P) \in P /\ \A f \in P : ~Before(LastOf(P), f)
        BY <1>3, <2>2, LastEvent
      <3> DEFINE m == LastOf(P)
      <3>2. P \ {m} \subseteq Prior(m)
        BY <1>3, <3>1, BeforeOrder
      <3>3. Cardinality(P \ {m}) =< Cardinality(Prior(m)) /\ Cardinality(Prior(m)) < PageSize
        BY <1>1, <1>2, <1>3, <3>1, <3>2, FS_Subset
      <3>4. Cardinality(P \ {m}) = Cardinality(P) - 1
        BY <1>3, <3>1, FS_RemoveElement
      <3> HIDE DEF m, Prior, P
      <3> QED
        BY <1>2, <1>3, <1>4, <3>1, <3>3, <3>4 DEF m
    <2> QED
      BY <2>1, <2>2
  <1>8. P # S => Cardinality(P) = PageSize
    <2> SUFFICES ASSUME P # S PROVE ~(Cardinality(P) < PageSize)
      BY <1>3, <1>4, <1>7
    <2>1. S \ P \in SUBSET Places /\ S \ P # {}
      BY <1>3
    <2>2. PICK e \in S \ P : \A f \in S \ P : ~Before(f, e)
      BY <2>1, FirstEvent
    <2>3. Prior(e) \in SUBSET P
      BY <2>2
    <2>4. Cardinality(Prior(e)) =< Cardinality(P)
      BY <1>3, <2>3, FS_Subset
    <2>5. ~(Cardinality(Prior(e)) < PageSize)
      BY <1>1, <2>2
    <2> HIDE DEF Prior, P
    <2> QED
      BY <1>2, <1>3, <1>4, <2>2, <2>4, <2>5
  <1> QED
    BY <1>3, <1>5, <1>6, <1>7, <1>8

-------------------------------------------------------------------------------
(***************************************************************************)
(* The records of the loop                                                 *)
(***************************************************************************)

(***************************************************************************)
(* A record of the loop's locals, field by field.                          *)
(***************************************************************************)
Fields(s, pc, start, paging, cursor, page, latest) ==
    /\ s \in Stream /\ s.pc = pc /\ s.start = start /\ s.paging = paging /\ s.cursor = cursor
    /\ s.page = page /\ s.latest = latest

LEMMA StreamFields ==
    ASSUME NEW s \in Stream
    PROVE  /\ s.pc \in Pcs /\ s.start \in 1 .. (LastLedger + 1) /\ s.paging \in Tokens
           /\ s.cursor \in 0 .. LastLedger /\ s.page \in SUBSET Events
           /\ s.latest \in 0 .. LastLedger
  BY DEF Stream

(***************************************************************************)
(* The updates the loop makes.                                             *)
(***************************************************************************)
LEMMA StreamUpdates ==
    ASSUME NEW s \in Stream, NEW pc \in Pcs, NEW start \in 1 .. (LastLedger + 1),
           NEW cursor \in 0 .. LastLedger, NEW page \in SUBSET Events,
           NEW latest \in 0 .. LastLedger
    PROVE  /\ Fields([s EXCEPT !.pc = pc, !.page = {}, !.latest = 0],
                     pc, s.start, s.paging, s.cursor, {}, 0)
           /\ Fields([s EXCEPT !.pc = pc],
                     pc, s.start, s.paging, s.cursor, s.page, s.latest)
           /\ Fields([s EXCEPT !.pc = pc, !.cursor = cursor],
                     pc, s.start, s.paging, cursor, s.page, s.latest)
           /\ Fields([s EXCEPT !.paging = NoToken, !.start = start],
                     s.pc, start, NoToken, s.cursor, s.page, s.latest)
           /\ Fields([[s EXCEPT !.page = page, !.latest = latest] EXCEPT !.pc = pc],
                     pc, s.start, s.paging, s.cursor, page, latest)
  <1>1. 0 \in 0 .. LastLedger /\ NoToken \in Tokens
    BY StreamAssumption DEF Tokens, NoToken
  <1> DEFINE Starts == 1 .. (LastLedger + 1)
             Ledgers0 == 0 .. LastLedger
  <1>2. Stream = [pc : Pcs, start : Starts, paging : Tokens, cursor : Ledgers0,
                  page : SUBSET Events, latest : Ledgers0]
    BY DEF Stream
  <1>3. start \in Starts /\ cursor \in Ledgers0 /\ latest \in Ledgers0 /\ 0 \in Ledgers0
    BY <1>1
  <1> HIDE DEF Starts, Ledgers0
  <1>4. Fields([s EXCEPT !.pc = pc, !.page = {}, !.latest = 0],
               pc, s.start, s.paging, s.cursor, {}, 0)
    BY <1>2, <1>3 DEF Fields
  <1>5. Fields([s EXCEPT !.pc = pc], pc, s.start, s.paging, s.cursor, s.page, s.latest)
    BY <1>2, <1>3 DEF Fields
  <1>6. Fields([s EXCEPT !.pc = pc, !.cursor = cursor],
               pc, s.start, s.paging, cursor, s.page, s.latest)
    BY <1>2, <1>3 DEF Fields
  <1>7. Fields([s EXCEPT !.paging = NoToken, !.start = start],
               s.pc, start, NoToken, s.cursor, s.page, s.latest)
    BY <1>1, <1>2, <1>3 DEF Fields
  <1>8. Fields([[s EXCEPT !.page = page, !.latest = latest] EXCEPT !.pc = pc],
               pc, s.start, s.paging, s.cursor, page, latest)
    BY <1>2, <1>3 DEF Fields
  <1> QED
    BY <1>4, <1>5, <1>6, <1>7, <1>8

(***************************************************************************)
(* The updates the coordinator makes.                                      *)
(***************************************************************************)
BackfillIs(b, status, failures, current, to) ==
    /\ b \in Backfill /\ b.status = status /\ b.failures = failures /\ b.current = current
    /\ b.to = to

LEMMA BackfillUpdates ==
    ASSUME NEW b \in Backfill, NEW failures \in 0 .. MaxFailures, NEW current \in Nat,
           NEW to \in Nat,
           NEW status \in {"healthy", "backfilling", "gap_too_large", "circuit_open"}
    PROVE  /\ BackfillIs([b EXCEPT !.status = status, !.current = current, !.to = to],
                         status, b.failures, current, to)
           /\ BackfillIs([b EXCEPT !.failures = failures, !.current = current, !.status = status],
                         status, failures, current, b.to)
           /\ BackfillIs([b EXCEPT !.failures = failures, !.status = status],
                         status, failures, b.current, b.to)
           /\ b.status \in {"healthy", "backfilling", "gap_too_large", "circuit_open"}
           /\ b.failures \in 0 .. MaxFailures /\ b.current \in Nat /\ b.to \in Nat
  <1> DEFINE Counts == 0 .. MaxFailures
             Statuses == {"healthy", "backfilling", "gap_too_large", "circuit_open"}
  <1>1. Backfill = [status : Statuses, failures : Counts, current : Nat, to : Nat]
    BY DEF Backfill
  <1>2. failures \in Counts /\ status \in Statuses
    OBVIOUS
  <1>3. b.status \in Statuses /\ b.failures \in Counts /\ b.current \in Nat /\ b.to \in Nat
    BY <1>1
  <1> HIDE DEF Counts, Statuses
  <1>4. BackfillIs([b EXCEPT !.status = status, !.current = current, !.to = to],
                   status, b.failures, current, to)
    BY <1>1, <1>2 DEF BackfillIs
  <1>5. BackfillIs([b EXCEPT !.failures = failures, !.current = current, !.status = status],
                   status, failures, current, b.to)
    BY <1>1, <1>2 DEF BackfillIs
  <1>6. BackfillIs([b EXCEPT !.failures = failures, !.status = status],
                   status, failures, b.current, b.to)
    BY <1>1, <1>2 DEF BackfillIs
  <1> QED
    BY <1>3, <1>4, <1>5, <1>6 DEF Counts, Statuses

LEMMA HealthyIs ==
    /\ BackfillIs(Healthy, "healthy", 0, 0, 0)
    /\ BackfillIs([Healthy EXCEPT !.status = "gap_too_large"], "gap_too_large", 0, 0, 0)
  BY StreamAssumption DEF Healthy, Backfill, BackfillIs

(***************************************************************************)
(* The numbers in the loop.                                                *)
(***************************************************************************)
LEMMA Numbers ==
    ASSUME StreamInv
    PROVE  /\ tip \in Nat /\ 1 =< tip /\ tip =< LastLedger /\ LastLedger \in Nat
           /\ StartLedger \in Nat /\ 1 =< StartLedger /\ StartLedger =< LastLedger
           /\ stream \in Stream /\ stream.start \in Nat /\ stream.cursor \in Nat
           /\ stream.latest \in Nat /\ stream.page \in SUBSET Events
           /\ stream.paging[1] \in Nat /\ stream.paging[2] \in Nat /\ stream.paging \in Tokens
           /\ backfill \in Backfill /\ backfill.current \in Nat /\ backfill.to \in Nat
           /\ backfill.failures \in Nat /\ GapConfirmation \in Nat
           /\ \A e \in Events : e[1] \in Nat /\ e[2] \in Nat /\ e[1] =< LastLedger
  <1>1. tip \in Ledgers /\ stream \in Stream /\ backfill \in Backfill
    BY DEF StreamInv, RpcSound, LoopSound
  <1>2. tip \in Nat /\ 1 =< tip /\ tip =< LastLedger /\ LastLedger \in Nat
    BY <1>1, StreamAssumption DEF Ledgers
  <1>3. /\ StartLedger \in Nat /\ 1 =< StartLedger /\ StartLedger =< LastLedger
        /\ GapConfirmation \in Nat
    BY StreamAssumption
  <1>4. /\ stream.start \in Nat /\ stream.cursor \in Nat /\ stream.latest \in Nat
        /\ stream.page \in SUBSET Events /\ stream.paging \in Tokens
    BY <1>1, <1>2, StreamFields
  <1>5. stream.paging[1] \in Nat /\ stream.paging[2] \in Nat
    BY <1>2, <1>4, StreamAssumption DEF Tokens
  <1>6. backfill.current \in Nat /\ backfill.to \in Nat /\ backfill.failures \in Nat
    BY <1>1, StreamAssumption DEF Backfill
  <1>7. \A e \in Events : e[1] \in Nat /\ e[2] \in Nat /\ e[1] =< LastLedger
    BY PlaceFacts
  <1> QED
    BY <1>1, <1>2, <1>3, <1>4, <1>5, <1>6, <1>7

(***************************************************************************)
(* The chain is fixed, and so are its events.                              *)
(***************************************************************************)
LEMMA EventsFixed == ASSUME chain' = chain PROVE Events' = Events /\ Stream' = Stream
  <1>1. Events' = Events
    BY DEF Events
  <1> QED
    BY <1>1 DEF Stream

(***************************************************************************)
(* What is in the database stays there.                                    *)
(***************************************************************************)
Grows ==
    /\ chain' = chain /\ tip =< tip' /\ lagged \subseteq lagged' /\ stored \subseteq stored'
    /\ RpcSound' /\ TablesSound'

LEMMA PassedKept ==
    ASSUME StreamInv, Grows, stream'.start = stream.start, stream'.paging = stream.paging
    PROVE  PassedIsStored'
  <1>1. PassedIsStored /\ Events' = Events
    BY EventsFixed DEF StreamInv, Grows
  <1> QED
    BY <1>1 DEF Grows, PassedIsStored, Passed, Prompt, Before

LEMMA PageKept ==
    ASSUME StreamInv, Grows, stream'.start = stream.start, stream'.paging = stream.paging,
           InHand' => InHand /\ stream'.page = stream.page /\ stream'.latest = stream.latest
    PROVE  PageSound'
  <1>1. PageSound /\ Events' = Events
    BY EventsFixed DEF StreamInv, Grows
  <1>2. tip \in Nat /\ tip' \in Nat /\ stream.latest \in Nat /\ tip =< tip'
    BY Numbers, StreamAssumption DEF Grows, RpcSound, Ledgers
  <1> SUFFICES ASSUME InHand' PROVE PageSound'
    BY DEF PageSound
  <1>3. /\ stream.page # {} /\ stream.latest =< tip /\ Cardinality(stream.page) =< PageSize
        /\ \A e \in stream.page : e[1] =< stream.latest
        /\ \A e \in Events :
              Prompt(e) /\ StartLedger =< e[1] /\ ~Passed(e) /\ e[1] =< stream.latest =>
                  \/ e \in stream.page
                  \/ Cardinality(stream.page) = PageSize /\ \A f \in stream.page : Before(f, e)
    BY <1>1 DEF PageSound
  <1>4. \A e \in Events : (Prompt(e)' => Prompt(e)) /\ (Passed(e)' <=> Passed(e))
    BY DEF Grows, Prompt, Passed, Before
  <1>5. stream'.latest =< tip'
    BY <1>2, <1>3
  <1> QED
    BY <1>1, <1>3, <1>4, <1>5 DEF PageSound, Before

(***************************************************************************)
(* A step of the loop that leaves the RPC alone.                           *)
(***************************************************************************)
LEMMA RpcKept ==
    ASSUME StreamInv, UNCHANGED rpc
    PROVE  /\ RpcSound' /\ chain' = chain /\ tip' = tip /\ tip =< tip' /\ lagged \subseteq lagged'
           /\ Events' = Events /\ Stream' = Stream
           /\ UNCHANGED db => Grows
  <1>1. RpcSound /\ TablesSound /\ tip \in Nat
    BY Numbers DEF StreamInv
  <1>2. chain' = chain /\ tip' = tip /\ hidden' = hidden /\ lagged' = lagged
    BY DEF rpc
  <1>3. Events' = Events /\ Stream' = Stream
    BY <1>2, EventsFixed
  <1>4. RpcSound'
    BY <1>1, <1>2 DEF RpcSound
  <1>5. UNCHANGED db => TablesSound' /\ stored \subseteq stored'
    BY <1>1, <1>2, <1>3 DEF TablesSound, db, LedgersOf
  <1> QED
    BY <1>1, <1>2, <1>3, <1>4, <1>5 DEF Grows

(***************************************************************************)
(* What a bounded set of naturals has only one of.                         *)
(***************************************************************************)
LEMMA MaxIs ==
    ASSUME NEW S \in SUBSET Nat, NEW m \in S, \A y \in S : y =< m
    PROVE  Max(S) = m
  <1>1. m \in Nat /\ \A y \in S : y \in Nat
    OBVIOUS
  <1>2. Max(S) \in S /\ \A y \in S : y =< Max(S)
    BY <1>1, MaxOf
  <1> DEFINE x == Max(S)
  <1>3. x \in Nat /\ x =< m /\ m =< x
    BY <1>1, <1>2
  <1> HIDE DEF x
  <1>4. x = m
    BY <1>1, <1>3
  <1> QED
    BY <1>4 DEF x

(***************************************************************************)
(* The ledgers of a set of events.                                         *)
(***************************************************************************)
LEMMA LedgersOfEvents ==
    ASSUME NEW S \in SUBSET Events, S # {}
    PROVE  /\ LedgersOf(S) \in SUBSET Nat
           /\ \E e \in S : e[1] = Max(LedgersOf(S)) /\ \A f \in S : f[1] =< e[1]
           /\ \E e \in S : e[1] = Min(LedgersOf(S)) /\ \A f \in S : e[1] =< f[1]
  <1>1. LedgersOf(S) \in SUBSET Nat /\ LedgersOf(S) # {} /\ \A l \in LedgersOf(S) : l =< LastLedger
    BY PlaceFacts DEF LedgersOf
  <1>2. Max(LedgersOf(S)) \in LedgersOf(S) /\ \A l \in LedgersOf(S) : l =< Max(LedgersOf(S))
    BY <1>1, MaxOf, StreamAssumption
  <1>3. Min(LedgersOf(S)) \in LedgersOf(S) /\ \A l \in LedgersOf(S) : Min(LedgersOf(S)) =< l
    BY <1>1, MinOf
  <1>4. \E e \in S : e[1] = Max(LedgersOf(S)) /\ \A f \in S : f[1] =< e[1]
    BY <1>2 DEF LedgersOf
  <1>5. \E e \in S : e[1] = Min(LedgersOf(S)) /\ \A f \in S : e[1] =< f[1]
    BY <1>3 DEF LedgersOf
  <1> QED
    BY <1>1, <1>4, <1>5

(***************************************************************************)
(* A batch in the pipeline: the cursor row stays the last stored ledger.   *)
(***************************************************************************)
LEMMA BatchStep ==
    ASSUME StreamInv, UNCHANGED rpc, NEW batch \in SUBSET Events, \A e \in batch : e[1] =< tip,
           NEW outcome, processBatch(batch, outcome)
    PROVE  Grows /\ (outcome # "rollback" => batch \subseteq stored')
  <1>0. TablesSound /\ tip \in Nat /\ Events' = Events /\ tip' = tip
    BY RpcKept, Numbers DEF StreamInv
  <1>1. CASE batch = {} \/ outcome = "rollback"
    BY <1>1, RpcKept DEF processBatch
  <1>2. CASE ~(batch = {} \/ outcome = "rollback")
    <2>1. /\ stored' = stored \cup batch /\ cursorRow' = Max({cursorRow} \cup LedgersOf(batch))
          /\ published' \in {published, published \cup batch}
      BY <1>2 DEF processBatch
    <2> DEFINE Old == {0} \cup LedgersOf(stored)
               New == {0} \cup LedgersOf(stored \cup batch)
    <2>2. /\ Old \in SUBSET Nat /\ New \in SUBSET Nat /\ LedgersOf(batch) \in SUBSET Nat
          /\ New = Old \cup LedgersOf(batch) /\ Old # {}
          /\ \A l \in New : l =< LastLedger
      <3>1. stored \cup batch \subseteq Places
        BY <1>0, PlaceFacts DEF TablesSound
      <3> QED
        BY <3>1, PlaceFacts, StreamAssumption DEF LedgersOf
    <2>3. cursorRow \in Old /\ \A l \in Old : l =< cursorRow
      <3>1. \A l \in Old : l =< LastLedger
        BY <2>2
      <3> HIDE DEF Old, New
      <3> QED
        BY <1>0, <2>2, <3>1, MaxOf, StreamAssumption DEF TablesSound, Old
    <2> HIDE DEF Old, New
    <2> DEFINE Seen == {cursorRow} \cup LedgersOf(batch)
    <2>4. Seen \in SUBSET Nat /\ Seen # {} /\ \A l \in Seen : l =< LastLedger
      BY <2>2, <2>3
    <2>5. Max(Seen) \in Seen /\ \A l \in Seen : l =< Max(Seen)
      BY <2>4, MaxOf, StreamAssumption
    <2>6. Max(Seen) \in New /\ \A l \in New : l =< Max(Seen)
      <3>1. ASSUME NEW l \in Old PROVE l =< Max(Seen)
        <4>1. l \in Nat /\ cursorRow \in Nat /\ Max(Seen) \in Nat
          BY <2>2, <2>3, <2>4, <2>5
        <4> QED
          BY <2>3, <2>5, <4>1
      <3> QED
        BY <2>2, <2>3, <2>5, <3>1
    <2>7. Max(New) = Max(Seen)
      BY <2>2, <2>6, MaxIs
    <2>8. TablesSound'
      BY <1>0, <2>1, <2>7 DEF TablesSound, New, LedgersOf
    <2> QED
      BY <2>1, <2>8, RpcKept DEF Grows
  <1> QED
    BY <1>1, <1>2

-------------------------------------------------------------------------------
(***************************************************************************)
(* The steps                                                               *)
(***************************************************************************)

(***************************************************************************)
(* The catch block: the loop fetches again or waits for the breaker.       *)
(***************************************************************************)
LEMMA CaughtStep ==
    ASSUME StreamInv, chain' = chain, NEW b \in Breaker, b.state # "open",
           NEW persistent \in BOOLEAN, Caught(b, persistent)
    PROVE  \E pc \in {"open", "fetch"} :
              /\ Fields(stream', pc, stream.start, stream.paging, stream.cursor, {}, 0)
              /\ breaker' \in Breaker /\ (pc = "open") = (breaker'.state = "open")
  <1> DEFINE c == IF persistent THEN recordPersistentFailure(b) ELSE b
             pc == IF c.state = "open" THEN "open" ELSE "fetch"
  <1>1. c \in Breaker
    <2>1. recordPersistentFailure(b) \in Breaker
      BY DEF recordPersistentFailure, Breaker
    <2> QED
      BY <2>1
  <1>2. breaker' = c /\ stream' = [stream EXCEPT !.pc = pc, !.page = {}, !.latest = 0]
    BY DEF Caught
  <1>3. pc \in {"open", "fetch"} /\ pc \in Pcs /\ (pc = "open") = (c.state = "open")
    BY DEF Pcs
  <1> HIDE DEF c, pc
  <1>4. stream \in Stream /\ 1 \in 1 .. (LastLedger + 1) /\ 0 \in 0 .. LastLedger
    BY Numbers
  <1>5. Fields([stream EXCEPT !.pc = pc, !.page = {}, !.latest = 0],
               pc, stream.start, stream.paging, stream.cursor, {}, 0)
    BY <1>3, <1>4, StreamUpdates
  <1> QED
    BY <1>1, <1>2, <1>3, <1>5

(***************************************************************************)
(* A step of the loop that moves no window and leaves no page in hand.     *)
(***************************************************************************)
LEMMA IdleStep ==
    ASSUME StreamInv, Grows, UNCHANGED rpc,
           NEW pc \in {"open", "fetch", "startup_recovery"}, NEW cursor, NEW page, NEW latest,
           Fields(stream', pc, stream.start, stream.paging, cursor, page, latest), cursor =< tip,
           breaker' \in Breaker, (pc = "open") = (breaker'.state = "open"),
           backfill' \in Backfill,
           backfill'.status # "circuit_open" => backfill'.failures < MaxFailures,
           pc = "startup_recovery" => backfill'.status = "backfilling" /\ backfill'.to =< tip,
           faults' \in 0 .. MaxFaults, crashes' \in 0 .. MaxCrashes
    PROVE  StreamInv'
  <1>1. /\ stream'.pc = pc /\ stream'.start = stream.start /\ stream'.paging = stream.paging
        /\ stream'.cursor = cursor /\ stream' \in Stream /\ Stream' = Stream /\ tip' = tip
    BY RpcKept DEF Fields
  <1>2. /\ ~InHand' /\ stream'.pc # "recovery" /\ stream'.pc # "startup"
        /\ Recovering' => pc = "startup_recovery"
    BY <1>1 DEF InHand, Recovering
  <1>3. LoopSound'
    BY <1>1, <1>2 DEF StreamInv, LoopSound, Breaker, Backfill
  <1>4. PassedIsStored' /\ PageSound' /\ GapSound'
    BY <1>1, <1>2, PassedKept, PageKept DEF GapSound
  <1> QED
    BY <1>3, <1>4 DEF StreamInv, Grows

LEMMA QuietStep ==
    ASSUME StreamInv, Grows, UNCHANGED rpc,
           NEW pc \in {"open", "fetch"}, NEW page, NEW latest,
           Fields(stream', pc, stream.start, stream.paging, stream.cursor, page, latest),
           breaker' \in Breaker, (pc = "open") = (breaker'.state = "open"),
           backfill' \in Backfill,
           backfill'.status # "circuit_open" => backfill'.failures < MaxFailures,
           faults' \in 0 .. MaxFaults, crashes' \in 0 .. MaxCrashes
    PROVE  StreamInv'
  <1>1. stream.cursor =< tip
    BY DEF StreamInv, LoopSound
  <1>2. pc \in {"open", "fetch", "startup_recovery"} /\ pc # "startup_recovery"
    OBVIOUS
  <1> QED
    BY <1>1, <1>2, IdleStep

(***************************************************************************)
(* The RPC moves and the indexer does not.                                 *)
(***************************************************************************)
LEMMA RpcMoves ==
    ASSUME StreamInv, Grows, UNCHANGED <<stream, breaker, backfill, faults, crashes>>
    PROVE  StreamInv'
  <1>1. /\ Stream' = Stream /\ Events' = Events /\ tip \in Nat /\ tip' \in Nat /\ tip =< tip'
        /\ stored \subseteq stored'
    BY Numbers, EventsFixed, StreamAssumption DEF Grows, RpcSound, Ledgers
  <1>2. LoopSound'
    <2>1. LoopSound /\ UNCHANGED <<stream, breaker, backfill, faults, crashes>>
      BY DEF StreamInv
    <2>2. /\ stream.start =< tip' + 1 /\ stream.cursor =< tip' /\ stream.paging[1] =< tip'
          /\ Recovering => backfill.to =< tip'
      BY <1>1, <2>1, Numbers DEF LoopSound
    <2> QED
      BY <1>1, <2>1, <2>2 DEF LoopSound, Recovering, Breaker, Backfill
  <1>3. PassedIsStored' /\ PageSound'
    BY PassedKept, PageKept DEF InHand
  <1>4. GapSound'
    <2> SUFFICES ASSUME stream.pc = "recovery" PROVE GapSound'
      BY DEF GapSound
    <2>1. /\ backfill.to + GapConfirmation =< tip
          /\ stream.cursor < backfill.current /\ backfill.current =< backfill.to
          /\ \A e \in Events : stream.cursor < e[1] /\ e[1] < backfill.current => e \in stored
      BY DEF StreamInv, GapSound
    <2>2. backfill.to + GapConfirmation =< tip'
      BY <1>1, <2>1, Numbers
    <2> QED
      BY <1>1, <2>1, <2>2 DEF GapSound
  <1> QED
    BY <1>2, <1>3, <1>4 DEF StreamInv, Grows

(***************************************************************************)
(* A ledger closes, a late one is served.                                  *)
(***************************************************************************)
LEMMA CloseLedgerStep == ASSUME StreamInv, CloseLedger PROVE StreamInv'
  <1>1. /\ tip < LastLedger /\ tip' = tip + 1 /\ chain' = chain
        /\ \A l \in hidden : tip + 1 < l + GapConfirmation
        /\ hidden' \in {hidden, hidden \cup {tip + 1}} /\ (GapConfirmation = 0 => hidden' = hidden)
        /\ lagged' = lagged \cup hidden' /\ UNCHANGED db
        /\ UNCHANGED <<stream, breaker, backfill, faults, crashes>>
    BY DEF CloseLedger, db
  <1>2. /\ chain \in [Ledgers -> 0 .. MaxPerLedger] /\ hidden \subseteq lagged
        /\ lagged \subseteq 1 .. tip /\ TablesSound /\ StartLedger =< tip
    BY DEF StreamInv, RpcSound
  <1>3. tip' \in Ledgers /\ StartLedger =< tip'
    BY <1>1, <1>2, Numbers DEF Ledgers
  <1>4. lagged' \subseteq 1 .. tip'
    BY <1>1, <1>2, Numbers
  <1>5. \A l \in hidden' : tip' < l + GapConfirmation
    BY <1>1, Numbers
  <1>6. RpcSound'
    BY <1>1, <1>2, <1>3, <1>4, <1>5 DEF RpcSound, Ledgers
  <1>7. Events' = Events
    BY <1>1, EventsFixed
  <1>8. TablesSound'
    <2>1. \A e \in stored : e[1] =< tip'
      BY <1>1, <1>2, Numbers DEF TablesSound
    <2> QED
      BY <1>1, <1>2, <1>7, <2>1 DEF TablesSound, db, LedgersOf
  <1>9. Grows
    BY <1>1, <1>6, <1>8, Numbers DEF Grows, db
  <1> QED
    BY <1>1, <1>9, RpcMoves

LEMMA ServeLateStep == ASSUME StreamInv, ServeLate PROVE StreamInv'
  <1>1. /\ hidden' \subseteq hidden /\ tip' = tip /\ chain' = chain /\ lagged' = lagged
        /\ UNCHANGED db /\ UNCHANGED <<stream, breaker, backfill, faults, crashes>>
    BY DEF ServeLate, db
  <1>2. RpcSound'
    BY <1>1 DEF StreamInv, RpcSound
  <1>3. Events' = Events
    BY <1>1, EventsFixed
  <1>4. TablesSound'
    BY <1>1, <1>3 DEF StreamInv, TablesSound, db, LedgersOf
  <1>5. Grows
    BY <1>1, <1>2, <1>4, Numbers DEF Grows, db
  <1> QED
    BY <1>1, <1>5, RpcMoves

(***************************************************************************)
(* Start-up, the probe and the restart.                                    *)
(***************************************************************************)
LEMMA CursorRow == ASSUME StreamInv PROVE cursorRow \in 0 .. LastLedger /\ cursorRow =< tip
  <1> DEFINE S == {0} \cup LedgersOf(stored)
  <1>1. S \in SUBSET Nat /\ S # {} /\ \A l \in S : l =< tip
    BY Numbers DEF StreamInv, TablesSound, LedgersOf
  <1>2. Max(S) \in S
    BY <1>1, Numbers, MaxOf
  <1>3. cursorRow = Max(S)
    BY DEF StreamInv, TablesSound
  <1>4. cursorRow \in Nat /\ cursorRow =< tip
    BY <1>1, <1>2, <1>3
  <1> HIDE DEF S
  <1> QED
    BY <1>4, Numbers

LEMMA BeginProbeStep == ASSUME StreamInv, BeginProbe PROVE StreamInv'
  <1>1. /\ breaker' = [breaker EXCEPT !.state = "half_open"]
        /\ stream' = [stream EXCEPT !.pc = "fetch"]
        /\ UNCHANGED rpc /\ UNCHANGED db /\ UNCHANGED backfill /\ UNCHANGED faults /\ UNCHANGED crashes
    BY DEF BeginProbe
  <1>2. breaker' \in Breaker /\ breaker'.state # "open"
    BY <1>1 DEF StreamInv, LoopSound, Breaker
  <1>3. Fields(stream', "fetch", stream.start, stream.paging, stream.cursor, stream.page, stream.latest)
    <2>1. "fetch" \in Pcs /\ 1 \in 1 .. (LastLedger + 1) /\ 0 \in 0 .. LastLedger
      BY Numbers DEF Pcs
    <2> QED
      BY <1>1, <2>1, Numbers, StreamUpdates
  <1>4. /\ backfill' \in Backfill /\ (backfill'.status # "circuit_open" => backfill'.failures < MaxFailures)
        /\ faults' \in 0 .. MaxFaults /\ crashes' \in 0 .. MaxCrashes
    BY <1>1 DEF StreamInv, LoopSound
  <1>5. Grows
    BY <1>1, RpcKept
  <1> QED
    BY <1>1, <1>2, <1>3, <1>4, <1>5, QuietStep

(***************************************************************************)
(* A failed fetch.                                                         *)
(***************************************************************************)
LEMMA FetchFailsStep ==
    ASSUME StreamInv, NEW persistent \in BOOLEAN, FetchFails(persistent) PROVE StreamInv'
  <1>1. /\ stream.pc = "fetch" /\ faults < MaxFaults /\ faults' = faults + 1
        /\ Caught(breaker, persistent) /\ UNCHANGED rpc /\ UNCHANGED db /\ UNCHANGED backfill
        /\ UNCHANGED crashes
    BY DEF FetchFails, Fault
  <1>2. breaker \in Breaker /\ breaker.state # "open"
    BY <1>1 DEF StreamInv, LoopSound
  <1>3. chain' = chain /\ Grows
    BY <1>1, RpcKept
  <1>4. PICK pc \in {"open", "fetch"} :
            /\ Fields(stream', pc, stream.start, stream.paging, stream.cursor, {}, 0)
            /\ breaker' \in Breaker /\ (pc = "open") = (breaker'.state = "open")
    BY <1>1, <1>2, <1>3, CaughtStep
  <1>5. /\ backfill' \in Backfill /\ (backfill'.status # "circuit_open" => backfill'.failures < MaxFailures)
        /\ crashes' \in 0 .. MaxCrashes
    BY <1>1 DEF StreamInv, LoopSound
  <1>6. faults' \in 0 .. MaxFaults
    BY <1>1, StreamAssumption DEF StreamInv, LoopSound
  <1> QED
    BY <1>1, <1>3, <1>4, <1>5, <1>6, QuietStep

(***************************************************************************)
(* The page is processed but the transaction fails or its commit is lost.  *)
(***************************************************************************)
LEMMA ProcessPageFailsStep ==
    ASSUME StreamInv, NEW outcome \in Outcomes, NEW persistent \in BOOLEAN,
           ProcessPageFails(outcome, persistent)
    PROVE  StreamInv'
  <1>1. /\ stream.pc = "process" /\ faults < MaxFaults /\ faults' = faults + 1
        /\ processBatch(stream.page, outcome)
        /\ Caught(breaker, persistent) /\ UNCHANGED rpc /\ UNCHANGED backfill
        /\ UNCHANGED crashes
    BY DEF ProcessPageFails, Fault
  <1>2. breaker \in Breaker /\ breaker.state # "open"
    BY <1>1 DEF StreamInv, LoopSound
  <1>3. stream.page \in SUBSET Events /\ \A e \in stream.page : e[1] =< tip
    <2>1. stream.latest =< tip /\ \A e \in stream.page : e[1] =< stream.latest
      BY <1>1 DEF StreamInv, PageSound, InHand
    <2> QED
      BY <2>1, Numbers
  <1>4. chain' = chain /\ Grows
    BY <1>1, <1>3, RpcKept, BatchStep
  <1>5. PICK pc \in {"open", "fetch"} :
            /\ Fields(stream', pc, stream.start, stream.paging, stream.cursor, {}, 0)
            /\ breaker' \in Breaker /\ (pc = "open") = (breaker'.state = "open")
    BY <1>1, <1>2, <1>4, CaughtStep
  <1>6. /\ backfill' \in Backfill /\ (backfill'.status # "circuit_open" => backfill'.failures < MaxFailures)
        /\ crashes' \in 0 .. MaxCrashes
    BY <1>1 DEF StreamInv, LoopSound
  <1>7. faults' \in 0 .. MaxFaults
    BY <1>1, StreamAssumption DEF StreamInv, LoopSound
  <1> QED
    BY <1>1, <1>4, <1>5, <1>6, <1>7, QuietStep

(***************************************************************************)
(* A restart starts over at START_LEDGER, with nothing passed.             *)
(***************************************************************************)
Fresh ==
    /\ RpcSound /\ TablesSound /\ stream = Restarted /\ breaker = Closed /\ backfill = Healthy
    /\ faults \in 0 .. MaxFaults /\ crashes \in 0 .. MaxCrashes

LEMMA RestartSound == Fresh => StreamInv
  <1> SUFFICES ASSUME Fresh PROVE StreamInv
    OBVIOUS
  <1> USE DEF Fresh
  <1>1. /\ stream.pc = "startup" /\ stream.start = StartLedger /\ stream.paging = NoToken
        /\ stream.cursor = 0 /\ stream.page = {} /\ stream.latest = 0
    BY DEF Restarted
  <1>2. stream \in Stream
    <2>1. /\ StartLedger \in 1 .. (LastLedger + 1) /\ 0 \in 0 .. LastLedger /\ NoToken \in Tokens
          /\ "startup" \in Pcs
      BY StreamAssumption DEF Tokens, NoToken, Pcs
    <2> DEFINE Starts == 1 .. (LastLedger + 1)
               Ledgers0 == 0 .. LastLedger
    <2>2. Stream = [pc : Pcs, start : Starts, paging : Tokens, cursor : Ledgers0,
                    page : SUBSET Events, latest : Ledgers0]
      BY DEF Stream
    <2>3. StartLedger \in Starts /\ 0 \in Ledgers0
      BY <2>1
    <2> HIDE DEF Starts, Ledgers0
    <2> QED
      BY <2>1, <2>2, <2>3 DEF Restarted
  <1>3. breaker \in Breaker /\ breaker.state = "closed"
    BY DEF Breaker, Closed
  <1>4. backfill \in Backfill /\ backfill.status = "healthy" /\ backfill.failures = 0
    BY HealthyIs DEF BackfillIs
  <1>5. tip \in Nat /\ StartLedger \in Nat /\ MaxFailures \in Nat /\ 0 < MaxFailures
    BY StreamAssumption DEF RpcSound, Ledgers
  <1>6. stream.start =< tip + 1 /\ stream.cursor =< tip /\ stream.paging[1] =< tip
    BY <1>1, <1>5 DEF NoToken, RpcSound
  <1>7. LoopSound
    BY <1>1, <1>2, <1>3, <1>4, <1>5, <1>6 DEF LoopSound, Recovering
  <1>8. PassedIsStored
    <2>1. \A e \in Events : e[1] \in Nat
      BY PlaceFacts
    <2> QED
      BY <1>1, <1>5, <2>1 DEF PassedIsStored, Passed
  <1> QED
    BY <1>1, <1>7, <1>8 DEF StreamInv, PageSound, InHand, GapSound

LEMMA CrashStep == ASSUME StreamInv, Crash PROVE StreamInv'
  <1>1. /\ crashes < MaxCrashes /\ crashes' = crashes + 1 /\ stream' = Restarted
        /\ breaker' = Closed /\ backfill' = Healthy /\ UNCHANGED rpc /\ UNCHANGED db
        /\ UNCHANGED faults
    BY DEF Crash
  <1>2. RpcSound' /\ TablesSound'
    BY <1>1, RpcKept DEF Grows
  <1>3. faults' \in 0 .. MaxFaults /\ crashes' \in 0 .. MaxCrashes
    BY <1>1, StreamAssumption DEF StreamInv, LoopSound
  <1>4. Fresh'
    BY <1>1, <1>2, <1>3 DEF Fresh, Restarted, NoToken, Closed, Healthy
  <1> QED
    BY <1>4, RestartSound, PTL

(***************************************************************************)
(* Start-up moves to the committed cursor and may begin a backfill.        *)
(***************************************************************************)
LEMMA StartupStep ==
    ASSUME StreamInv, NEW rpcAnswers \in BOOLEAN, Startup(rpcAnswers) PROVE StreamInv'
  <1> DEFINE gap == cursorRow > 0 /\ rpcAnswers /\ tip > cursorRow + 1
             deep == tip - cursorRow > MaxDepth
             pc == IF gap /\ ~deep THEN "startup_recovery" ELSE "fetch"
  <1>1. /\ stream.pc = "startup" /\ stream' = [stream EXCEPT !.pc = pc, !.cursor = cursorRow]
        /\ backfill' = CASE gap /\ deep -> [Healthy EXCEPT !.status = "gap_too_large"]
                         [] gap /\ ~deep -> BeginRecovery(cursorRow + 1, tip)
                         [] OTHER -> Healthy
        /\ faults' = faults \/ (faults < MaxFaults /\ faults' = faults + 1)
        /\ UNCHANGED rpc /\ UNCHANGED db /\ UNCHANGED breaker /\ UNCHANGED crashes
    BY DEF Startup, Fault
  <1>2. pc \in {"open", "fetch", "startup_recovery"} /\ pc # "open" /\ pc \in Pcs
    BY DEF Pcs
  <1>3. /\ backfill \in Backfill /\ backfill.failures < MaxFailures /\ breaker \in Breaker
        /\ breaker.state # "open" /\ faults \in 0 .. MaxFaults /\ crashes \in 0 .. MaxCrashes
    BY <1>1 DEF StreamInv, LoopSound
  <1>4. /\ backfill' \in Backfill /\ backfill'.failures < MaxFailures
        /\ pc = "startup_recovery" => backfill'.status = "backfilling" /\ backfill'.to =< tip
    <2>1. CASE gap /\ ~deep
      <3>1. backfill' = [backfill EXCEPT !.status = "backfilling", !.current = cursorRow + 1, !.to = tip]
        BY <1>1, <2>1 DEF BeginRecovery
      <3>2. /\ cursorRow + 1 \in Nat /\ tip \in Nat /\ 0 \in 0 .. MaxFailures
            /\ "backfilling" \in {"healthy", "backfilling", "gap_too_large", "circuit_open"}
        BY CursorRow, Numbers, StreamAssumption
      <3>3. BackfillIs(backfill', "backfilling", backfill.failures, cursorRow + 1, tip)
        BY <1>3, <3>1, <3>2, BackfillUpdates
      <3> QED
        BY <1>3, <3>2, <3>3 DEF BackfillIs
    <2>2. CASE ~(gap /\ ~deep)
      <3>1. backfill' \in {Healthy, [Healthy EXCEPT !.status = "gap_too_large"]}
        BY <1>1, <2>2
      <3>2. backfill' \in Backfill /\ backfill'.failures = 0
        BY <3>1, HealthyIs DEF BackfillIs
      <3> QED
        BY <2>2, <3>2, StreamAssumption
    <2> QED
      BY <2>1, <2>2
  <1>5. faults' \in 0 .. MaxFaults /\ crashes' \in 0 .. MaxCrashes
    BY <1>1, <1>3, StreamAssumption
  <1>6. breaker' \in Breaker /\ breaker'.state # "open"
    BY <1>1, <1>3
  <1> HIDE DEF gap, deep, pc
  <1>7. Fields(stream', pc, stream.start, stream.paging, cursorRow, stream.page, stream.latest)
    <2>1. 1 \in 1 .. (LastLedger + 1) /\ 0 \in 0 .. LastLedger /\ cursorRow \in 0 .. LastLedger
      BY Numbers, CursorRow
    <2> QED
      BY <1>1, <1>2, <2>1, Numbers, StreamUpdates
  <1>8. Grows /\ cursorRow =< tip
    BY <1>1, RpcKept, CursorRow
  <1> QED
    BY <1>1, <1>2, <1>4, <1>5, <1>6, <1>7, <1>8, IdleStep

(***************************************************************************)
(* The batch the coordinator reads next and the last ledger it accounts    *)
(* for.  Outside the confirmation window nothing in between is missing.    *)
(***************************************************************************)
Batch == backfillStartupGap(backfill.current, BatchTo)
LastRead == IF Batch = {} THEN BatchTo ELSE Max(LedgersOf(Batch))

LEMMA BatchFacts ==
    ASSUME StreamInv, Recovering
    PROVE  /\ Batch \in SUBSET Events /\ \A e \in Batch : e[1] =< tip
           /\ LastRead \in Nat /\ LastRead =< backfill.to /\ LastRead =< tip
           /\ stream.pc = "recovery" =>
                /\ backfill.current =< LastRead
                /\ \A e \in Events : backfill.current =< e[1] /\ e[1] =< LastRead => e \in Batch
  <1>1. backfill.to =< tip /\ backfill.current \in Nat /\ backfill.to \in Nat /\ tip \in Nat
    BY Numbers DEF StreamInv, LoopSound
  <1> DEFINE b == BatchTo
  <1>2. b \in Nat /\ b =< backfill.to /\ (backfill.current =< backfill.to => backfill.current =< b)
    <2> DEFINE n == backfill.current + BatchSize - 1
    <2>1. n \in Nat /\ backfill.current =< n
      BY <1>1, StreamAssumption
    <2>2. {n, backfill.to} \in SUBSET Nat /\ {n, backfill.to} # {} /\ b = Min({n, backfill.to})
      BY <1>1, <2>1 DEF BatchTo
    <2>3. b \in {n, backfill.to} /\ b =< n /\ b =< backfill.to
      BY <2>2, MinOf
    <2> HIDE DEF n, b
    <2> QED
      BY <1>1, <2>1, <2>3
  <1> HIDE DEF b
  <1>3. Batch = {e \in Events : e[1] \in backfill.current .. b /\ e[1] =< tip /\ e[1] \notin hidden}
    BY DEF Batch, backfillStartupGap, Served, b
  <1>4. \A e \in Events : e[1] \in Nat
    BY Numbers
  <1>5. /\ Batch \in SUBSET Events
        /\ \A e \in Batch : e[1] \in Nat /\ backfill.current =< e[1] /\ e[1] =< b /\ e[1] =< tip
    BY <1>1, <1>2, <1>3, <1>4
  <1>6. /\ LastRead \in Nat /\ LastRead =< b
        /\ backfill.current =< backfill.to => backfill.current =< LastRead
    <2>1. CASE Batch = {}
      BY <1>2, <2>1 DEF LastRead, b
    <2>2. CASE Batch # {}
      <3>1. LastRead = Max(LedgersOf(Batch))
        BY <2>2 DEF LastRead
      <3>2. \E e \in Batch : e[1] = Max(LedgersOf(Batch))
        BY <1>5, <2>2, LedgersOfEvents
      <3> QED
        BY <1>5, <3>1, <3>2
    <2> QED
      BY <2>1, <2>2
  <1>7. LastRead =< backfill.to /\ LastRead =< tip
    BY <1>1, <1>2, <1>6
  <1>8. ASSUME stream.pc = "recovery"
        PROVE  /\ backfill.current =< LastRead
               /\ \A e \in Events : backfill.current =< e[1] /\ e[1] =< LastRead => e \in Batch
    <2>1. backfill.to + GapConfirmation =< tip /\ backfill.current =< backfill.to
      BY <1>8 DEF StreamInv, GapSound
    <2>2. \A l \in hidden : l \in Nat /\ tip < l + GapConfirmation
      <3>1. \A l \in hidden : l \in 1 .. tip
        BY DEF StreamInv, RpcSound
      <3> QED
        BY <1>1, <3>1 DEF StreamInv, RpcSound
    <2>3. \A l \in Nat : l =< backfill.to => ~(tip < l + GapConfirmation)
      BY <1>1, <2>1, Numbers
    <2>4. ASSUME NEW e \in Events, backfill.current =< e[1], e[1] =< LastRead PROVE e \in Batch
      <3>1. e[1] \in Nat /\ e[1] =< b /\ e[1] =< backfill.to /\ e[1] =< tip
        BY <1>1, <1>2, <1>4, <1>6, <2>4
      <3>2. e[1] \notin hidden
        BY <2>2, <2>3, <3>1
      <3>3. e[1] \in backfill.current .. b
        BY <1>1, <1>2, <2>4, <3>1
      <3> QED
        BY <1>3, <3>1, <3>2, <3>3
    <2> QED
      BY <1>6, <2>1, <2>4
  <1> QED
    BY <1>5, <1>6, <1>7, <1>8

(***************************************************************************)
(* A failed batch: tried again, or given up by the coordinator for good.   *)
(***************************************************************************)
LEMMA RecoverBatchFailsStep ==
    ASSUME StreamInv, NEW outcome \in Outcomes, RecoverBatchFails(outcome) PROVE StreamInv'
  <1> DEFINE n == backfill.failures + 1
             open == n >= MaxFailures
             status == IF open THEN "circuit_open" ELSE backfill.status
  <1>1. /\ Recovering /\ faults < MaxFaults /\ faults' = faults + 1
        /\ processBatch(Batch, outcome) /\ UNCHANGED rpc /\ UNCHANGED crashes
        /\ backfill' = [backfill EXCEPT !.failures = n, !.status = status]
        /\ CASE ~open -> UNCHANGED <<stream, breaker>>
             [] open /\ stream.pc = "recovery" -> Caught(breaker, TRUE)
             [] OTHER -> stream' = [stream EXCEPT !.pc = "fetch"] /\ UNCHANGED breaker
    BY DEF RecoverBatchFails, Fault, Batch
  <1>2. Grows /\ chain' = chain /\ tip' = tip /\ Events' = Events /\ Stream' = Stream
    BY <1>1, BatchFacts, BatchStep, RpcKept
  <1>3. /\ backfill \in Backfill /\ backfill.failures < MaxFailures /\ backfill.failures \in Nat
        /\ backfill.status = "backfilling" /\ backfill.to =< tip
        /\ breaker \in Breaker /\ breaker.state # "open" /\ stream.pc # "open"
        /\ faults \in 0 .. MaxFaults /\ crashes \in 0 .. MaxCrashes
    BY <1>1, Numbers DEF StreamInv, LoopSound, Recovering
  <1>4. /\ n \in 0 .. MaxFailures /\ (~open => n < MaxFailures)
        /\ faults' \in 0 .. MaxFaults /\ crashes' \in 0 .. MaxCrashes
    BY <1>1, <1>3, StreamAssumption
  <1>5. BackfillIs(backfill', status, n, backfill.current, backfill.to)
    <2>1. status \in {"healthy", "backfilling", "gap_too_large", "circuit_open"}
      BY <1>3
    <2> HIDE DEF status, n
    <2> QED
      BY <1>1, <1>3, <1>4, <2>1, Numbers, BackfillUpdates
  <1>6. CASE ~open
    <2>1. stream' = stream /\ breaker' = breaker /\ backfill'.status = "backfilling"
      BY <1>1, <1>3, <1>5, <1>6 DEF BackfillIs
    <2>2. /\ backfill' \in Backfill /\ backfill'.failures < MaxFailures
          /\ backfill'.current = backfill.current /\ backfill'.to = backfill.to
      BY <1>4, <1>5, <1>6 DEF BackfillIs
    <2>3. LoopSound'
      BY <1>1, <1>2, <1>3, <1>4, <2>1, <2>2 DEF StreamInv, LoopSound, Recovering, Breaker, Backfill
    <2>4. PassedIsStored' /\ PageSound'
      BY <1>2, <2>1, PassedKept, PageKept DEF InHand
    <2>5. GapSound'
      BY <1>2, <2>1, <2>2 DEF StreamInv, GapSound, Grows
    <2> QED
      BY <1>2, <2>3, <2>4, <2>5 DEF StreamInv, Grows
  <1>7. CASE open
    <2>1. backfill' \in Backfill /\ backfill'.status = "circuit_open"
      BY <1>5, <1>7 DEF BackfillIs
    <2>2. CASE stream.pc = "recovery"
      <3>1. Caught(breaker, TRUE)
        BY <1>1, <1>7, <2>2
      <3>2. PICK pc \in {"open", "fetch"} :
               /\ Fields(stream', pc, stream.start, stream.paging, stream.cursor, {}, 0)
               /\ breaker' \in Breaker /\ (pc = "open") = (breaker'.state = "open")
        BY <1>2, <1>3, <3>1, CaughtStep
      <3> QED
        BY <1>1, <1>2, <1>4, <2>1, <3>2, QuietStep
    <2>3. CASE stream.pc # "recovery"
      <3>1. stream' = [stream EXCEPT !.pc = "fetch"] /\ breaker' = breaker
        BY <1>1, <1>7, <2>3
      <3>2. "fetch" \in Pcs /\ 1 \in 1 .. (LastLedger + 1) /\ 0 \in 0 .. LastLedger
        BY Numbers DEF Pcs
      <3>3. Fields(stream', "fetch", stream.start, stream.paging, stream.cursor, stream.page,
                   stream.latest)
        BY <3>1, <3>2, Numbers, StreamUpdates
      <3>4. breaker' \in Breaker /\ breaker'.state # "open"
        BY <1>3, <3>1
      <3> QED
        BY <1>1, <1>2, <1>4, <2>1, <3>3, <3>4, QuietStep
    <2> QED
      BY <2>2, <2>3
  <1> QED
    BY <1>6, <1>7

(***************************************************************************)
(* A recovered batch: the events up to the last ledger it accounts for are *)
(* stored.                                                                 *)
(***************************************************************************)
LEMMA RecoverBatchShape ==
    ASSUME StreamInv, RecoverBatch
    PROVE  /\ Recovering /\ Grows /\ UNCHANGED rpc /\ breaker' = breaker
           /\ faults' = faults /\ crashes' = crashes
           /\ BackfillIs(backfill', IF LastRead + 1 > backfill.to THEN "healthy" ELSE "backfilling",
                         0, LastRead + 1, backfill.to)
           /\ stream' = CASE ~(LastRead + 1 > backfill.to) -> stream
                          [] LastRead + 1 > backfill.to /\ stream.pc = "recovery" ->
                               [stream EXCEPT !.pc = "process", !.cursor = Max({@, LastRead})]
                          [] OTHER -> [stream EXCEPT !.pc = "fetch"]
           /\ stream.pc = "recovery" =>
                \A e \in Events : stream.cursor < e[1] /\ e[1] =< LastRead => e \in stored'
  <1> DEFINE done == LastRead + 1 > backfill.to
             status == IF done THEN "healthy" ELSE backfill.status
  <1>1. /\ Recovering /\ processBatch(Batch, "ok") /\ UNCHANGED rpc /\ UNCHANGED breaker
        /\ UNCHANGED faults /\ UNCHANGED crashes
        /\ backfill' = [backfill EXCEPT !.failures = 0, !.current = LastRead + 1, !.status = status]
        /\ stream' = CASE ~done -> stream
                       [] done /\ stream.pc = "recovery" ->
                            [stream EXCEPT !.pc = "process", !.cursor = Max({@, LastRead})]
                       [] OTHER -> [stream EXCEPT !.pc = "fetch"]
    BY DEF RecoverBatch, Batch, LastRead
  <1>2. Grows /\ Batch \subseteq stored'
    BY <1>1, BatchFacts, BatchStep
  <1>3. backfill.status = "backfilling" /\ backfill \in Backfill
    BY <1>1 DEF StreamInv, LoopSound
  <1>4. BackfillIs(backfill', status, 0, LastRead + 1, backfill.to)
    <2>1. status \in {"healthy", "backfilling", "gap_too_large", "circuit_open"}
      BY <1>3
    <2>2. LastRead + 1 \in Nat /\ 0 \in 0 .. MaxFailures
      BY <1>1, BatchFacts, StreamAssumption
    <2> HIDE DEF status
    <2> QED
      BY <1>1, <1>3, <2>1, <2>2, Numbers, BackfillUpdates
  <1>5. ASSUME stream.pc = "recovery", NEW e \in Events, stream.cursor < e[1], e[1] =< LastRead
        PROVE  e \in stored'
    <2>1. CASE e[1] < backfill.current
      BY <1>2, <1>5, <2>1 DEF StreamInv, GapSound, Grows
    <2>2. CASE ~(e[1] < backfill.current)
      <3>1. backfill.current =< e[1]
        BY <2>2, Numbers
      <3> QED
        BY <1>1, <1>2, <1>5, <3>1, BatchFacts
    <2> QED
      BY <2>1, <2>2
  <1> QED
    BY <1>1, <1>2, <1>3, <1>4, <1>5

LEMMA RecoverBatchStep == ASSUME StreamInv, RecoverBatch PROVE StreamInv'
  <1> DEFINE done == LastRead + 1 > backfill.to
  <1>1. /\ Recovering /\ Grows /\ UNCHANGED rpc /\ breaker' = breaker
        /\ faults' = faults /\ crashes' = crashes
        /\ BackfillIs(backfill', IF done THEN "healthy" ELSE "backfilling",
                      0, LastRead + 1, backfill.to)
    BY RecoverBatchShape
  <1>2. stream' = CASE ~done -> stream
                    [] done /\ stream.pc = "recovery" ->
                         [stream EXCEPT !.pc = "process", !.cursor = Max({@, LastRead})]
                    [] OTHER -> [stream EXCEPT !.pc = "fetch"]
    BY RecoverBatchShape
  <1>3. tip' = tip /\ Events' = Events /\ Stream' = Stream
    BY <1>1, RpcKept
  <1>4. /\ LastRead \in Nat /\ LastRead =< backfill.to /\ LastRead =< tip
        /\ stream.pc = "recovery" => backfill.current =< LastRead
    BY <1>1, BatchFacts
  <1>5. /\ breaker' \in Breaker /\ breaker'.state # "open" /\ stream.pc # "open"
        /\ faults' \in 0 .. MaxFaults /\ crashes' \in 0 .. MaxCrashes /\ backfill.to =< tip
    BY <1>1 DEF StreamInv, LoopSound, Recovering
  <1>6. /\ backfill' \in Backfill /\ backfill'.failures < MaxFailures
        /\ backfill'.to = backfill.to /\ backfill'.current = LastRead + 1
        /\ ~done => backfill'.status = "backfilling"
        /\ done => backfill'.status = "healthy"
    BY <1>1, StreamAssumption DEF BackfillIs
  <1>7. CASE ~done
    <2>1. stream' = stream
      BY <1>2, <1>7
    <2>2. LoopSound'
      BY <1>1, <1>3, <1>5, <1>6, <1>7, <2>1 DEF StreamInv, LoopSound, Recovering, Breaker, Backfill
    <2>3. PassedIsStored' /\ PageSound'
      BY <1>1, <2>1, PassedKept, PageKept DEF InHand
    <2>4. GapSound'
      <3> SUFFICES ASSUME stream.pc = "recovery" PROVE GapSound'
        BY <2>1 DEF GapSound
      <3>1. backfill.to + GapConfirmation =< tip /\ stream.cursor < backfill.current
        BY DEF StreamInv, GapSound
      <3>2. stream.cursor < LastRead + 1 /\ LastRead + 1 =< backfill.to
        BY <1>4, <1>7, <3>1, Numbers
      <3>3. ASSUME NEW e \in Events, stream.cursor < e[1], e[1] < LastRead + 1
            PROVE  e \in stored'
        <4>1. e[1] =< LastRead
          BY <1>4, <3>3, Numbers
        <4> QED
          BY <3>3, <4>1, RecoverBatchShape
      <3> QED
        BY <1>3, <1>6, <2>1, <3>1, <3>2, <3>3 DEF GapSound
    <2> QED
      BY <1>1, <2>2, <2>3, <2>4 DEF StreamInv, Grows
  <1>8. CASE done /\ stream.pc # "recovery"
    <2>1. stream' = [stream EXCEPT !.pc = "fetch"]
      BY <1>2, <1>8
    <2>2. "fetch" \in Pcs /\ 1 \in 1 .. (LastLedger + 1) /\ 0 \in 0 .. LastLedger
      BY Numbers DEF Pcs
    <2>3. Fields(stream', "fetch", stream.start, stream.paging, stream.cursor, stream.page,
                 stream.latest)
      BY <2>1, <2>2, Numbers, StreamUpdates
    <2> QED
      BY <1>1, <1>5, <1>6, <2>3, QuietStep
  <1>9. CASE done /\ stream.pc = "recovery"
    <2> DEFINE cursor == Max({stream.cursor, LastRead})
    <2>1. stream' = [stream EXCEPT !.pc = "process", !.cursor = cursor]
      BY <1>2, <1>9
    <2>2. cursor \in {stream.cursor, LastRead}
      <3>1. {stream.cursor, LastRead} \in SUBSET Nat /\ \A x \in {stream.cursor, LastRead} : x =< tip
        BY <1>4, Numbers DEF StreamInv, LoopSound
      <3> QED
        BY <3>1, MaxOf, Numbers
    <2>3. cursor \in 0 .. LastLedger /\ cursor =< tip
      BY <1>4, <2>2, Numbers DEF StreamInv, LoopSound
    <2> HIDE DEF cursor
    <2>4. Fields(stream', "process", stream.start, stream.paging, cursor, stream.page, stream.latest)
      <3>1. "process" \in Pcs /\ 1 \in 1 .. (LastLedger + 1) /\ 0 \in 0 .. LastLedger
        BY Numbers DEF Pcs
      <3> QED
        BY <2>1, <2>3, <3>1, Numbers, StreamUpdates
    <2>5. /\ stream' \in Stream /\ stream'.pc = "process" /\ stream'.start = stream.start
          /\ stream'.paging = stream.paging /\ stream'.cursor = cursor
          /\ stream'.page = stream.page /\ stream'.latest = stream.latest
      BY <2>4 DEF Fields
    <2>6. LoopSound'
      BY <1>1, <1>3, <1>5, <1>6, <1>9, <2>3, <2>5
         DEF StreamInv, LoopSound, Recovering, Breaker, Backfill
    <2>7. PassedIsStored' /\ PageSound'
      BY <1>1, <1>9, <2>5, PassedKept, PageKept DEF InHand
    <2>8. GapSound'
      BY <2>5 DEF GapSound
    <2> QED
      BY <1>1, <2>6, <2>7, <2>8 DEF StreamInv, Grows
  <1> QED
    BY <1>7, <1>8, <1>9

(***************************************************************************)
(* The page is processed: the window moves past what the page held.        *)
(***************************************************************************)
LEMMA StreamMade ==
    ASSUME NEW start \in 1 .. (LastLedger + 1), NEW paging \in Tokens, NEW cursor \in 0 .. LastLedger
    PROVE  Fields([pc |-> "fetch", cursor |-> cursor, page |-> {}, latest |-> 0,
                   paging |-> paging, start |-> start], "fetch", start, paging, cursor, {}, 0)
  <1>1. 0 \in 0 .. LastLedger /\ "fetch" \in Pcs
    BY StreamAssumption DEF Pcs
  <1> DEFINE Starts == 1 .. (LastLedger + 1)
             Ledgers0 == 0 .. LastLedger
  <1>2. Stream = [pc : Pcs, start : Starts, paging : Tokens, cursor : Ledgers0,
                  page : SUBSET Events, latest : Ledgers0]
    BY DEF Stream
  <1>3. start \in Starts /\ cursor \in Ledgers0 /\ 0 \in Ledgers0
    BY <1>1
  <1> HIDE DEF Starts, Ledgers0
  <1> QED
    BY <1>1, <1>2, <1>3 DEF Fields

LEMMA Drained ==
    ASSUME NEW latest \in Nat, NEW cursor \in Nat, cursor =< latest
    PROVE  DrainedAt(latest, cursor) \in {latest, cursor + 1}
  <1>1. {latest, cursor + 1} \in SUBSET Nat /\ \A x \in {latest, cursor + 1} : x =< latest + 1
    OBVIOUS
  <1> QED
    BY <1>1, MaxOf DEF DrainedAt

LEMMA ProcessPageStep == ASSUME StreamInv, ProcessPage PROVE StreamInv'
  <1> DEFINE page == stream.page
             latest == stream.latest
             cursor == Max(LedgersOf(page))
             full == Cardinality(page) = PageSize
             window == NextWindow(page, latest, cursor)
  <1>1. /\ stream.pc = "process" /\ processBatch(page, "ok") /\ UNCHANGED rpc /\ UNCHANGED breaker
        /\ UNCHANGED backfill /\ UNCHANGED faults /\ UNCHANGED crashes
        /\ stream' = [pc |-> "fetch", cursor |-> cursor, page |-> {}, latest |-> 0,
                      paging |-> window.paging, start |-> window.start]
    BY DEF ProcessPage
  <1>2. /\ page # {} /\ latest =< tip /\ \A e \in page : e[1] =< latest
        /\ \A e \in Events :
              Prompt(e) /\ StartLedger =< e[1] /\ ~Passed(e) /\ e[1] =< latest =>
                  e \in page \/ (full /\ \A f \in page : Before(f, e))
    BY <1>1 DEF StreamInv, PageSound, InHand
  <1>3. /\ page \in SUBSET Events /\ page \in SUBSET Places /\ latest \in Nat /\ tip \in Nat
        /\ \A e \in Events : e[1] \in Nat
    BY Numbers, PlaceFacts
  <1>4. Grows /\ page \subseteq stored'
    <2>1. \A e \in page : e[1] =< tip
      BY <1>2, <1>3
    <2> QED
      BY <1>1, <1>3, <2>1, BatchStep
  <1>5. tip' = tip /\ Events' = Events /\ Stream' = Stream /\ lagged' = lagged
    BY <1>1, RpcKept DEF rpc
  <1>6. cursor \in Nat /\ cursor =< latest
    <2>1. \E e \in page : e[1] = cursor
      BY <1>2, <1>3, LedgersOfEvents
    <2> QED
      BY <1>2, <1>3, <2>1
  <1>7. LastOf(page) \in page
    BY <1>2, <1>3, LastEvent
  <1>8. /\ full => window.paging = LastOf(page) /\ window.start = stream.start
        /\ ~full => window.paging = NoToken /\ window.start = DrainedAt(latest, cursor)
    BY DEF NextWindow
  <1>9. DrainedAt(latest, cursor) \in {latest, cursor + 1}
    BY <1>3, <1>6, Drained
  <1> HIDE DEF page, latest, cursor, full, window
  <1>10. /\ window.start \in Nat /\ 1 =< window.start /\ window.start =< tip + 1
         /\ window.paging \in Tokens /\ window.paging[1] =< tip
    <2>1. CASE full
      <3>1. window.paging \in Places /\ window.paging[1] =< latest /\ window.paging[1] \in Nat
        BY <1>2, <1>3, <1>7, <1>8, <2>1
      <3>2. Places \subseteq Tokens
        BY DEF Places, Tokens, Ledgers
      <3>3. stream.start \in Nat /\ 1 =< stream.start /\ stream.start =< tip + 1
        BY StreamFields, Numbers DEF StreamInv, LoopSound
      <3> QED
        BY <1>2, <1>3, <1>8, <2>1, <3>1, <3>2, <3>3
    <2>2. CASE ~full
      <3>1. NoToken \in Tokens /\ NoToken[1] = 0
        BY StreamAssumption DEF Tokens, NoToken
      <3>2. 1 =< latest
        <4>1. PICK e \in page : TRUE
          BY <1>2
        <4>2. 1 =< e[1] /\ e[1] =< latest /\ e[1] \in Nat
          BY <1>2, <1>3, PlaceFacts
        <4> QED
          BY <1>3, <4>2
      <3> QED
        BY <1>2, <1>3, <1>6, <1>8, <1>9, <2>2, <3>1, <3>2
    <2> QED
      BY <2>1, <2>2
  <1>11. Fields(stream', "fetch", window.start, window.paging, cursor, {}, 0)
    <2>1. window.start \in 1 .. (LastLedger + 1) /\ cursor \in 0 .. LastLedger
      BY <1>2, <1>3, <1>6, <1>10, Numbers
    <2> QED
      BY <1>1, <1>10, <2>1, StreamMade
  <1>12. /\ stream' \in Stream /\ stream'.pc = "fetch" /\ stream'.start = window.start
         /\ stream'.paging = window.paging /\ stream'.cursor = cursor
    BY <1>11 DEF Fields
  <1>13. LoopSound'
    <2>1. cursor =< tip
      BY <1>2, <1>3, <1>6
    <2>2. LoopSound /\ breaker' = breaker /\ backfill' = backfill /\ faults' = faults /\ crashes' = crashes
      BY <1>1 DEF StreamInv
    <2> QED
      BY <1>1, <1>5, <1>10, <1>12, <2>1, <2>2 DEF LoopSound, Recovering, Breaker, Backfill
  <1>14. ASSUME NEW e \in Events, Prompt(e), StartLedger =< e[1],
                e[1] < window.start \/ (window.paging # NoToken /\ ~Before(window.paging, e))
         PROVE  e \in stored'
    <2>1. CASE Passed(e)
      BY <1>4, <1>14, <2>1 DEF StreamInv, PassedIsStored, Grows
    <2>2. CASE ~Passed(e)
      <3>1. CASE full
        <4>1. ~Before(LastOf(page), e)
          BY <1>8, <1>14, <2>2, <3>1 DEF Passed
        <4>2. e[1] =< LastOf(page)[1] /\ LastOf(page)[1] =< latest /\ LastOf(page)[1] \in Nat
          BY <1>2, <1>3, <1>7, <4>1 DEF Before
        <4>3. e[1] =< latest
          BY <1>3, <4>2
        <4> QED
          BY <1>2, <1>4, <1>7, <1>14, <2>2, <4>1, <4>3
      <3>2. CASE ~full
        <4>1. e[1] < window.start
          BY <1>8, <1>14, <3>2
        <4>2. e[1] =< latest
          BY <1>3, <1>6, <1>8, <1>9, <3>2, <4>1
        <4> QED
          BY <1>2, <1>4, <1>14, <2>2, <3>2, <4>2
      <3> QED
        BY <3>1, <3>2
    <2> QED
      BY <2>1, <2>2
  <1>15. PassedIsStored'
    BY <1>5, <1>12, <1>14 DEF PassedIsStored, Passed, Prompt, Before
  <1> QED
    BY <1>4, <1>12, <1>13, <1>15 DEF StreamInv, Grows, PageSound, InHand, GapSound

(***************************************************************************)
(* What a fetch asks the RPC for, which is every prompt event not passed.  *)
(***************************************************************************)
Asked == IF stream.paging = NoToken
         THEN Served(stream.start, LastLedger)
         ELSE {e \in Served(1, LastLedger) : Before(stream.paging, e)}

LEMMA AskedFacts ==
    ASSUME StreamInv
    PROVE  /\ Asked \in SUBSET Events /\ Asked \in SUBSET Places /\ \A e \in Asked : e[1] =< tip
           /\ \A e \in Events : Prompt(e) /\ ~Passed(e) /\ e[1] =< tip => e \in Asked
  <1>1. Asked \in SUBSET Events /\ \A e \in Asked : e[1] =< tip
    BY DEF Asked, Served
  <1>2. Asked \in SUBSET Places
    BY <1>1, PlaceFacts
  <1>3. ASSUME NEW e \in Events, Prompt(e), ~Passed(e), e[1] =< tip PROVE e \in Asked
    <2>1. e[1] \notin hidden
      BY <1>3 DEF StreamInv, RpcSound, Prompt
    <2>2. e[1] \in 1 .. LastLedger /\ e[1] \in stream.start .. LastLedger
      <3>1. ~(e[1] < stream.start)
        BY <1>3 DEF Passed
      <3>2. e[1] \in Nat /\ 1 =< e[1] /\ e[1] =< LastLedger
        BY PlaceFacts
      <3> QED
        BY <3>1, <3>2, Numbers
    <2>3. stream.paging = NoToken \/ Before(stream.paging, e)
      BY <1>3 DEF Passed
    <2> QED
      BY <1>3, <2>1, <2>2, <2>3 DEF Asked, Served
  <1> QED
    BY <1>1, <1>2, <1>3

(***************************************************************************)
(* A page taken in hand.                                                   *)
(***************************************************************************)
LEMMA PageTaken ==
    ASSUME StreamInv, UNCHANGED rpc, UNCHANGED db, Page(Asked) # {}, NEW pc,
           Fields(stream', pc, stream.start, stream.paging, stream.cursor, Page(Asked), tip)
    PROVE  PassedIsStored' /\ PageSound'
  <1> DEFINE page == Page(Asked)
  <1>1. /\ page \subseteq Asked /\ Cardinality(page) =< PageSize
        /\ \A e \in page : \A f \in Asked \ page : Before(e, f)
        /\ page # Asked => Cardinality(page) = PageSize
    BY AskedFacts, PageFacts
  <1>2. /\ stream'.start = stream.start /\ stream'.paging = stream.paging
        /\ stream'.page = page /\ stream'.latest = tip
    BY DEF Fields
  <1>3. Grows /\ tip' = tip /\ tip \in Nat /\ Events' = Events /\ lagged' = lagged
    BY RpcKept, Numbers DEF rpc
  <1>4. PassedIsStored'
    BY <1>2, <1>3, PassedKept
  <1>5. \A e \in page : e[1] =< tip
    BY <1>1, AskedFacts
  <1>6. ASSUME NEW e \in Events, Prompt(e), ~Passed(e), e[1] =< tip
        PROVE  e \in page \/ (Cardinality(page) = PageSize /\ \A f \in page : Before(f, e))
    BY <1>1, <1>6, AskedFacts
  <1>7. \A e \in Events : (Prompt(e)' <=> Prompt(e)) /\ (Passed(e)' <=> Passed(e))
    BY <1>2, <1>3 DEF Prompt, Passed, Before
  <1> HIDE DEF page
  <1>8. page # {}
    BY DEF page
  <1>9. tip' =< tip'
    BY <1>3
  <1> QED
    BY <1>1, <1>2, <1>3, <1>4, <1>5, <1>6, <1>7, <1>8, <1>9 DEF PageSound, Before

LEMMA FetchPageStep == ASSUME StreamInv, FetchPage PROVE StreamInv'
  <1> DEFINE page == Page(Asked)
             first == Min(LedgersOf(page))
             verdict == IF page = {} THEN "none" ELSE detectGap(first, stream.cursor, tip)
  <1>1. /\ stream.pc = "fetch" /\ UNCHANGED rpc /\ UNCHANGED db /\ UNCHANGED faults /\ UNCHANGED crashes
        /\ CASE page = {} ->
                  /\ stream' = [stream EXCEPT !.paging = NoToken,
                                              !.start = DrainedAt(tip, stream.cursor)]
                  /\ breaker' = Closed
                  /\ UNCHANGED backfill
             [] verdict = "gap" /\ backfill.status = "circuit_open" ->
                  /\ Caught(Closed, TRUE)
                  /\ UNCHANGED backfill
             [] verdict = "gap" /\ backfill.status # "circuit_open" ->
                  /\ stream' = [[stream EXCEPT !.page = page, !.latest = tip] EXCEPT !.pc = "recovery"]
                  /\ breaker' = Closed
                  /\ backfill' = BeginRecovery(stream.cursor + 1, first - 1)
             [] OTHER ->
                  /\ stream' = [[stream EXCEPT !.page = page, !.latest = tip] EXCEPT !.pc = "process"]
                  /\ breaker' = Closed
                  /\ UNCHANGED backfill
    BY DEF FetchPage, Asked
  <1>2. Grows /\ chain' = chain /\ tip' = tip /\ Events' = Events /\ Stream' = Stream /\ lagged' = lagged
    BY <1>1, RpcKept DEF rpc
  <1>3. /\ LoopSound /\ backfill \in Backfill /\ stream \in Stream /\ stream.cursor =< tip
        /\ (backfill.status # "circuit_open" => backfill.failures < MaxFailures)
        /\ faults' \in 0 .. MaxFaults /\ crashes' \in 0 .. MaxCrashes
    BY <1>1 DEF StreamInv, LoopSound
  <1>4. Closed \in Breaker /\ Closed.state = "closed"
    BY DEF Closed, Breaker
  <1>5. page \in SUBSET Events /\ \A e \in page : e[1] =< tip
    BY AskedFacts, PageFacts
  <1>6. {"fetch", "process", "recovery"} \subseteq Pcs /\ 1 \in 1 .. (LastLedger + 1) /\ 0 \in 0 .. LastLedger
        /\ tip \in 0 .. LastLedger
    BY Numbers DEF Pcs
  <1> HIDE DEF page, first, verdict
  <1>7. CASE page = {}
    <2> DEFINE start == DrainedAt(tip, stream.cursor)
    <2>1. stream' = [stream EXCEPT !.paging = NoToken, !.start = start] /\ breaker' = Closed
          /\ backfill' = backfill
      BY <1>1, <1>7 DEF verdict
    <2>2. start \in {tip, stream.cursor + 1}
      BY <1>3, Numbers, Drained
    <2>3. start \in 1 .. (LastLedger + 1) /\ start =< tip + 1 /\ start \in Nat
      BY <1>3, <2>2, Numbers
    <2> HIDE DEF start
    <2>4. Fields(stream', "fetch", start, NoToken, stream.cursor, stream.page, stream.latest)
      <3>1. Fields(stream', stream.pc, start, NoToken, stream.cursor, stream.page, stream.latest)
        BY <1>3, <1>6, <2>1, <2>3, Numbers, StreamUpdates
      <3> QED
        BY <1>1, <3>1
    <2>5. /\ stream' \in Stream /\ stream'.pc = "fetch" /\ stream'.start = start
          /\ stream'.paging = NoToken /\ stream'.cursor = stream.cursor
      BY <2>4 DEF Fields
    <2>6. LoopSound'
      <3>1. stream'.paging[1] =< tip
        BY <2>5, Numbers DEF NoToken
      <3> QED
        BY <1>2, <1>3, <1>4, <2>1, <2>3, <2>5, <3>1 DEF LoopSound, Recovering, Breaker, Backfill
    <2>7. Asked = {}
      BY <1>7, AskedFacts, PageFacts DEF page
    <2>8. ASSUME NEW e \in Events, Prompt(e), StartLedger =< e[1], e[1] < start PROVE e \in stored
      <3>1. e[1] =< tip
        BY <2>3, <2>8, Numbers
      <3>2. Passed(e)
        BY <2>7, <2>8, <3>1, AskedFacts
      <3> QED
        BY <2>8, <3>2 DEF StreamInv, PassedIsStored
    <2>9. PassedIsStored'
      BY <1>1, <1>2, <2>5, <2>8 DEF PassedIsStored, Passed, Prompt, NoToken, db
    <2> QED
      BY <1>2, <2>5, <2>6, <2>9 DEF StreamInv, Grows, PageSound, InHand, GapSound
  <1>8. CASE page # {} /\ verdict = "gap" /\ backfill.status = "circuit_open"
    <2>1. Caught(Closed, TRUE) /\ backfill' = backfill
      BY <1>1, <1>8
    <2>2. PICK pc \in {"open", "fetch"} :
            /\ Fields(stream', pc, stream.start, stream.paging, stream.cursor, {}, 0)
            /\ breaker' \in Breaker /\ (pc = "open") = (breaker'.state = "open")
      BY <1>2, <1>4, <2>1, CaughtStep
    <2> QED
      BY <1>1, <1>2, <1>3, <2>1, <2>2, QuietStep
  <1>9. CASE page # {} /\ verdict = "gap" /\ backfill.status # "circuit_open"
    <2>1. /\ stream' = [[stream EXCEPT !.page = page, !.latest = tip] EXCEPT !.pc = "recovery"]
          /\ breaker' = Closed /\ backfill' = BeginRecovery(stream.cursor + 1, first - 1)
      BY <1>1, <1>9
    <2>2. Fields(stream', "recovery", stream.start, stream.paging, stream.cursor, page, tip)
      BY <1>3, <1>5, <1>6, <2>1, Numbers, StreamUpdates
    <2>3. /\ stream' \in Stream /\ stream'.pc = "recovery" /\ stream'.start = stream.start
          /\ stream'.paging = stream.paging /\ stream'.cursor = stream.cursor
      BY <2>2 DEF Fields
    <2>4. first \in Nat /\ first =< tip
      <3>1. \E e \in page : e[1] = first
        BY <1>5, <1>9, LedgersOfEvents DEF first
      <3> QED
        BY <1>5, <3>1, Numbers
    <2>5. /\ ~(first =< stream.cursor + 1)
          /\ ~(GapConfirmation > 0 /\ tip < first - 1 + GapConfirmation)
      BY <1>9 DEF verdict, detectGap
    <2>6. /\ first - 1 \in Nat /\ stream.cursor + 1 \in Nat /\ stream.cursor + 1 =< first - 1
          /\ first - 1 =< tip /\ first - 1 + GapConfirmation =< tip
      BY <2>4, <2>5, Numbers
    <2>7. BackfillIs(backfill', "backfilling", backfill.failures, stream.cursor + 1, first - 1)
      <3>1. /\ "backfilling" \in {"healthy", "backfilling", "gap_too_large", "circuit_open"}
            /\ 0 \in 0 .. MaxFailures
        BY StreamAssumption
      <3> QED
        BY <1>3, <2>1, <2>6, <3>1, BackfillUpdates DEF BeginRecovery
    <2>8. /\ backfill' \in Backfill /\ backfill'.status = "backfilling"
          /\ backfill'.failures < MaxFailures
          /\ backfill'.current = stream.cursor + 1 /\ backfill'.to = first - 1
      BY <1>3, <1>9, <2>7 DEF BackfillIs
    <2>9. LoopSound'
      BY <1>2, <1>3, <1>4, <2>1, <2>3, <2>6, <2>8 DEF LoopSound, Recovering, Breaker, Backfill
    <2>10. PassedIsStored' /\ PageSound'
      BY <1>1, <1>9, <2>2, PageTaken DEF page
    <2>11. GapSound'
      <3>1. stream.cursor < stream.cursor + 1
        BY Numbers
      <3>2. \A e \in Events : ~(stream.cursor < e[1] /\ e[1] < stream.cursor + 1)
        BY Numbers
      <3> QED
        BY <1>2, <2>3, <2>6, <2>8, <3>1, <3>2 DEF GapSound
    <2> QED
      BY <1>2, <2>9, <2>10, <2>11 DEF StreamInv, Grows
  <1>10. CASE page # {} /\ verdict # "gap"
    <2>1. /\ stream' = [[stream EXCEPT !.page = page, !.latest = tip] EXCEPT !.pc = "process"]
          /\ breaker' = Closed /\ backfill' = backfill
      BY <1>1, <1>10
    <2>2. Fields(stream', "process", stream.start, stream.paging, stream.cursor, page, tip)
      BY <1>3, <1>5, <1>6, <2>1, Numbers, StreamUpdates
    <2>3. /\ stream' \in Stream /\ stream'.pc = "process" /\ stream'.start = stream.start
          /\ stream'.paging = stream.paging /\ stream'.cursor = stream.cursor
      BY <2>2 DEF Fields
    <2>4. LoopSound'
      BY <1>2, <1>3, <1>4, <2>1, <2>3 DEF LoopSound, Recovering, Breaker, Backfill
    <2>5. PassedIsStored' /\ PageSound'
      BY <1>1, <1>10, <2>2, PageTaken DEF page
    <2> QED
      BY <1>2, <2>3, <2>4, <2>5 DEF StreamInv, Grows, GapSound
  <1> QED
    BY <1>7, <1>8, <1>9, <1>10

-------------------------------------------------------------------------------
(***************************************************************************)
(* The theorems                                                            *)
(***************************************************************************)

LEMMA StreamInit == ASSUME Init PROVE StreamInv
  <1>1. RpcSound
    BY StreamAssumption DEF Init, RpcSound, Ledgers
  <1>2. TablesSound
    <2>1. stored = {} /\ published = {} /\ cursorRow = 0
      BY DEF Init
    <2>2. {0} \cup LedgersOf(stored) = {0}
      BY <2>1 DEF LedgersOf
    <2>3. Max({0}) = 0
      BY MaxIs
    <2> QED
      BY <2>1, <2>2, <2>3 DEF TablesSound
  <1>3. faults \in 0 .. MaxFaults /\ crashes \in 0 .. MaxCrashes
    BY StreamAssumption DEF Init
  <1>4. Fresh
    BY <1>1, <1>2, <1>3 DEF Init, Fresh
  <1> QED
    BY <1>4, RestartSound

LEMMA StreamSame == ASSUME StreamInv, UNCHANGED vars PROVE StreamInv'
  <1>1. UNCHANGED rpc /\ UNCHANGED db /\ UNCHANGED <<stream, breaker, backfill, faults, crashes>>
    BY DEF vars, rpc, db
  <1> QED
    BY <1>1, RpcKept, RpcMoves

LEMMA StreamNext == StreamInv /\ [Next]_vars => StreamInv'
  <1> SUFFICES ASSUME StreamInv, [Next]_vars PROVE StreamInv'
    OBVIOUS
  <1>1. CASE CloseLedger
    BY <1>1, CloseLedgerStep
  <1>2. CASE ServeLate
    BY <1>2, ServeLateStep
  <1>3. CASE \E rpcAnswers \in BOOLEAN : Startup(rpcAnswers)
    BY <1>3, StartupStep
  <1>4. CASE FetchPage
    BY <1>4, FetchPageStep
  <1>5. CASE RecoverBatch
    BY <1>5, RecoverBatchStep
  <1>6. CASE ProcessPage
    BY <1>6, ProcessPageStep
  <1>7. CASE BeginProbe
    BY <1>7, BeginProbeStep
  <1>8. CASE \E persistent \in BOOLEAN : FetchFails(persistent)
    BY <1>8, FetchFailsStep
  <1>9. CASE \E outcome \in Outcomes : RecoverBatchFails(outcome)
    BY <1>9, RecoverBatchFailsStep
  <1>10. CASE \E outcome \in Outcomes, persistent \in BOOLEAN : ProcessPageFails(outcome, persistent)
    BY <1>10, ProcessPageFailsStep
  <1>11. CASE Crash
    BY <1>11, CrashStep
  <1>12. CASE UNCHANGED vars
    BY <1>12, StreamSame
  <1> QED
    BY <1>1, <1>2, <1>3, <1>4, <1>5, <1>6, <1>7, <1>8, <1>9, <1>10, <1>11, <1>12
       DEF Next, Loop, Failure

(***************************************************************************)
(* streamEvents, the breaker and the coordinator agree in every state, and *)
(* whatever the loop has passed or holds a page of is accounted for.       *)
(***************************************************************************)
THEOREM StreamInvariant == Spec => []StreamInv
  BY StreamInit, StreamNext, PTL DEF Spec

(***************************************************************************)
(* The loop of stream.ts never moves its window past a promptly served     *)
(* event that is not stored, through full pages, drained windows, gaps,    *)
(* failed batches, lost acknowledgements, probes and restarts.             *)
(***************************************************************************)
THEOREM NothingIsSkipped == Spec => []StreamConsistent
  <1>1. StreamInv => StreamConsistent
    <2> SUFFICES ASSUME StreamInv PROVE TypeOK /\ NothingSkipped
      BY DEF StreamConsistent
    <2>1. /\ breaker.state \in {"closed", "open", "half_open"} /\ breaker.failures \in Nat
          /\ backfill.status \in {"healthy", "backfilling", "gap_too_large", "circuit_open"}
          /\ backfill.failures \in 0 .. MaxFailures
      BY DEF StreamInv, LoopSound, Breaker, Backfill
    <2>2. TypeOK
      BY <2>1 DEF StreamInv, RpcSound, TablesSound, LoopSound, TypeOK, Stream
    <2>3. NothingSkipped
      BY DEF StreamInv, PassedIsStored, Passed, NothingSkipped
    <2> QED
      BY <2>2, <2>3
  <1> QED
    BY <1>1, StreamInvariant, PTL

(***************************************************************************)
(* When the coordinator reports a gap of the stream recovered, every event *)
(* of the gap is in the database, served late or not.                      *)
(***************************************************************************)
THEOREM RecoveredGapsAreWhole == Spec => GapRecoveredBeforeAdvance
  <1>1. ASSUME StreamInv, [Next]_vars, stream.pc = "recovery", stream'.pc = "process",
               NEW e \in Events, e[1] \in (stream.cursor + 1) .. stream'.cursor
        PROVE  e \in stored'
    <2>1. RecoverBatch
      <3>1. ~(CloseLedger \/ ServeLate \/ UNCHANGED vars \/ BeginProbe \/ Crash)
        BY <1>1 DEF CloseLedger, ServeLate, vars, BeginProbe, Crash, Restarted
      <3>2. ~(FetchPage \/ ProcessPage \/ \E rpcAnswers \in BOOLEAN : Startup(rpcAnswers))
        BY <1>1 DEF FetchPage, ProcessPage, Startup
      <3>3. /\ ~(\E persistent \in BOOLEAN : FetchFails(persistent))
            /\ ~(\E outcome \in Outcomes, persistent \in BOOLEAN : ProcessPageFails(outcome, persistent))
        BY <1>1 DEF FetchFails, ProcessPageFails
      <3>4. ASSUME NEW outcome \in Outcomes, RecoverBatchFails(outcome) PROVE FALSE
        <4>1. stream' = stream \/ (UNCHANGED rpc /\ Caught(breaker, TRUE))
          BY <1>1, <3>4 DEF RecoverBatchFails
        <4>2. breaker \in Breaker /\ breaker.state # "open"
          BY <1>1 DEF StreamInv, LoopSound
        <4>3. CASE stream' = stream
          BY <1>1, <4>3
        <4>4. CASE UNCHANGED rpc /\ Caught(breaker, TRUE)
          <5>1. chain' = chain
            BY <4>4 DEF rpc
          <5>2. \E pc \in {"open", "fetch"} : stream'.pc = pc
            BY <1>1, <4>2, <4>4, <5>1, CaughtStep DEF Fields
          <5> QED
            BY <1>1, <5>2
        <4> QED
          BY <4>1, <4>3, <4>4
      <3> QED
        BY <1>1, <3>1, <3>2, <3>3, <3>4 DEF Next, Loop, Failure
    <2>2. Recovering
      BY <1>1 DEF Recovering
    <2>3. LastRead \in Nat /\ LastRead =< tip
      BY <1>1, <2>2, BatchFacts
    <2>4. stream' = [stream EXCEPT !.pc = "process", !.cursor = Max({stream.cursor, LastRead})]
      <3>1. stream' # stream
        BY <1>1
      <3> QED
        BY <1>1, <2>1, <3>1, RecoverBatchShape
    <2> DEFINE cursor == Max({stream.cursor, LastRead})
    <2>5. cursor \in {stream.cursor, LastRead}
      <3>1. {stream.cursor, LastRead} \in SUBSET Nat /\ \A x \in {stream.cursor, LastRead} : x =< tip
        BY <1>1, <2>3, Numbers DEF StreamInv, LoopSound
      <3> QED
        BY <1>1, <3>1, MaxOf, Numbers
    <2>6. stream'.cursor = cursor
      <3>1. stream \in Stream
        BY <1>1, Numbers
      <3> HIDE DEF cursor
      <3> QED
        BY <2>4, <3>1 DEF cursor, Stream
    <2> HIDE DEF cursor
    <2>7. stream.cursor < e[1] /\ e[1] =< LastRead
      BY <1>1, <2>3, <2>5, <2>6, Numbers
    <2> QED
      BY <1>1, <2>1, <2>7, RecoverBatchShape
  <1>2. StreamInv /\ [Next]_vars =>
           [stream.pc = "recovery" /\ stream'.pc = "process"
              => \A e \in Events :
                    e[1] \in (stream.cursor + 1)..stream'.cursor => e \in stored']_vars
    BY <1>1
  <1> QED
    BY <1>2, StreamInvariant, PTL DEF Spec, GapRecoveredBeforeAdvance

-------------------------------------------------------------------------------
(***************************************************************************)
(* EventFanout: the other end of the bus the stream publishes on.  It      *)
(* shares no state with EventStream.  First its inductive invariant.       *)
(***************************************************************************)
FanSizes ==
    /\ Depth \in Nat \ {0} /\ Burst \in Nat \ {0} /\ Wanted \subseteq Types
    /\ MaxDrops \in Nat /\ MaxViolations \in Nat /\ MaxBroadcasts \in Nat /\ MaxMishaps \in Nat

BusEvents == 1 .. MaxBroadcasts
EventSeqs == Seq(BusEvents)
Conns == [is : {"open", "closing", "gone"}, listed : BOOLEAN, alive : BOOLEAN,
          types : SUBSET Types, tokens : 0 .. Burst, violations : 0 .. MaxViolations,
          address : BOOLEAN, deadline : BOOLEAN, queue : EventSeqs,
          sending : 0 .. MaxBroadcasts, dropped : 0 .. MaxDrops + 1]

Rises(s) == \A i, j \in 1 .. Len(s) : i < j => s[i] < s[j]
Precede(S, T) == \A x \in S, y \in T : x < y
One(x) == IF x = 0 THEN {} ELSE {x}
All(g, d, x, q) == ToSet(g) \cup ToSet(d) \cup One(x) \cup ToSet(q)

(***************************************************************************)
(* The frames of a connection: read (g), on the wire (d), in ws.send (x)   *)
(* and queued (q) follow one another in the order of publication, and the  *)
(* events the client qualified for (a) and does not have are at most as    *)
(* many as were counted (dr) as long as both ends hold the connection.     *)
(***************************************************************************)
Chained(g, d, x, q, pub) ==
    /\ g \in EventSeqs /\ d \in EventSeqs /\ q \in EventSeqs /\ x \in 0 .. MaxBroadcasts
    /\ Rises(g) /\ Rises(d) /\ Rises(q)
    /\ \A y \in All(g, d, x, q) : y =< pub
    /\ Precede(ToSet(g), ToSet(d)) /\ Precede(ToSet(g), One(x)) /\ Precede(ToSet(g), ToSet(q))
    /\ Precede(ToSet(d), One(x)) /\ Precede(ToSet(d), ToSet(q)) /\ Precede(One(x), ToSet(q))

Flow(is, x, q, dr, cl, g, d, a, pub) ==
    /\ Chained(g, d, x, q, pub) /\ a \subseteq BusEvents
    /\ is = "open" /\ cl = "open" => Cardinality(a \ All(g, d, x, q)) =< dr

ConnSound(c, cl, g, d, a, pub) ==
    /\ c \in Conns /\ Len(c.queue) =< Depth
    /\ c.is = "open" => c.dropped =< MaxDrops
    /\ c.is = "open" /\ c.queue # <<>> => c.sending # 0
    /\ Flow(c.is, c.sending, c.queue, c.dropped, cl, g, d, a, pub)

FanTyped ==
    /\ authRequired \in BOOLEAN /\ signs \in BOOLEAN /\ broadcast \in 0 .. MaxBroadcasts
    /\ server \in {"up", "draining", "exited"} /\ conn \in [Slots -> Conns]
    /\ cli \in [Slots -> {"none", "dialling", "open", "cut"}]
    /\ up \in [Slots -> Seq(Frames)] /\ down \in [Slots -> EventSeqs]
    /\ got \in [Slots -> EventSeqs] /\ asked \in [Slots -> SUBSET BusEvents]
    /\ tab \in {"off", "dialling", "open", "waiting"} /\ mishaps \in 0 .. MaxMishaps

FanInv ==
    /\ FanSizes /\ FanTyped
    /\ \A k \in Slots : ConnSound(conn[k], cli[k], got[k], down[k], asked[k], broadcast)

-----------------------------------------------------------------------------
(***************************************************************************)
(* Sequences of events.                                                    *)
(***************************************************************************)
LEMMA EventsTyped == FanSizes => BusEvents \subseteq Nat \ {0} /\ IsFiniteSet(BusEvents)
  <1> SUFFICES ASSUME FanSizes PROVE BusEvents \subseteq Nat \ {0} /\ IsFiniteSet(BusEvents)
    OBVIOUS
  <1>1. MaxBroadcasts \in Nat
    BY DEF FanSizes
  <1>2. IsFiniteSet(1 .. MaxBroadcasts)
    BY <1>1, FS_Interval
  <1> QED
    BY <1>1, <1>2 DEF BusEvents

LEMMA Members == ASSUME NEW s \in EventSeqs PROVE ToSet(s) = {s[i] : i \in 1 .. Len(s)} /\ ToSet(s) \subseteq BusEvents
  BY DEF ToSet, EventSeqs

LEMMA NoMembers == <<>> \in EventSeqs /\ ToSet(<<>>) = {} /\ Rises(<<>>) /\ Len(<<>>) = 0
  BY DEF ToSet, EventSeqs, Rises

LEMMA Appended ==
    ASSUME FanSizes, NEW s \in EventSeqs, NEW e \in BusEvents
    PROVE  /\ Append(s, e) \in EventSeqs /\ ToSet(Append(s, e)) = ToSet(s) \cup {e}
           /\ Len(Append(s, e)) = Len(s) + 1 /\ Append(s, e) # <<>>
           /\ Rises(s) /\ Precede(ToSet(s), {e}) => Rises(Append(s, e))
  <1> DEFINE t == Append(s, e)
  <1>1. t \in EventSeqs /\ Len(t) = Len(s) + 1 /\ Len(s) \in Nat
    BY DEF EventSeqs
  <1>2. \A i \in 1 .. Len(t) : t[i] = IF i =< Len(s) THEN s[i] ELSE e
    BY DEF EventSeqs
  <1>3. ToSet(t) = {t[i] : i \in 1 .. Len(t)} /\ ToSet(s) = {s[i] : i \in 1 .. Len(s)}
    BY <1>1, Members
  <1> HIDE DEF t
  <1>4. ToSet(t) = ToSet(s) \cup {e}
    <2>1. ASSUME NEW y \in ToSet(t) PROVE y \in ToSet(s) \cup {e}
      <3>1. PICK i \in 1 .. Len(t) : y = t[i]
        BY <1>3, <2>1
      <3> QED
        BY <1>1, <1>2, <1>3, <3>1
    <2>2. ASSUME NEW y \in ToSet(s) PROVE y \in ToSet(t)
      <3>1. PICK i \in 1 .. Len(s) : y = s[i]
        BY <1>3, <2>2
      <3>2. i \in 1 .. Len(t) /\ t[i] = y
        BY <1>1, <1>2, <3>1
      <3> QED
        BY <1>3, <3>2
    <2>3. Len(t) \in 1 .. Len(t) /\ t[Len(t)] = e
      BY <1>1, <1>2
    <2> QED
      BY <1>3, <2>1, <2>2, <2>3
  <1>5. ASSUME Rises(s), Precede(ToSet(s), {e}) PROVE Rises(t)
    <2> SUFFICES ASSUME NEW i \in 1 .. Len(t), NEW j \in 1 .. Len(t), i < j PROVE t[i] < t[j]
      BY DEF Rises
    <2>1. i \in 1 .. Len(s) /\ t[i] = s[i] /\ s[i] \in ToSet(s)
      BY <1>1, <1>2, <1>3
    <2>2. CASE j =< Len(s)
      BY <1>1, <1>2, <1>5, <2>1, <2>2 DEF Rises
    <2>3. CASE j > Len(s)
      BY <1>1, <1>2, <1>5, <2>1, <2>3 DEF Precede
    <2> QED
      BY <1>1, <2>2, <2>3
  <1>6. t # <<>>
    BY <1>1
  <1> QED
    BY <1>1, <1>4, <1>5, <1>6 DEF t

LEMMA Removed ==
    ASSUME FanSizes, NEW s \in EventSeqs, s # <<>>
    PROVE  /\ Head(s) \in BusEvents /\ Tail(s) \in EventSeqs /\ Len(Tail(s)) = Len(s) - 1
           /\ ToSet(s) = {Head(s)} \cup ToSet(Tail(s))
           /\ Rises(s) => Rises(Tail(s)) /\ Precede({Head(s)}, ToSet(Tail(s)))
  <1> DEFINE t == Tail(s)
  <1>1. t \in EventSeqs /\ Len(t) = Len(s) - 1 /\ Len(s) \in Nat \ {0} /\ Head(s) = s[1] /\ Head(s) \in BusEvents
    BY DEF EventSeqs
  <1>2. \A i \in 1 .. Len(t) : t[i] = s[i + 1] /\ i + 1 \in 1 .. Len(s)
    BY <1>1 DEF EventSeqs
  <1>3. ToSet(t) = {t[i] : i \in 1 .. Len(t)} /\ ToSet(s) = {s[i] : i \in 1 .. Len(s)}
    BY <1>1, Members
  <1> HIDE DEF t
  <1>4. ToSet(s) = {Head(s)} \cup ToSet(t)
    <2>1. ASSUME NEW y \in ToSet(s) PROVE y \in {Head(s)} \cup ToSet(t)
      <3>1. PICK i \in 1 .. Len(s) : y = s[i]
        BY <1>3, <2>1
      <3>2. i = 1 \/ (i - 1 \in 1 .. Len(t) /\ t[i - 1] = s[i])
        BY <1>1, <1>2
      <3> QED
        BY <1>1, <1>3, <3>1, <3>2
    <2>2. ASSUME NEW y \in ToSet(t) PROVE y \in ToSet(s)
      <3>1. PICK i \in 1 .. Len(t) : y = t[i]
        BY <1>3, <2>2
      <3> QED
        BY <1>2, <1>3, <3>1
    <2>3. Head(s) \in ToSet(s)
      BY <1>1, <1>3
    <2> QED
      BY <2>1, <2>2, <2>3
  <1>5. ASSUME Rises(s) PROVE Rises(t)
    <2> SUFFICES ASSUME NEW i \in 1 .. Len(t), NEW j \in 1 .. Len(t), i < j PROVE t[i] < t[j]
      BY DEF Rises
    <2>1. i + 1 < j + 1
      BY <1>1
    <2> QED
      BY <1>2, <1>5, <2>1 DEF Rises
  <1>6. ASSUME Rises(s), NEW y \in ToSet(t) PROVE Head(s) < y
    <2>1. PICK i \in 1 .. Len(t) : y = t[i]
      BY <1>3, <1>6
    <2>2. 1 < i + 1 /\ 1 \in 1 .. Len(s)
      BY <1>1
    <2> QED
      BY <1>1, <1>2, <1>6, <2>1, <2>2 DEF Rises
  <1> QED
    BY <1>1, <1>4, <1>5, <1>6 DEF t, Precede

LEMMA Concatenated ==
    ASSUME FanSizes, NEW s \in EventSeqs, NEW t \in EventSeqs
    PROVE  /\ s \o t \in EventSeqs /\ ToSet(s \o t) = ToSet(s) \cup ToSet(t)
           /\ Rises(s) /\ Rises(t) /\ Precede(ToSet(s), ToSet(t)) => Rises(s \o t)
  <1> DEFINE u == s \o t
  <1>1. u \in EventSeqs /\ Len(u) = Len(s) + Len(t) /\ Len(s) \in Nat /\ Len(t) \in Nat
    BY DEF EventSeqs
  <1>2. \A i \in 1 .. Len(u) : u[i] = IF i =< Len(s) THEN s[i] ELSE t[i - Len(s)]
    BY DEF EventSeqs
  <1>3. /\ ToSet(u) = {u[i] : i \in 1 .. Len(u)} /\ ToSet(s) = {s[i] : i \in 1 .. Len(s)}
        /\ ToSet(t) = {t[i] : i \in 1 .. Len(t)}
    BY <1>1, Members
  <1> HIDE DEF u
  <1>4. \A i \in 1 .. Len(u) : (i \in 1 .. Len(s) /\ u[i] = s[i]) \/ (i - Len(s) \in 1 .. Len(t) /\ u[i] = t[i - Len(s)] /\ i > Len(s))
    BY <1>1, <1>2
  <1>5. ToSet(u) = ToSet(s) \cup ToSet(t)
    <2>1. ASSUME NEW y \in ToSet(u) PROVE y \in ToSet(s) \cup ToSet(t)
      <3>1. PICK i \in 1 .. Len(u) : y = u[i]
        BY <1>3, <2>1
      <3> QED
        BY <1>3, <1>4, <3>1
    <2>2. ASSUME NEW y \in ToSet(s) PROVE y \in ToSet(u)
      <3>1. PICK i \in 1 .. Len(s) : y = s[i]
        BY <1>3, <2>2
      <3>2. i \in 1 .. Len(u) /\ u[i] = y
        BY <1>1, <1>2, <3>1
      <3> QED
        BY <1>3, <3>2
    <2>3. ASSUME NEW y \in ToSet(t) PROVE y \in ToSet(u)
      <3>1. PICK i \in 1 .. Len(t) : y = t[i]
        BY <1>3, <2>3
      <3>2. i + Len(s) \in 1 .. Len(u) /\ u[i + Len(s)] = y
        BY <1>1, <1>2, <3>1
      <3> QED
        BY <1>3, <3>2
    <2> QED
      BY <2>1, <2>2, <2>3
  <1>6. ASSUME Rises(s), Rises(t), Precede(ToSet(s), ToSet(t)) PROVE Rises(u)
    <2> SUFFICES ASSUME NEW i \in 1 .. Len(u), NEW j \in 1 .. Len(u), i < j PROVE u[i] < u[j]
      BY DEF Rises
    <2>1. CASE i \in 1 .. Len(s) /\ j \in 1 .. Len(s)
      BY <1>1, <1>2, <1>6, <2>1 DEF Rises
    <2>2. CASE i \in 1 .. Len(s) /\ j > Len(s)
      <3>1. u[i] \in ToSet(s) /\ u[j] \in ToSet(t)
        BY <1>1, <1>3, <1>4, <2>2
      <3> QED
        BY <1>6, <3>1 DEF Precede
    <2>3. CASE i > Len(s) /\ j > Len(s)
      <3>1. i - Len(s) \in 1 .. Len(t) /\ j - Len(s) \in 1 .. Len(t) /\ i - Len(s) < j - Len(s)
        BY <1>1, <2>3
      <3>2. u[i] = t[i - Len(s)] /\ u[j] = t[j - Len(s)]
        BY <1>1, <1>2, <2>3
      <3> QED
        BY <1>6, <3>1, <3>2 DEF Rises
    <2> QED
      BY <1>1, <2>1, <2>2, <2>3
  <1> QED
    BY <1>1, <1>5, <1>6 DEF u

-----------------------------------------------------------------------------
(***************************************************************************)
(* What the server's operations do to the frames of a connection.          *)
(***************************************************************************)
LEMMA MissedFinite ==
    ASSUME FanSizes, NEW a \in SUBSET BusEvents, NEW S
    PROVE  IsFiniteSet(a \ S) /\ Cardinality(a \ S) \in Nat
  <1>1. IsFiniteSet(BusEvents) /\ a \ S \in SUBSET BusEvents
    BY EventsTyped
  <1> QED
    BY <1>1, FS_Subset, FS_CardinalityType

LEMMA MissedFewer ==
    ASSUME FanSizes, NEW M \in SUBSET BusEvents, NEW L \in SUBSET M, NEW dr \in Nat, Cardinality(M) =< dr
    PROVE  Cardinality(L) =< dr
  <1>1. IsFiniteSet(M)
    BY EventsTyped, FS_Subset
  <1>2. IsFiniteSet(L) /\ Cardinality(L) =< Cardinality(M)
    BY <1>1, FS_Subset
  <1>3. Cardinality(L) \in Nat /\ Cardinality(M) \in Nat
    BY <1>1, <1>2, FS_CardinalityType
  <1> QED
    BY <1>2, <1>3

LEMMA MissedOneMore ==
    ASSUME FanSizes, NEW a \in SUBSET BusEvents, NEW S, NEW T, NEW h, NEW dr,
           Cardinality(a \ S) =< dr, dr \in Nat, a \ T \subseteq (a \ S) \cup {h}
    PROVE  Cardinality(a \ T) =< dr + 1
  <1>1. IsFiniteSet(a \ S) /\ Cardinality(a \ S) \in Nat /\ Cardinality(a \ T) \in Nat
    BY MissedFinite
  <1>2. /\ IsFiniteSet((a \ S) \cup {h})
        /\ Cardinality((a \ S) \cup {h}) = IF h \in a \ S THEN Cardinality(a \ S) ELSE Cardinality(a \ S) + 1
    BY <1>1, FS_AddElement
  <1>3. Cardinality(a \ T) =< Cardinality((a \ S) \cup {h})
    BY <1>2, FS_Subset
  <1> QED
    BY <1>1, <1>2, <1>3

LEMMA ChainTyped ==
    ASSUME FanSizes, NEW g, NEW d, NEW x, NEW q, NEW pub, Chained(g, d, x, q, pub)
    PROVE  \A y \in All(g, d, x, q) : y =< pub /\ y \in Nat
  <1>1. g \in EventSeqs /\ d \in EventSeqs /\ q \in EventSeqs /\ x \in 0 .. MaxBroadcasts
    BY DEF Chained
  <1>2. One(x) \subseteq Nat
    BY <1>1 DEF One, FanSizes
  <1>3. ToSet(g) \subseteq Nat /\ ToSet(d) \subseteq Nat /\ ToSet(q) \subseteq Nat
    <2>1. ToSet(g) \subseteq BusEvents /\ ToSet(d) \subseteq BusEvents /\ ToSet(q) \subseteq BusEvents
      BY <1>1, Members
    <2> QED
      BY <2>1, EventsTyped
  <1>4. All(g, d, x, q) \subseteq Nat
    BY <1>2, <1>3 DEF All
  <1> QED
    BY <1>4 DEF Chained

\* The next frame of the queue is handed to ws.send.
LEMMA FlowNext ==
    ASSUME FanSizes, NEW is, NEW q, NEW dr, NEW cl, NEW g, NEW d, NEW a, NEW pub,
           Flow(is, 0, q, dr, cl, g, d, a, pub), q # <<>>
    PROVE  Flow(is, Head(q), Tail(q), dr, cl, g, d, a, pub)
  <1>1. Chained(g, d, 0, q, pub)
    BY DEF Flow
  <1>2. q \in EventSeqs /\ Rises(q)
    BY <1>1 DEF Chained
  <1>3. /\ Head(q) \in BusEvents /\ Tail(q) \in EventSeqs /\ ToSet(q) = {Head(q)} \cup ToSet(Tail(q))
        /\ Rises(Tail(q)) /\ Precede({Head(q)}, ToSet(Tail(q)))
    BY <1>2, Removed
  <1>4. One(0) = {} /\ One(Head(q)) = {Head(q)} /\ Head(q) \in 0 .. MaxBroadcasts
    BY <1>3, EventsTyped DEF One, BusEvents
  <1>5. All(g, d, Head(q), Tail(q)) = All(g, d, 0, q)
    BY <1>3, <1>4 DEF All
  <1>6. Chained(g, d, Head(q), Tail(q), pub)
    BY <1>1, <1>3, <1>4, <1>5 DEF Chained, Precede
  <1> QED
    BY <1>5, <1>6 DEF Flow

\* The frame in ws.send is written to the socket.
LEMMA FlowSent ==
    ASSUME FanSizes, NEW is, NEW x, NEW q, NEW dr, NEW cl, NEW g, NEW d, NEW a, NEW pub,
           Flow(is, x, q, dr, cl, g, d, a, pub), x # 0
    PROVE  Flow(is, 0, q, dr, cl, g, Append(d, x), a, pub) /\ Append(d, x) \in EventSeqs
  <1>1. Chained(g, d, x, q, pub)
    BY DEF Flow
  <1>2. One(x) = {x} /\ One(0) = {} /\ x \in BusEvents /\ 0 \in 0 .. MaxBroadcasts
    BY <1>1 DEF Chained, One, BusEvents, FanSizes
  <1>3. d \in EventSeqs /\ Rises(d) /\ Precede(ToSet(d), {x})
    BY <1>1, <1>2 DEF Chained
  <1>4. Append(d, x) \in EventSeqs /\ ToSet(Append(d, x)) = ToSet(d) \cup {x} /\ Rises(Append(d, x))
    BY <1>2, <1>3, Appended
  <1> DEFINE e == Append(d, x)
  <1> HIDE DEF e
  <1>5. e \in EventSeqs /\ ToSet(e) = ToSet(d) \cup {x} /\ Rises(e)
    BY <1>4 DEF e
  <1>6. All(g, e, 0, q) = All(g, d, x, q)
    BY <1>2, <1>5 DEF All
  <1>7. Chained(g, e, 0, q, pub)
    BY <1>1, <1>2, <1>5, <1>6 DEF Chained, Precede
  <1>8. Flow(is, 0, q, dr, cl, g, e, a, pub)
    BY <1>6, <1>7 DEF Flow
  <1> QED
    BY <1>5, <1>8 DEF e

\* The client reads the next frame.
LEMMA FlowRead ==
    ASSUME FanSizes, NEW is, NEW x, NEW q, NEW dr, NEW cl, NEW g, NEW d, NEW a, NEW pub,
           Flow(is, x, q, dr, cl, g, d, a, pub), d # <<>>
    PROVE  /\ Flow(is, x, q, dr, cl, Append(g, Head(d)), Tail(d), a, pub)
           /\ Append(g, Head(d)) \in EventSeqs /\ Tail(d) \in EventSeqs
  <1>1. Chained(g, d, x, q, pub)
    BY DEF Flow
  <1>2. d \in EventSeqs /\ Rises(d) /\ g \in EventSeqs /\ Rises(g) /\ Precede(ToSet(g), ToSet(d))
    BY <1>1 DEF Chained
  <1>3. /\ Head(d) \in BusEvents /\ Tail(d) \in EventSeqs /\ ToSet(d) = {Head(d)} \cup ToSet(Tail(d))
        /\ Rises(Tail(d)) /\ Precede({Head(d)}, ToSet(Tail(d)))
    BY <1>2, Removed
  <1>4. Precede(ToSet(g), {Head(d)})
    BY <1>2, <1>3 DEF Precede
  <1>5. /\ Append(g, Head(d)) \in EventSeqs /\ Rises(Append(g, Head(d)))
        /\ ToSet(Append(g, Head(d))) = ToSet(g) \cup {Head(d)}
    BY <1>2, <1>3, <1>4, Appended
  <1> DEFINE t == Tail(d)
             u == Append(g, Head(d))
             h == Head(d)
  <1> HIDE DEF t, u, h
  <1>6. /\ h \in BusEvents /\ t \in EventSeqs /\ ToSet(d) = {h} \cup ToSet(t) /\ Rises(t) /\ Precede({h}, ToSet(t))
        /\ u \in EventSeqs /\ Rises(u) /\ ToSet(u) = ToSet(g) \cup {h}
    BY <1>3, <1>5 DEF t, u, h
  <1>7. All(u, t, x, q) = All(g, d, x, q)
    BY <1>6 DEF All
  <1>8. Chained(u, t, x, q, pub)
    BY <1>1, <1>6, <1>7 DEF Chained, Precede
  <1>9. Flow(is, x, q, dr, cl, u, t, a, pub)
    BY <1>7, <1>8 DEF Flow
  <1> QED
    BY <1>6, <1>9 DEF t, u, h

\* A new event joins the queue.
LEMMA FlowQueued ==
    ASSUME FanSizes, NEW is, NEW x, NEW q, NEW dr \in Nat, NEW cl, NEW g, NEW d, NEW a, NEW pub \in Nat,
           Flow(is, x, q, dr, cl, g, d, a, pub), pub + 1 \in BusEvents, NEW b \in {a, a \cup {pub + 1}}
    PROVE  /\ Flow(is, x, Append(q, pub + 1), dr, cl, g, d, b, pub + 1)
           /\ Append(q, pub + 1) \in EventSeqs
  <1> DEFINE e == pub + 1
             p == Append(q, e)
  <1>1. Chained(g, d, x, q, pub) /\ a \in SUBSET BusEvents
    BY DEF Flow
  <1>2. /\ q \in EventSeqs /\ Rises(q) /\ \A y \in All(g, d, x, q) : y =< pub /\ y \in Nat
    BY <1>1, ChainTyped DEF Chained
  <1>3. e \in BusEvents /\ e \in Nat /\ e > pub
    OBVIOUS
  <1> HIDE DEF e
  <1>4. \A y \in All(g, d, x, q) : y < e
    BY <1>2, <1>3
  <1>5. Precede(ToSet(q), {e}) /\ Precede(ToSet(g), {e}) /\ Precede(ToSet(d), {e}) /\ Precede(One(x), {e})
    BY <1>4 DEF All, Precede
  <1>6. p \in EventSeqs /\ ToSet(p) = ToSet(q) \cup {e} /\ Rises(p)
    BY <1>2, <1>3, <1>5, Appended
  <1> HIDE DEF p
  <1>7. All(g, d, x, p) = All(g, d, x, q) \cup {e}
    BY <1>6 DEF All
  <1>8. \A y \in All(g, d, x, p) : y =< e
    BY <1>2, <1>3, <1>4, <1>7
  <1>9. Precede(ToSet(g), ToSet(p)) /\ Precede(ToSet(d), ToSet(p)) /\ Precede(One(x), ToSet(p))
    BY <1>1, <1>5, <1>6 DEF Chained, Precede
  <1>10. Chained(g, d, x, p, e)
    BY <1>1, <1>6, <1>8, <1>9 DEF Chained
  <1>11. b \in SUBSET BusEvents /\ b \ All(g, d, x, p) \subseteq a \ All(g, d, x, q)
    BY <1>1, <1>3, <1>7 DEF e
  <1>12. ASSUME is = "open", cl = "open" PROVE Cardinality(b \ All(g, d, x, p)) =< dr
    <2>1. Cardinality(a \ All(g, d, x, q)) =< dr
      BY <1>12 DEF Flow
    <2>2. a \ All(g, d, x, q) \in SUBSET BusEvents /\ b \ All(g, d, x, p) \in SUBSET (a \ All(g, d, x, q))
      BY <1>1, <1>11
    <2> QED
      BY <2>1, <2>2, MissedFewer
  <1>13. Flow(is, x, p, dr, cl, g, d, b, e)
    BY <1>10, <1>11, <1>12 DEF Flow
  <1> QED
    BY <1>6, <1>13 DEF p, e

\* The queue loses its oldest frame, and the loss is counted.
LEMMA FlowDropped ==
    ASSUME FanSizes, NEW is, NEW x, NEW q, NEW dr \in Nat, NEW cl, NEW g, NEW d, NEW a, NEW pub,
           Flow(is, x, q, dr, cl, g, d, a, pub), q # <<>>
    PROVE  Flow(is, x, Tail(q), dr + 1, cl, g, d, a, pub)
  <1>1. Chained(g, d, x, q, pub) /\ a \in SUBSET BusEvents
    BY DEF Flow
  <1>2. q \in EventSeqs /\ Rises(q)
    BY <1>1 DEF Chained
  <1> DEFINE h == Head(q)
             t == Tail(q)
  <1>3. h \in BusEvents /\ t \in EventSeqs /\ ToSet(q) = {h} \cup ToSet(t) /\ Rises(t)
    BY <1>2, Removed
  <1> HIDE DEF h, t
  <1>4. All(g, d, x, q) = All(g, d, x, t) \cup {h}
    BY <1>3 DEF All
  <1>5. Chained(g, d, x, t, pub)
    BY <1>1, <1>3, <1>4 DEF Chained, Precede
  <1>6. a \ All(g, d, x, t) \subseteq (a \ All(g, d, x, q)) \cup {h}
    BY <1>4
  <1>7. ASSUME is = "open", cl = "open" PROVE Cardinality(a \ All(g, d, x, t)) =< dr + 1
    <2>1. Cardinality(a \ All(g, d, x, q)) =< dr
      BY <1>7 DEF Flow
    <2> QED
      BY <1>1, <1>6, <2>1, MissedOneMore
  <1>8. Flow(is, x, t, dr + 1, cl, g, d, a, pub)
    BY <1>1, <1>5, <1>7 DEF Flow
  <1> QED
    BY <1>8 DEF t

\* A connection that one end has let go of, whatever is lost on it.
LEMMA ChainShrinks ==
    ASSUME FanSizes, NEW x, NEW q, NEW g, NEW d, NEW pub \in Nat, Chained(g, d, x, q, pub),
           NEW x2, NEW q2, NEW g2, NEW d2, NEW pub2 \in Nat, pub2 >= pub,
           x2 = x \/ x2 = 0, q2 = q \/ q2 = <<>>, g2 = g \/ g2 = <<>>, d2 = d \/ d2 = <<>>
    PROVE  Chained(g2, d2, x2, q2, pub2)
  <1>2. /\ g2 \in EventSeqs /\ Rises(g2) /\ ToSet(g2) \subseteq ToSet(g)
        /\ d2 \in EventSeqs /\ Rises(d2) /\ ToSet(d2) \subseteq ToSet(d)
        /\ q2 \in EventSeqs /\ Rises(q2) /\ ToSet(q2) \subseteq ToSet(q)
    BY NoMembers DEF Chained
  <1>3. x2 \in 0 .. MaxBroadcasts /\ One(x2) \subseteq One(x)
    BY DEF Chained, One, FanSizes
  <1>4. \A y \in All(g, d, x, q) : y =< pub /\ y \in Nat
    BY ChainTyped
  <1>5. All(g2, d2, x2, q2) \subseteq All(g, d, x, q)
    BY <1>2, <1>3 DEF All
  <1>6. \A y \in All(g2, d2, x2, q2) : y =< pub2
    BY <1>4, <1>5
  <1> QED
    BY <1>2, <1>3, <1>6 DEF Chained, Precede

LEMMA FlowQuiet ==
    ASSUME NEW is, NEW x, NEW q, NEW dr, NEW cl, NEW g, NEW d, NEW a \in SUBSET BusEvents, NEW pub,
           Chained(g, d, x, q, pub), ~(is = "open" /\ cl = "open")
    PROVE  Flow(is, x, q, dr, cl, g, d, a, pub)
  BY DEF Flow

LEMMA FlowChained ==
    ASSUME NEW is, NEW x, NEW q, NEW dr, NEW cl, NEW g, NEW d, NEW a, NEW pub,
           Flow(is, x, q, dr, cl, g, d, a, pub)
    PROVE  Chained(g, d, x, q, pub) /\ a \in SUBSET BusEvents
  BY DEF Flow

\* An event for others.
LEMMA FlowGrows ==
    ASSUME FanSizes, NEW is, NEW x, NEW q, NEW dr, NEW cl, NEW g, NEW d, NEW a, NEW pub \in Nat,
           Flow(is, x, q, dr, cl, g, d, a, pub)
    PROVE  Flow(is, x, q, dr, cl, g, d, a, pub + 1)
  <1>1. Chained(g, d, x, q, pub)
    BY DEF Flow
  <1>2. \A y \in All(g, d, x, q) : y =< pub /\ y \in Nat
    BY <1>1, ChainTyped
  <1>3. \A y \in All(g, d, x, q) : y =< pub + 1
    BY <1>2
  <1>4. Chained(g, d, x, q, pub + 1)
    BY <1>1, <1>3 DEF Chained
  <1> QED
    BY <1>4 DEF Flow

-----------------------------------------------------------------------------
(***************************************************************************)
(* The server's end of a connection.                                       *)
(***************************************************************************)
LEMMA ConnTyped ==
    ASSUME NEW c \in Conns
    PROVE  /\ c.is \in {"open", "closing", "gone"} /\ c.listed \in BOOLEAN /\ c.alive \in BOOLEAN
           /\ c.types \in SUBSET Types /\ c.tokens \in 0 .. Burst /\ c.violations \in 0 .. MaxViolations
           /\ c.address \in BOOLEAN /\ c.deadline \in BOOLEAN /\ c.queue \in EventSeqs
           /\ c.sending \in 0 .. MaxBroadcasts /\ c.dropped \in 0 .. MaxDrops + 1
  BY DEF Conns

\* Nothing happens to the frames, and the socket is as open as before at most.
LEMMA ConnKept ==
    ASSUME NEW c, NEW cl, NEW g, NEW d, NEW a, NEW pub, ConnSound(c, cl, g, d, a, pub),
           NEW c2 \in Conns, c2.queue = c.queue, c2.sending = c.sending, c2.dropped = c.dropped,
           c2.is \in {c.is, "closing"}
    PROVE  ConnSound(c2, cl, g, d, a, pub)
  <1>1. Flow(c2.is, c2.sending, c2.queue, c2.dropped, cl, g, d, a, pub)
    BY DEF ConnSound, Flow
  <1> QED
    BY <1>1 DEF ConnSound

LEMMA NoClientSound ==
    ASSUME FanSizes, NEW c, NEW cl, NEW g, NEW d, NEW a, NEW pub \in Nat, ConnSound(c, cl, g, d, a, pub)
    PROVE  ConnSound(NoClient, cl, g, d, a, pub) /\ NoClient \in Conns
  <1>1. NoClient \in Conns
    <2>1. <<>> \in EventSeqs /\ 0 \in 0 .. Burst /\ 0 \in 0 .. MaxViolations /\ 0 \in 0 .. MaxBroadcasts
      BY NoMembers DEF FanSizes
    <2>2. 0 \in 0 .. MaxDrops + 1
      BY DEF FanSizes
    <2>3. {} \in SUBSET Types
      OBVIOUS
    <2> QED
      BY <2>1, <2>2, <2>3 DEF NoClient, Conns
  <1>2. /\ NoClient.is = "gone" /\ NoClient.queue = <<>> /\ NoClient.sending = 0
    BY DEF NoClient
  <1>3. Flow(c.is, c.sending, c.queue, c.dropped, cl, g, d, a, pub) /\ a \in SUBSET BusEvents
    BY DEF ConnSound, Flow
  <1>4. Flow("gone", 0, <<>>, NoClient.dropped, cl, g, d, a, pub)
    <2>1. Chained(g, d, c.sending, c.queue, pub)
      BY <1>3, FlowChained
    <2>2. Chained(g, d, 0, <<>>, pub)
      BY <2>1, ChainShrinks
    <2> QED
      BY <1>3, <2>2, FlowQuiet
  <1>5. Len(NoClient.queue) =< Depth
    BY <1>2, NoMembers DEF FanSizes
  <1> QED
    BY <1>1, <1>2, <1>4, <1>5 DEF ConnSound

\* The socket is closing, failed or about to be forgotten: queue and send go.
LEMMA ConnEmptied ==
    ASSUME FanSizes, NEW c, NEW cl, NEW g, NEW d, NEW a, NEW pub \in Nat, ConnSound(c, cl, g, d, a, pub),
           NEW c2 \in Conns, c2.queue = <<>>, c2.sending \in {c.sending, 0}, c2.dropped = c.dropped,
           c2.is \in {c.is, "closing"}, ~(c2.is = "open" /\ cl = "open")
    PROVE  ConnSound(c2, cl, g, d, a, pub)
  <1>1. Flow(c.is, c.sending, c.queue, c.dropped, cl, g, d, a, pub) /\ a \in SUBSET BusEvents
    BY DEF ConnSound, Flow
  <1>2. Flow(c2.is, c2.sending, <<>>, c2.dropped, cl, g, d, a, pub)
    <2>1. Chained(g, d, c.sending, c.queue, pub)
      BY <1>1, FlowChained
    <2>2. Chained(g, d, c2.sending, <<>>, pub)
      BY <2>1, ChainShrinks
    <2> QED
      BY <1>1, <2>2, FlowQuiet
  <1>3. Len(c2.queue) =< Depth
    BY NoMembers DEF FanSizes
  <1> QED
    BY <1>2, <1>3 DEF ConnSound

LEMMA SendNextSound ==
    ASSUME FanSizes, NEW c \in Conns, NEW cl, NEW g, NEW d, NEW a, NEW pub \in Nat,
           Len(c.queue) =< Depth, c.is = "open" => c.dropped =< MaxDrops,
           Flow(c.is, 0, c.queue, c.dropped, cl, g, d, a, pub)
    PROVE  ConnSound(sendNext(c), cl, g, d, a, pub) /\ sendNext(c) \in Conns
  <1>1. 0 \in 0 .. MaxBroadcasts /\ <<>> \in EventSeqs /\ Len(<<>>) = 0 /\ Depth \in Nat /\ c.queue \in EventSeqs
    BY NoMembers, ConnTyped DEF FanSizes
  <1>2. CASE c.is # "open"
    <2> DEFINE s == [c EXCEPT !.sending = 0, !.queue = <<>>]
    <2>1. sendNext(c) = s
      BY <1>2 DEF sendNext
    <2>2. s \in Conns /\ s.is = c.is /\ s.queue = <<>> /\ s.sending = 0 /\ s.dropped = c.dropped
      BY <1>1 DEF Conns
    <2>3. a \in SUBSET BusEvents
      BY DEF Flow
    <2>4. Flow(c.is, 0, <<>>, c.dropped, cl, g, d, a, pub)
      <3>1. Chained(g, d, 0, c.queue, pub)
        BY FlowChained
      <3>2. Chained(g, d, 0, <<>>, pub)
        BY <3>1, ChainShrinks
      <3> QED
        BY <1>2, <2>3, <3>2, FlowQuiet
    <2> HIDE DEF s
    <2>5. Len(s.queue) =< Depth
      BY <1>1, <2>2
    <2>6. ConnSound(s, cl, g, d, a, pub)
      BY <1>2, <2>2, <2>4, <2>5 DEF ConnSound
    <2> QED
      BY <2>1, <2>2, <2>6
  <1>3. CASE c.is = "open" /\ c.queue = <<>>
    <2> DEFINE s == [c EXCEPT !.sending = 0]
    <2>1. sendNext(c) = s
      BY <1>3 DEF sendNext
    <2>2. s \in Conns /\ s.is = c.is /\ s.queue = c.queue /\ s.sending = 0 /\ s.dropped = c.dropped
      BY <1>1 DEF Conns
    <2> HIDE DEF s
    <2>3. ConnSound(s, cl, g, d, a, pub)
      BY <1>3, <2>2 DEF ConnSound
    <2> QED
      BY <2>1, <2>2, <2>3
  <1>4. CASE c.is = "open" /\ c.queue # <<>>
    <2> DEFINE h == Head(c.queue)
               t == Tail(c.queue)
               s == [c EXCEPT !.sending = h, !.queue = t]
    <2>1. sendNext(c) = s
      BY <1>4 DEF sendNext
    <2>2. h \in BusEvents /\ t \in EventSeqs /\ Len(t) = Len(c.queue) - 1
      BY <1>1, <1>4, Removed
    <2>3. Flow(c.is, h, t, c.dropped, cl, g, d, a, pub)
      BY <1>4, FlowNext
    <2> HIDE DEF h, t
    <2>4. h \in 0 .. MaxBroadcasts /\ h # 0
      BY <2>2, EventsTyped DEF BusEvents
    <2>5. s \in Conns /\ s.is = c.is /\ s.queue = t /\ s.sending = h /\ s.dropped = c.dropped
      BY <2>2, <2>4 DEF Conns
    <2>6. Len(t) =< Depth
      BY <1>1, <2>2 DEF EventSeqs
    <2> HIDE DEF s
    <2>7. ConnSound(s, cl, g, d, a, pub)
      BY <2>3, <2>4, <2>5, <2>6 DEF ConnSound
    <2> QED
      BY <2>1, <2>5, <2>7
  <1> QED
    BY <1>2, <1>3, <1>4

\* The fan-out of event pub + 1 to one client.
LEMMA OfferSound ==
    ASSUME FanSizes, NEW c, NEW cl, NEW g, NEW d, NEW a, NEW pub \in Nat, ConnSound(c, cl, g, d, a, pub),
           pub + 1 \in BusEvents, NEW t, NEW b,
           b = IF Receives(c, t) /\ cl = "open" THEN a \cup {pub + 1} ELSE a
    PROVE  /\ ConnSound(Offer(c, pub + 1, t), cl, g, d, b, pub + 1)
           /\ Offer(c, pub + 1, t) \in Conns /\ b \in SUBSET BusEvents
  <1> DEFINE e == pub + 1
  <1>0. e \in BusEvents /\ e \in Nat
    OBVIOUS
  <1>1. /\ c \in Conns /\ Len(c.queue) =< Depth /\ (c.is = "open" => c.dropped =< MaxDrops)
        /\ c.is = "open" /\ c.queue # <<>> => c.sending # 0
        /\ Flow(c.is, c.sending, c.queue, c.dropped, cl, g, d, a, pub)
    BY DEF ConnSound
  <1>2. /\ c.queue \in EventSeqs /\ c.dropped \in 0 .. MaxDrops + 1 /\ MaxDrops \in Nat /\ Depth \in Nat \ {0}
        /\ c.is \in {"open", "closing", "gone"} /\ Len(c.queue) \in Nat
    BY <1>1, ConnTyped DEF FanSizes, EventSeqs
  <1>3. a \in SUBSET BusEvents /\ b \in SUBSET BusEvents /\ b \in {a, a \cup {e}}
    BY <1>0, <1>1 DEF Flow
  <1>4. c.dropped \in Nat
    BY <1>2
  <1>5. CASE ~Receives(c, t)
    <2>1. Flow(c.is, c.sending, c.queue, c.dropped, cl, g, d, a, e)
      BY <1>1, FlowGrows
    <2>2. ConnSound(c, cl, g, d, a, e)
      BY <1>1, <2>1 DEF ConnSound
    <2> QED
      BY <1>1, <1>3, <1>5, <2>2 DEF Offer
  <1>6. CASE Receives(c, t) /\ Len(c.queue) < Depth
    <2> DEFINE p == Append(c.queue, e)
               q == [c EXCEPT !.queue = p]
    <2>1. c.is = "open" /\ enqueue(c, e) = q
      BY <1>6 DEF Receives, enqueue
    <2>2. Flow(c.is, c.sending, p, c.dropped, cl, g, d, b, e) /\ p \in EventSeqs
      BY <1>0, <1>1, <1>3, <1>4, FlowQueued
    <2>3. Len(p) = Len(c.queue) + 1
      BY <1>0, <1>2, Appended
    <2>4. Len(p) =< Depth
      BY <1>2, <1>6, <2>3
    <2> HIDE DEF p
    <2>5. q \in Conns /\ q.is = c.is /\ q.queue = p /\ q.sending = c.sending /\ q.dropped = c.dropped
      BY <1>1, <2>2 DEF Conns
    <2>6. Offer(c, e, t) = drainQueue(q)
      BY <1>6, <2>1, <2>5 DEF Offer
    <2> HIDE DEF q
    <2>7. CASE c.sending # 0
      <3>1. drainQueue(q) = q
        BY <2>5, <2>7 DEF drainQueue
      <3>2. ConnSound(q, cl, g, d, b, e)
        BY <1>1, <2>2, <2>4, <2>5, <2>7 DEF ConnSound
      <3> QED
        BY <1>3, <2>5, <2>6, <3>1, <3>2
    <2>8. CASE c.sending = 0
      <3>1. drainQueue(q) = sendNext(q)
        BY <2>5, <2>8 DEF drainQueue
      <3>2. Flow(q.is, 0, q.queue, q.dropped, cl, g, d, b, e)
        BY <2>2, <2>5, <2>8
      <3>3. Len(q.queue) =< Depth /\ (q.is = "open" => q.dropped =< MaxDrops)
        BY <1>1, <2>4, <2>5
      <3>4. ConnSound(sendNext(q), cl, g, d, b, e) /\ sendNext(q) \in Conns
        BY <1>0, <2>5, <3>2, <3>3, SendNextSound
      <3> QED
        BY <1>3, <2>6, <3>1, <3>4
    <2> QED
      BY <2>7, <2>8
  <1>7. CASE Receives(c, t) /\ ~(Len(c.queue) < Depth)
    <2>1. c.is = "open" /\ c.queue # <<>>
      BY <1>2, <1>7, NoMembers DEF Receives
    <2>2. c.sending # 0 /\ c.dropped =< MaxDrops
      BY <1>1, <2>1
    <2> DEFINE r == Tail(c.queue)
    <2>3. r \in EventSeqs /\ Len(r) = Len(c.queue) - 1
      BY <1>2, <2>1, Removed
    <2>4. Flow(c.is, c.sending, r, c.dropped + 1, cl, g, d, a, pub)
      BY <1>1, <1>4, <2>1, FlowDropped
    <2> HIDE DEF r
    <2>5. CASE c.dropped = MaxDrops
      <3> DEFINE m == MaxDrops + 1
                 q == [[c EXCEPT !.queue = r, !.dropped = m] EXCEPT !.is = "closing"]
      <3>1. enqueue(c, e) = q
        BY <1>7, <2>5 DEF enqueue, Closing, r
      <3>2. m \in 0 .. MaxDrops + 1
        BY <1>2
      <3> HIDE DEF m
      <3>3. q \in Conns /\ q.is = "closing" /\ q.queue = r /\ q.sending = c.sending /\ q.dropped = m
        BY <1>1, <2>3, <3>2 DEF Conns
      <3>4. Offer(c, e, t) = q
        BY <1>7, <3>1, <3>3 DEF Offer
      <3> HIDE DEF q
      <3>5. Flow("closing", c.sending, r, m, cl, g, d, b, e)
        <4>1. Chained(g, d, c.sending, r, pub)
          BY <2>4, FlowChained
        <4>2. Chained(g, d, c.sending, r, e)
          BY <1>0, <4>1, ChainShrinks
        <4> QED
          BY <1>3, <4>2, FlowQuiet
      <3>6. Len(r) =< Depth
        BY <1>1, <1>2, <2>3
      <3>7. ConnSound(q, cl, g, d, b, e)
        BY <3>3, <3>5, <3>6 DEF ConnSound
      <3> QED
        BY <1>3, <3>3, <3>4, <3>7
    <2>6. CASE c.dropped # MaxDrops
      <3> DEFINE p == Append(r, e)
                 m == c.dropped + 1
                 q == [c EXCEPT !.queue = p, !.dropped = m]
      <3>1. enqueue(c, e) = q
        BY <1>7, <2>6 DEF enqueue, r
      <3>2. m \in 0 .. MaxDrops + 1 /\ m =< MaxDrops /\ m \in Nat
        BY <1>2, <2>2, <2>6
      <3>3. Flow(c.is, c.sending, p, m, cl, g, d, b, e) /\ p \in EventSeqs
        <4>1. Flow(c.is, c.sending, r, m, cl, g, d, a, pub) /\ m \in Nat
          BY <2>4, <3>2
        <4> HIDE DEF m
        <4> QED
          BY <1>0, <1>3, <4>1, FlowQueued
      <3>4. Len(p) = Len(r) + 1
        BY <1>0, <2>3, Appended
      <3>5. Len(p) =< Depth
        BY <1>1, <1>2, <2>3, <3>4
      <3> HIDE DEF p, m
      <3>6. q \in Conns /\ q.is = c.is /\ q.queue = p /\ q.sending = c.sending /\ q.dropped = m
        BY <1>1, <3>2, <3>3 DEF Conns
      <3>7. Offer(c, e, t) = q
        BY <1>7, <2>1, <2>2, <3>1, <3>6 DEF Offer, drainQueue
      <3> HIDE DEF q
      <3>8. ConnSound(q, cl, g, d, b, e)
        BY <2>2, <3>2, <3>3, <3>5, <3>6 DEF ConnSound
      <3> QED
        BY <1>3, <3>6, <3>7, <3>8
    <2> QED
      BY <2>5, <2>6
  <1> QED
    BY <1>5, <1>6, <1>7

-----------------------------------------------------------------------------
(***************************************************************************)
(* The steps.                                                              *)
(***************************************************************************)
LEMMA FanHeld ==
    ASSUME FanInv
    PROVE  /\ FanSizes /\ FanTyped /\ broadcast \in Nat
           /\ \A k \in Slots : /\ conn[k] \in Conns
                               /\ ConnSound(conn[k], cli[k], got[k], down[k], asked[k], broadcast)
  <1>1. FanSizes /\ FanTyped
    BY DEF FanInv
  <1>2. broadcast \in Nat
    BY <1>1 DEF FanSizes, FanTyped
  <1> QED
    BY <1>1, <1>2 DEF FanInv, FanTyped

LEMMA FanSizesKept == FanSizes => FanSizes'
  BY DEF FanSizes

\* The server's ends change; no event is published.
LEMMA ServerStep ==
    ASSUME FanInv, conn' \in [Slots -> Conns],
           \A k \in Slots : ConnSound(conn'[k], cli[k], got[k], down[k], asked[k], broadcast),
           up' \in [Slots -> Seq(Frames)], server' \in {"up", "draining", "exited"},
           UNCHANGED <<authRequired, signs, broadcast, cli, down, got, asked, tab, mishaps>>
    PROVE  FanInv'
  <1>1. FanSizes' /\ FanTyped'
    BY FanHeld, FanSizesKept DEF FanTyped
  <1> QED
    BY <1>1 DEF FanInv

\* The server's end of one connection changes.
LEMMA OneConn ==
    ASSUME FanInv, NEW k \in Slots, NEW c \in Conns, conn' = [conn EXCEPT ![k] = c],
           ConnSound(c, cli[k], got[k], down[k], asked[k], broadcast),
           up' \in [Slots -> Seq(Frames)],
           UNCHANGED <<authRequired, signs, broadcast, server, cli, down, got, asked, tab, mishaps>>
    PROVE  FanInv'
  <1>1. conn \in [Slots -> Conns] /\ server \in {"up", "draining", "exited"}
    BY FanHeld DEF FanTyped
  <1>2. conn' \in [Slots -> Conns] /\ \A x \in Slots : conn'[x] = IF x = k THEN c ELSE conn[x]
    BY <1>1
  <1>3. \A x \in Slots : ConnSound(conn'[x], cli[x], got[x], down[x], asked[x], broadcast)
    BY <1>2, FanHeld
  <1> QED
    BY <1>1, <1>2, <1>3, ServerStep

\* One connection changes, at both ends.
LEMMA SlotStep ==
    ASSUME FanInv, NEW k \in Slots, FanTyped', broadcast' = broadcast,
           \A x \in Slots : x # k => /\ conn'[x] = conn[x] /\ cli'[x] = cli[x] /\ got'[x] = got[x]
                                     /\ down'[x] = down[x] /\ asked'[x] = asked[x],
           ConnSound(conn'[k], cli'[k], got'[k], down'[k], asked'[k], broadcast)
    PROVE  FanInv'
  <1>1. FanSizes'
    BY FanHeld, FanSizesKept
  <1>2. \A x \in Slots : ConnSound(conn'[x], cli'[x], got'[x], down'[x], asked'[x], broadcast')
    BY FanHeld
  <1> QED
    BY <1>1, <1>2 DEF FanInv

\* The client has let go of the connection or not yet opened it.
LEMMA ConnQuiet ==
    ASSUME FanSizes, NEW c, NEW cl, NEW g, NEW d, NEW a, NEW pub \in Nat, ConnSound(c, cl, g, d, a, pub),
           NEW cl2, cl2 # "open", NEW g2, NEW d2, g2 = g \/ g2 = <<>>, d2 = d \/ d2 = <<>>,
           NEW b \in SUBSET BusEvents
    PROVE  ConnSound(c, cl2, g2, d2, b, pub)
  <1>1. Chained(g, d, c.sending, c.queue, pub)
    BY FlowChained DEF ConnSound
  <1>2. Chained(g2, d2, c.sending, c.queue, pub)
    BY <1>1, ChainShrinks
  <1>3. Flow(c.is, c.sending, c.queue, c.dropped, cl2, g2, d2, b, pub)
    BY <1>2, FlowQuiet
  <1> QED
    BY <1>3 DEF ConnSound

LEMMA PublishStep == ASSUME FanInv, NEW t \in Types, Publish(t) PROVE FanInv'
  <1> DEFINE e == broadcast + 1
  <1>1. /\ broadcast' = e /\ broadcast < MaxBroadcasts
        /\ conn' = [k \in Slots |-> Offer(conn[k], e, t)]
        /\ asked' = [k \in Slots |-> IF Receives(conn[k], t) /\ cli[k] = "open" THEN asked[k] \cup {e} ELSE asked[k]]
        /\ UNCHANGED <<authRequired, signs, server, cli, up, down, got, tab, mishaps>>
    BY DEF Publish, Config
  <1>2. broadcast \in Nat /\ broadcast + 1 \in BusEvents /\ FanSizes /\ FanTyped
    BY <1>1, FanHeld DEF BusEvents, FanSizes
  <1>3. ASSUME NEW k \in Slots
        PROVE  /\ ConnSound(conn'[k], cli[k], got[k], down[k], asked'[k], e)
               /\ conn'[k] \in Conns /\ asked'[k] \in SUBSET BusEvents
    <2>1. ConnSound(conn[k], cli[k], got[k], down[k], asked[k], broadcast)
      BY FanHeld
    <2>2. /\ asked'[k] = IF Receives(conn[k], t) /\ cli[k] = "open" THEN asked[k] \cup {broadcast + 1} ELSE asked[k]
          /\ conn'[k] = Offer(conn[k], broadcast + 1, t)
      BY <1>1
    <2> QED
      BY <1>2, <2>1, <2>2, OfferSound
  <1>4. conn' \in [Slots -> Conns] /\ asked' \in [Slots -> SUBSET BusEvents]
    BY <1>1, <1>3
  <1>5. broadcast' \in 0 .. MaxBroadcasts
    BY <1>1, <1>2 DEF BusEvents, FanSizes
  <1>6. FanTyped'
    BY <1>1, <1>2, <1>4, <1>5 DEF FanTyped
  <1>7. FanSizes'
    BY <1>2, FanSizesKept
  <1> QED
    BY <1>1, <1>3, <1>6, <1>7 DEF FanInv

LEMMA SendDoneStep == ASSUME FanInv, NEW k \in Slots, SendDone(k) PROVE FanInv'
  <1> DEFINE c == conn[k]
             e == Append(down[k], c.sending)
  <1>1. /\ c.sending # 0 /\ down' = [down EXCEPT ![k] = e]
        /\ conn' = [conn EXCEPT ![k] = sendNext(c)]
        /\ UNCHANGED <<authRequired, signs, broadcast, server, cli, up, got, asked, tab, mishaps>>
    BY DEF SendDone, Config
  <1>2. ConnSound(c, cli[k], got[k], down[k], asked[k], broadcast) /\ FanSizes /\ FanTyped /\ broadcast \in Nat
    BY FanHeld
  <1>3. /\ c \in Conns /\ Len(c.queue) =< Depth /\ (c.is = "open" => c.dropped =< MaxDrops)
        /\ Flow(c.is, c.sending, c.queue, c.dropped, cli[k], got[k], down[k], asked[k], broadcast)
    BY <1>2 DEF ConnSound
  <1>4. /\ Flow(c.is, 0, c.queue, c.dropped, cli[k], got[k], e, asked[k], broadcast)
        /\ e \in EventSeqs
    BY <1>1, <1>2, <1>3, FlowSent
  <1> HIDE DEF c, e
  <1>5. ConnSound(sendNext(c), cli[k], got[k], e, asked[k], broadcast) /\ sendNext(c) \in Conns
    BY <1>2, <1>3, <1>4, SendNextSound
  <1>6. /\ down' \in [Slots -> EventSeqs] /\ \A x \in Slots : down'[x] = IF x = k THEN e ELSE down[x]
        /\ conn' \in [Slots -> Conns] /\ \A x \in Slots : conn'[x] = IF x = k THEN sendNext(c) ELSE conn[x]
    BY <1>1, <1>2, <1>4, <1>5 DEF FanTyped
  <1>7. FanTyped'
    BY <1>1, <1>2, <1>6 DEF FanTyped
  <1> QED
    BY <1>1, <1>5, <1>6, <1>7, SlotStep

LEMMA SendFailsStep == ASSUME FanInv, NEW k \in Slots, SendFails(k) PROVE FanInv'
  <1> DEFINE s == [conn[k] EXCEPT !.sending = 0, !.queue = <<>>]
  <1>1. /\ cli[k] # "open" /\ conn' = [conn EXCEPT ![k] = s]
        /\ UNCHANGED <<authRequired, signs, broadcast, server, cli, up, down, got, asked, tab, mishaps>>
    BY DEF SendFails, Config
  <1>2. FanSizes /\ broadcast \in Nat /\ conn[k] \in Conns /\ up \in [Slots -> Seq(Frames)]
        /\ ConnSound(conn[k], cli[k], got[k], down[k], asked[k], broadcast)
    BY FanHeld DEF FanTyped
  <1>3. 0 \in 0 .. MaxBroadcasts /\ <<>> \in EventSeqs
    BY <1>2, NoMembers DEF FanSizes
  <1>4. s \in Conns /\ s.is = conn[k].is /\ s.queue = <<>> /\ s.sending = 0 /\ s.dropped = conn[k].dropped
    BY <1>2, <1>3 DEF Conns
  <1> HIDE DEF s
  <1>5. ConnSound(s, cli[k], got[k], down[k], asked[k], broadcast)
    BY <1>1, <1>2, <1>4, ConnEmptied
  <1> QED
    BY <1>1, <1>2, <1>4, <1>5, OneConn

\* A control frame touches neither queue nor send.
Alike(s, c) == s \in Conns /\ s.queue = c.queue /\ s.sending = c.sending /\ s.dropped = c.dropped
                 /\ s.is \in {c.is, "closing"}

LEMMA AlikeItself == ASSUME NEW c \in Conns PROVE Alike(c, c)
  BY DEF Alike

LEMMA ClosingAlike == ASSUME NEW c \in Conns, NEW s, Alike(s, c) PROVE Alike(Closing(s), c)
  <1>1. s \in Conns
    BY DEF Alike
  <1>2. /\ Closing(s) \in Conns /\ Closing(s).is = "closing" /\ Closing(s).queue = s.queue
        /\ Closing(s).sending = s.sending /\ Closing(s).dropped = s.dropped
    BY <1>1 DEF Closing, Conns
  <1> QED
    BY <1>2 DEF Alike

LEMMA ControlledAlike ==
    ASSUME FanSizes, NEW c \in Conns, NEW s, Alike(s, c), NEW f
    PROVE  Alike(Controlled(s, f), c)
  <1>1. s \in Conns
    BY DEF Alike
  <1>2. Alike([s EXCEPT !.address = TRUE, !.deadline = FALSE], c)
    <2> DEFINE r == [s EXCEPT !.address = TRUE, !.deadline = FALSE]
    <2>1. r \in Conns /\ r.is = s.is /\ r.queue = s.queue /\ r.sending = s.sending /\ r.dropped = s.dropped
      BY <1>1 DEF Conns
    <2> HIDE DEF r
    <2>2. Alike(r, c)
      BY <2>1 DEF Alike
    <2> QED
      BY <2>2 DEF r
  <1>3. Alike([s EXCEPT !.types = Wanted], c)
    <2> DEFINE r == [s EXCEPT !.types = Wanted]
    <2>1. Wanted \in SUBSET Types
      BY DEF FanSizes
    <2>2. r \in Conns /\ r.is = s.is /\ r.queue = s.queue /\ r.sending = s.sending /\ r.dropped = s.dropped
      BY <1>1, <2>1 DEF Conns
    <2> HIDE DEF r
    <2>3. Alike(r, c)
      BY <2>2 DEF Alike
    <2> QED
      BY <2>3 DEF r
  <1>4. Alike(Closing(s), c)
    BY ClosingAlike
  <1> QED
    BY <1>2, <1>3, <1>4 DEF Controlled, validateAndStoreAuth

LEMMA AlikeStep ==
    ASSUME FanInv, NEW k \in Slots, NEW s, Alike(s, conn[k]), conn' = [conn EXCEPT ![k] = s],
           up' \in [Slots -> Seq(Frames)],
           UNCHANGED <<authRequired, signs, broadcast, server, cli, down, got, asked, tab, mishaps>>
    PROVE  FanInv'
  <1>1. ConnSound(s, cli[k], got[k], down[k], asked[k], broadcast) /\ s \in Conns
    BY FanHeld, ConnKept DEF Alike
  <1> QED
    BY <1>1, OneConn

LEMMA HandleMessageStep == ASSUME FanInv, NEW k \in Slots, HandleMessage(k) PROVE FanInv'
  <1> DEFINE s == conn[k]
             m == s.tokens - 1
             n == s.violations + 1
             r == [s EXCEPT !.tokens = m, !.violations = 0]
             v == [s EXCEPT !.violations = n]
             c == IF s.tokens > 0 THEN Controlled(r, Head(up[k]))
                  ELSE IF s.violations >= MaxViolations THEN Closing(s) ELSE v
  <1>1. /\ up[k] # <<>> /\ up' = [up EXCEPT ![k] = Tail(@)] /\ conn' = [conn EXCEPT ![k] = c]
        /\ UNCHANGED <<authRequired, signs, broadcast, server, cli, down, got, asked, tab, mishaps>>
    BY DEF HandleMessage, Config
  <1>2. FanSizes /\ s \in Conns /\ up \in [Slots -> Seq(Frames)]
    BY FanHeld DEF FanTyped
  <1>3. up' \in [Slots -> Seq(Frames)]
    BY <1>1, <1>2
  <1>4. s.tokens \in 0 .. Burst /\ s.violations \in 0 .. MaxViolations /\ Burst \in Nat /\ MaxViolations \in Nat
    BY <1>2, ConnTyped DEF FanSizes
  <1> HIDE DEF s
  <1>5. Alike(c, s)
    <2>1. CASE s.tokens > 0
      <3>1. m \in 0 .. Burst /\ 0 \in 0 .. MaxViolations
        BY <1>4, <2>1
      <3> HIDE DEF m
      <3>2. r \in Conns /\ r.is = s.is /\ r.queue = s.queue /\ r.sending = s.sending /\ r.dropped = s.dropped
        BY <1>2, <3>1 DEF Conns
      <3> HIDE DEF r
      <3>3. Alike(Controlled(r, Head(up[k])), s)
        BY <1>2, <3>2, ControlledAlike DEF Alike
      <3> QED
        BY <2>1, <3>3
    <2>2. CASE ~(s.tokens > 0) /\ s.violations >= MaxViolations
      BY <1>2, <2>2, AlikeItself, ClosingAlike
    <2>3. CASE ~(s.tokens > 0) /\ ~(s.violations >= MaxViolations)
      <3>1. n \in 0 .. MaxViolations
        BY <1>4, <2>3
      <3> HIDE DEF n
      <3>2. v \in Conns /\ v.is = s.is /\ v.queue = s.queue /\ v.sending = s.sending /\ v.dropped = s.dropped
        BY <1>2, <3>1 DEF Conns
      <3> QED
        BY <2>3, <3>2 DEF Alike
    <2> QED
      BY <2>1, <2>2, <2>3
  <1> HIDE DEF c
  <1> QED
    BY <1>1, <1>3, <1>5, AlikeStep DEF s

LEMMA TimerStep ==
    ASSUME FanInv, NEW k \in Slots, Refill(k) \/ Pong(k) \/ AuthDeadline(k) PROVE FanInv'
  <1>1. UNCHANGED <<authRequired, signs, broadcast, server, cli, up, down, got, asked, tab, mishaps>>
    BY DEF Refill, Pong, AuthDeadline, Config
  <1>2. FanSizes /\ conn[k] \in Conns /\ up \in [Slots -> Seq(Frames)]
    BY FanHeld DEF FanTyped
  <1>3. \E s : Alike(s, conn[k]) /\ conn' = [conn EXCEPT ![k] = s]
    <2>1. CASE Refill(k)
      <3> DEFINE s == [conn[k] EXCEPT !.tokens = Burst]
      <3>1. conn' = [conn EXCEPT ![k] = s]
        BY <2>1 DEF Refill
      <3>2. Burst \in 0 .. Burst
        BY <1>2 DEF FanSizes
      <3>3. s \in Conns /\ s.is = conn[k].is /\ s.queue = conn[k].queue /\ s.sending = conn[k].sending /\ s.dropped = conn[k].dropped
        BY <1>2, <3>2 DEF Conns
      <3> HIDE DEF s
      <3> QED
        BY <3>1, <3>3 DEF Alike
    <2>2. CASE Pong(k)
      <3> DEFINE s == [conn[k] EXCEPT !.alive = TRUE]
      <3>1. conn' = [conn EXCEPT ![k] = s]
        BY <2>2 DEF Pong
      <3>2. s \in Conns /\ s.is = conn[k].is /\ s.queue = conn[k].queue /\ s.sending = conn[k].sending /\ s.dropped = conn[k].dropped
        BY <1>2 DEF Conns
      <3> HIDE DEF s
      <3> QED
        BY <3>1, <3>2 DEF Alike
    <2>3. CASE AuthDeadline(k)
      <3> DEFINE s == [conn[k] EXCEPT !.deadline = FALSE]
                 r == IF s.address \/ s.is # "open" THEN s ELSE Closing(s)
      <3>1. conn' = [conn EXCEPT ![k] = r]
        BY <2>3 DEF AuthDeadline
      <3>2. s \in Conns /\ s.is = conn[k].is /\ s.queue = conn[k].queue /\ s.sending = conn[k].sending /\ s.dropped = conn[k].dropped
        BY <1>2 DEF Conns
      <3> HIDE DEF s
      <3>3. Alike(s, conn[k])
        BY <3>2 DEF Alike
      <3>4. Alike(r, conn[k])
        BY <1>2, <3>3, ClosingAlike
      <3> QED
        BY <3>1, <3>4
    <2> QED
      BY <2>1, <2>2, <2>3
  <1> QED
    BY <1>1, <1>2, <1>3, AlikeStep

LEMMA SocketClosedStep == ASSUME FanInv, NEW k \in Slots, SocketClosed(k) PROVE FanInv'
  <1>1. /\ conn' = [conn EXCEPT ![k] = NoClient]
        /\ UNCHANGED <<authRequired, signs, broadcast, server, cli, up, down, got, asked, tab, mishaps>>
    BY DEF SocketClosed, Config
  <1>2. /\ FanSizes /\ broadcast \in Nat /\ up \in [Slots -> Seq(Frames)]
        /\ ConnSound(conn[k], cli[k], got[k], down[k], asked[k], broadcast)
    BY FanHeld DEF FanTyped
  <1>3. ConnSound(NoClient, cli[k], got[k], down[k], asked[k], broadcast) /\ NoClient \in Conns
    BY <1>2, NoClientSound
  <1> QED
    BY <1>1, <1>2, <1>3, OneConn

\* A heartbeat round, the shutdown and the exit reach every connection.
LEMMA RoundStep == ASSUME FanInv, Heartbeat \/ Shutdown \/ Exit PROVE FanInv'
  <1>1. UNCHANGED <<authRequired, signs, broadcast, cli, up, down, got, asked, tab, mishaps>>
    BY DEF Heartbeat, Shutdown, Exit, Config
  <1>2. FanSizes /\ broadcast \in Nat /\ FanTyped
    BY FanHeld
  <1>3. server' \in {"up", "draining", "exited"}
    BY <1>2 DEF Heartbeat, Shutdown, Exit, FanTyped
  <1>4. conn' = [k \in Slots |-> conn'[k]]
    BY DEF Heartbeat, Shutdown, Exit
  <1>5. ASSUME NEW k \in Slots
        PROVE  ConnSound(conn'[k], cli[k], got[k], down[k], asked[k], broadcast) /\ conn'[k] \in Conns
    <2> DEFINE c == conn[k]
    <2>1. ConnSound(c, cli[k], got[k], down[k], asked[k], broadcast) /\ c \in Conns
      BY FanHeld
    <2>2. ConnSound(NoClient, cli[k], got[k], down[k], asked[k], broadcast) /\ NoClient \in Conns
      BY <1>2, <2>1, NoClientSound
    <2>3. CASE Heartbeat
      <3> DEFINE s == [c EXCEPT !.alive = FALSE]
      <3>1. s \in Conns /\ s.is = c.is /\ s.queue = c.queue /\ s.sending = c.sending /\ s.dropped = c.dropped
        BY <2>1 DEF Conns
      <3>2. conn'[k] = c \/ conn'[k] = NoClient \/ conn'[k] = s
        BY <2>3 DEF Heartbeat, Beaten
      <3> HIDE DEF s, c
      <3>3. ConnSound(s, cli[k], got[k], down[k], asked[k], broadcast)
        BY <2>1, <3>1, ConnKept
      <3> QED
        BY <2>1, <2>2, <3>1, <3>2, <3>3
    <2>4. CASE Shutdown
      <3> DEFINE s == Closing(Forgotten(c))
      <3>1. <<>> \in EventSeqs
        BY NoMembers
      <3>2. /\ s \in Conns /\ s.is = "closing" /\ s.queue = <<>> /\ s.sending = c.sending
            /\ s.dropped = c.dropped
        BY <2>1, <3>1 DEF Conns, Closing, Forgotten
      <3>3. conn'[k] = c \/ conn'[k] = s
        BY <2>4 DEF Shutdown
      <3> HIDE DEF s, c
      <3>4. ConnSound(s, cli[k], got[k], down[k], asked[k], broadcast)
        BY <1>2, <2>1, <3>2, ConnEmptied
      <3> QED
        BY <2>1, <3>2, <3>3, <3>4
    <2>5. CASE Exit
      BY <2>2, <2>5 DEF Exit
    <2> QED
      BY <2>3, <2>4, <2>5
  <1>6. conn' \in [Slots -> Conns]
    BY <1>4, <1>5
  <1>7. up' \in [Slots -> Seq(Frames)]
    BY <1>1, <1>2 DEF FanTyped
  <1> QED
    BY <1>1, <1>3, <1>5, <1>6, <1>7, ServerStep

\* The client dials, gives a dial up, loses a connection or hears that it closed.
LEMMA ClientEndStep ==
    ASSUME FanInv, NEW k \in Slots, Dial(k) \/ DialFails(k) \/ Cut(k) \/ OnClose(k) PROVE FanInv'
  <1>1. /\ UNCHANGED <<authRequired, signs, broadcast, server, conn>>
        /\ tab' \in {"off", "dialling", "open", "waiting"}
    BY FanHeld DEF Dial, DialFails, Cut, OnClose, Config, FanTyped
  <1>2. FanSizes /\ FanTyped /\ broadcast \in Nat
        /\ ConnSound(conn[k], cli[k], got[k], down[k], asked[k], broadcast)
    BY FanHeld
  <1>3. mishaps' \in 0 .. MaxMishaps
    BY <1>2 DEF Dial, DialFails, Cut, OnClose, Mishap, FanTyped, FanSizes
  <1>4. \E cl \in {"none", "dialling", "cut"} : cli' = [cli EXCEPT ![k] = cl]
    BY DEF Dial, DialFails, Cut, OnClose
  <1>5. PICK cl \in {"none", "dialling", "cut"} : cli' = [cli EXCEPT ![k] = cl]
    BY <1>4
  <1>6. /\ cli' \in [Slots -> {"none", "dialling", "open", "cut"}]
        /\ \A x \in Slots : cli'[x] = IF x = k THEN cl ELSE cli[x]
    BY <1>2, <1>5 DEF FanTyped
  <1>7. up' \in [Slots -> Seq(Frames)]
    <2>1. up' = up \/ up' = [up EXCEPT ![k] = <<>>]
      BY DEF Dial, DialFails, Cut, OnClose
    <2>2. up \in [Slots -> Seq(Frames)] /\ <<>> \in Seq(Frames)
      BY <1>2 DEF FanTyped
    <2> QED
      BY <2>1, <2>2
  <1>8. /\ down' = down \/ down' = [down EXCEPT ![k] = <<>>]
        /\ got' = got \/ got' = [got EXCEPT ![k] = <<>>]
        /\ asked' = asked \/ asked' = [asked EXCEPT ![k] = {}]
    BY DEF Dial, DialFails, Cut, OnClose
  <1>9. down \in [Slots -> EventSeqs] /\ got \in [Slots -> EventSeqs] /\ asked \in [Slots -> SUBSET BusEvents]
    BY <1>2 DEF FanTyped
  <1>10. /\ down' \in [Slots -> EventSeqs] /\ (down'[k] = down[k] \/ down'[k] = <<>>)
         /\ \A x \in Slots : x # k => down'[x] = down[x]
    BY <1>8, <1>9, NoMembers
  <1>11. /\ got' \in [Slots -> EventSeqs] /\ (got'[k] = got[k] \/ got'[k] = <<>>)
         /\ \A x \in Slots : x # k => got'[x] = got[x]
    BY <1>8, <1>9, NoMembers
  <1>12. /\ asked' \in [Slots -> SUBSET BusEvents] /\ asked'[k] \in SUBSET BusEvents
         /\ \A x \in Slots : x # k => asked'[x] = asked[x]
    BY <1>8, <1>9
  <1>13. FanTyped'
    BY <1>1, <1>2, <1>3, <1>6, <1>7, <1>10, <1>11, <1>12 DEF FanTyped
  <1>14. ConnSound(conn[k], cli'[k], got'[k], down'[k], asked'[k], broadcast)
    <2>1. cli'[k] # "open"
      BY <1>6
    <2> QED
      BY <1>2, <1>10, <1>11, <1>12, <2>1, ConnQuiet
  <1> QED
    BY <1>1, <1>6, <1>10, <1>11, <1>12, <1>13, <1>14, SlotStep

LEMMA SignOutStep == ASSUME FanInv, SignOut PROVE FanInv'
  <1>1. /\ UNCHANGED <<authRequired, signs, broadcast, server, conn>> /\ tab' = "off"
        /\ cli' = [k \in Slots |-> "none"] /\ up' = [k \in Slots |-> <<>>]
        /\ down' = [k \in Slots |-> <<>>] /\ got' = [k \in Slots |-> <<>>] /\ asked' = [k \in Slots |-> {}]
    BY DEF SignOut, Config
  <1>2. FanSizes /\ FanTyped /\ broadcast \in Nat
    BY FanHeld
  <1>3. mishaps' \in 0 .. MaxMishaps
    BY <1>2 DEF SignOut, Mishap, FanTyped, FanSizes
  <1>4. FanTyped'
    BY <1>1, <1>2, <1>3, NoMembers DEF FanTyped
  <1>5. ASSUME NEW k \in Slots PROVE ConnSound(conn[k], cli'[k], got'[k], down'[k], asked'[k], broadcast)
    <2>1. ConnSound(conn[k], cli[k], got[k], down[k], asked[k], broadcast)
      BY FanHeld
    <2>2. cli'[k] # "open" /\ got'[k] = <<>> /\ down'[k] = <<>> /\ asked'[k] \in SUBSET BusEvents
      BY <1>1
    <2> QED
      BY <1>2, <2>1, <2>2, ConnQuiet
  <1>6. FanSizes'
    BY <1>2, FanSizesKept
  <1> QED
    BY <1>1, <1>4, <1>5, <1>6 DEF FanInv

LEMMA NewClientSound ==
    ASSUME FanSizes, FanTyped, NEW c, NEW cl, NEW g, NEW d, NEW a, NEW pub \in Nat, ConnSound(c, cl, g, d, a, pub)
    PROVE  ConnSound(NewClient, "open", g, d, {}, pub) /\ NewClient \in Conns
  <1>1. NewClient \in Conns
    <2>1. <<>> \in EventSeqs /\ Burst \in 0 .. Burst /\ 0 \in 0 .. MaxViolations /\ 0 \in 0 .. MaxBroadcasts
      BY NoMembers DEF FanSizes
    <2>2. 0 \in 0 .. MaxDrops + 1
      BY DEF FanSizes
    <2>3. Types \in SUBSET Types /\ authRequired \in BOOLEAN
      BY DEF FanTyped
    <2> QED
      BY <2>1, <2>2, <2>3 DEF NewClient, Conns
  <1>2. NewClient.is = "open" /\ NewClient.queue = <<>> /\ NewClient.sending = 0 /\ NewClient.dropped = 0
    BY DEF NewClient
  <1>3. Chained(g, d, c.sending, c.queue, pub)
    BY FlowChained DEF ConnSound
  <1>4. Chained(g, d, 0, <<>>, pub)
    BY <1>3, ChainShrinks
  <1>5. Cardinality({} \ All(g, d, 0, <<>>)) =< 0
    <2>1. {} \ All(g, d, 0, <<>>) = {}
      OBVIOUS
    <2> QED
      BY <2>1, FS_EmptySet
  <1>6. Flow("open", 0, <<>>, 0, "open", g, d, {}, pub)
    BY <1>4, <1>5 DEF Flow
  <1>7. Len(NewClient.queue) =< Depth /\ 0 =< MaxDrops
    BY <1>2, NoMembers DEF FanSizes
  <1> QED
    BY <1>1, <1>2, <1>6, <1>7 DEF ConnSound

LEMMA OpenStep == ASSUME FanInv, NEW k \in Slots, Open(k) PROVE FanInv'
  <1> DEFINE u == IF signs THEN <<"auth", "subscribe">> ELSE <<"subscribe">>
  <1>1. /\ cli' = [cli EXCEPT ![k] = "open"] /\ tab' = "open" /\ conn' = [conn EXCEPT ![k] = NewClient]
        /\ up' = [up EXCEPT ![k] = u] /\ asked' = [asked EXCEPT ![k] = {}]
        /\ UNCHANGED <<authRequired, signs, broadcast, server, down, got, mishaps>>
    BY DEF Open, Config
  <1>2. FanSizes /\ FanTyped /\ broadcast \in Nat
        /\ ConnSound(conn[k], cli[k], got[k], down[k], asked[k], broadcast)
    BY FanHeld
  <1>3. ConnSound(NewClient, "open", got[k], down[k], {}, broadcast) /\ NewClient \in Conns
    BY <1>2, NewClientSound
  <1>4. u \in Seq(Frames)
    <2>1. "auth" \in Frames /\ "subscribe" \in Frames
      BY DEF Frames
    <2>2. <<"auth", "subscribe">> \in Seq(Frames) /\ <<"subscribe">> \in Seq(Frames)
      BY <2>1
    <2> QED
      BY <2>2
  <1> HIDE DEF u
  <1>5. /\ conn' \in [Slots -> Conns] /\ \A x \in Slots : conn'[x] = IF x = k THEN NewClient ELSE conn[x]
        /\ cli' \in [Slots -> {"none", "dialling", "open", "cut"}]
        /\ \A x \in Slots : cli'[x] = IF x = k THEN "open" ELSE cli[x]
        /\ asked' \in [Slots -> SUBSET BusEvents] /\ \A x \in Slots : asked'[x] = IF x = k THEN {} ELSE asked[x]
        /\ up' \in [Slots -> Seq(Frames)]
    BY <1>1, <1>2, <1>3, <1>4 DEF FanTyped
  <1>6. FanTyped'
    BY <1>1, <1>2, <1>5 DEF FanTyped
  <1>7. ConnSound(conn'[k], cli'[k], got'[k], down'[k], asked'[k], broadcast)
    BY <1>1, <1>3, <1>5
  <1> QED
    BY <1>1, <1>5, <1>6, <1>7, SlotStep

LEMMA SendFrameStep == ASSUME FanInv, NEW k \in Slots, NEW f \in Frames, SendFrame(k, f) PROVE FanInv'
  <1>1. /\ up' = [up EXCEPT ![k] = Append(@, f)] /\ mishaps < MaxMishaps /\ mishaps' = mishaps + 1
        /\ UNCHANGED <<authRequired, signs, broadcast, server, conn, cli, down, got, asked, tab>>
    BY DEF SendFrame, Mishap, Config
  <1>2. FanSizes /\ FanTyped
    BY FanHeld
  <1>3. mishaps' \in 0 .. MaxMishaps
    BY <1>1, <1>2 DEF FanTyped, FanSizes
  <1>4. up' \in [Slots -> Seq(Frames)]
    BY <1>1, <1>2 DEF FanTyped
  <1>5. FanTyped' /\ FanSizes'
    BY <1>1, <1>2, <1>3, <1>4, FanSizesKept DEF FanTyped
  <1> QED
    BY <1>1, <1>5, FanHeld DEF FanInv

LEMMA DeliverStep == ASSUME FanInv, NEW k \in Slots, Deliver(k) PROVE FanInv'
  <1> DEFINE u == Append(got[k], Head(down[k]))
             t == Tail(down[k])
  <1>1. /\ down[k] # <<>> /\ got' = [got EXCEPT ![k] = u] /\ down' = [down EXCEPT ![k] = t]
        /\ UNCHANGED <<authRequired, signs, broadcast, server, conn, cli, up, asked, tab, mishaps>>
    BY DEF Deliver, Config
  <1>2. FanSizes /\ FanTyped /\ broadcast \in Nat
        /\ ConnSound(conn[k], cli[k], got[k], down[k], asked[k], broadcast)
    BY FanHeld
  <1> DEFINE c == conn[k]
  <1>3. Flow(c.is, c.sending, c.queue, c.dropped, cli[k], got[k], down[k], asked[k], broadcast)
    BY <1>2 DEF ConnSound
  <1>4. /\ Flow(c.is, c.sending, c.queue, c.dropped, cli[k], u, t, asked[k], broadcast)
        /\ u \in EventSeqs /\ t \in EventSeqs
    BY <1>1, <1>2, <1>3, FlowRead
  <1> HIDE DEF u, t
  <1>5. /\ got' \in [Slots -> EventSeqs] /\ \A x \in Slots : got'[x] = IF x = k THEN u ELSE got[x]
        /\ down' \in [Slots -> EventSeqs] /\ \A x \in Slots : down'[x] = IF x = k THEN t ELSE down[x]
    BY <1>1, <1>2, <1>4 DEF FanTyped
  <1>6. FanTyped'
    BY <1>1, <1>2, <1>5 DEF FanTyped
  <1>7. ConnSound(c, cli[k], u, t, asked[k], broadcast)
    BY <1>2, <1>4 DEF ConnSound
  <1>8. ConnSound(conn'[k], cli'[k], got'[k], down'[k], asked'[k], broadcast)
    BY <1>1, <1>5, <1>7
  <1> QED
    BY <1>1, <1>5, <1>6, <1>8, SlotStep

LEMMA FanStarts == ASSUME FanInit PROVE FanInv
  <1>1. FanSizes
    BY EventFanoutAssumption DEF FanSizes
  <1>2. NoClient \in Conns
    <2>1. <<>> \in EventSeqs /\ 0 \in 0 .. Burst /\ 0 \in 0 .. MaxViolations /\ 0 \in 0 .. MaxBroadcasts
      BY <1>1, NoMembers DEF FanSizes
    <2>2. 0 \in 0 .. MaxDrops + 1
      BY <1>1 DEF FanSizes
    <2>3. {} \in SUBSET Types
      OBVIOUS
    <2> QED
      BY <2>1, <2>2, <2>3 DEF NoClient, Conns
  <1>3. 0 \in 0 .. MaxBroadcasts /\ 0 \in 0 .. MaxMishaps
    BY <1>1 DEF FanSizes
  <1>4. FanTyped
    BY <1>2, <1>3, NoMembers DEF FanInit, FanTyped
  <1>5. ASSUME NEW k \in Slots PROVE ConnSound(conn[k], cli[k], got[k], down[k], asked[k], broadcast)
    <2>1. conn[k] = NoClient /\ got[k] = <<>> /\ down[k] = <<>> /\ asked[k] = {} /\ broadcast = 0
      BY DEF FanInit
    <2>2. NoClient.is = "gone" /\ NoClient.queue = <<>> /\ NoClient.sending = 0
      BY DEF NoClient
    <2>3. One(0) = {} /\ All(<<>>, <<>>, 0, <<>>) = {}
      BY NoMembers DEF One, All
    <2>4. Chained(<<>>, <<>>, 0, <<>>, 0)
      BY <1>3, <2>3, NoMembers DEF Chained, Precede
    <2>5. Flow("gone", 0, <<>>, NoClient.dropped, cli[k], <<>>, <<>>, {}, 0)
      BY <2>4, FlowQuiet
    <2>6. Len(NoClient.queue) =< Depth
      BY <1>1, <2>2, NoMembers DEF FanSizes
    <2> QED
      BY <1>2, <2>1, <2>2, <2>5, <2>6 DEF ConnSound
  <1> QED
    BY <1>1, <1>4, <1>5 DEF FanInv

LEMMA FanStep == ASSUME FanInv, [FanNext]_fanVars PROVE FanInv'
  <1>1. ASSUME NEW t \in Types, Publish(t) PROVE FanInv'
    BY <1>1, PublishStep
  <1>2. ASSUME NEW k \in Slots, SendDone(k) \/ SendFails(k) \/ HandleMessage(k) \/ Refill(k) PROVE FanInv'
    BY <1>2, SendDoneStep, SendFailsStep, HandleMessageStep, TimerStep
  <1>3. ASSUME NEW k \in Slots, AuthDeadline(k) \/ Pong(k) \/ SocketClosed(k) PROVE FanInv'
    BY <1>3, TimerStep, SocketClosedStep
  <1>4. CASE Heartbeat \/ Shutdown \/ Exit
    BY <1>4, RoundStep
  <1>5. CASE SignIn \/ Reconnect
    BY <1>5, ClientEndStep DEF SignIn, Reconnect
  <1>6. CASE SignOut
    BY <1>6, SignOutStep
  <1>7. ASSUME NEW k \in Slots, Open(k) PROVE FanInv'
    BY <1>7, OpenStep
  <1>8. ASSUME NEW k \in Slots, DialFails(k) \/ Cut(k) \/ OnClose(k) PROVE FanInv'
    BY <1>8, ClientEndStep
  <1>9. ASSUME NEW k \in Slots, Deliver(k) PROVE FanInv'
    BY <1>9, DeliverStep
  <1>10. ASSUME NEW k \in Slots, NEW f \in Frames, SendFrame(k, f) PROVE FanInv'
    BY <1>10, SendFrameStep
  <1>11. CASE UNCHANGED fanVars
    <2>1. UNCHANGED <<authRequired, signs, broadcast, server, conn, cli, up, down, got, asked, tab, mishaps>>
      BY <1>11 DEF fanVars
    <2>2. conn \in [Slots -> Conns] /\ up \in [Slots -> Seq(Frames)] /\ server \in {"up", "draining", "exited"}
      BY FanHeld DEF FanTyped
    <2> QED
      BY <2>1, <2>2, FanHeld, ServerStep
  <1> QED
    BY <1>1, <1>2, <1>3, <1>4, <1>5, <1>6, <1>7, <1>8, <1>9, <1>10, <1>11 DEF FanNext

LEMMA FanHolds == FanSpec => []FanInv
  <1>1. FanInit => FanInv
    BY FanStarts
  <1>2. FanInv /\ [FanNext]_fanVars => FanInv'
    BY FanStep
  <1> QED
    BY <1>1, <1>2, PTL DEF FanSpec

\* The frames of a connection as one sequence.
LEMMA PipelineSound ==
    ASSUME FanInv, NEW k \in Slots
    PROVE  /\ Pipeline(k) \in EventSeqs /\ Rises(Pipeline(k))
           /\ ToSet(Pipeline(k)) = All(got[k], down[k], conn[k].sending, conn[k].queue)
  <1> DEFINE g == got[k]
             d == down[k]
             x == conn[k].sending
             q == conn[k].queue
             o == IF x = 0 THEN <<>> ELSE <<x>>
  <1>1. ConnSound(conn[k], cli[k], g, d, asked[k], broadcast) /\ FanSizes
    BY FanHeld
  <1>2. Chained(g, d, x, q, broadcast)
    BY <1>1, FlowChained DEF ConnSound
  <1>3. Pipeline(k) = ((g \o d) \o o) \o q
    BY DEF Pipeline
  <1> HIDE DEF g, d, x, q
  <1>4. o \in EventSeqs /\ ToSet(o) = One(x) /\ Rises(o)
    <2>1. CASE x = 0
      BY <2>1, NoMembers DEF One
    <2>2. CASE x # 0
      <3>1. x \in BusEvents
        BY <1>1, <1>2, <2>2 DEF Chained, BusEvents, FanSizes
      <3>2. <<x>> \in EventSeqs /\ Len(<<x>>) = 1 /\ <<x>>[1] = x
        BY <3>1 DEF EventSeqs
      <3>3. ToSet(<<x>>) = {x}
        BY <3>2, Members
      <3>4. Rises(<<x>>)
        BY <3>2 DEF Rises
      <3> QED
        BY <2>2, <3>2, <3>3, <3>4 DEF One
    <2> QED
      BY <2>1, <2>2
  <1> HIDE DEF o
  <1>5. g \o d \in EventSeqs /\ ToSet(g \o d) = ToSet(g) \cup ToSet(d) /\ Rises(g \o d)
    BY <1>1, <1>2, Concatenated DEF Chained
  <1>6. Precede(ToSet(g \o d), ToSet(o))
    BY <1>2, <1>4, <1>5 DEF Chained, Precede
  <1>7. /\ (g \o d) \o o \in EventSeqs /\ ToSet((g \o d) \o o) = ToSet(g \o d) \cup ToSet(o)
        /\ Rises((g \o d) \o o)
    BY <1>1, <1>4, <1>5, <1>6, Concatenated
  <1>8. q \in EventSeqs /\ Rises(q) /\ Precede(ToSet((g \o d) \o o), ToSet(q))
    BY <1>2, <1>4, <1>5, <1>7 DEF Chained, Precede
  <1>9. /\ ((g \o d) \o o) \o q \in EventSeqs
        /\ ToSet(((g \o d) \o o) \o q) = ToSet((g \o d) \o o) \cup ToSet(q)
        /\ Rises(((g \o d) \o o) \o q)
    BY <1>1, <1>7, <1>8, Concatenated
  <1>10. ToSet(((g \o d) \o o) \o q) = All(g, d, x, q)
    BY <1>4, <1>5, <1>7, <1>9 DEF All
  <1> QED
    BY <1>3, <1>9, <1>10 DEF g, d, x, q

(***************************************************************************)
(* For any number of connections, queue depth, drop limit, rate limit and  *)
(* faults, the send queues of ws.ts stay within their depth, every client  *)
(* gets the events in the order of their publication and none twice, and   *)
(* no queue waits without a send under way to drain it.                    *)
(***************************************************************************)
THEOREM FanoutQueues == FanSpec => []QueuesConsistent
  <1>1. FanInv => QueuesConsistent
    <2> SUFFICES ASSUME FanInv PROVE QueuesConsistent
      OBVIOUS
    <2>1. \A k \in Slots : Len(conn[k].queue) =< Depth /\ (conn[k].is = "open" /\ conn[k].queue # <<>> => conn[k].sending # 0)
      BY FanHeld DEF ConnSound
    <2>2. FanTypeOK
      BY <2>1, FanHeld DEF FanTypeOK, FanTyped, Conns, EventSeqs, BusEvents
    <2>3. DrainNeverStalls
      BY <2>1 DEF DrainNeverStalls
    <2>4. InOrderOnce
      <3> SUFFICES ASSUME NEW k \in Slots, NEW i \in DOMAIN Pipeline(k), NEW j \in DOMAIN Pipeline(k), i < j
                   PROVE  Pipeline(k)[i] < Pipeline(k)[j]
        BY DEF InOrderOnce
      <3>1. Pipeline(k) \in EventSeqs /\ Rises(Pipeline(k))
        BY PipelineSound
      <3>2. DOMAIN Pipeline(k) = 1 .. Len(Pipeline(k))
        BY <3>1 DEF EventSeqs
      <3> QED
        BY <3>1, <3>2 DEF Rises
    <2> QED
      BY <2>2, <2>3, <2>4 DEF QueuesConsistent
  <1> QED
    BY <1>1, FanHolds, PTL

(***************************************************************************)
(* A client that is still connected has missed at most                     *)
(* maxDropsBeforeDisconnect of the events that its subscription and        *)
(* authentication qualified it for: the head-drop of ws.ts counts every    *)
(* frame it loses.                                                         *)
(***************************************************************************)
THEOREM FanoutMissesBounded == FanSpec => []MissedBounded
  <1>1. FanInv => MissedBounded
    <2> SUFFICES ASSUME FanInv, NEW k \in Slots, conn[k].is = "open", cli[k] = "open"
                 PROVE  Cardinality(asked[k] \ ToSet(Pipeline(k))) <= MaxDrops
      BY DEF MissedBounded
    <2> DEFINE S == All(got[k], down[k], conn[k].sending, conn[k].queue)
    <2>1. /\ ConnSound(conn[k], cli[k], got[k], down[k], asked[k], broadcast)
          /\ FanSizes /\ conn[k] \in Conns
      BY FanHeld
    <2>2. /\ conn[k].dropped =< MaxDrops /\ Cardinality(asked[k] \ S) =< conn[k].dropped
          /\ asked[k] \in SUBSET BusEvents
      BY <2>1 DEF ConnSound, Flow
    <2>3. ToSet(Pipeline(k)) = S
      BY PipelineSound
    <2>4. Cardinality(asked[k] \ S) \in Nat
      BY <2>1, <2>2, MissedFinite
    <2>5. conn[k].dropped \in Nat /\ MaxDrops \in Nat
      BY <2>1, ConnTyped DEF FanSizes
    <2> HIDE DEF S
    <2> QED
      BY <2>2, <2>3, <2>4, <2>5
  <1> QED
    BY <1>1, FanHolds, PTL
================================================================================
