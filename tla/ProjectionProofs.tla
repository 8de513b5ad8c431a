--------------------------- MODULE ProjectionProofs ---------------------------
(***************************************************************************)
(* Proofs about Projection: the tables say what the events say, although   *)
(* half of them are written beside the transaction, batches roll back and  *)
(* are fetched again, and a restart recovers what follows the cursor and   *)
(* then replays the log from its first event; and an event is pushed once, *)
(* although its calls look, push and record in separate awaits.            *)
(*                                                                         *)
(* The tables are compared with a prefix of the log.  A table may be ahead *)
(* of the prefix, since a replay starts again behind what was written; it  *)
(* is never behind it, and where it is ahead it holds what a later event   *)
(* wrote.  What passes the next event, forgets part of the prefix, or adds *)
(* an event to the log, keeps this.                                        *)
(*                                                                         *)
(* At the end, proofs about LiveInbox, which reads the follow and like     *)
(* rows of these tables.                                                   *)
(***************************************************************************)
EXTENDS Projection, LiveInbox, FiniteSetTheorems, SequenceTheorems, WellFoundedInduction, TLAPS

(***************************************************************************)
(* The events of a log, by their topic, user and post.                     *)
(***************************************************************************)
Emitted == {Event(k, u, p) : k \in UNION {f.topics : f \in Families}, u \in Users, p \in Posts}

At(l, k) == {i \in 1 .. Len(l) : l[i].kind = k}
AtUser(l, k, u) == {i \in At(l, k) : l[i].user = u}
AtPost(l, k, p) == {i \in At(l, k) : l[i].post = p}
AtPair(l, k, u, p) == {i \in At(l, k) : l[i].user = u /\ l[i].post = p}

Deletion == {"post_deleted", "post_removed"}
OfLivePost == {"like", "tip"} \cup Deletion
OfProposal == {"gov_proposal_executed", "gov_proposal_vetoed"}
OfAdmin == {"pool_admin_added", "pool_admin_removed"}

(***************************************************************************)
(* What the contract's guards leave of the order of a log.                 *)
(***************************************************************************)
CreatedBefore(l, i) == \E j \in 1 .. i - 1 : l[j].kind = "post_created" /\ l[j].post = l[i].post
DeletedBefore(l, i) == \E j \in 1 .. i - 1 : l[j].kind \in Deletion /\ l[j].post = l[i].post
KindBefore(l, k, i) == \E j \in 1 .. i - 1 : l[j].kind = k

LogSound(l) ==
    /\ l \in Seq(Emitted) /\ Len(l) =< MaxLog
    /\ \A i \in 1 .. Len(l) : l[i].kind \in OfLivePost => CreatedBefore(l, i) /\ ~DeletedBefore(l, i)
    /\ \A i \in 1 .. Len(l) : l[i].kind \in OfAdmin => KindBefore(l, "pool_created", i)
    /\ \A i \in 1 .. Len(l) : l[i].kind \in OfProposal => KindBefore(l, "gov_proposal_created", i)
    /\ \A i, j \in At(l, "gov_proposal_created") : i = j
    /\ \A i, j \in At(l, "gov_vote") : l[i].user = l[j].user => i = j

(***************************************************************************)
(* A row x of table T that the events of on insert and those of off take   *)
(* out, and a column v that holds the position of the event that set it:   *)
(* both relative to the first n events.  Of what no event takes back, the  *)
(* tables hold more: all of the first h events, the committed ones and the *)
(* ones of the open batch.                                                 *)
(***************************************************************************)
Tracks(x, T, on, off, n) ==
    /\ x \in T => \E i \in on : \A j \in off : j =< n => j < i
    /\ x \notin T => \A i \in on : i =< n => \E j \in off : i < j

Shows(v, on, off, n) ==
    /\ v = 0 => \A i \in on : i =< n => \E j \in off : i < j
    /\ v # 0 => v \in on /\ \A j \in on \cup off : j =< n => j =< v

(***************************************************************************)
(* The tables written in the transaction.                                  *)
(***************************************************************************)
RowSet == [follows : SUBSET Users, blocks : SUBSET Users, likes : SUBSET (Users \X Posts),
           count : [Posts -> Nat], tips : Seq(Posts), total : [Posts -> Nat],
           dmKey : [Users -> Nat], dead : SUBSET Nat]

RowsTrack(l, r, n, h) ==
    /\ \A u \in Users :
          /\ Tracks(u, r.follows, AtUser(l, "follow", u), AtUser(l, "unfollow", u), n)
          /\ Tracks(u, r.blocks, AtUser(l, "block", u), AtUser(l, "unblock", u), n)
          /\ Shows(r.dmKey[u], AtUser(l, "dm_key_published", u), {}, n)
    /\ r.dead \subseteq At(l, "malformed") /\ \A i \in At(l, "malformed") : i =< h => i \in r.dead
    /\ \A i \in At(l, "like") : i =< h => <<l[i].user, l[i].post>> \in r.likes
    /\ \A i \in At(l, "tip") : i =< h => r.tips # << >>
    /\ r.tips # << >> => At(l, "tip") # {}

LikesOn(r, p) == {x \in r.likes : x[2] = p}

RowsCounted(r) ==
    /\ IsFiniteSet(r.likes) /\ \A p \in Posts : r.count[p] = Cardinality(LikesOn(r, p))
    /\ \/ r.tips = << >> /\ \A p \in Posts : r.total[p] = 0
       \/ \E q \in Posts : r.tips = <<q>> /\ \A p \in Posts : r.total[p] = IF p = q THEN 1 ELSE 0

RowsSound(l, r, n, h) == r \in RowSet /\ RowsTrack(l, r, n, h) /\ RowsCounted(r)

(***************************************************************************)
(* The tables written beside it.                                           *)
(***************************************************************************)
DirectSet == [posts : [Posts -> {"none", "live", "deleted"}], pending : SUBSET (Users \X Posts),
              profile : [Users -> Nat], pool : BOOLEAN, balance : Nat, admins : SUBSET Users,
              status : {"none", "Active", "Executed", "Vetoed"}, voters : SUBSET Users, tally : Nat]

PostsTrack(l, d, h) ==
    \A p \in Posts :
        /\ d.posts[p] = "none" => \A i \in AtPost(l, "post_created", p) : i > h
        /\ d.posts[p] # "none" => AtPost(l, "post_created", p) # {}
        /\ d.posts[p] # "deleted" => \A k \in Deletion : \A i \in AtPost(l, k, p) : i > h
        /\ d.posts[p] = "deleted" => \E k \in Deletion : AtPost(l, k, p) # {}

ReportsTrack(l, d, n) ==
    \A u \in Users, p \in Posts :
        Tracks(<<u, p>>, d.pending, AtPair(l, "post_reported", u, p),
               AtPair(l, "report_dismissed", u, p) \cup AtPost(l, "post_removed", p), n)

ProfilesTrack(l, d, n) ==
    \A u \in Users :
        Shows(d.profile[u], AtUser(l, "profile_set", u), AtUser(l, "profile_deleted", u), n)

PoolTracks(l, d, n, h) ==
    /\ d.pool = FALSE => \A i \in At(l, "pool_created") : i > h
    /\ \A u \in Users : Tracks(u, d.admins, AtUser(l, "pool_admin_added", u),
                               AtUser(l, "pool_admin_removed", u), n)

ProposalTracks(l, d, n, h) ==
    /\ d.status = "none" => \A i \in At(l, "gov_proposal_created") : i > h
    /\ Tracks("Active", {d.status}, At(l, "gov_proposal_created"),
              At(l, "gov_proposal_executed") \cup At(l, "gov_proposal_vetoed"), n)

VotesTrack(l, d, h) ==
    /\ IsFiniteSet(d.voters) /\ d.tally = Cardinality(d.voters)
    /\ \A u \in d.voters : AtUser(l, "gov_vote", u) # {}
    /\ \A i \in At(l, "gov_vote") : i =< h => l[i].user \in d.voters

DirectSound(l, d, n, h) ==
    /\ d \in DirectSet /\ PostsTrack(l, d, h) /\ ReportsTrack(l, d, n) /\ ProfilesTrack(l, d, n)
    /\ PoolTracks(l, d, n, h) /\ ProposalTracks(l, d, n, h) /\ VotesTrack(l, d, h)

(***************************************************************************)
(* A post is deleted beside the transaction only after the likes and the   *)
(* tip that count on it are committed: otherwise the transaction that      *)
(* inserted them holds the lock of the post's row.                         *)
(***************************************************************************)
FirstTip(l, i) == i \in At(l, "tip") /\ \A j \in At(l, "tip") : i =< j

CountedBeforeDeleted(l, d, r) ==
    /\ \A i \in At(l, "like") : d.posts[l[i].post] = "deleted" => <<l[i].user, l[i].post>> \in r.likes
    /\ \A i \in At(l, "tip") : FirstTip(l, i) /\ d.posts[l[i].post] = "deleted" => r.tips # << >>

LocksHeld(l, r, q, locks) ==
    /\ r.likes \subseteq q.likes /\ (r.tips # << >> => q.tips # << >>)
    /\ \A x \in q.likes \ r.likes : x[2] \in locks
    /\ \A i \in At(l, "tip") :
          FirstTip(l, i) /\ r.tips = << >> /\ q.tips # << >> => l[i].post \in locks

(***************************************************************************)
(* Where the stream is.  Until the startup recovery is over, the rows that *)
(* events set and take back may be those of a replay that was cut short.   *)
(***************************************************************************)
TxSet == [open : BOOLEAN, next : Nat, to : Nat, rows : RowSet, locks : SUBSET Posts,
          step : Steps \cup {"run"}]

Reached == IF tx.open THEN tx.next - 1 ELSE at
Sure(n) == IF recovering THEN 0 ELSE n
Seen == IF processed < Reached THEN Reached ELSE processed

Place ==
    /\ at \in 0 .. Len(log) /\ processed \in at .. Len(log) /\ recovering \in BOOLEAN
    /\ tx \in TxSet
    /\ tx.open => /\ tx.to \in at + 1 .. Len(log) /\ tx.next \in at + 1 .. tx.to + 1
                  /\ tx.to - at =< PageSize
    /\ tx.open /\ tx.step \in Steps => tx.next # at + 1
    /\ listening \in [1 .. MaxLog -> [Steps -> Nat]]
    /\ \A i \in 1 .. MaxLog : InFlight(i) => i =< processed /\ log[i].kind \in Notifying

TablesSound ==
    /\ RowsSound(log, rows, Sure(at), processed) /\ DirectSound(log, direct, Sure(Reached), Seen)
    /\ tx.open => /\ RowsSound(log, tx.rows, Sure(Reached), Seen)
                  /\ LocksHeld(log, rows, tx.rows, tx.locks)
    /\ CountedBeforeDeleted(log, direct, rows)

(***************************************************************************)
(* The calls that dispatch event i: c counts those of the bus listener by  *)
(* step, g is the step of its handler, s counts the pushes and M is the    *)
(* set of recorded events.  Unless a push could not be recorded, or the    *)
(* event was handled while its listener was busy, there is one call at a   *)
(* time, and it sends nothing that was sent.                               *)
(***************************************************************************)
Handler(i) == IF tx.open /\ tx.next = i + 1 THEN tx.step ELSE "run"

Busy(c) == \E x \in Steps : c[x] > 0
Calling(c, g, x) == c[x] > 0 \/ g = x

OneCall(i, c, g, s, M) ==
    /\ \A x, y \in Steps : c[x] > 0 /\ c[y] > 0 => x = y /\ c[x] = 1
    /\ Busy(c) => g = "run"
    /\ s =< 1 /\ (s = 1 => i \in M \/ Calling(c, g, "mark"))
    /\ Calling(c, g, "send") => s = 0

Handled(i) == tx.open /\ i \in at + 1 .. tx.next - 1

PushSound ==
    /\ sent \in [1 .. MaxLog -> Nat] /\ marked \subseteq 1 .. MaxLog
    /\ \A i \in marked : sent[i] >= 1
    /\ \A i \in 1 .. MaxLog : Calling(listening[i], Handler(i), "mark") => sent[i] >= 1
    /\ \A i \in 1 .. MaxLog : i \notin unmarked \cup refetched =>
          /\ OneCall(i, listening[i], Handler(i), sent[i], marked)
          /\ Handled(i) => ~Busy(listening[i])

ProjectionInv == LogSound(log) /\ Place /\ PushSound /\ TablesSound

-----------------------------------------------------------------------------
(***************************************************************************)
(* A row or a column against a longer prefix, a shorter one, and a log     *)
(* that grew behind the prefix.  The event after a prefix extends it; one  *)
(* further behind, which the recovery passes, leaves it as it is.          *)
(***************************************************************************)
Passes(n, n2, i) == (n = i - 1 /\ n2 = i) \/ (n < i /\ n2 = n)
Extends(h, h2, i) == i - 1 =< h /\ h2 = IF h < i THEN i ELSE h

LEMMA TracksStep ==
    ASSUME NEW x, NEW T, NEW T2, NEW on \in SUBSET Nat, NEW off \in SUBSET Nat, NEW m \in Nat,
           NEW n \in Nat, NEW n2 \in Nat, Passes(n, n2, m),
           Tracks(x, T, on, off, n), ~(m \in on /\ m \in off),
           m \in on => x \in T2, m \in off => x \notin T2,
           m \notin on \cup off => (x \in T2 <=> x \in T)
    PROVE  Tracks(x, T2, on, off, n2)
  <1>1. \A j \in on \cup off : j \in Nat
    OBVIOUS
  <1>2. \A j \in on \cup off : j =< n2 => j = m \/ j =< n
    BY <1>1 DEF Passes
  <1>3. \A j \in on \cup off : j =< n2 /\ j # m => j < m
    BY <1>1 DEF Passes
  <1>4. CASE m \in on
    BY <1>3, <1>4 DEF Tracks
  <1>5. CASE m \in off
    BY <1>3, <1>5 DEF Tracks
  <1>6. CASE m \notin on \cup off
    BY <1>2, <1>6 DEF Tracks
  <1> QED
    BY <1>4, <1>5, <1>6

LEMMA TracksGrow ==
    ASSUME NEW x, NEW T, NEW on, NEW off, NEW on2 \in SUBSET Nat, NEW off2 \in SUBSET Nat,
           NEW n \in Nat, NEW m \in Nat, m =< n, Tracks(x, T, on, off, n),
           on \subseteq on2, off \subseteq off2,
           \A j \in on2 : j \in on \/ j > n, \A j \in off2 : j \in off \/ j > n
    PROVE  Tracks(x, T, on2, off2, m)
  <1>1. \A j \in on2 : j =< m => j \in on /\ j =< n
    OBVIOUS
  <1>2. \A j \in off2 : j =< m => j \in off /\ j =< n
    OBVIOUS
  <1> QED
    BY <1>1, <1>2 DEF Tracks

LEMMA TracksEnd ==
    ASSUME NEW x, NEW T, NEW n \in Nat, NEW on \in SUBSET (1 .. n), NEW off \in SUBSET (1 .. n),
           Tracks(x, T, on, off, n)
    PROVE  x \in T <=> Latest(on, off)
  <1>1. \A j \in on \cup off : j \in Nat /\ j =< n
    OBVIOUS
  <1>2. \A i \in on, j \in off : i < j => ~(j < i)
    BY <1>1
  <1> QED
    BY <1>1, <1>2 DEF Tracks, Latest

LEMMA ShowsStep ==
    ASSUME NEW v \in Nat, NEW v2 \in Nat, NEW on \in SUBSET Nat, NEW off \in SUBSET Nat,
           NEW m \in Nat \ {0}, NEW n \in Nat, NEW n2 \in Nat, Passes(n, n2, m),
           Shows(v, on, off, n), ~(m \in on /\ m \in off),
           m \in on => v2 = m, m \in off => v2 = 0, m \notin on \cup off => v2 = v
    PROVE  Shows(v2, on, off, n2)
  <1>1. \A j \in on \cup off : j \in Nat
    OBVIOUS
  <1>2. \A j \in on \cup off : j =< n2 => j = m \/ j =< n
    BY <1>1 DEF Passes
  <1>3. \A j \in on \cup off : j =< n2 /\ j # m => j < m
    BY <1>1 DEF Passes
  <1>4. CASE m \in on
    BY <1>3, <1>4 DEF Shows
  <1>5. CASE m \in off
    BY <1>3, <1>5 DEF Shows
  <1>6. CASE m \notin on \cup off
    BY <1>2, <1>6 DEF Shows
  <1> QED
    BY <1>4, <1>5, <1>6

LEMMA ShowsGrow ==
    ASSUME NEW v, NEW on, NEW off, NEW on2 \in SUBSET Nat, NEW off2 \in SUBSET Nat,
           NEW n \in Nat, NEW m \in Nat, m =< n, Shows(v, on, off, n),
           on \subseteq on2, off \subseteq off2,
           \A j \in on2 : j \in on \/ j > n, \A j \in off2 : j \in off \/ j > n
    PROVE  Shows(v, on2, off2, m)
  <1>1. \A j \in on2 : j =< m => j \in on /\ j =< n
    OBVIOUS
  <1>2. \A j \in off2 : j =< m => j \in off /\ j =< n
    OBVIOUS
  <1> QED
    BY <1>1, <1>2 DEF Shows

LEMMA ShowsEnd ==
    ASSUME NEW n \in Nat, NEW v \in Nat, NEW on \in SUBSET (1 .. n), NEW off \in SUBSET (1 .. n),
           on \cap off = {}, Shows(v, on, off, n)
    PROVE  v = IF Latest(on, off) THEN CHOOSE i \in on : \A j \in on : j =< i ELSE 0
  <1>1. \A j \in on \cup off : j \in Nat /\ j =< n /\ j # 0
    OBVIOUS
  <1>2. CASE v = 0
    <2>1. \A i \in on : \E j \in off : i < j
      BY <1>1, <1>2 DEF Shows
    <2>2. \A i \in on, j \in off : i < j => ~(j < i)
      BY <1>1
    <2>3. ~Latest(on, off)
      BY <2>1, <2>2 DEF Latest
    <2> QED
      BY <1>2, <2>3
  <1>3. CASE v # 0
    <2>1. v \in on /\ \A j \in on \cup off : j =< v
      BY <1>1, <1>3 DEF Shows
    <2>2. \A j \in off : j < v
      BY <1>1, <2>1
    <2>3. Latest(on, off)
      BY <2>1, <2>2 DEF Latest
    <2>4. \A i, j \in on : i =< j /\ j =< i => i = j
      BY <1>1
    <2>5. v = CHOOSE i \in on : \A j \in on : j =< i
      <3> DEFINE w == CHOOSE i \in on : \A j \in on : j =< i
      <3>1. w \in on /\ \A j \in on : j =< w
        BY <2>1
      <3> QED
        BY <2>1, <2>4, <3>1
    <2> QED
      BY <2>3, <2>5
  <1> QED
    BY <1>2, <1>3

-----------------------------------------------------------------------------
(***************************************************************************)
(* A log that grew, or the same log, against a shorter prefix: emitting an *)
(* event, rolling a batch back and starting again.                         *)
(***************************************************************************)
Grows(l, l2) ==
    /\ Len(l) \in Nat /\ Len(l2) \in Nat /\ Len(l) =< Len(l2)
    /\ \A i \in 1 .. Len(l) : l2[i] = l[i]

Within(A, B, n) == A \subseteq B /\ B \subseteq Nat /\ \A j \in B : j \in A \/ j > n

LEMMA AtGrow ==
    ASSUME NEW l, NEW l2, Grows(l, l2), NEW n \in Nat, n =< Len(l), NEW k
    PROVE  /\ Within(At(l, k), At(l2, k), n)
           /\ \A u : Within(AtUser(l, k, u), AtUser(l2, k, u), n)
           /\ \A p : Within(AtPost(l, k, p), AtPost(l2, k, p), n)
           /\ \A u, p : Within(AtPair(l, k, u, p), AtPair(l2, k, u, p), n)
  <1>1. \A i \in 1 .. Len(l) : i \in 1 .. Len(l2) /\ l2[i] = l[i]
    BY DEF Grows
  <1>2. \A i \in 1 .. Len(l2) : i \in Nat /\ (i \in 1 .. Len(l) \/ i > n)
    BY DEF Grows
  <1>3. Within(At(l, k), At(l2, k), n)
    BY <1>1, <1>2 DEF Within, At
  <1>4. ASSUME NEW u PROVE Within(AtUser(l, k, u), AtUser(l2, k, u), n)
    BY <1>1, <1>2 DEF Within, At, AtUser
  <1>5. ASSUME NEW p PROVE Within(AtPost(l, k, p), AtPost(l2, k, p), n)
    BY <1>1, <1>2 DEF Within, At, AtPost
  <1>6. ASSUME NEW u, NEW p PROVE Within(AtPair(l, k, u, p), AtPair(l2, k, u, p), n)
    BY <1>1, <1>2 DEF Within, At, AtPair
  <1> QED
    BY <1>3, <1>4, <1>5, <1>6

LEMMA WithinCup ==
    ASSUME NEW A, NEW A2, NEW B, NEW B2, NEW n, Within(A, A2, n), Within(B, B2, n)
    PROVE  Within(A \cup B, A2 \cup B2, n)
  BY DEF Within

LEMMA TracksWithin ==
    ASSUME NEW x, NEW T, NEW on, NEW off, NEW on2, NEW off2, NEW n \in Nat, NEW m \in Nat,
           m =< n, Tracks(x, T, on, off, n), Within(on, on2, n), Within(off, off2, n)
    PROVE  Tracks(x, T, on2, off2, m)
  <1>1. /\ on2 \in SUBSET Nat /\ off2 \in SUBSET Nat /\ on \subseteq on2 /\ off \subseteq off2
        /\ \A j \in on2 : j \in on \/ j > n
        /\ \A j \in off2 : j \in off \/ j > n
    BY DEF Within
  <1> QED
    BY <1>1, TracksGrow

LEMMA ShowsWithin ==
    ASSUME NEW v, NEW on, NEW off, NEW on2, NEW off2, NEW n \in Nat, NEW m \in Nat,
           m =< n, Shows(v, on, off, n), Within(on, on2, n), Within(off, off2, n)
    PROVE  Shows(v, on2, off2, m)
  <1>1. /\ on2 \in SUBSET Nat /\ off2 \in SUBSET Nat /\ on \subseteq on2 /\ off \subseteq off2
        /\ \A j \in on2 : j \in on \/ j > n
        /\ \A j \in off2 : j \in off \/ j > n
    BY DEF Within
  <1> QED
    BY <1>1, ShowsGrow

LEMMA RowsGrow ==
    ASSUME NEW l, NEW l2, NEW r, NEW n \in Nat, NEW m \in Nat, NEW h \in Nat, NEW g \in Nat,
           Grows(l, l2), n =< Len(l), m =< n, h =< Len(l), g =< h, RowsTrack(l, r, n, h)
    PROVE  RowsTrack(l2, r, m, g)
  <1>1. ASSUME NEW u \in Users
        PROVE  Tracks(u, r.follows, AtUser(l2, "follow", u), AtUser(l2, "unfollow", u), m)
    <2>1. Tracks(u, r.follows, AtUser(l, "follow", u), AtUser(l, "unfollow", u), n)
      BY DEF RowsTrack
    <2> QED
      BY <2>1, AtGrow, TracksWithin
  <1>2. ASSUME NEW u \in Users
        PROVE  Tracks(u, r.blocks, AtUser(l2, "block", u), AtUser(l2, "unblock", u), m)
    <2>1. Tracks(u, r.blocks, AtUser(l, "block", u), AtUser(l, "unblock", u), n)
      BY DEF RowsTrack
    <2> QED
      BY <2>1, AtGrow, TracksWithin
  <1>3. ASSUME NEW u \in Users
        PROVE  Shows(r.dmKey[u], AtUser(l2, "dm_key_published", u), {}, m)
    <2>1. Shows(r.dmKey[u], AtUser(l, "dm_key_published", u), {}, n)
      BY DEF RowsTrack
    <2>2. Within({}, {}, n)
      BY DEF Within
    <2> QED
      BY <2>1, <2>2, AtGrow, ShowsWithin
  <1>4. /\ \A i \in At(l, "malformed") : i \in At(l2, "malformed")
        /\ \A i \in At(l2, "malformed") : i \in Nat /\ (i =< g => i \in At(l, "malformed") /\ i =< h)
    BY AtGrow DEF Within
  <1>5. r.dead \subseteq At(l2, "malformed") /\ \A i \in At(l2, "malformed") : i =< g => i \in r.dead
    BY <1>4 DEF RowsTrack
  <1>6. ASSUME NEW k, NEW i \in At(l2, k), i =< g
        PROVE  i \in At(l, k) /\ i =< h /\ l2[i] = l[i]
    <2>1. i \in Nat /\ i \in At(l, k)
      BY <1>6, AtGrow DEF Within
    <2> QED
      BY <1>6, <2>1 DEF Grows, At
  <1>7. \A i \in At(l2, "like") : i =< g => <<l2[i].user, l2[i].post>> \in r.likes
    BY <1>6 DEF RowsTrack
  <1>8. \A i \in At(l2, "tip") : i =< g => r.tips # << >>
    BY <1>6 DEF RowsTrack
  <1>9. r.tips # << >> => At(l2, "tip") # {}
    BY AtGrow DEF RowsTrack, Within
  <1> QED
    BY <1>1, <1>2, <1>3, <1>5, <1>7, <1>8, <1>9 DEF RowsTrack

LEMMA DirectGrow ==
    ASSUME NEW l, NEW l2, NEW d, NEW n \in Nat, NEW m \in Nat, NEW h \in Nat, NEW g \in Nat,
           Grows(l, l2), n =< Len(l), m =< n, h =< Len(l), g =< h, DirectSound(l, d, n, h)
    PROVE  DirectSound(l2, d, m, g)
  <1>1. ASSUME NEW k, NEW p
        PROVE  /\ AtPost(l, k, p) # {} => AtPost(l2, k, p) # {}
               /\ (\A i \in AtPost(l, k, p) : i > h) => \A i \in AtPost(l2, k, p) : i > g
    <2>1. Within(AtPost(l, k, p), AtPost(l2, k, p), h)
      BY AtGrow
    <2>2. \A i \in AtPost(l2, k, p) : i \in Nat /\ (i > h => i > g)
      BY <2>1 DEF Within
    <2> QED
      BY <2>1, <2>2 DEF Within
  <1>2. PostsTrack(l2, d, g)
    BY <1>1 DEF DirectSound, PostsTrack
  <1>3. ReportsTrack(l2, d, m)
    <2> SUFFICES ASSUME NEW u \in Users, NEW p \in Posts
                 PROVE  Tracks(<<u, p>>, d.pending, AtPair(l2, "post_reported", u, p),
                            AtPair(l2, "report_dismissed", u, p) \cup AtPost(l2, "post_removed", p), m)
      BY DEF ReportsTrack
    <2>1. Tracks(<<u, p>>, d.pending, AtPair(l, "post_reported", u, p),
                 AtPair(l, "report_dismissed", u, p) \cup AtPost(l, "post_removed", p), n)
      BY DEF DirectSound, ReportsTrack
    <2>2. Within(AtPair(l, "report_dismissed", u, p) \cup AtPost(l, "post_removed", p),
                 AtPair(l2, "report_dismissed", u, p) \cup AtPost(l2, "post_removed", p), n)
      BY AtGrow, WithinCup
    <2>3. Within(AtPair(l, "post_reported", u, p), AtPair(l2, "post_reported", u, p), n)
      BY AtGrow
    <2> QED
      BY <2>1, <2>2, <2>3, TracksWithin
  <1>4. ProfilesTrack(l2, d, m)
    <2> SUFFICES ASSUME NEW u \in Users
                 PROVE  Shows(d.profile[u], AtUser(l2, "profile_set", u),
                              AtUser(l2, "profile_deleted", u), m)
      BY DEF ProfilesTrack
    <2>1. Shows(d.profile[u], AtUser(l, "profile_set", u), AtUser(l, "profile_deleted", u), n)
      BY DEF DirectSound, ProfilesTrack
    <2> QED
      BY <2>1, AtGrow, ShowsWithin
  <1>5. ASSUME NEW k
        PROVE  (\A i \in At(l, k) : i > h) => \A i \in At(l2, k) : i > g
    <2>1. Within(At(l, k), At(l2, k), h)
      BY AtGrow
    <2>2. \A i \in At(l2, k) : i \in Nat /\ (i > h => i > g)
      BY <2>1 DEF Within
    <2> QED
      BY <2>1, <2>2 DEF Within
  <1>6. PoolTracks(l2, d, m, g)
    <2>1. ASSUME NEW u \in Users
          PROVE  Tracks(u, d.admins, AtUser(l2, "pool_admin_added", u),
                        AtUser(l2, "pool_admin_removed", u), m)
      <3>1. Tracks(u, d.admins, AtUser(l, "pool_admin_added", u), AtUser(l, "pool_admin_removed", u), n)
        BY DEF DirectSound, PoolTracks
      <3> QED
        BY <3>1, AtGrow, TracksWithin
    <2> QED
      BY <1>5, <2>1 DEF DirectSound, PoolTracks
  <1>7. ProposalTracks(l2, d, m, g)
    <2>1. Tracks("Active", {d.status}, At(l, "gov_proposal_created"),
                 At(l, "gov_proposal_executed") \cup At(l, "gov_proposal_vetoed"), n)
      BY DEF DirectSound, ProposalTracks
    <2>2. Within(At(l, "gov_proposal_executed") \cup At(l, "gov_proposal_vetoed"),
                 At(l2, "gov_proposal_executed") \cup At(l2, "gov_proposal_vetoed"), n)
      BY AtGrow, WithinCup
    <2>3. Tracks("Active", {d.status}, At(l2, "gov_proposal_created"),
                 At(l2, "gov_proposal_executed") \cup At(l2, "gov_proposal_vetoed"), m)
      BY <2>1, <2>2, AtGrow, TracksWithin
    <2> QED
      BY <1>5, <2>3 DEF DirectSound, ProposalTracks
  <1>8. VotesTrack(l2, d, g)
    <2>1. ASSUME NEW i \in At(l2, "gov_vote"), i =< g PROVE l2[i].user \in d.voters
      <3>1. i \in Nat /\ i \in At(l, "gov_vote")
        BY <2>1, AtGrow DEF Within
      <3>2. i =< h /\ l2[i] = l[i]
        BY <2>1, <3>1 DEF Grows, At
      <3> QED
        BY <3>1, <3>2 DEF DirectSound, VotesTrack
    <2>2. ASSUME NEW u \in d.voters PROVE AtUser(l2, "gov_vote", u) # {}
      <3>1. AtUser(l, "gov_vote", u) # {}
        BY DEF DirectSound, VotesTrack
      <3> QED
        BY <3>1, AtGrow DEF Within
    <2> QED
      BY <2>1, <2>2 DEF DirectSound, VotesTrack
  <1> QED
    BY <1>2, <1>3, <1>4, <1>6, <1>7, <1>8 DEF DirectSound

-----------------------------------------------------------------------------
(***************************************************************************)
(* What one event writes.                                                  *)
(***************************************************************************)
LEMMA EventFields ==
    ASSUME NEW e \in Emitted
    PROVE  (e.kind \notin NoUser => e.user \in Users) /\ (e.kind \in OnPost => e.post \in Posts)
  <1>1. PICK k \in UNION {f.topics : f \in Families}, u \in Users, p \in Posts : e = Event(k, u, p)
    BY DEF Emitted
  <1>2. e.kind = k /\ e.user = (IF k \in NoUser THEN None ELSE u)
        /\ e.post = IF k \in OnPost THEN p ELSE None
    BY <1>1 DEF Event
  <1> QED
    BY <1>2

LEMMA ClientWrites ==
    ASSUME NEW i, NEW r
    PROVE  /\ log[i].kind = "follow" => OnClient(i, r) = handleFollow(r, log[i].user)
           /\ log[i].kind = "unfollow" => OnClient(i, r) = handleUnfollow(r, log[i].user)
           /\ log[i].kind = "block" => OnClient(i, r) = handleBlock(r, log[i].user)
           /\ log[i].kind = "unblock" => OnClient(i, r) = handleUnblock(r, log[i].user)
           /\ log[i].kind = "like" => OnClient(i, r) = handleLike(r, log[i].user, log[i].post)
           /\ log[i].kind = "tip" => OnClient(i, r) = handleTip(r, log[i].post)
           /\ log[i].kind = "dm_key_published" => OnClient(i, r) = handleDmKeyPublished(r, log[i].user, i)
           /\ log[i].kind = "malformed" => OnClient(i, r) = deadLetter(r, i)
           /\ log[i].kind \notin {"follow", "unfollow", "block", "unblock", "like", "tip",
                                  "dm_key_published", "malformed"} => OnClient(i, r) = r
  BY DEF OnClient

LEMMA PoolWrites ==
    ASSUME NEW i, NEW d
    PROVE  /\ log[i].kind = "post_created" => OnPool(i, d) = insertPost(d, log[i].post)
           /\ log[i].kind = "post_deleted" => OnPool(i, d) = markPostDeleted(d, log[i].post)
           /\ log[i].kind = "post_removed" => OnPool(i, d) = handlePostRemovedByModeration(d, log[i].post)
           /\ log[i].kind = "post_reported" => OnPool(i, d) = insertReport(d, log[i].user, log[i].post)
           /\ log[i].kind = "report_dismissed"
                 => OnPool(i, d) = updateReportStatus(d, log[i].user, log[i].post)
           /\ log[i].kind = "profile_set" => OnPool(i, d) = upsertProfile(d, log[i].user, i)
           /\ log[i].kind = "profile_deleted" => OnPool(i, d) = deleteProfile(d, log[i].user)
           /\ log[i].kind = "pool_created" => OnPool(i, d) = insertPool(d)
           /\ log[i].kind = "pool_deposit" => OnPool(i, d) = adjustPoolBalance(d, 1)
           /\ log[i].kind = "pool_withdraw" => OnPool(i, d) = adjustPoolBalance(d, -1)
           /\ log[i].kind = "pool_admin_added" => OnPool(i, d) = addPoolAdmin(d, log[i].user)
           /\ log[i].kind = "pool_admin_removed" => OnPool(i, d) = removePoolAdmin(d, log[i].user)
           /\ log[i].kind = "gov_proposal_created" => OnPool(i, d) = upsertGovernanceProposal(d)
           /\ log[i].kind = "gov_vote" => OnPool(i, d) = insertGovernanceVote(d, log[i].user)
           /\ log[i].kind = "gov_proposal_executed"
                 => OnPool(i, d) = updateGovernanceProposalStatus(d, "Executed")
           /\ log[i].kind = "gov_proposal_vetoed"
                 => OnPool(i, d) = updateGovernanceProposalStatus(d, "Vetoed")
           /\ log[i].kind \notin {"post_created", "post_deleted", "post_removed", "post_reported",
                  "report_dismissed", "profile_set", "profile_deleted", "pool_created",
                  "pool_deposit", "pool_withdraw", "pool_admin_added", "pool_admin_removed",
                  "gov_proposal_created", "gov_vote", "gov_proposal_executed",
                  "gov_proposal_vetoed"} => OnPool(i, d) = d
  BY DEF OnPool

(***************************************************************************)
(* The same by table: what is in it after the event r2 or d2 passed.       *)
(***************************************************************************)
ClientTables(e, i, r, d, r2) ==
    /\ r2.follows = IF e.kind = "follow" THEN r.follows \cup {e.user}
                    ELSE IF e.kind = "unfollow" THEN r.follows \ {e.user} ELSE r.follows
    /\ r2.blocks = IF e.kind = "block" THEN r.blocks \cup {e.user}
                   ELSE IF e.kind = "unblock" THEN r.blocks \ {e.user} ELSE r.blocks
    /\ r2.dmKey = IF e.kind = "dm_key_published" THEN [r.dmKey EXCEPT ![e.user] = i] ELSE r.dmKey
    /\ r2.dead = IF e.kind = "malformed" THEN r.dead \cup {i} ELSE r.dead
    /\ r2.likes = IF e.kind = "like" THEN r.likes \cup {<<e.user, e.post>>} ELSE r.likes
    /\ r2.count = IF e.kind = "like" /\ <<e.user, e.post>> \notin r.likes /\ d.posts[e.post] = "live"
                  THEN [r.count EXCEPT ![e.post] = @ + 1] ELSE r.count
    /\ r2.tips = IF e.kind = "tip" /\ r.tips = << >> THEN <<e.post>> ELSE r.tips
    /\ r2.total = IF e.kind = "tip" /\ r.tips = << >> /\ d.posts[e.post] = "live"
                  THEN [r.total EXCEPT ![e.post] = @ + 1] ELSE r.total

LEMMA ClientByTable ==
    ASSUME NEW i \in 1 .. Len(log), log[i] \in Emitted, NEW r \in RowSet
    PROVE  OnClient(i, r) \in RowSet /\ ClientTables(log[i], i, r, direct, OnClient(i, r))
  <1> DEFINE e == log[i]
             r2 == OnClient(i, r)
  <1>1. (e.kind \notin NoUser => e.user \in Users) /\ (e.kind \in OnPost => e.post \in Posts)
    BY EventFields
  <1>2. i \in Nat
    OBVIOUS
  <1>3. CASE e.kind = "follow"
    <2>1. r2 = handleFollow(r, e.user)
      BY <1>3, ClientWrites
    <2>2. e.user \in Users
      BY <1>1, <1>3 DEF NoUser
    <2>4. r2 \in RowSet
      BY <1>2, <2>1, <2>2 DEF handleFollow, RowSet
    <2> QED
      BY <1>3, <2>1, <2>4 DEF handleFollow, RowSet, ClientTables
  <1>4. CASE e.kind = "unfollow"
    <2>1. r2 = handleUnfollow(r, e.user)
      BY <1>4, ClientWrites
    <2>2. e.user \in Users
      BY <1>1, <1>4 DEF NoUser
    <2>4. r2 \in RowSet
      BY <1>2, <2>1, <2>2 DEF handleUnfollow, RowSet
    <2> QED
      BY <1>4, <2>1, <2>4 DEF handleUnfollow, RowSet, ClientTables
  <1>5. CASE e.kind = "block"
    <2>1. r2 = handleBlock(r, e.user)
      BY <1>5, ClientWrites
    <2>2. e.user \in Users
      BY <1>1, <1>5 DEF NoUser
    <2>4. r2 \in RowSet
      BY <1>2, <2>1, <2>2 DEF handleBlock, RowSet
    <2> QED
      BY <1>5, <2>1, <2>4 DEF handleBlock, RowSet, ClientTables
  <1>6. CASE e.kind = "unblock"
    <2>1. r2 = handleUnblock(r, e.user)
      BY <1>6, ClientWrites
    <2>2. e.user \in Users
      BY <1>1, <1>6 DEF NoUser
    <2>4. r2 \in RowSet
      BY <1>2, <2>1, <2>2 DEF handleUnblock, RowSet
    <2> QED
      BY <1>6, <2>1, <2>4 DEF handleUnblock, RowSet, ClientTables
  <1>7. CASE e.kind = "like"
    <2>1. r2 = handleLike(r, e.user, e.post)
      BY <1>7, ClientWrites
    <2>2. e.user \in Users
      BY <1>1, <1>7 DEF NoUser
    <2>3. e.post \in Posts
      BY <1>1, <1>7 DEF OnPost
    <2>5. /\ r.likes \cup {<<e.user, e.post>>} \in SUBSET (Users \X Posts)
          /\ [r.count EXCEPT ![e.post] = IF direct.posts[e.post] = "live" THEN @ + 1 ELSE @] \in [Posts -> Nat]
      BY <2>2, <2>3 DEF RowSet
    <2>4. r2 \in RowSet
      BY <2>1, <2>5 DEF handleLike, RowSet
    <2> DEFINE c == [r.count EXCEPT ![e.post] = IF direct.posts[e.post] = "live" THEN @ + 1 ELSE @]
    <2>6. c = IF direct.posts[e.post] = "live" THEN [r.count EXCEPT ![e.post] = @ + 1] ELSE r.count
      BY <2>3 DEF RowSet
    <2>7. CASE <<e.user, e.post>> \in r.likes
      <3>1. r2 = r
        BY <2>1, <2>7 DEF handleLike
      <3>2. r.likes \cup {<<e.user, e.post>>} = r.likes
        BY <2>7
      <3> QED
        BY <1>7, <2>4, <2>7, <3>1, <3>2 DEF ClientTables
    <2>8. CASE <<e.user, e.post>> \notin r.likes
      <3>1. r2 = [r EXCEPT !.likes = @ \cup {<<e.user, e.post>>}, !.count = c]
        BY <2>1, <2>8 DEF handleLike, RowSet
      <3>2. /\ r2.likes = r.likes \cup {<<e.user, e.post>>} /\ r2.count = c
            /\ r2.follows = r.follows /\ r2.blocks = r.blocks /\ r2.dmKey = r.dmKey
            /\ r2.dead = r.dead /\ r2.tips = r.tips /\ r2.total = r.total
        BY <3>1 DEF RowSet
      <3> QED
        BY <1>7, <2>4, <2>6, <2>8, <3>2 DEF ClientTables
    <2> QED
      BY <2>7, <2>8
  <1>8. CASE e.kind = "tip"
    <2>1. r2 = handleTip(r, e.post)
      BY <1>8, ClientWrites
    <2>3. e.post \in Posts
      BY <1>1, <1>8 DEF OnPost
    <2>5. /\ <<e.post>> \in Seq(Posts)
          /\ [r.total EXCEPT ![e.post] = IF direct.posts[e.post] = "live" THEN @ + 1 ELSE @] \in [Posts -> Nat]
      BY <2>3 DEF RowSet
    <2>4. r2 \in RowSet
      BY <2>1, <2>5 DEF handleTip, RowSet
    <2> DEFINE c == [r.total EXCEPT ![e.post] = IF direct.posts[e.post] = "live" THEN @ + 1 ELSE @]
    <2>6. c = IF direct.posts[e.post] = "live" THEN [r.total EXCEPT ![e.post] = @ + 1] ELSE r.total
      BY <2>3 DEF RowSet
    <2>7. CASE r.tips # << >>
      <3>1. r2 = r
        BY <2>1, <2>7 DEF handleTip
      <3> QED
        BY <1>8, <2>4, <2>7, <3>1 DEF ClientTables
    <2>8. CASE r.tips = << >>
      <3>1. r2 = [r EXCEPT !.tips = <<e.post>>, !.total = c]
        BY <2>1, <2>8 DEF handleTip, RowSet
      <3>2. /\ r2.tips = <<e.post>> /\ r2.total = c
            /\ r2.follows = r.follows /\ r2.blocks = r.blocks /\ r2.dmKey = r.dmKey
            /\ r2.dead = r.dead /\ r2.likes = r.likes /\ r2.count = r.count
        BY <3>1 DEF RowSet
      <3> QED
        BY <1>8, <2>4, <2>6, <2>8, <3>2 DEF ClientTables
    <2> QED
      BY <2>7, <2>8
  <1>9. CASE e.kind = "dm_key_published"
    <2>1. r2 = handleDmKeyPublished(r, e.user, i)
      BY <1>9, ClientWrites
    <2>2. e.user \in Users
      BY <1>1, <1>9 DEF NoUser
    <2>5. [r.dmKey EXCEPT ![e.user] = i] \in [Users -> Nat]
      BY <1>2, <2>2 DEF RowSet
    <2>4. r2 \in RowSet
      BY <2>1, <2>5 DEF handleDmKeyPublished, RowSet
    <2> QED
      BY <1>9, <2>1, <2>4 DEF handleDmKeyPublished, RowSet, ClientTables
  <1>10. CASE e.kind = "malformed"
    <2>1. r2 = deadLetter(r, i)
      BY <1>10, ClientWrites
    <2>4. r2 \in RowSet
      BY <1>2, <2>1 DEF deadLetter, RowSet
    <2> QED
      BY <1>10, <2>1, <2>4 DEF deadLetter, RowSet, ClientTables
  <1>11. CASE e.kind \notin {"follow", "unfollow", "block", "unblock", "like", "tip",
                             "dm_key_published", "malformed"}
    BY <1>11, ClientWrites DEF ClientTables
  <1> QED
    BY <1>3, <1>4, <1>5, <1>6, <1>7, <1>8, <1>9, <1>10, <1>11

PoolTables(e, i, d, d2) ==
    /\ d2.posts = IF e.kind = "post_created"
                  THEN [d.posts EXCEPT ![e.post] = IF @ = "none" THEN "live" ELSE @]
                  ELSE IF e.kind \in Deletion
                       THEN [d.posts EXCEPT ![e.post] = IF @ = "live" THEN "deleted" ELSE @]
                       ELSE d.posts
    /\ d2.pending = IF e.kind = "post_reported" THEN d.pending \cup {<<e.user, e.post>>}
                    ELSE IF e.kind = "report_dismissed" THEN d.pending \ {<<e.user, e.post>>}
                    ELSE IF e.kind = "post_removed" THEN {x \in d.pending : x[2] # e.post}
                         ELSE d.pending
    /\ d2.profile = IF e.kind = "profile_set" THEN [d.profile EXCEPT ![e.user] = i]
                    ELSE IF e.kind = "profile_deleted" THEN [d.profile EXCEPT ![e.user] = 0]
                         ELSE d.profile
    /\ d2.pool = IF e.kind = "pool_created" THEN TRUE ELSE d.pool
    /\ d2.admins = IF e.kind = "pool_admin_added" /\ d.pool THEN d.admins \cup {e.user}
                   ELSE IF e.kind = "pool_admin_removed" /\ d.pool THEN d.admins \ {e.user}
                        ELSE d.admins
    /\ d2.status = IF e.kind = "gov_proposal_created" THEN "Active"
                   ELSE IF d.status = "none" THEN "none"
                   ELSE IF e.kind = "gov_proposal_executed" THEN "Executed"
                   ELSE IF e.kind = "gov_proposal_vetoed" THEN "Vetoed" ELSE d.status
    /\ d2.voters = IF e.kind = "gov_vote" THEN d.voters \cup {e.user} ELSE d.voters
    /\ d2.tally = IF e.kind = "gov_vote" /\ e.user \notin d.voters THEN d.tally + 1 ELSE d.tally

LEMMA PoolByTable ==
    ASSUME NEW i \in 1 .. Len(log), log[i] \in Emitted, NEW d \in DirectSet,
           ~(log[i].kind = "pool_withdraw" /\ d.pool /\ d.balance = 0)
    PROVE  OnPool(i, d) \in DirectSet /\ PoolTables(log[i], i, d, OnPool(i, d))
  <1> DEFINE e == log[i]
             d2 == OnPool(i, d)
  <1>1. (e.kind \notin NoUser => e.user \in Users) /\ (e.kind \in OnPost => e.post \in Posts)
    BY EventFields
  <1>2. i \in Nat
    OBVIOUS
  <1>3. CASE e.kind = "post_created"
    <2>1. d2 = insertPost(d, e.post)
      BY <1>3, PoolWrites
    <2>3. e.post \in Posts
      BY <1>1, <1>3 DEF OnPost
    <2>5. [d.posts EXCEPT ![e.post] = IF @ = "none" THEN "live" ELSE @]
              \in [Posts -> {"none", "live", "deleted"}]
      BY <2>3 DEF DirectSet
    <2>4. d2 \in DirectSet
      BY <2>1, <2>5 DEF insertPost, DirectSet
    <2> QED
      BY <1>3, <2>1, <2>3, <2>4 DEF insertPost, DirectSet, PoolTables, Deletion
  <1>4. CASE e.kind = "post_deleted"
    <2>1. d2 = markPostDeleted(d, e.post)
      BY <1>4, PoolWrites
    <2>3. e.post \in Posts
      BY <1>1, <1>4 DEF OnPost
    <2>5. [d.posts EXCEPT ![e.post] = IF @ = "live" THEN "deleted" ELSE @]
              \in [Posts -> {"none", "live", "deleted"}]
      BY <2>3 DEF DirectSet
    <2>4. d2 \in DirectSet
      BY <2>1, <2>5 DEF markPostDeleted, DirectSet
    <2> QED
      BY <1>4, <2>1, <2>3, <2>4 DEF markPostDeleted, DirectSet, PoolTables, Deletion
  <1>5. CASE e.kind = "post_removed"
    <2>1. d2 = handlePostRemovedByModeration(d, e.post)
      BY <1>5, PoolWrites
    <2>3. e.post \in Posts
      BY <1>1, <1>5 DEF OnPost
    <2>5. /\ [d.posts EXCEPT ![e.post] = IF @ = "live" THEN "deleted" ELSE @]
                \in [Posts -> {"none", "live", "deleted"}]
          /\ {x \in d.pending : x[2] # e.post} \in SUBSET (Users \X Posts)
      BY <2>3 DEF DirectSet
    <2>4. d2 \in DirectSet
      BY <2>1, <2>5 DEF handlePostRemovedByModeration, markPostDeleted, DirectSet
    <2> QED
      BY <1>5, <2>1, <2>3, <2>4 DEF handlePostRemovedByModeration, markPostDeleted, DirectSet, PoolTables, Deletion
  <1>6. CASE e.kind = "post_reported"
    <2>1. d2 = insertReport(d, e.user, e.post)
      BY <1>6, PoolWrites
    <2>2. e.user \in Users
      BY <1>1, <1>6 DEF NoUser
    <2>3. e.post \in Posts
      BY <1>1, <1>6 DEF OnPost
    <2>5. d.pending \cup {<<e.user, e.post>>} \in SUBSET (Users \X Posts)
      BY <2>2, <2>3 DEF DirectSet
    <2>4. d2 \in DirectSet
      BY <2>1, <2>5 DEF insertReport, DirectSet
    <2> QED
      BY <1>6, <2>1, <2>2, <2>3, <2>4 DEF insertReport, DirectSet, PoolTables, Deletion
  <1>7. CASE e.kind = "report_dismissed"
    <2>1. d2 = updateReportStatus(d, e.user, e.post)
      BY <1>7, PoolWrites
    <2>2. e.user \in Users
      BY <1>1, <1>7 DEF NoUser
    <2>3. e.post \in Posts
      BY <1>1, <1>7 DEF OnPost
    <2>5. d.pending \ {<<e.user, e.post>>} \in SUBSET (Users \X Posts)
      BY DEF DirectSet
    <2>4. d2 \in DirectSet
      BY <2>1, <2>5 DEF updateReportStatus, DirectSet
    <2> QED
      BY <1>7, <2>1, <2>2, <2>3, <2>4 DEF updateReportStatus, DirectSet, PoolTables, Deletion
  <1>8. CASE e.kind = "profile_set"
    <2>1. d2 = upsertProfile(d, e.user, i)
      BY <1>8, PoolWrites
    <2>2. e.user \in Users
      BY <1>1, <1>8 DEF NoUser
    <2>5. [d.profile EXCEPT ![e.user] = i] \in [Users -> Nat]
      BY <1>2, <2>2 DEF DirectSet
    <2>4. d2 \in DirectSet
      BY <2>1, <2>5 DEF upsertProfile, DirectSet
    <2> QED
      BY <1>8, <2>1, <2>2, <2>4 DEF upsertProfile, DirectSet, PoolTables, Deletion
  <1>9. CASE e.kind = "profile_deleted"
    <2>1. d2 = deleteProfile(d, e.user)
      BY <1>9, PoolWrites
    <2>2. e.user \in Users
      BY <1>1, <1>9 DEF NoUser
    <2>5. [d.profile EXCEPT ![e.user] = 0] \in [Users -> Nat]
      BY <2>2 DEF DirectSet
    <2>4. d2 \in DirectSet
      BY <2>1, <2>5 DEF deleteProfile, DirectSet
    <2> QED
      BY <1>9, <2>1, <2>2, <2>4 DEF deleteProfile, DirectSet, PoolTables, Deletion
  <1>10. CASE e.kind = "pool_created"
    <2>1. d2 = insertPool(d)
      BY <1>10, PoolWrites
    <2>4. d2 \in DirectSet
      BY <2>1 DEF insertPool, DirectSet
    <2> QED
      BY <1>10, <2>1, <2>4 DEF insertPool, DirectSet, PoolTables, Deletion
  <1>11. CASE e.kind = "pool_deposit"
    <2>1. d2 = adjustPoolBalance(d, 1)
      BY <1>11, PoolWrites
    <2>2. d.balance + 1 \in Nat
      BY DEF DirectSet
    <2>3. [d EXCEPT !.balance = d.balance + 1] \in DirectSet
      BY <2>2 DEF DirectSet
    <2>4. d2 \in DirectSet
      BY <2>1, <2>3 DEF adjustPoolBalance
    <2> QED
      BY <1>11, <2>1, <2>4 DEF adjustPoolBalance, DirectSet, PoolTables, Deletion
  <1>12. CASE e.kind = "pool_withdraw"
    <2>1. d2 = adjustPoolBalance(d, -1)
      BY <1>12, PoolWrites
    <2>2. d.pool => d.balance + (-1) \in Nat
      BY <1>12 DEF DirectSet
    <2>3. d.pool => [d EXCEPT !.balance = d.balance + (-1)] \in DirectSet
      BY <2>2 DEF DirectSet
    <2>4. d2 \in DirectSet
      BY <2>1, <2>3 DEF adjustPoolBalance
    <2> QED
      BY <1>12, <2>1, <2>4 DEF adjustPoolBalance, DirectSet, PoolTables, Deletion
  <1>13. CASE e.kind = "pool_admin_added"
    <2>1. d2 = addPoolAdmin(d, e.user)
      BY <1>13, PoolWrites
    <2>2. e.user \in Users
      BY <1>1, <1>13 DEF NoUser
    <2>5. d.admins \cup {e.user} \in SUBSET Users
      BY <2>2 DEF DirectSet
    <2>4. d2 \in DirectSet
      BY <2>1, <2>5 DEF addPoolAdmin, DirectSet
    <2> QED
      BY <1>13, <2>1, <2>2, <2>4 DEF addPoolAdmin, DirectSet, PoolTables, Deletion
  <1>14. CASE e.kind = "pool_admin_removed"
    <2>1. d2 = removePoolAdmin(d, e.user)
      BY <1>14, PoolWrites
    <2>2. e.user \in Users
      BY <1>1, <1>14 DEF NoUser
    <2>5. d.admins \ {e.user} \in SUBSET Users
      BY DEF DirectSet
    <2>4. d2 \in DirectSet
      BY <2>1, <2>5 DEF removePoolAdmin, DirectSet
    <2> QED
      BY <1>14, <2>1, <2>2, <2>4 DEF removePoolAdmin, DirectSet, PoolTables, Deletion
  <1>15. CASE e.kind = "gov_proposal_created"
    <2>1. d2 = upsertGovernanceProposal(d)
      BY <1>15, PoolWrites
    <2>4. d2 \in DirectSet
      BY <2>1 DEF upsertGovernanceProposal, DirectSet
    <2> QED
      BY <1>15, <2>1, <2>4 DEF upsertGovernanceProposal, DirectSet, PoolTables, Deletion
  <1>16. CASE e.kind = "gov_vote"
    <2>1. d2 = insertGovernanceVote(d, e.user)
      BY <1>16, PoolWrites
    <2>2. e.user \in Users
      BY <1>1, <1>16 DEF NoUser
    <2>5. d.voters \cup {e.user} \in SUBSET Users /\ d.tally + 1 \in Nat
      BY <2>2 DEF DirectSet
    <2>4. d2 \in DirectSet
      <3>1. [d EXCEPT !.voters = @ \cup {e.user}, !.tally = @ + 1] \in DirectSet
        BY <2>5 DEF DirectSet
      <3> QED
        BY <2>1, <3>1 DEF insertGovernanceVote
    <2> QED
      BY <1>16, <2>1, <2>2, <2>4 DEF insertGovernanceVote, DirectSet, PoolTables, Deletion
  <1>17. CASE e.kind = "gov_proposal_executed"
    <2>1. d2 = updateGovernanceProposalStatus(d, "Executed")
      BY <1>17, PoolWrites
    <2>4. d2 \in DirectSet
      BY <2>1 DEF updateGovernanceProposalStatus, DirectSet
    <2> QED
      BY <1>17, <2>1, <2>4 DEF updateGovernanceProposalStatus, DirectSet, PoolTables, Deletion
  <1>18. CASE e.kind = "gov_proposal_vetoed"
    <2>1. d2 = updateGovernanceProposalStatus(d, "Vetoed")
      BY <1>18, PoolWrites
    <2>4. d2 \in DirectSet
      BY <2>1 DEF updateGovernanceProposalStatus, DirectSet
    <2> QED
      BY <1>18, <2>1, <2>4 DEF updateGovernanceProposalStatus, DirectSet, PoolTables, Deletion
  <1>19. CASE e.kind \notin {"post_created", "post_deleted", "post_removed", "post_reported",
                  "report_dismissed", "profile_set", "profile_deleted", "pool_created",
                  "pool_deposit", "pool_withdraw", "pool_admin_added", "pool_admin_removed",
                  "gov_proposal_created", "gov_vote", "gov_proposal_executed",
                  "gov_proposal_vetoed"}
    BY <1>19, PoolWrites DEF PoolTables, Deletion
  <1> QED
    BY <1>3, <1>4, <1>5, <1>6, <1>7, <1>8, <1>9, <1>10, <1>11,
       <1>12, <1>13, <1>14, <1>15, <1>16, <1>17, <1>18, <1>19

-----------------------------------------------------------------------------
(***************************************************************************)
(* Passing the event after the prefix, table by table.                     *)
(***************************************************************************)
LEMMA AtHere ==
    ASSUME NEW l, Len(l) \in Nat, NEW i \in 1 .. Len(l), NEW k
    PROVE  /\ At(l, k) \in SUBSET Nat /\ (i \in At(l, k) <=> l[i].kind = k)
           /\ \A u : AtUser(l, k, u) \in SUBSET Nat
                     /\ (i \in AtUser(l, k, u) <=> l[i].kind = k /\ l[i].user = u)
           /\ \A p : AtPost(l, k, p) \in SUBSET Nat
                     /\ (i \in AtPost(l, k, p) <=> l[i].kind = k /\ l[i].post = p)
           /\ \A u, p : AtPair(l, k, u, p) \in SUBSET Nat
                        /\ (i \in AtPair(l, k, u, p)
                              <=> l[i].kind = k /\ l[i].user = u /\ l[i].post = p)
  BY DEF At, AtUser, AtPost, AtPair

LEMMA RowsPass ==
    ASSUME NEW l, Len(l) \in Nat, NEW i \in 1 .. Len(l), NEW r \in RowSet, NEW r2 \in RowSet, NEW d,
           NEW n \in Nat, NEW n2 \in Nat, NEW h \in Nat, NEW h2 \in Nat, Passes(n, n2, i), Extends(h, h2, i),
           ClientTables(l[i], i, r, d, r2), RowsTrack(l, r, n, h),
           l[i].kind \notin NoUser => l[i].user \in Users
    PROVE  RowsTrack(l, r2, n2, h2)
  <1> DEFINE e == l[i]
  <1>0. i \in Nat \ {0} /\ i \in Nat
    OBVIOUS
  <1>1. ASSUME NEW u \in Users
        PROVE  Tracks(u, r2.follows, AtUser(l, "follow", u), AtUser(l, "unfollow", u), n2)
    <2>1. Tracks(u, r.follows, AtUser(l, "follow", u), AtUser(l, "unfollow", u), n)
      BY DEF RowsTrack
    <2>2. r2.follows = IF e.kind = "follow" THEN r.follows \cup {e.user}
                       ELSE IF e.kind = "unfollow" THEN r.follows \ {e.user} ELSE r.follows
      BY DEF ClientTables
    <2>3. /\ AtUser(l, "follow", u) \in SUBSET Nat /\ AtUser(l, "unfollow", u) \in SUBSET Nat
          /\ i \in AtUser(l, "follow", u) <=> e.kind = "follow" /\ e.user = u
          /\ i \in AtUser(l, "unfollow", u) <=> e.kind = "unfollow" /\ e.user = u
      BY AtHere
    <2> HIDE DEF e
    <2> QED
      BY <1>0, <2>1, <2>2, <2>3, TracksStep
  <1>2. ASSUME NEW u \in Users
        PROVE  Tracks(u, r2.blocks, AtUser(l, "block", u), AtUser(l, "unblock", u), n2)
    <2>1. Tracks(u, r.blocks, AtUser(l, "block", u), AtUser(l, "unblock", u), n)
      BY DEF RowsTrack
    <2>2. r2.blocks = IF e.kind = "block" THEN r.blocks \cup {e.user}
                      ELSE IF e.kind = "unblock" THEN r.blocks \ {e.user} ELSE r.blocks
      BY DEF ClientTables
    <2>3. /\ AtUser(l, "block", u) \in SUBSET Nat /\ AtUser(l, "unblock", u) \in SUBSET Nat
          /\ i \in AtUser(l, "block", u) <=> e.kind = "block" /\ e.user = u
          /\ i \in AtUser(l, "unblock", u) <=> e.kind = "unblock" /\ e.user = u
      BY AtHere
    <2> HIDE DEF e
    <2> QED
      BY <1>0, <2>1, <2>2, <2>3, TracksStep
  <1>3. ASSUME NEW u \in Users
        PROVE  Shows(r2.dmKey[u], AtUser(l, "dm_key_published", u), {}, n2)
    <2>1. Shows(r.dmKey[u], AtUser(l, "dm_key_published", u), {}, n)
      BY DEF RowsTrack
    <2>2. r2.dmKey = IF e.kind = "dm_key_published" THEN [r.dmKey EXCEPT ![e.user] = i] ELSE r.dmKey
      BY DEF ClientTables
    <2>3. /\ AtUser(l, "dm_key_published", u) \in SUBSET Nat /\ {} \in SUBSET Nat
          /\ i \in AtUser(l, "dm_key_published", u) <=> e.kind = "dm_key_published" /\ e.user = u
      BY AtHere
    <2>4. r.dmKey \in [Users -> Nat] /\ r2.dmKey \in [Users -> Nat]
      BY DEF RowSet
    <2> HIDE DEF e
    <2>5. r2.dmKey[u] = IF e.kind = "dm_key_published" /\ e.user = u THEN i ELSE r.dmKey[u]
      BY <2>2, <2>4
    <2>6. r.dmKey[u] \in Nat /\ r2.dmKey[u] \in Nat
      BY <2>4
    <2> QED
      BY <1>0, <2>1, <2>3, <2>5, <2>6, ShowsStep
  <1>4. \A k : \A j \in At(l, k) : j \in Nat /\ j \in 1 .. Len(l) /\ l[j].kind = k
                                   /\ (j =< h2 => j = i \/ j =< h)
    BY DEF At, Extends
  <1>5. /\ r2.dead \subseteq At(l, "malformed")
        /\ \A j \in At(l, "malformed") : j =< h2 => j \in r2.dead
    <2>1. r2.dead = IF e.kind = "malformed" THEN r.dead \cup {i} ELSE r.dead
      BY DEF ClientTables
    <2>2. /\ r.dead \subseteq At(l, "malformed")
          /\ \A j \in At(l, "malformed") : j =< h => j \in r.dead
      BY DEF RowsTrack
    <2>3. i \in At(l, "malformed") <=> e.kind = "malformed"
      BY AtHere
    <2> HIDE DEF e
    <2> QED
      BY <1>4, <2>1, <2>2, <2>3
  <1>6. \A j \in At(l, "like") : j =< h2 => <<l[j].user, l[j].post>> \in r2.likes
    <2>1. r2.likes = IF e.kind = "like" THEN r.likes \cup {<<e.user, e.post>>} ELSE r.likes
      BY DEF ClientTables
    <2>2. \A j \in At(l, "like") : j =< h => <<l[j].user, l[j].post>> \in r.likes
      BY DEF RowsTrack
    <2> QED
      BY <1>4, <2>1, <2>2
  <1>7. \A j \in At(l, "tip") : j =< h2 => r2.tips # << >>
    <2>1. r2.tips = IF e.kind = "tip" /\ r.tips = << >> THEN <<e.post>> ELSE r.tips
      BY DEF ClientTables
    <2>2. \A j \in At(l, "tip") : j =< h => r.tips # << >>
      BY DEF RowsTrack
    <2>3. <<e.post>> # << >>
      OBVIOUS
    <2> QED
      BY <1>4, <2>1, <2>2, <2>3
  <1>8. r2.tips # << >> => At(l, "tip") # {}
    <2>1. r2.tips = IF e.kind = "tip" /\ r.tips = << >> THEN <<e.post>> ELSE r.tips
      BY DEF ClientTables
    <2>2. i \in At(l, "tip") <=> e.kind = "tip"
      BY AtHere
    <2> QED
      BY <2>1, <2>2 DEF RowsTrack
  <1> QED
    BY <1>1, <1>2, <1>3, <1>5, <1>6, <1>7, <1>8 DEF RowsTrack

LEMMA PostsPass ==
    ASSUME NEW l, LogSound(l), NEW i \in 1 .. Len(l), NEW d \in DirectSet, NEW d2 \in DirectSet,
           NEW h \in Nat, NEW h2 \in Nat, Extends(h, h2, i),
           PoolTables(l[i], i, d, d2), PostsTrack(l, d, h)
    PROVE  PostsTrack(l, d2, h2)
  <1> DEFINE e == l[i]
  <1>1. Len(l) \in Nat /\ i \in Nat
    BY DEF LogSound
  <1>2. d.posts \in [Posts -> {"none", "live", "deleted"}]
    BY DEF DirectSet
  <1>3. d2.posts = IF e.kind = "post_created"
                   THEN [d.posts EXCEPT ![e.post] = IF @ = "none" THEN "live" ELSE @]
                   ELSE IF e.kind \in Deletion
                        THEN [d.posts EXCEPT ![e.post] = IF @ = "live" THEN "deleted" ELSE @]
                        ELSE d.posts
    BY DEF PoolTables
  <1> SUFFICES ASSUME NEW p \in Posts
               PROVE  /\ d2.posts[p] = "none" => \A j \in AtPost(l, "post_created", p) : j > h2
                      /\ d2.posts[p] # "none" => AtPost(l, "post_created", p) # {}
                      /\ d2.posts[p] # "deleted" => \A k \in Deletion : \A j \in AtPost(l, k, p) : j > h2
                      /\ d2.posts[p] = "deleted" => \E k \in Deletion : AtPost(l, k, p) # {}
    BY DEF PostsTrack
  <1>4. /\ d.posts[p] = "none" => \A j \in AtPost(l, "post_created", p) : j > h
        /\ d.posts[p] # "none" => AtPost(l, "post_created", p) # {}
        /\ d.posts[p] # "deleted" => \A k \in Deletion : \A j \in AtPost(l, k, p) : j > h
        /\ d.posts[p] = "deleted" => \E k \in Deletion : AtPost(l, k, p) # {}
    BY DEF PostsTrack
  <1>5. \A k : (i \in AtPost(l, k, p) <=> e.kind = k /\ e.post = p)
    BY <1>1, AtHere
  <1>6. \A k : \A j \in AtPost(l, k, p) : j > h /\ j # i => j > h2
    BY DEF AtPost, At, Extends
  <1>8. e.kind \in Deletion /\ e.post = p => d.posts[p] # "none"
    <2> SUFFICES ASSUME e.kind \in Deletion, e.post = p, d.posts[p] = "none" PROVE FALSE
      OBVIOUS
    <2>1. PICK j \in 1 .. i - 1 : l[j].kind = "post_created" /\ l[j].post = e.post
      BY DEF LogSound, OfLivePost, CreatedBefore
    <2>2. j \in AtPost(l, "post_created", p) /\ ~(j > h)
      BY <1>1, <2>1 DEF AtPost, At, Extends
    <2> QED
      BY <1>4, <2>2
  <1>9. "post_created" \notin Deletion
    BY DEF Deletion
  <1> HIDE DEF e
  <1>10. CASE e.kind = "post_created" /\ e.post = p
    <2>1. d2.posts[p] = IF d.posts[p] = "none" THEN "live" ELSE d.posts[p]
      BY <1>2, <1>3, <1>10
    <2>2. AtPost(l, "post_created", p) # {}
      BY <1>5, <1>10
    <2>3. \A k \in Deletion : i \notin AtPost(l, k, p)
      BY <1>5, <1>9, <1>10
    <2>4. d2.posts[p] # "none" /\ (d2.posts[p] = "deleted" <=> d.posts[p] = "deleted")
      BY <2>1
    <2> QED
      BY <1>4, <1>6, <2>2, <2>3, <2>4
  <1>11. CASE e.kind \in Deletion /\ e.post = p
    <2>1. d2.posts[p] = "deleted"
      BY <1>2, <1>3, <1>8, <1>9, <1>11
    <2>2. \E k \in Deletion : AtPost(l, k, p) # {}
      BY <1>5, <1>11
    <2>3. AtPost(l, "post_created", p) # {}
      BY <1>4, <1>8, <1>11
    <2> QED
      BY <2>1, <2>2, <2>3
  <1>12. CASE ~(e.post = p /\ (e.kind = "post_created" \/ e.kind \in Deletion))
    <2>1. d2.posts[p] = d.posts[p]
      BY <1>2, <1>3, <1>12
    <2>2. i \notin AtPost(l, "post_created", p) /\ \A k \in Deletion : i \notin AtPost(l, k, p)
      BY <1>5, <1>12
    <2> QED
      BY <1>4, <1>6, <2>1, <2>2
  <1> QED
    BY <1>10, <1>11, <1>12

LEMMA ReportsPass ==
    ASSUME NEW l, Len(l) \in Nat, NEW i \in 1 .. Len(l), NEW d \in DirectSet, NEW d2 \in DirectSet,
           NEW n \in Nat, NEW n2 \in Nat, Passes(n, n2, i),
           PoolTables(l[i], i, d, d2), ReportsTrack(l, d, n)
    PROVE  ReportsTrack(l, d2, n2)
  <1> DEFINE e == l[i]
  <1> SUFFICES ASSUME NEW u \in Users, NEW p \in Posts
               PROVE  Tracks(<<u, p>>, d2.pending, AtPair(l, "post_reported", u, p),
                          AtPair(l, "report_dismissed", u, p) \cup AtPost(l, "post_removed", p), n2)
    BY DEF ReportsTrack
  <1> DEFINE on == AtPair(l, "post_reported", u, p)
             off == AtPair(l, "report_dismissed", u, p) \cup AtPost(l, "post_removed", p)
  <1>1. Tracks(<<u, p>>, d.pending, on, off, n)
    BY DEF ReportsTrack
  <1>2. d2.pending = IF e.kind = "post_reported" THEN d.pending \cup {<<e.user, e.post>>}
                     ELSE IF e.kind = "report_dismissed" THEN d.pending \ {<<e.user, e.post>>}
                     ELSE IF e.kind = "post_removed" THEN {x \in d.pending : x[2] # e.post}
                          ELSE d.pending
    BY DEF PoolTables
  <1>3. /\ on \in SUBSET Nat /\ off \in SUBSET Nat /\ i \in Nat
        /\ i \in on <=> e.kind = "post_reported" /\ e.user = u /\ e.post = p
        /\ i \in off <=> \/ e.kind = "report_dismissed" /\ e.user = u /\ e.post = p
                         \/ e.kind = "post_removed" /\ e.post = p
    <2>1. /\ AtPair(l, "report_dismissed", u, p) \in SUBSET Nat
          /\ i \in AtPair(l, "report_dismissed", u, p)
                <=> e.kind = "report_dismissed" /\ e.user = u /\ e.post = p
      BY AtHere
    <2>2. /\ AtPost(l, "post_removed", p) \in SUBSET Nat
          /\ i \in AtPost(l, "post_removed", p) <=> e.kind = "post_removed" /\ e.post = p
      BY AtHere
    <2>3. /\ on \in SUBSET Nat
          /\ i \in on <=> e.kind = "post_reported" /\ e.user = u /\ e.post = p
      BY AtHere
    <2>4. i \in Nat
      OBVIOUS
    <2> QED
      BY <2>1, <2>2, <2>3, <2>4
  <1> HIDE DEF e, on, off
  <1>4. <<u, p>> = <<e.user, e.post>> <=> e.user = u /\ e.post = p
    OBVIOUS
  <1>5. <<u, p>> \in {x \in d.pending : x[2] # e.post} <=> <<u, p>> \in d.pending /\ e.post # p
    OBVIOUS
  <1>6. i \in on => <<u, p>> \in d2.pending
    BY <1>2, <1>3, <1>4
  <1>7. i \in off => <<u, p>> \notin d2.pending
    BY <1>2, <1>3, <1>4, <1>5
  <1>8. i \notin on \cup off => (<<u, p>> \in d2.pending <=> <<u, p>> \in d.pending)
    BY <1>2, <1>3, <1>4, <1>5
  <1>9. ~(i \in on /\ i \in off)
    BY <1>3
  <1>10. Tracks(<<u, p>>, d2.pending, on, off, n2)
    BY <1>1, <1>3, <1>6, <1>7, <1>8, <1>9, TracksStep
  <1> QED
    BY <1>10 DEF on, off

LEMMA ProfilesPass ==
    ASSUME NEW l, Len(l) \in Nat, NEW i \in 1 .. Len(l), NEW d \in DirectSet, NEW d2 \in DirectSet,
           NEW n \in Nat, NEW n2 \in Nat, Passes(n, n2, i),
           PoolTables(l[i], i, d, d2), ProfilesTrack(l, d, n)
    PROVE  ProfilesTrack(l, d2, n2)
  <1> DEFINE e == l[i]
  <1> SUFFICES ASSUME NEW u \in Users
               PROVE  Shows(d2.profile[u], AtUser(l, "profile_set", u), AtUser(l, "profile_deleted", u), n2)
    BY DEF ProfilesTrack
  <1>1. Shows(d.profile[u], AtUser(l, "profile_set", u), AtUser(l, "profile_deleted", u), n)
    BY DEF ProfilesTrack
  <1>2. d2.profile = IF e.kind = "profile_set" THEN [d.profile EXCEPT ![e.user] = i]
                     ELSE IF e.kind = "profile_deleted" THEN [d.profile EXCEPT ![e.user] = 0]
                          ELSE d.profile
    BY DEF PoolTables
  <1>3. /\ AtUser(l, "profile_set", u) \in SUBSET Nat /\ AtUser(l, "profile_deleted", u) \in SUBSET Nat
        /\ i \in AtUser(l, "profile_set", u) <=> e.kind = "profile_set" /\ e.user = u
        /\ i \in AtUser(l, "profile_deleted", u) <=> e.kind = "profile_deleted" /\ e.user = u
    BY AtHere
  <1>4. d.profile \in [Users -> Nat] /\ d2.profile \in [Users -> Nat]
    BY DEF DirectSet
  <1> HIDE DEF e
  <1>5. d2.profile[u] = IF e.kind = "profile_set" /\ e.user = u THEN i
                        ELSE IF e.kind = "profile_deleted" /\ e.user = u THEN 0 ELSE d.profile[u]
    BY <1>2, <1>4
  <1>6. d.profile[u] \in Nat /\ d2.profile[u] \in Nat
    BY <1>4
  <1>7. i \in Nat \ {0}
    OBVIOUS
  <1> QED
    BY <1>1, <1>3, <1>5, <1>6, <1>7, ShowsStep

LEMMA PoolPass ==
    ASSUME NEW l, LogSound(l), NEW i \in 1 .. Len(l), NEW d \in DirectSet, NEW d2 \in DirectSet,
           NEW n \in Nat, NEW n2 \in Nat, NEW h \in Nat, NEW h2 \in Nat, Passes(n, n2, i), Extends(h, h2, i),
           PoolTables(l[i], i, d, d2), PoolTracks(l, d, n, h)
    PROVE  PoolTracks(l, d2, n2, h2)
  <1> DEFINE e == l[i]
  <1>1. Len(l) \in Nat /\ i \in Nat
    BY DEF LogSound
  <1>2. /\ d2.pool = IF e.kind = "pool_created" THEN TRUE ELSE d.pool
        /\ d2.admins = IF e.kind = "pool_admin_added" /\ d.pool THEN d.admins \cup {e.user}
                       ELSE IF e.kind = "pool_admin_removed" /\ d.pool THEN d.admins \ {e.user}
                            ELSE d.admins
    BY DEF PoolTables
  <1>3. d.pool \in BOOLEAN
    BY DEF DirectSet
  <1>4. d2.pool = FALSE => \A j \in At(l, "pool_created") : j > h2
    <2>1. \A j \in At(l, "pool_created") : j > h /\ j # i => j > h2
      BY DEF At, Extends
    <2>2. i \in At(l, "pool_created") <=> e.kind = "pool_created"
      BY <1>1, AtHere
    <2> HIDE DEF e
    <2> QED
      BY <1>2, <2>1, <2>2 DEF PoolTracks
  <1>5. e.kind \in OfAdmin => d.pool = TRUE
    <2> SUFFICES ASSUME e.kind \in OfAdmin, d.pool = FALSE PROVE FALSE
      BY <1>3
    <2>1. PICK j \in 1 .. i - 1 : l[j].kind = "pool_created"
      BY DEF LogSound, KindBefore
    <2>2. j \in At(l, "pool_created") /\ ~(j > h)
      BY <1>1, <2>1 DEF At, Extends
    <2> QED
      BY <2>2 DEF PoolTracks
  <1>6. ASSUME NEW u \in Users
        PROVE  Tracks(u, d2.admins, AtUser(l, "pool_admin_added", u), AtUser(l, "pool_admin_removed", u), n2)
    <2>1. Tracks(u, d.admins, AtUser(l, "pool_admin_added", u), AtUser(l, "pool_admin_removed", u), n)
      BY DEF PoolTracks
    <2>2. /\ AtUser(l, "pool_admin_added", u) \in SUBSET Nat
          /\ AtUser(l, "pool_admin_removed", u) \in SUBSET Nat
          /\ i \in AtUser(l, "pool_admin_added", u) <=> e.kind = "pool_admin_added" /\ e.user = u
          /\ i \in AtUser(l, "pool_admin_removed", u) <=> e.kind = "pool_admin_removed" /\ e.user = u
      BY <1>1, AtHere
    <2>3. d2.admins = IF e.kind = "pool_admin_added" THEN d.admins \cup {e.user}
                      ELSE IF e.kind = "pool_admin_removed" THEN d.admins \ {e.user} ELSE d.admins
      BY <1>2, <1>5 DEF OfAdmin
    <2> HIDE DEF e
    <2> QED
      BY <1>1, <2>1, <2>2, <2>3, TracksStep
  <1> QED
    BY <1>4, <1>6 DEF PoolTracks

LEMMA ProposalPass ==
    ASSUME NEW l, LogSound(l), NEW i \in 1 .. Len(l), NEW d \in DirectSet, NEW d2 \in DirectSet,
           NEW n \in Nat, NEW n2 \in Nat, NEW h \in Nat, NEW h2 \in Nat, Passes(n, n2, i), Extends(h, h2, i),
           PoolTables(l[i], i, d, d2), ProposalTracks(l, d, n, h)
    PROVE  ProposalTracks(l, d2, n2, h2)
  <1> DEFINE e == l[i]
             on == At(l, "gov_proposal_created")
             off == At(l, "gov_proposal_executed") \cup At(l, "gov_proposal_vetoed")
  <1>1. Len(l) \in Nat /\ i \in Nat
    BY DEF LogSound
  <1>2. d2.status = IF e.kind = "gov_proposal_created" THEN "Active"
                    ELSE IF d.status = "none" THEN "none"
                    ELSE IF e.kind = "gov_proposal_executed" THEN "Executed"
                    ELSE IF e.kind = "gov_proposal_vetoed" THEN "Vetoed" ELSE d.status
    BY DEF PoolTables
  <1>3. /\ Tracks("Active", {d.status}, on, off, n)
        /\ d.status = "none" => \A j \in on : j > h
    BY DEF ProposalTracks
  <1>4. /\ on \in SUBSET Nat /\ off \in SUBSET Nat
        /\ i \in on <=> e.kind = "gov_proposal_created"
        /\ i \in off <=> e.kind \in OfProposal
    BY <1>1, AtHere DEF OfProposal
  <1>5. e.kind \in OfProposal => d.status # "none"
    <2> SUFFICES ASSUME e.kind \in OfProposal, d.status = "none" PROVE FALSE
      OBVIOUS
    <2>1. PICK j \in 1 .. i - 1 : l[j].kind = "gov_proposal_created"
      BY DEF LogSound, KindBefore
    <2>2. j \in on /\ ~(j > h)
      BY <1>1, <2>1 DEF At, Extends
    <2> QED
      BY <1>3, <2>2
  <1>6. \A j \in on : j > h /\ j # i => j > h2
    BY DEF At, Extends
  <1> HIDE DEF e, on, off
  <1>7. d2.status = "none" => \A j \in on : j > h2
    BY <1>2, <1>3, <1>4, <1>5, <1>6 DEF OfProposal
  <1>8. i \in on => "Active" \in {d2.status}
    BY <1>2, <1>4
  <1>9. i \in off => "Active" \notin {d2.status}
    BY <1>2, <1>4, <1>5 DEF OfProposal
  <1>10. i \notin on \cup off => ("Active" \in {d2.status} <=> "Active" \in {d.status})
    BY <1>2, <1>4 DEF OfProposal
  <1>11. ~(i \in on /\ i \in off)
    BY <1>4 DEF OfProposal
  <1>12. Tracks("Active", {d2.status}, on, off, n2)
    BY <1>1, <1>3, <1>4, <1>8, <1>9, <1>10, <1>11, TracksStep
  <1> QED
    BY <1>7, <1>12 DEF ProposalTracks, on, off

LEMMA VotesPass ==
    ASSUME NEW l, Len(l) \in Nat, NEW i \in 1 .. Len(l), NEW d \in DirectSet, NEW d2 \in DirectSet,
           NEW h \in Nat, NEW h2 \in Nat, Extends(h, h2, i),
           PoolTables(l[i], i, d, d2), VotesTrack(l, d, h)
    PROVE  VotesTrack(l, d2, h2)
  <1> DEFINE e == l[i]
  <1>1. /\ d2.voters = IF e.kind = "gov_vote" THEN d.voters \cup {e.user} ELSE d.voters
        /\ d2.tally = IF e.kind = "gov_vote" /\ e.user \notin d.voters THEN d.tally + 1 ELSE d.tally
    BY DEF PoolTables
  <1>2. /\ IsFiniteSet(d.voters) /\ d.tally = Cardinality(d.voters)
        /\ \A u \in d.voters : AtUser(l, "gov_vote", u) # {}
        /\ \A j \in At(l, "gov_vote") : j =< h => l[j].user \in d.voters
    BY DEF VotesTrack
  <1>3. \A j \in At(l, "gov_vote") : (j =< h2 => j = i \/ j =< h) /\ l[j].kind = "gov_vote"
    BY DEF At, Extends
  <1>4. e.kind = "gov_vote" => i \in AtUser(l, "gov_vote", e.user)
    BY DEF At, AtUser
  <1>5. \A j \in At(l, "gov_vote") : j =< h2 => l[j].user \in d2.voters
    BY <1>1, <1>2, <1>3
  <1> HIDE DEF e
  <1>6. \A u \in d2.voters : AtUser(l, "gov_vote", u) # {}
    BY <1>1, <1>2, <1>4
  <1>7. IsFiniteSet(d2.voters) /\ d2.tally = Cardinality(d2.voters)
    <2>1. CASE e.kind = "gov_vote" /\ e.user \notin d.voters
      <3>1. d2.voters = d.voters \cup {e.user} /\ d2.tally = Cardinality(d.voters) + 1
        BY <1>1, <1>2, <2>1
      <3>2. /\ IsFiniteSet(d.voters \cup {e.user})
            /\ Cardinality(d.voters \cup {e.user}) = Cardinality(d.voters) + 1
        BY <1>2, <2>1, FS_AddElement
      <3> QED
        BY <3>1, <3>2
    <2>2. CASE ~(e.kind = "gov_vote" /\ e.user \notin d.voters)
      <3>1. d2.voters = d.voters /\ d2.tally = d.tally
        BY <1>1, <2>2
      <3> QED
        BY <1>2, <3>1
    <2> QED
      BY <2>1, <2>2
  <1> QED
    BY <1>5, <1>6, <1>7 DEF VotesTrack

LEMMA DirectPass ==
    ASSUME NEW l, LogSound(l), NEW i \in 1 .. Len(l), NEW d2 \in DirectSet, NEW d,
           NEW n \in Nat, NEW n2 \in Nat, NEW h \in Nat, NEW h2 \in Nat, Passes(n, n2, i), Extends(h, h2, i),
           PoolTables(l[i], i, d, d2), DirectSound(l, d, n, h)
    PROVE  DirectSound(l, d2, n2, h2)
  <1>1. Len(l) \in Nat /\ d \in DirectSet
    BY DEF LogSound, DirectSound
  <1>2. PostsTrack(l, d2, h2)
    BY <1>1, PostsPass DEF DirectSound
  <1>3. ReportsTrack(l, d2, n2)
    BY <1>1, ReportsPass DEF DirectSound
  <1>4. ProfilesTrack(l, d2, n2)
    BY <1>1, ProfilesPass DEF DirectSound
  <1>5. PoolTracks(l, d2, n2, h2)
    BY <1>1, PoolPass DEF DirectSound
  <1>6. ProposalTracks(l, d2, n2, h2)
    BY <1>1, ProposalPass DEF DirectSound
  <1>7. VotesTrack(l, d2, h2)
    BY <1>1, VotesPass DEF DirectSound
  <1> QED
    BY <1>2, <1>3, <1>4, <1>5, <1>6, <1>7 DEF DirectSound

-----------------------------------------------------------------------------
(***************************************************************************)
(* Likes and tips are counted when they are inserted: their post is live   *)
(* then, although its deletion may have been written by a batch that       *)
(* rolled back.  r is the committed table, q the transaction's.            *)
(***************************************************************************)
LEMMA LiveWhenPassed ==
    ASSUME NEW l, LogSound(l), NEW i \in 1 .. Len(l), l[i].kind \in {"like", "tip"},
           NEW d \in DirectSet, NEW h \in Nat, i - 1 =< h, PostsTrack(l, d, h), d.posts[l[i].post] # "deleted"
    PROVE  d.posts[l[i].post] = "live"
  <1>1. Len(l) \in Nat /\ i \in Nat
    BY DEF LogSound
  <1>2. l[i] \in Emitted
    BY DEF LogSound
  <1>3. l[i].post \in Posts
    BY <1>2, EventFields DEF OnPost
  <1>4. PICK j \in 1 .. i - 1 : l[j].kind = "post_created" /\ l[j].post = l[i].post
    BY DEF LogSound, OfLivePost, CreatedBefore
  <1>5. j \in AtPost(l, "post_created", l[i].post) /\ ~(j > h)
    BY <1>1, <1>4 DEF AtPost, At
  <1>6. d.posts[l[i].post] # "none"
    BY <1>3, <1>5 DEF PostsTrack
  <1> QED
    BY <1>3, <1>6 DEF DirectSet

LEMMA LikeCounted ==
    ASSUME NEW l, LogSound(l), NEW i \in 1 .. Len(l), l[i].kind = "like",
           NEW d \in DirectSet, NEW h \in Nat, i - 1 =< h, PostsTrack(l, d, h), NEW r, NEW q, NEW locks,
           CountedBeforeDeleted(l, d, r), LocksHeld(l, r, q, locks),
           <<l[i].user, l[i].post>> \notin q.likes
    PROVE  d.posts[l[i].post] = "live"
  <1>1. i \in At(l, "like")
    BY DEF At
  <1>2. d.posts[l[i].post] # "deleted"
    BY <1>1 DEF CountedBeforeDeleted, LocksHeld
  <1> QED
    BY <1>2, LiveWhenPassed

LEMMA TipCounted ==
    ASSUME NEW l, LogSound(l), NEW i \in 1 .. Len(l), l[i].kind = "tip",
           NEW d \in DirectSet, NEW h \in Nat, i - 1 =< h, PostsTrack(l, d, h), NEW r, NEW q, NEW locks,
           CountedBeforeDeleted(l, d, r), LocksHeld(l, r, q, locks), NEW n, RowsTrack(l, q, n, h),
           q.tips = << >>
    PROVE  FirstTip(l, i) /\ d.posts[l[i].post] = "live"
  <1>1. i \in At(l, "tip") /\ i \in Nat
    BY DEF At, LogSound
  <1>2. \A j \in At(l, "tip") : ~(j =< h)
    BY DEF RowsTrack
  <1>3. \A j \in At(l, "tip") : ~(j =< h) => i =< j
    BY <1>1 DEF At
  <1>4. FirstTip(l, i)
    BY <1>1, <1>2, <1>3 DEF FirstTip
  <1>5. d.posts[l[i].post] # "deleted"
    BY <1>1, <1>4 DEF CountedBeforeDeleted, LocksHeld
  <1> QED
    BY <1>4, <1>5, LiveWhenPassed

LEMMA CountsPass ==
    ASSUME NEW e, NEW i, NEW q \in RowSet, NEW q2, NEW d, ClientTables(e, i, q, d, q2),
           RowsCounted(q), e.kind \in OnPost => e.post \in Posts,
           e.kind = "like" /\ <<e.user, e.post>> \notin q.likes => d.posts[e.post] = "live",
           e.kind = "tip" /\ q.tips = << >> => d.posts[e.post] = "live"
    PROVE  RowsCounted(q2)
  <1>1. /\ q2.likes = IF e.kind = "like" THEN q.likes \cup {<<e.user, e.post>>} ELSE q.likes
        /\ q2.count = IF e.kind = "like" /\ <<e.user, e.post>> \notin q.likes /\ d.posts[e.post] = "live"
                      THEN [q.count EXCEPT ![e.post] = @ + 1] ELSE q.count
    BY DEF ClientTables
  <1>2. /\ q2.tips = IF e.kind = "tip" /\ q.tips = << >> THEN <<e.post>> ELSE q.tips
        /\ q2.total = IF e.kind = "tip" /\ q.tips = << >> /\ d.posts[e.post] = "live"
                      THEN [q.total EXCEPT ![e.post] = @ + 1] ELSE q.total
    BY DEF ClientTables
  <1>3. q.count \in [Posts -> Nat] /\ q.total \in [Posts -> Nat]
    BY DEF RowSet
  <1>4. IsFiniteSet(q.likes) /\ \A p \in Posts : q.count[p] = Cardinality(LikesOn(q, p))
    BY DEF RowsCounted
  <1>5. IsFiniteSet(q2.likes) /\ \A p \in Posts : q2.count[p] = Cardinality(LikesOn(q2, p))
    <2>1. CASE e.kind = "like" /\ <<e.user, e.post>> \notin q.likes
      <3> DEFINE x == <<e.user, e.post>>
      <3>1. q2.likes = q.likes \cup {x} /\ q2.count = [q.count EXCEPT ![e.post] = @ + 1]
        BY <1>1, <2>1
      <3>2. IsFiniteSet(q2.likes)
        BY <1>4, <3>1, FS_AddElement
      <3>3. x[2] = e.post /\ x \notin q.likes
        BY <2>1
      <3> HIDE DEF x
      <3>4. ASSUME NEW p \in Posts PROVE q2.count[p] = Cardinality(LikesOn(q2, p))
        <4>1. CASE p = e.post
          <5>1. LikesOn(q2, p) = LikesOn(q, p) \cup {x} /\ x \notin LikesOn(q, p)
            BY <3>1, <3>3, <4>1 DEF LikesOn
          <5>2. IsFiniteSet(LikesOn(q, p))
            <6>1. LikesOn(q, p) \subseteq q.likes
              BY DEF LikesOn
            <6> QED
              BY <1>4, <6>1, FS_Subset
          <5>3. Cardinality(LikesOn(q, p) \cup {x}) = Cardinality(LikesOn(q, p)) + 1
            BY <5>1, <5>2, FS_AddElement
          <5>4. q2.count[p] = q.count[p] + 1
            BY <1>3, <3>1, <4>1
          <5> QED
            BY <1>4, <5>1, <5>3, <5>4
        <4>2. CASE p # e.post
          <5>1. LikesOn(q2, p) = LikesOn(q, p)
            BY <3>1, <3>3, <4>2 DEF LikesOn
          <5>2. q2.count[p] = q.count[p]
            BY <1>3, <3>1, <4>2
          <5> QED
            BY <1>4, <5>1, <5>2
        <4> QED
          BY <4>1, <4>2
      <3> QED
        BY <3>2, <3>4
    <2>2. CASE ~(e.kind = "like" /\ <<e.user, e.post>> \notin q.likes)
      <3>1. q2.likes = q.likes /\ q2.count = q.count
        BY <1>1, <2>2
      <3> QED
        BY <1>4, <3>1 DEF LikesOn
    <2> QED
      BY <2>1, <2>2
  <1>6. \/ q2.tips = << >> /\ \A p \in Posts : q2.total[p] = 0
        \/ \E x \in Posts : q2.tips = <<x>> /\ \A p \in Posts : q2.total[p] = IF p = x THEN 1 ELSE 0
    <2>1. CASE e.kind = "tip" /\ q.tips = << >>
      <3>1. q2.tips = <<e.post>> /\ q2.total = [q.total EXCEPT ![e.post] = @ + 1] /\ e.post \in Posts
        BY <1>2, <2>1 DEF OnPost
      <3>2. \A p \in Posts : q.total[p] = 0
        BY <2>1 DEF RowsCounted
      <3>3. \A p \in Posts : q2.total[p] = IF p = e.post THEN 1 ELSE 0
        BY <1>3, <3>1, <3>2
      <3> QED
        BY <3>1, <3>3
    <2>2. CASE ~(e.kind = "tip" /\ q.tips = << >>)
      <3>1. q2.tips = q.tips /\ q2.total = q.total
        BY <1>2, <2>2
      <3> QED
        BY <3>1 DEF RowsCounted
    <2> QED
      BY <2>1, <2>2
  <1> QED
    BY <1>5, <1>6 DEF RowsCounted

LEMMA LocksPass ==
    ASSUME NEW l, LogSound(l), NEW i \in 1 .. Len(l), NEW r, NEW q, NEW q2, NEW d, NEW locks, NEW taken,
           ClientTables(l[i], i, q, d, q2), LocksHeld(l, r, q, locks),
           l[i].kind = "like" /\ <<l[i].user, l[i].post>> \notin q.likes => l[i].post \in taken,
           l[i].kind = "tip" /\ q.tips = << >> => l[i].post \in taken /\ FirstTip(l, i)
    PROVE  LocksHeld(l, r, q2, locks \cup taken)
  <1> DEFINE e == l[i]
  <1>1. q2.likes = IF e.kind = "like" THEN q.likes \cup {<<e.user, e.post>>} ELSE q.likes
    BY DEF ClientTables
  <1>2. q2.tips = IF e.kind = "tip" /\ q.tips = << >> THEN <<e.post>> ELSE q.tips
    BY DEF ClientTables
  <1>3. <<e.post>> # << >>
    OBVIOUS
  <1>4. r.likes \subseteq q2.likes /\ (r.tips # << >> => q2.tips # << >>)
    BY <1>1, <1>2, <1>3 DEF LocksHeld
  <1>5. ASSUME NEW x \in q2.likes \ r.likes PROVE x[2] \in locks \cup taken
    <2>1. CASE x \in q.likes
      BY <2>1 DEF LocksHeld
    <2>2. CASE x \notin q.likes
      <3>1. e.kind = "like" /\ x = <<e.user, e.post>>
        BY <1>1, <2>2
      <3>2. x[2] = e.post
        BY <3>1
      <3> QED
        BY <2>2, <3>1, <3>2
    <2> QED
      BY <2>1, <2>2
  <1>6. ASSUME NEW j \in At(l, "tip"), FirstTip(l, j), r.tips = << >>, q2.tips # << >>
        PROVE  l[j].post \in locks \cup taken
    <2>1. CASE q.tips # << >>
      BY <1>6, <2>1 DEF LocksHeld
    <2>2. CASE q.tips = << >>
      <3>1. FirstTip(l, i) /\ e.post \in taken
        BY <1>2, <1>6, <2>2
      <3>2. \A a, b \in At(l, "tip") : a =< b /\ b =< a => a = b
        BY DEF At
      <3>3. i = j
        BY <1>6, <3>1, <3>2 DEF FirstTip
      <3> QED
        BY <3>1, <3>3
    <2> QED
      BY <2>1, <2>2
  <1> QED
    BY <1>4, <1>5, <1>6 DEF LocksHeld

LEMMA DeletionsPass ==
    ASSUME NEW l, LogSound(l), NEW i \in 1 .. Len(l), NEW d \in DirectSet, NEW d2, NEW r, NEW q, NEW locks,
           PoolTables(l[i], i, d, d2), CountedBeforeDeleted(l, d, r), LocksHeld(l, r, q, locks),
           NEW n, NEW h \in Nat, i - 1 =< h, RowsTrack(l, q, n, h),
           l[i].kind \in Deletion => l[i].post \notin locks
    PROVE  CountedBeforeDeleted(l, d2, r)
  <1> DEFINE e == l[i]
  <1>1. d2.posts = IF e.kind = "post_created"
                   THEN [d.posts EXCEPT ![e.post] = IF @ = "none" THEN "live" ELSE @]
                   ELSE IF e.kind \in Deletion
                        THEN [d.posts EXCEPT ![e.post] = IF @ = "live" THEN "deleted" ELSE @]
                        ELSE d.posts
    BY DEF PoolTables
  <1>2. d.posts \in [Posts -> {"none", "live", "deleted"}]
    BY DEF DirectSet
  <1>3. \A j \in 1 .. Len(l) : l[j].kind \in {"like", "tip"} => l[j].post \in Posts
    <2>1. \A j \in 1 .. Len(l) : l[j] \in Emitted
      BY DEF LogSound
    <2> QED
      BY <2>1, EventFields DEF OnPost
  <1>4. ASSUME NEW p \in Posts, d2.posts[p] = "deleted", d.posts[p] # "deleted"
        PROVE  e.kind \in Deletion /\ e.post = p
    <2> HIDE DEF e
    <2> QED
      BY <1>1, <1>2, <1>4
  <1>5. ASSUME e.kind \in Deletion, NEW j \in 1 .. Len(l), l[j].kind \in {"like", "tip"}, l[j].post = e.post
        PROVE  j =< h
    <2>1. j # i
      BY <1>5 DEF Deletion
    <2>2. ~(i < j)
      <3> SUFFICES ASSUME i < j PROVE FALSE
        OBVIOUS
      <3>1. i \in 1 .. j - 1
        OBVIOUS
      <3>2. DeletedBefore(l, j)
        BY <1>5, <3>1 DEF DeletedBefore
      <3> QED
        BY <1>5, <3>2 DEF LogSound, OfLivePost
    <2> QED
      BY <2>1, <2>2
  <1>6. ASSUME NEW j \in At(l, "like"), d2.posts[l[j].post] = "deleted"
        PROVE  <<l[j].user, l[j].post>> \in r.likes
    <2>1. j \in 1 .. Len(l) /\ l[j].kind = "like" /\ l[j].post \in Posts
      BY <1>3 DEF At
    <2>2. CASE d.posts[l[j].post] = "deleted"
      BY <2>2 DEF CountedBeforeDeleted
    <2>3. CASE d.posts[l[j].post] # "deleted"
      <3>1. e.kind \in Deletion /\ e.post = l[j].post
        BY <1>4, <1>6, <2>1, <2>3
      <3>2. j =< h
        BY <1>5, <2>1, <3>1
      <3>3. <<l[j].user, l[j].post>> \in q.likes
        BY <3>2 DEF RowsTrack
      <3>4. \A x \in q.likes \ r.likes : x[2] # l[j].post
        BY <3>1 DEF LocksHeld
      <3>5. <<l[j].user, l[j].post>>[2] = l[j].post
        OBVIOUS
      <3> QED
        BY <3>3, <3>4, <3>5
    <2> QED
      BY <2>2, <2>3
  <1>7. ASSUME NEW j \in At(l, "tip"), FirstTip(l, j), d2.posts[l[j].post] = "deleted"
        PROVE  r.tips # << >>
    <2>1. j \in 1 .. Len(l) /\ l[j].kind = "tip" /\ l[j].post \in Posts
      BY <1>3 DEF At
    <2>2. CASE d.posts[l[j].post] = "deleted"
      BY <1>7, <2>2 DEF CountedBeforeDeleted
    <2>3. CASE d.posts[l[j].post] # "deleted"
      <3>1. e.kind \in Deletion /\ e.post = l[j].post
        BY <1>4, <1>7, <2>1, <2>3
      <3>2. j =< h
        BY <1>5, <2>1, <3>1
      <3>3. q.tips # << >>
        BY <3>2 DEF RowsTrack
      <3> QED
        BY <1>7, <3>1, <3>3 DEF LocksHeld
    <2> QED
      BY <2>2, <2>3
  <1> QED
    BY <1>6, <1>7 DEF CountedBeforeDeleted

-----------------------------------------------------------------------------
(***************************************************************************)
(* The contract emits an event.                                            *)
(***************************************************************************)
Allowed(l, e) ==
    /\ e.kind \in OfLivePost =>
          /\ AtPost(l, "post_created", e.post) # {}
          /\ \A k \in Deletion : AtPost(l, k, e.post) = {}
    /\ e.kind \in OfAdmin => At(l, "pool_created") # {}
    /\ e.kind \in OfProposal => At(l, "gov_proposal_created") # {}
    /\ e.kind = "gov_proposal_created" => At(l, "gov_proposal_created") = {}
    /\ e.kind = "gov_vote" => AtUser(l, "gov_vote", e.user) = {}

LEMMA LogAppends ==
    ASSUME NEW l, LogSound(l), NEW e \in Emitted, Len(l) < MaxLog, Allowed(l, e),
           NEW l2, l2 = Append(l, e)
    PROVE  LogSound(l2) /\ Grows(l, l2)
  <1>1. /\ l \in Seq(Emitted) /\ Len(l) \in Nat /\ l2 \in Seq(Emitted) /\ Len(l2) = Len(l) + 1
        /\ l2[Len(l) + 1] = e /\ \A i \in 1 .. Len(l) : l2[i] = l[i]
    BY DEF LogSound
  <1>2. Len(l2) =< MaxLog
    BY <1>1, ProjectionAssumption
  <1>3. Grows(l, l2)
    BY <1>1 DEF Grows
  <1>4. ASSUME NEW i \in 1 .. Len(l2) PROVE i \in 1 .. Len(l) \/ i = Len(l) + 1
    BY <1>1
  <1>5. ASSUME NEW i \in 1 .. Len(l)
        PROVE  /\ l2[i] = l[i] /\ \A j \in 1 .. i - 1 : j \in 1 .. Len(l) /\ l2[j] = l[j]
    BY <1>1
  <1>6. \A j \in 1 .. (Len(l) + 1) - 1 : j \in 1 .. Len(l) /\ l2[j] = l[j]
    BY <1>1
  <1>7. \A j \in 1 .. Len(l) : j \in 1 .. (Len(l) + 1) - 1
    BY <1>1
  <1>8. ASSUME NEW i \in 1 .. Len(l2), l2[i].kind \in OfLivePost
        PROVE  CreatedBefore(l2, i) /\ ~DeletedBefore(l2, i)
    <2>1. CASE i \in 1 .. Len(l)
      <3>1. CreatedBefore(l, i) /\ ~DeletedBefore(l, i)
        BY <1>5, <1>8, <2>1 DEF LogSound
      <3> QED
        BY <1>5, <2>1, <3>1 DEF CreatedBefore, DeletedBefore
    <2>2. CASE i = Len(l) + 1
      <3>1. /\ AtPost(l, "post_created", e.post) # {}
            /\ \A k \in Deletion : AtPost(l, k, e.post) = {}
        BY <1>1, <1>8, <2>2 DEF Allowed
      <3>2. PICK j \in 1 .. Len(l) : l[j].kind = "post_created" /\ l[j].post = e.post
        BY <3>1 DEF AtPost, At
      <3>3. \A m \in 1 .. Len(l) : ~(l[m].kind \in Deletion /\ l[m].post = e.post)
        BY <3>1 DEF AtPost, At
      <3>4. CreatedBefore(l2, Len(l) + 1)
        BY <1>1, <1>6, <1>7, <3>2 DEF CreatedBefore
      <3>5. ~DeletedBefore(l2, Len(l) + 1)
        BY <1>1, <1>6, <3>3 DEF DeletedBefore
      <3> QED
        BY <2>2, <3>4, <3>5
    <2> QED
      BY <1>4, <2>1, <2>2
  <1>9. ASSUME NEW K, NEW k,
               \A i \in 1 .. Len(l) : l[i].kind \in K => KindBefore(l, k, i),
               e.kind \in K => At(l, k) # {},
               NEW i \in 1 .. Len(l2), l2[i].kind \in K
        PROVE  KindBefore(l2, k, i)
    <2>1. CASE i \in 1 .. Len(l)
      BY <1>5, <1>9, <2>1 DEF KindBefore
    <2>2. CASE i = Len(l) + 1
      <3>1. PICK j \in 1 .. Len(l) : l[j].kind = k
        BY <1>1, <1>9, <2>2 DEF At
      <3> QED
        BY <1>6, <1>7, <2>2, <3>1 DEF KindBefore
    <2> QED
      BY <1>4, <2>1, <2>2
  <1>10. \A i \in 1 .. Len(l2) : l2[i].kind \in OfAdmin => KindBefore(l2, "pool_created", i)
    <2>1. \A i \in 1 .. Len(l) : l[i].kind \in OfAdmin => KindBefore(l, "pool_created", i)
      BY DEF LogSound
    <2>2. e.kind \in OfAdmin => At(l, "pool_created") # {}
      BY DEF Allowed
    <2> QED
      BY <1>9, <2>1, <2>2
  <1>11. \A i \in 1 .. Len(l2) : l2[i].kind \in OfProposal => KindBefore(l2, "gov_proposal_created", i)
    <2>1. \A i \in 1 .. Len(l) : l[i].kind \in OfProposal => KindBefore(l, "gov_proposal_created", i)
      BY DEF LogSound
    <2>2. e.kind \in OfProposal => At(l, "gov_proposal_created") # {}
      BY DEF Allowed
    <2> QED
      BY <1>9, <2>1, <2>2
  <1>12. ASSUME NEW k, NEW i \in At(l2, k)
         PROVE  \/ i \in At(l, k) /\ l2[i] = l[i]
                \/ i = Len(l) + 1 /\ l2[i] = e /\ e.kind = k
    BY <1>1, <1>4 DEF At
  <1>13. \A i, j \in At(l2, "gov_proposal_created") : i = j
    BY <1>12 DEF LogSound, Allowed
  <1>14. ASSUME NEW i \in At(l2, "gov_vote"), NEW j \in At(l2, "gov_vote"), l2[i].user = l2[j].user
         PROVE  i = j
    <2>1. ASSUME NEW a \in At(l, "gov_vote"), l[a].user = e.user, e.kind = "gov_vote" PROVE FALSE
      BY <2>1 DEF Allowed, AtUser
    <2>2. \A a, b \in At(l, "gov_vote") : l[a].user = l[b].user => a = b
      BY DEF LogSound
    <2>3. \/ i \in At(l, "gov_vote") /\ l2[i] = l[i]
          \/ i = Len(l) + 1 /\ l2[i] = e /\ e.kind = "gov_vote"
      BY <1>12
    <2>4. \/ j \in At(l, "gov_vote") /\ l2[j] = l[j]
          \/ j = Len(l) + 1 /\ l2[j] = e /\ e.kind = "gov_vote"
      BY <1>12
    <2> QED
      BY <1>14, <2>1, <2>2, <2>3, <2>4
  <1> QED
    BY <1>1, <1>2, <1>3, <1>8, <1>10, <1>11, <1>13, <1>14 DEF LogSound

LEMMA OfAt ==
    ASSUME LogSound(log)
    PROVE  /\ DOMAIN log = 1 .. Len(log)
           /\ \A k : Of(k) = At(log, k)
           /\ \A k, u : OfUser(k, u) = AtUser(log, k, u)
           /\ \A k, p : OfPost(k, p) = AtPost(log, k, p)
           /\ \A k, u, p : OfPair(k, u, p) = AtPair(log, k, u, p)
  <1>1. DOMAIN log = 1 .. Len(log)
    BY DEF LogSound
  <1>2. ASSUME NEW k PROVE Of(k) = At(log, k)
    BY <1>1 DEF Of, At
  <1>3. ASSUME NEW k, NEW u PROVE OfUser(k, u) = AtUser(log, k, u)
    BY <1>2 DEF OfUser, AtUser
  <1>4. ASSUME NEW k, NEW p PROVE OfPost(k, p) = AtPost(log, k, p)
    BY <1>2 DEF OfPost, AtPost
  <1>5. ASSUME NEW k, NEW u, NEW p PROVE OfPair(k, u, p) = AtPair(log, k, u, p)
    BY <1>2 DEF OfPair, OfUser, OfPost, AtPair
  <1> QED
    BY <1>1, <1>2, <1>3, <1>4, <1>5

LEMMA EmittableGuards ==
    ASSUME NEW e, Emittable(e)
    PROVE  /\ e.kind \in OfLivePost => Live(e.post)
           /\ e.kind = "pool_admin_added" => Of("pool_created") # {}
           /\ e.kind = "pool_admin_removed" => Admin(e.user)
           /\ e.kind \in OfProposal => Open
           /\ e.kind = "gov_proposal_created" => Of("gov_proposal_created") = {}
           /\ e.kind = "gov_vote" => OfUser("gov_vote", e.user) = {}
  BY DEF Emittable, OfLivePost, Deletion, OfProposal

LEMMA EmitAllowed ==
    ASSUME LogSound(log), NEW e, Emittable(e)
    PROVE  Allowed(log, e)
  <1>1. e.kind \in OfLivePost => /\ AtPost(log, "post_created", e.post) # {}
                                 /\ \A k \in Deletion : AtPost(log, k, e.post) = {}
    <2> SUFFICES ASSUME e.kind \in OfLivePost
                 PROVE  /\ AtPost(log, "post_created", e.post) # {}
                        /\ \A k \in Deletion : AtPost(log, k, e.post) = {}
      OBVIOUS
    <2>1. Live(e.post)
      BY EmittableGuards
    <2>2. /\ AtPost(log, "post_created", e.post) # {}
          /\ AtPost(log, "post_deleted", e.post) = {} /\ AtPost(log, "post_removed", e.post) = {}
      BY <2>1, OfAt DEF Live
    <2> QED
      BY <2>2 DEF Deletion
  <1>2. e.kind \in OfAdmin => At(log, "pool_created") # {}
    <2>1. CASE e.kind = "pool_admin_added"
      BY <2>1, EmittableGuards, OfAt
    <2>2. CASE e.kind = "pool_admin_removed"
      <3>1. PICK i \in AtUser(log, "pool_admin_added", e.user) : TRUE
        BY <2>2, EmittableGuards, OfAt DEF Admin, Latest
      <3>2. i \in 1 .. Len(log) /\ log[i].kind \in OfAdmin
        BY <3>1 DEF AtUser, At, OfAdmin
      <3>3. PICK j \in 1 .. i - 1 : log[j].kind = "pool_created"
        BY <3>2 DEF LogSound, KindBefore
      <3>4. j \in 1 .. Len(log)
        BY <3>2, <3>3 DEF LogSound
      <3> QED
        BY <3>3, <3>4 DEF At
    <2> QED
      BY <2>1, <2>2 DEF OfAdmin
  <1>3. e.kind \in OfProposal => At(log, "gov_proposal_created") # {}
    BY EmittableGuards, OfAt DEF Open
  <1>4. e.kind = "gov_proposal_created" => At(log, "gov_proposal_created") = {}
    BY EmittableGuards, OfAt
  <1>5. e.kind = "gov_vote" => AtUser(log, "gov_vote", e.user) = {}
    BY EmittableGuards, OfAt
  <1> QED
    BY <1>1, <1>2, <1>3, <1>4, <1>5 DEF Allowed

(***************************************************************************)
(* The deletions seen so far and the locks are no less covered: a like or  *)
(* tip is emitted only for a post that no event has deleted.               *)
(***************************************************************************)
LEMMA CoverGrows ==
    ASSUME NEW l, LogSound(l), NEW e \in Emitted, Allowed(l, e), NEW l2, l2 = Append(l, e),
           NEW d, NEW n, NEW h, DirectSound(l, d, n, h), NEW r, CountedBeforeDeleted(l, d, r)
    PROVE  CountedBeforeDeleted(l2, d, r)
  <1>1. /\ Len(l) \in Nat /\ Len(l2) = Len(l) + 1 /\ l2[Len(l) + 1] = e
        /\ \A i \in 1 .. Len(l) : l2[i] = l[i]
    BY DEF LogSound
  <1>2. ASSUME NEW k, NEW i \in At(l2, k)
        PROVE  \/ i \in At(l, k) /\ l2[i] = l[i]
               \/ i = Len(l) + 1 /\ l2[i] = e /\ e.kind = k
    BY <1>1 DEF At
  <1>3. ASSUME e.kind \in {"like", "tip"} PROVE d.posts[e.post] # "deleted"
    <2>1. e.post \in Posts
      BY <1>3, EventFields DEF OnPost
    <2>2. \A k \in Deletion : AtPost(l, k, e.post) = {}
      BY <1>3 DEF Allowed, OfLivePost
    <2> QED
      BY <2>1, <2>2 DEF DirectSound, PostsTrack
  <1>4. \A i \in At(l2, "like") :
            d.posts[l2[i].post] = "deleted" => <<l2[i].user, l2[i].post>> \in r.likes
    <2> SUFFICES ASSUME NEW i \in At(l2, "like"), d.posts[l2[i].post] = "deleted"
                 PROVE  <<l2[i].user, l2[i].post>> \in r.likes
      OBVIOUS
    <2>1. i \in At(l, "like") /\ l2[i] = l[i]
      BY <1>2, <1>3
    <2> QED
      BY <2>1 DEF CountedBeforeDeleted
  <1>5. \A i \in At(l2, "tip") : FirstTip(l2, i) /\ d.posts[l2[i].post] = "deleted" => r.tips # << >>
    <2> SUFFICES ASSUME NEW i \in At(l2, "tip"), FirstTip(l2, i), d.posts[l2[i].post] = "deleted"
                 PROVE  r.tips # << >>
      OBVIOUS
    <2>1. i \in At(l, "tip") /\ l2[i] = l[i]
      BY <1>2, <1>3
    <2>2. \A j \in At(l, "tip") : j \in At(l2, "tip")
      BY <1>1 DEF At
    <2>3. FirstTip(l, i)
      BY <2>1, <2>2 DEF FirstTip
    <2> QED
      BY <2>1, <2>3 DEF CountedBeforeDeleted
  <1> QED
    BY <1>4, <1>5 DEF CountedBeforeDeleted

LEMMA LocksGrow ==
    ASSUME NEW l, LogSound(l), NEW e \in Emitted, Allowed(l, e), NEW l2, l2 = Append(l, e),
           NEW r, NEW q, NEW locks, LocksHeld(l, r, q, locks), q.tips # << >> => At(l, "tip") # {}
    PROVE  LocksHeld(l2, r, q, locks)
  <1>1. /\ Len(l) \in Nat /\ Len(l2) = Len(l) + 1 /\ l2[Len(l) + 1] = e
        /\ \A i \in 1 .. Len(l) : l2[i] = l[i]
    BY DEF LogSound
  <1>2. ASSUME NEW k, NEW i \in At(l2, k)
        PROVE  \/ i \in At(l, k) /\ l2[i] = l[i]
               \/ i = Len(l) + 1 /\ l2[i] = e /\ e.kind = k
    BY <1>1 DEF At
  <1>4. \A i \in At(l2, "tip") :
            FirstTip(l2, i) /\ r.tips = << >> /\ q.tips # << >> => l2[i].post \in locks
    <2> SUFFICES ASSUME NEW i \in At(l2, "tip"), FirstTip(l2, i), r.tips = << >>, q.tips # << >>
                 PROVE  l2[i].post \in locks
      OBVIOUS
    <2>1. PICK j \in At(l, "tip") : TRUE
      OBVIOUS
    <2>2. j \in At(l2, "tip") /\ j =< Len(l) /\ j \in Nat
      BY <1>1, <2>1 DEF At
    <2>3. i =< j
      BY <2>2 DEF FirstTip
    <2>4. i # Len(l) + 1
      BY <1>1, <2>2, <2>3
    <2>5. i \in At(l, "tip") /\ l2[i] = l[i]
      BY <1>2, <2>4
    <2>6. \A m \in At(l, "tip") : m \in At(l2, "tip")
      BY <1>1 DEF At
    <2>7. FirstTip(l, i)
      BY <2>5, <2>6 DEF FirstTip
    <2> QED
      BY <2>5, <2>7 DEF LocksHeld
  <1> QED
    BY <1>4 DEF LocksHeld

-----------------------------------------------------------------------------
(***************************************************************************)
(* The steps.                                                              *)
(***************************************************************************)
LEMMA NoTxTyped ==
    NoTx \in TxSet /\ NoTx.open = FALSE /\ NoTx.step = "run" /\ NoRows \in RowSet
  <1>1. /\ [p \in Posts |-> 0] \in [Posts -> Nat] /\ [u \in Users |-> 0] \in [Users -> Nat]
        /\ << >> \in Seq(Posts)
    OBVIOUS
  <1>2. NoRows \in RowSet
    BY <1>1 DEF NoRows, RowSet
  <1> QED
    BY <1>2 DEF NoTx, TxSet

LEMMA StepNames == "run" \notin Steps /\ "done" \notin Steps /\ \A e : FirstStep(e) \in {"author", "check"}
  BY DEF Steps, FirstStep

LEMMA InFlightBusy == \A i : InFlight(i) <=> Busy(listening[i])
  BY DEF InFlight, Busy

\* No transaction is open, and no handler dispatches.
LEMMA Closed ==
    ASSUME ~tx.open
    PROVE  Reached = at /\ \A i : Handler(i) = "run" /\ ~Handled(i)
  BY DEF Reached, Handler, Handled

(***************************************************************************)
(* The calls for one event, one await further.                             *)
(***************************************************************************)
AwaitOne(i, x, t, s, s2, M, M2) ==
    \/ x = "author" /\ t \in {"check", "done"} /\ s2 = s /\ M2 = M
    \/ x = "check" /\ t = "done" /\ s2 = s /\ M2 = M
    \/ x = "check" /\ t = "send" /\ i \notin M /\ s2 = s /\ M2 = M
    \/ x = "send" /\ t = "done" /\ s2 = s /\ M2 = M
    \/ x = "send" /\ t = "mark" /\ s2 = s + 1 /\ M2 = M
    \/ x = "mark" /\ t = "done" /\ s2 = s /\ i \in M2

LEMMA HandlerAwaits ==
    ASSUME NEW i, NEW c, NEW g \in Steps, NEW t, NEW s \in Nat, NEW s2, NEW M, NEW M2, NEW g2,
           OneCall(i, c, g, s, M), AwaitOne(i, g, t, s, s2, M, M2),
           g2 = IF t = "done" THEN "run" ELSE t
    PROVE  OneCall(i, c, g2, s2, M2)
  <1>1. \A x \in Steps : ~(c[x] > 0)
    BY StepNames DEF OneCall, Busy
  <1>2. "mark" \in Steps /\ "send" \in Steps
    BY DEF Steps
  <1>3. ~(c["mark"] > 0) /\ ~(c["send"] > 0)
    BY <1>1, <1>2
  <1>4. s =< 1 /\ (s = 1 => i \in M \/ g = "mark") /\ (g = "send" => s = 0)
    BY <1>3 DEF OneCall, Calling
  <1>5. s2 =< 1 /\ (s2 = 1 => i \in M2 \/ g2 = "mark") /\ (g2 = "send" => s2 = 0)
    BY <1>4 DEF AwaitOne
  <1>6. /\ \A x, y \in Steps : c[x] > 0 /\ c[y] > 0 => x = y /\ c[x] = 1
        /\ Busy(c) => g2 = "run"
    BY <1>1 DEF Busy
  <1> QED
    BY <1>3, <1>5, <1>6 DEF OneCall, Calling

\* The counts when a call goes from step x to step t.
Moved(c, x, t) == IF t = "done" THEN [c EXCEPT ![x] = @ - 1]
                  ELSE [[c EXCEPT ![x] = @ - 1] EXCEPT ![t] = @ + 1]

LEMMA ListenerAwaits ==
    ASSUME NEW i, NEW c \in [Steps -> Nat], NEW g, NEW x \in Steps, c[x] > 0, NEW t, NEW s \in Nat, NEW s2,
           NEW M, NEW M2, OneCall(i, c, g, s, M), AwaitOne(i, x, t, s, s2, M, M2)
    PROVE  OneCall(i, Moved(c, x, t), g, s2, M2)
  <1> DEFINE c2 == Moved(c, x, t)
  <1>1. g = "run" /\ c[x] = 1 /\ \A y \in Steps : c[y] > 0 => y = x
    BY DEF OneCall, Busy
  <1>2. \A y \in Steps : y # x => c[y] = 0
    BY <1>1
  <1>3. /\ t # "done" => t \in Steps /\ t # x
        /\ "mark" \in Steps /\ "send" \in Steps
    BY DEF AwaitOne, Steps
  <1>4. \A y \in Steps : c2[y] = IF y = t THEN 1 ELSE 0
    <2>1. CASE t = "done"
      <3>1. c2 = [c EXCEPT ![x] = @ - 1]
        BY <2>1 DEF Moved
      <3> QED
        BY <1>1, <1>2, <2>1, <3>1, StepNames
    <2>2. CASE t # "done"
      <3>1. c2 = [[c EXCEPT ![x] = @ - 1] EXCEPT ![t] = @ + 1]
        BY <2>2 DEF Moved
      <3> QED
        BY <1>1, <1>2, <1>3, <2>2, <3>1
    <2> QED
      BY <2>1, <2>2
  <1> HIDE DEF c2
  <1>5. s =< 1 /\ (s = 1 => i \in M \/ x = "mark") /\ (x = "send" => s = 0)
    <2>1. c["mark"] > 0 => x = "mark"
      BY <1>1, <1>3
    <2> QED
      BY <1>1, <2>1, <1>3, StepNames DEF OneCall, Calling
  <1>6. s2 =< 1 /\ (s2 = 1 => i \in M2 \/ t = "mark") /\ (t = "send" => s2 = 0)
    BY <1>5 DEF AwaitOne
  <1>7. (c2["mark"] > 0 <=> t = "mark") /\ (c2["send"] > 0 <=> t = "send")
    BY <1>3, <1>4
  <1>8. \A y, z \in Steps : c2[y] > 0 /\ c2[z] > 0 => y = z /\ c2[y] = 1
    BY <1>4
  <1>9. OneCall(i, c2, g, s2, M2)
    BY <1>1, <1>3, <1>6, <1>7, <1>8, StepNames DEF OneCall, Calling
  <1> QED
    BY <1>9 DEF c2

\* A call that is not at "mark" may end, and a call may start when there is none.
LEMMA CallEnds ==
    ASSUME NEW i, NEW c, NEW g, NEW s, NEW M, OneCall(i, c, g, s, M), g # "mark"
    PROVE  OneCall(i, c, "run", s, M)
  BY DEF OneCall, Calling

LEMMA ListenerEnds ==
    ASSUME NEW i, NEW c \in [Steps -> Nat], NEW g, NEW s, NEW M, NEW x \in Steps, NEW c2, c[x] > 0, x # "mark",
           OneCall(i, c, g, s, M), c2 = [c EXCEPT ![x] = @ - 1]
    PROVE  OneCall(i, c2, g, s, M)
  <1>1. \A y \in Steps : c2[y] = IF y = x THEN c[y] - 1 ELSE c[y]
    OBVIOUS
  <1>2. c[x] = 1 /\ \A y \in Steps : c[y] > 0 => y = x
    BY DEF OneCall
  <1>3. \A y \in Steps : c2[y] = 0
    BY <1>1, <1>2
  <1>4. "mark" \in Steps /\ "send" \in Steps
    BY DEF Steps
  <1>5. c2["mark"] = 0 /\ c2["send"] = 0 /\ ~(c["mark"] > 0)
    BY <1>2, <1>3, <1>4
  <1>6. ~Busy(c2) /\ g = "run"
    BY <1>3 DEF Busy, OneCall
  <1> QED
    BY <1>3, <1>5, <1>6 DEF OneCall, Calling

LEMMA CallStarts ==
    ASSUME NEW i, NEW c \in [Steps -> Nat], NEW g, NEW s \in Nat, NEW M, OneCall(i, c, "run", s, M), ~Busy(c),
           g \in {"author", "check", "run"}
    PROVE  OneCall(i, c, g, s, M)
  BY StepNames DEF OneCall, Calling, Busy, Steps

LEMMA ListenerStarts ==
    ASSUME NEW i, NEW c \in [Steps -> Nat], NEW x \in {"author", "check"}, NEW s \in Nat, NEW M, NEW c2,
           OneCall(i, c, "run", s, M), ~Busy(c), c2 = [c EXCEPT ![x] = @ + 1]
    PROVE  OneCall(i, c2, "run", s, M)
  <1>1. x \in Steps /\ x # "mark" /\ x # "send" /\ "mark" \in Steps /\ "send" \in Steps
    BY DEF Steps
  <1>2. \A y \in Steps : c2[y] = IF y = x THEN 1 ELSE 0
    BY <1>1 DEF Busy
  <1>3. s =< 1 /\ (s = 1 => i \in M)
    BY <1>1, StepNames DEF OneCall, Calling, Busy
  <1> QED
    BY <1>1, <1>2, <1>3, StepNames DEF OneCall, Calling

LEMMA AwaitEach ==
    ASSUME PushSound, NEW i \in 1 .. MaxLog, NEW x, NEW t, Await(i, x, t), x = "mark" => sent[i] >= 1
    PROVE  /\ AwaitOne(i, x, t, sent[i], sent'[i], marked, marked')
           /\ sent' \in [1 .. MaxLog -> Nat] /\ marked' \subseteq 1 .. MaxLog
           /\ \A j \in 1 .. MaxLog : j # i => sent'[j] = sent[j] /\ (j \in marked' <=> j \in marked)
           /\ \A j \in marked' : sent'[j] >= 1
           /\ sent'[i] >= sent[i] /\ (t = "mark" => sent'[i] >= 1)
           /\ unmarked' = unmarked
  <1>1. /\ sent \in [1 .. MaxLog -> Nat] /\ marked \subseteq 1 .. MaxLog
        /\ \A j \in marked : sent[j] >= 1
    BY DEF PushSound
  <1>2. CASE x = "author" /\ t \in {"check", "done"} /\ UNCHANGED pushes
    BY <1>1, <1>2 DEF AwaitOne, pushes
  <1>3. CASE x = "check" /\ t = (IF i \in marked THEN "done" ELSE "send") /\ UNCHANGED pushes
    BY <1>1, <1>3 DEF AwaitOne, pushes
  <1>4. CASE x = "send" /\ t = "done" /\ UNCHANGED pushes
    BY <1>1, <1>4 DEF AwaitOne, pushes
  <1>5. CASE x = "send" /\ t = "mark" /\ sent' = [sent EXCEPT ![i] = @ + 1] /\ UNCHANGED <<marked, unmarked>>
    BY <1>1, <1>5 DEF AwaitOne
  <1>6. CASE x = "mark" /\ t = "done" /\ marked' = marked \cup {i} /\ UNCHANGED <<sent, unmarked>>
    BY <1>1, <1>6 DEF AwaitOne
  <1> QED
    BY <1>2, <1>3, <1>4, <1>5, <1>6 DEF Await, AlreadyDispatched, Fault

LEMMA InitInv == Init => ProjectionInv
  <1> SUFFICES ASSUME Init PROVE ProjectionInv
    OBVIOUS
  <1>1. log = << >> /\ at = 0 /\ rows = NoRows /\ tx = NoTx /\ processed = 0
        /\ recovering = FALSE /\ Reached = 0 /\ Sure(at) = 0 /\ Sure(Reached) = 0 /\ Seen = 0
    BY NoTxTyped DEF Init, Reached, Sure, Seen
  <1>2. Len(log) = 0 /\ log \in Seq(Emitted) /\ 1 .. Len(log) = {}
    BY <1>1
  <1>3. \A k : At(log, k) = {}
    BY <1>2 DEF At
  <1>4. \A k : /\ \A u : AtUser(log, k, u) = {}
               /\ \A p : AtPost(log, k, p) = {}
               /\ \A u, p : AtPair(log, k, u, p) = {}
    BY <1>3 DEF AtUser, AtPost, AtPair
  <1>5. LogSound(log)
    BY <1>2, <1>3, ProjectionAssumption DEF LogSound
  <1>6. /\ listening \in [1 .. MaxLog -> [Steps -> Nat]]
        /\ \A i \in 1 .. MaxLog : \A x \in Steps : listening[i][x] = 0
    BY DEF Init, NoListeners
  <1>7. Place /\ PushSound
    <2>1. ~tx.open /\ \A i \in 1 .. MaxLog : ~InFlight(i) /\ ~Busy(listening[i])
      BY <1>1, <1>6, NoTxTyped DEF InFlight, Busy
    <2>2. Place
      <3>1. at \in 0 .. Len(log) /\ processed \in at .. Len(log)
        BY <1>1, <1>2
      <3>2. recovering \in BOOLEAN /\ tx \in TxSet
        BY <1>1, NoTxTyped
      <3> QED
        BY <1>6, <2>1, <3>1, <3>2 DEF Place
    <2>3. /\ sent \in [1 .. MaxLog -> Nat] /\ marked = {} /\ \A i \in 1 .. MaxLog : sent[i] = 0
      BY DEF Init
    <2>4. "mark" \in Steps /\ "send" \in Steps
      BY DEF Steps
    <2>5. \A i \in 1 .. MaxLog : /\ ~Calling(listening[i], Handler(i), "mark")
                                 /\ OneCall(i, listening[i], Handler(i), sent[i], marked)
      BY <1>6, <2>1, <2>3, <2>4, Closed DEF OneCall, Calling
    <2> QED
      BY <2>1, <2>2, <2>3, <2>5, Closed DEF PushSound
  <1>8. RowsSound(log, rows, 0, 0)
    <2>1. /\ rows.follows = {} /\ rows.blocks = {} /\ rows.likes = {} /\ rows.tips = << >>
          /\ rows.dead = {} /\ rows.dmKey = [u \in Users |-> 0]
          /\ rows.count = [p \in Posts |-> 0] /\ rows.total = [p \in Posts |-> 0]
      BY <1>1 DEF NoRows
    <2>2. \A u \in Users : rows.dmKey[u] = 0
      BY <2>1
    <2>3. \A T, n : \A x : x \notin T => Tracks(x, T, {}, {}, n)
      BY DEF Tracks
    <2>4. \A n : Shows(0, {}, {}, n)
      BY DEF Shows
    <2>5. RowsTrack(log, rows, 0, 0)
      <3>1. ASSUME NEW u \in Users
            PROVE  /\ Tracks(u, rows.follows, AtUser(log, "follow", u), AtUser(log, "unfollow", u), 0)
                   /\ Tracks(u, rows.blocks, AtUser(log, "block", u), AtUser(log, "unblock", u), 0)
        <4>1. u \notin rows.follows /\ u \notin rows.blocks
          BY <2>1
        <4> QED
          BY <1>4, <4>1 DEF Tracks
      <3>2. ASSUME NEW u \in Users
            PROVE  Shows(rows.dmKey[u], AtUser(log, "dm_key_published", u), {}, 0)
        BY <1>4, <2>2, <2>4
      <3> QED
        BY <1>3, <2>1, <3>1, <3>2 DEF RowsTrack
    <2>6. \A p : LikesOn(rows, p) = {}
      BY <2>1 DEF LikesOn
    <2>7. RowsCounted(rows)
      BY <2>1, <2>6, FS_EmptySet DEF RowsCounted
    <2> QED
      BY <1>1, <2>5, <2>7, NoTxTyped DEF RowsSound
  <1>9. DirectSound(log, direct, 0, 0)
    <2>1. direct = [posts |-> [p \in Posts |-> "none"], pending |-> {},
                    profile |-> [u \in Users |-> 0], pool |-> FALSE, balance |-> 0,
                    admins |-> {}, status |-> "none", voters |-> {}, tally |-> 0]
      BY DEF Init
    <2>2. direct \in DirectSet
      <3>1. /\ [p \in Posts |-> "none"] \in [Posts -> {"none", "live", "deleted"}]
            /\ [u \in Users |-> 0] \in [Users -> Nat]
        OBVIOUS
      <3> QED
        BY <2>1, <3>1 DEF DirectSet
    <2>3. /\ \A p \in Posts : direct.posts[p] = "none"
          /\ \A u \in Users : direct.profile[u] = 0
          /\ direct.pending = {} /\ direct.admins = {} /\ direct.status = "none"
          /\ direct.voters = {} /\ direct.tally = 0
      BY <2>1
    <2>4. \A T, n : \A x : x \notin T => Tracks(x, T, {}, {}, n)
      BY DEF Tracks
    <2>5. \A n : Shows(0, {}, {}, n)
      BY DEF Shows
    <2>6. PostsTrack(log, direct, 0)
      BY <1>4, <2>3 DEF PostsTrack
    <2>7. ReportsTrack(log, direct, 0) /\ ProfilesTrack(log, direct, 0)
      BY <1>4, <2>3, <2>4, <2>5 DEF ReportsTrack, ProfilesTrack
    <2>8. PoolTracks(log, direct, 0, 0)
      BY <1>3, <1>4, <2>3, <2>4 DEF PoolTracks
    <2>9. ProposalTracks(log, direct, 0, 0)
      <3>1. "Active" \notin {direct.status}
        BY <2>3
      <3>2. Tracks("Active", {direct.status}, {}, {}, 0)
        BY <2>4, <3>1
      <3>3. {} \cup {} = {}
        OBVIOUS
      <3> QED
        BY <1>3, <3>2, <3>3 DEF ProposalTracks
    <2>10. VotesTrack(log, direct, 0)
      BY <1>3, <2>3, FS_EmptySet DEF VotesTrack
    <2> QED
      BY <2>2, <2>6, <2>7, <2>8, <2>9, <2>10 DEF DirectSound
  <1>10. CountedBeforeDeleted(log, direct, rows)
    BY <1>3 DEF CountedBeforeDeleted
  <1>11. TablesSound
    BY <1>1, <1>8, <1>9, <1>10, NoTxTyped DEF TablesSound
  <1> QED
    BY <1>5, <1>7, <1>11 DEF ProjectionInv

LEMMA Numbers ==
    ASSUME ProjectionInv
    PROVE  /\ Len(log) \in Nat /\ Len(log) =< MaxLog /\ MaxLog \in Nat /\ at \in Nat /\ at =< Len(log)
           /\ processed \in Nat /\ at =< processed /\ processed =< Len(log) /\ recovering \in BOOLEAN
           /\ Reached \in Nat /\ Reached =< Len(log) /\ at =< Reached
           /\ Seen \in Nat /\ Seen =< Len(log) /\ processed =< Seen /\ Reached =< Seen
           /\ Grows(log, log)
           /\ tx.open => /\ tx.next \in Nat \ {0} /\ tx.to \in Nat /\ Reached = tx.next - 1
                         /\ tx.next =< tx.to + 1 /\ tx.to =< Len(log) /\ at < tx.to
           /\ ~tx.open => Reached = at /\ Seen = processed
  <1>1. Len(log) \in Nat /\ Len(log) =< MaxLog /\ MaxLog \in Nat
    BY ProjectionAssumption DEF ProjectionInv, LogSound
  <1>2. /\ at \in Nat /\ at =< Len(log) /\ processed \in Nat /\ at =< processed /\ processed =< Len(log)
        /\ recovering \in BOOLEAN
    BY <1>1 DEF ProjectionInv, Place
  <1>3. tx.open => /\ tx.next \in Nat \ {0} /\ tx.to \in Nat /\ Reached = tx.next - 1
                   /\ tx.next =< tx.to + 1 /\ tx.to =< Len(log) /\ at < tx.to
                   /\ Reached \in Nat /\ Reached =< Len(log) /\ at =< Reached
    <2> SUFFICES ASSUME tx.open
                 PROVE  /\ tx.next \in Nat \ {0} /\ tx.to \in Nat /\ Reached = tx.next - 1
                        /\ tx.next =< tx.to + 1 /\ tx.to =< Len(log) /\ at < tx.to
                        /\ Reached \in Nat /\ Reached =< Len(log) /\ at =< Reached
      OBVIOUS
    <2>1. tx.to \in at + 1 .. Len(log) /\ tx.next \in at + 1 .. tx.to + 1
      BY DEF ProjectionInv, Place
    <2> QED
      BY <1>1, <1>2, <2>1 DEF Reached
  <1>4. ~tx.open => Reached = at
    BY DEF Reached
  <1>5. Reached \in Nat /\ Reached =< Len(log) /\ at =< Reached
    BY <1>2, <1>3, <1>4
  <1>6. Seen \in Nat /\ Seen =< Len(log) /\ processed =< Seen /\ Reached =< Seen /\ (Reached = at => Seen = processed)
    BY <1>2, <1>5 DEF Seen
  <1>7. Grows(log, log)
    BY <1>1 DEF Grows
  <1> QED
    BY <1>1, <1>2, <1>3, <1>4, <1>5, <1>6, <1>7

LEMMA SureNumbers ==
    ASSUME ProjectionInv
    PROVE  /\ Sure(at) \in Nat /\ Sure(at) =< Len(log) /\ Sure(at) =< Sure(Reached)
           /\ Sure(Reached) \in Nat /\ Sure(Reached) =< Len(log)
  BY Numbers DEF Sure

(***************************************************************************)
(* The tables when the transaction, if there is one, is gone, and the      *)
(* stream stands at a position it is no surer of.  What was written beside *)
(* the transaction stays.                                                  *)
(***************************************************************************)
LEMMA FallBack ==
    ASSUME ProjectionInv, tx' = NoTx, at' \in 0 .. processed, recovering' \in BOOLEAN,
           Sure(at)' =< Sure(at), UNCHANGED <<log, processed, tables>>
    PROVE  TablesSound'
  <1>1. /\ rows' = rows /\ direct' = direct /\ log' = log /\ processed' = processed
        /\ tx'.open = FALSE /\ Reached' = at' /\ Sure(Reached)' = Sure(at)'
    BY NoTxTyped DEF tables, Reached, Sure
  <1>2. Seen' = processed
    BY <1>1, Numbers DEF Seen
  <1>3. Sure(at)' \in Nat /\ Sure(at)' =< Sure(Reached)
    <2>1. Sure(at)' \in Nat
      BY Numbers DEF Sure
    <2> QED
      BY <2>1, SureNumbers
  <1>4. RowsSound(log, rows, Sure(at)', processed)
    BY <1>3, Numbers, SureNumbers, RowsGrow DEF ProjectionInv, TablesSound, RowsSound
  <1>5. DirectSound(log, direct, Sure(at)', processed)
    BY <1>3, Numbers, SureNumbers, DirectGrow DEF ProjectionInv, TablesSound
  <1>6. CountedBeforeDeleted(log, direct, rows)
    BY DEF ProjectionInv, TablesSound
  <1> QED
    BY <1>1, <1>2, <1>4, <1>5, <1>6 DEF TablesSound

\* The tables when the transaction, if there is one, writes nothing.
LEMMA TablesKept ==
    ASSUME ProjectionInv, UNCHANGED <<log, place, tables>>, tx'.open = tx.open, tx'.next = tx.next,
           tx'.rows = tx.rows, tx'.locks = tx.locks
    PROVE  TablesSound'
  <1>1. /\ rows' = rows /\ direct' = direct /\ log' = log
        /\ processed' = processed /\ at' = at /\ recovering' = recovering
    BY DEF place, tables
  <1>2. Reached' = Reached
    BY <1>1 DEF Reached
  <1>3. Seen' = Seen /\ Sure(at)' = Sure(at) /\ Sure(Reached)' = Sure(Reached)
    BY <1>1, <1>2 DEF Seen, Sure
  <1> QED
    BY <1>1, <1>3 DEF ProjectionInv, TablesSound

\* Where the stream is, when neither it nor the listener moves.
LEMMA ClosedPlace ==
    ASSUME ProjectionInv, tx' = NoTx, log' = log, at' \in 0 .. Len(log), processed' \in at' .. Len(log),
           recovering' \in BOOLEAN, listening' \in [1 .. MaxLog -> [Steps -> Nat]],
           \A i \in 1 .. MaxLog : Busy(listening'[i]) => i =< processed' /\ log[i].kind \in Notifying
    PROVE  Place'
  <1>1. tx' \in TxSet /\ tx'.open = FALSE
    BY NoTxTyped
  <1>2. \A i \in 1 .. MaxLog : InFlight(i)' => i =< processed' /\ log'[i].kind \in Notifying
    BY DEF InFlight, Busy
  <1> QED
    BY <1>1, <1>2 DEF Place

(***************************************************************************)
(* The pushes when no call goes on, and when the transaction is gone.      *)
(***************************************************************************)
LEMMA PushKept ==
    ASSUME PushSound, UNCHANGED <<at, tx, listening, pushes, refetched>>
    PROVE  PushSound'
  <1>1. /\ at' = at /\ tx' = tx /\ listening' = listening /\ sent' = sent /\ marked' = marked
        /\ unmarked' = unmarked /\ refetched' = refetched
    BY DEF pushes
  <1>2. \A i : Handler(i)' = Handler(i) /\ (Handled(i)' <=> Handled(i))
    BY <1>1 DEF Handler, Handled
  <1> QED
    BY <1>1, <1>2 DEF PushSound

LEMMA PushClosed ==
    ASSUME PushSound, tx' = NoTx, UNCHANGED <<listening, sent, marked, refetched>>,
           unmarked \subseteq unmarked', \A i \in 1 .. MaxLog : Handler(i) = "mark" => i \in unmarked'
    PROVE  PushSound'
  <1>1. \A i : Handler(i)' = "run" /\ ~Handled(i)'
    BY NoTxTyped DEF Handler, Handled
  <1>2. \A i \in 1 .. MaxLog :
           Calling(listening[i], "run", "mark") => Calling(listening[i], Handler(i), "mark")
    BY DEF Calling
  <1>3. ASSUME NEW i \in 1 .. MaxLog, i \notin unmarked' \cup refetched
        PROVE  OneCall(i, listening[i], "run", sent[i], marked)
    BY <1>3, CallEnds DEF PushSound
  <1> QED
    BY <1>1, <1>2, <1>3 DEF PushSound

LEMMA EmitStep == ASSUME ProjectionInv, Emit PROVE ProjectionInv'
  <1>1. PICK f \in Families : \E k \in f.topics, u \in Users, p \in Posts :
            Emittable(Event(k, u, p)) /\ log' = Append(log, Event(k, u, p))
    BY DEF Emit
  <1>2. PICK k \in f.topics, u \in Users, p \in Posts :
            Emittable(Event(k, u, p)) /\ log' = Append(log, Event(k, u, p))
    BY <1>1
  <1> DEFINE e == Event(k, u, p)
  <1>3. e \in Emitted
    BY <1>1, <1>2 DEF Emitted
  <1>4. LogSound(log) /\ Len(log) < MaxLog /\ Allowed(log, e) /\ log' = Append(log, e)
    BY <1>2, EmitAllowed DEF ProjectionInv, Emit
  <1>5. /\ at' = at /\ processed' = processed /\ recovering' = recovering /\ rows' = rows /\ direct' = direct
        /\ tx' = tx /\ listening' = listening /\ UNCHANGED <<pushes, refetched>>
    BY DEF Emit, place, tables
  <1> HIDE DEF e
  <1>6. LogSound(log') /\ Grows(log, log')
    BY <1>3, <1>4, LogAppends
  <1>7. Place'
    <2>1. Len(log') \in Nat /\ Len(log) =< Len(log') /\ \A i \in 1 .. Len(log) : log'[i] = log[i]
      BY <1>6 DEF Grows
    <2>2. \A i \in 1 .. MaxLog : InFlight(i)' => i =< processed' /\ log'[i].kind \in Notifying
      <3> SUFFICES ASSUME NEW i \in 1 .. MaxLog, InFlight(i)' PROVE i =< processed' /\ log'[i].kind \in Notifying
        OBVIOUS
      <3>1. InFlight(i)
        BY <1>5 DEF InFlight
      <3>2. i =< processed /\ log[i].kind \in Notifying
        BY <3>1 DEF ProjectionInv, Place
      <3>3. i \in 1 .. Len(log)
        BY <3>2, Numbers
      <3> QED
        BY <1>5, <2>1, <3>2, <3>3
    <2>3. at \in 0 .. Len(log') /\ processed \in at .. Len(log')
      BY <2>1, Numbers
    <2>4. tx.open => tx.to \in at + 1 .. Len(log')
      BY <2>1, Numbers
    <2>5. /\ recovering \in BOOLEAN /\ tx \in TxSet
          /\ tx.open => tx.next \in at + 1 .. tx.to + 1 /\ tx.to - at =< PageSize
          /\ tx.open /\ tx.step \in Steps => tx.next # at + 1
          /\ listening \in [1 .. MaxLog -> [Steps -> Nat]]
      BY DEF ProjectionInv, Place
    <2> QED
      BY <1>5, <2>2, <2>3, <2>4, <2>5 DEF Place
  <1>8. PushSound'
    BY <1>5, PushKept DEF ProjectionInv
  <1>9. Reached' = Reached
    BY <1>5 DEF Reached
  <1>10. Seen' = Seen /\ Sure(at)' = Sure(at) /\ Sure(Reached)' = Sure(Reached)
    BY <1>5, <1>9 DEF Seen, Sure
  <1>11. RowsSound(log', rows, Sure(at), processed)
    BY <1>6, Numbers, SureNumbers, RowsGrow DEF ProjectionInv, TablesSound, RowsSound
  <1>12. DirectSound(log', direct, Sure(Reached), Seen)
    BY <1>6, Numbers, SureNumbers, DirectGrow DEF ProjectionInv, TablesSound
  <1>13. CountedBeforeDeleted(log', direct, rows)
    BY <1>3, <1>4, CoverGrows DEF ProjectionInv, TablesSound
  <1>14. tx.open => RowsSound(log', tx.rows, Sure(Reached), Seen) /\ LocksHeld(log', rows, tx.rows, tx.locks)
    <2> SUFFICES ASSUME tx.open
                 PROVE  RowsSound(log', tx.rows, Sure(Reached), Seen) /\ LocksHeld(log', rows, tx.rows, tx.locks)
      OBVIOUS
    <2>1. RowsSound(log, tx.rows, Sure(Reached), Seen) /\ LocksHeld(log, rows, tx.rows, tx.locks)
      BY DEF ProjectionInv, TablesSound
    <2>2. RowsSound(log', tx.rows, Sure(Reached), Seen)
      BY <1>6, <2>1, Numbers, SureNumbers, RowsGrow DEF RowsSound
    <2>3. LocksHeld(log', rows, tx.rows, tx.locks)
      BY <1>3, <1>4, <2>1, LocksGrow DEF RowsSound, RowsTrack
    <2> QED
      BY <2>2, <2>3
  <1>15. TablesSound'
    BY <1>5, <1>10, <1>11, <1>12, <1>13, <1>14 DEF TablesSound
  <1> QED
    BY <1>6, <1>7, <1>8, <1>15 DEF ProjectionInv

LEMMA BeginStep == ASSUME ProjectionInv, Begin PROVE ProjectionInv'
  <1>1. /\ ~tx.open /\ at < Len(log)
        /\ tx' = [open |-> TRUE, next |-> at + 1, to |-> PageEnd, rows |-> rows, locks |-> {},
                  step |-> "run"]
        /\ log' = log /\ at' = at /\ processed' = processed /\ recovering' = recovering /\ rows' = rows
        /\ direct' = direct /\ listening' = listening /\ sent' = sent /\ marked' = marked
        /\ unmarked' = unmarked /\ refetched' = refetched
    BY DEF Begin, place, tables, pushes
  <1>2. /\ tx'.open = TRUE /\ tx'.next = at + 1 /\ tx'.to = PageEnd /\ tx'.rows = rows /\ tx'.locks = {}
        /\ tx'.step = "run"
    BY <1>1
  <1>3. PageEnd \in Nat /\ PageEnd \in at + 1 .. Len(log) /\ PageEnd - at =< PageSize
    BY <1>1, Numbers, ProjectionAssumption DEF PageEnd
  <1>4. RowsSound(log, rows, Sure(at), processed)
    BY DEF ProjectionInv, TablesSound
  <1>5. tx' \in TxSet
    BY <1>1, <1>3, <1>4, Numbers DEF TxSet, RowsSound
  <1>6. Place'
    <2>1. \A i \in 1 .. MaxLog : InFlight(i)' => i =< processed' /\ log'[i].kind \in Notifying
      BY <1>1 DEF ProjectionInv, Place, InFlight
    <2> QED
      BY <1>1, <1>2, <1>3, <1>5, <2>1, Numbers, StepNames DEF ProjectionInv, Place
  <1>7. Reached' = at /\ Reached = at /\ Seen = processed
    BY <1>1, <1>2, Numbers DEF Reached
  <1>8. Seen' = processed /\ Sure(at)' = Sure(at) /\ Sure(Reached)' = Sure(at) /\ Sure(Reached) = Sure(at)
    BY <1>1, <1>7, Numbers DEF Seen, Sure
  <1>9. LocksHeld(log, rows, rows, {})
    BY DEF LocksHeld
  <1>10. TablesSound'
    BY <1>1, <1>2, <1>4, <1>7, <1>8, <1>9 DEF ProjectionInv, TablesSound
  <1>11. \A i : Handler(i)' = "run" /\ Handler(i) = "run"
    BY <1>1, <1>2 DEF Handler
  <1>12. \A i : ~Handled(i)'
    BY <1>1, <1>2, Numbers DEF Handled
  <1>13. PushSound'
    BY <1>1, <1>11, <1>12 DEF ProjectionInv, PushSound
  <1> QED
    BY <1>1, <1>6, <1>10, <1>13 DEF ProjectionInv

(***************************************************************************)
(* The statements of the handler of one event, beside the transaction and  *)
(* in it, and the call it then awaits.                                     *)
(***************************************************************************)
LEMMA ProcessStep == ASSUME ProjectionInv, ProcessEvent PROVE ProjectionInv'
  <1> DEFINE i == tx.next
             e == log[i]
             d == OnPool(i, direct)
             q == OnClient(i, tx.rows)
             locks == tx.locks \cup LocksTaken(e)
             g == IF e.kind \in Notifying THEN FirstStep(e) ELSE "run"
  <1>1. /\ tx.open /\ tx.step = "run" /\ i =< tx.to /\ UpdatesRow(e) \cap tx.locks = {}
        /\ ~(e.kind = "pool_withdraw" /\ direct.pool /\ direct.balance = 0)
        /\ direct' = d
        /\ tx' = [tx EXCEPT !.next = @ + 1, !.rows = OnClient(i, @), !.locks = @ \cup LocksTaken(e),
                            !.step = g]
        /\ refetched' = IF InFlight(i) THEN refetched \cup {i} ELSE refetched
        /\ log' = log /\ at' = at /\ processed' = processed /\ recovering' = recovering /\ rows' = rows
        /\ listening' = listening /\ sent' = sent /\ marked' = marked /\ unmarked' = unmarked
    BY DEF ProcessEvent, Processing, OwnLock, Overdraws, place, pushes
  <1>2. /\ LogSound(log) /\ tx \in TxSet /\ tx.to \in at + 1 .. Len(log) /\ i \in at + 1 .. tx.to + 1
        /\ tx.to - at =< PageSize /\ listening \in [1 .. MaxLog -> [Steps -> Nat]]
    BY <1>1 DEF ProjectionInv, Place
  <1>3. /\ i \in 1 .. Len(log) /\ i \in 1 .. MaxLog /\ i \in Nat /\ at =< i /\ Reached = i - 1
        /\ i + 1 \in at + 1 .. tx.to + 1 /\ i + 1 \in Nat /\ (i + 1) - 1 = i /\ i + 1 # at + 1
    BY <1>1, <1>2, Numbers
  <1>4. /\ RowsSound(log, rows, Sure(at), processed) /\ DirectSound(log, direct, Sure(Reached), Seen)
        /\ RowsSound(log, tx.rows, Sure(Reached), Seen) /\ LocksHeld(log, rows, tx.rows, tx.locks)
        /\ CountedBeforeDeleted(log, direct, rows)
    BY <1>1 DEF ProjectionInv, TablesSound
  <1>5. e \in Emitted /\ tx.rows \in RowSet /\ direct \in DirectSet
    BY <1>2, <1>3, <1>4 DEF LogSound, RowsSound, DirectSound
  <1>6. q \in RowSet /\ ClientTables(e, i, tx.rows, direct, q)
    BY <1>3, <1>5, ClientByTable
  <1>7. d \in DirectSet /\ PoolTables(e, i, direct, d)
    BY <1>1, <1>3, <1>5, PoolByTable
  <1>8. (e.kind \notin NoUser => e.user \in Users) /\ (e.kind \in OnPost => e.post \in Posts)
    BY <1>5, EventFields
  <1>9. Seen \in Nat /\ i - 1 =< Seen
    BY <1>3, Numbers
  <1>10. e.kind = "like" /\ <<e.user, e.post>> \notin tx.rows.likes => direct.posts[e.post] = "live"
    BY <1>2, <1>3, <1>4, <1>5, <1>9, LikeCounted DEF DirectSound
  <1>11. e.kind = "tip" /\ tx.rows.tips = << >> => FirstTip(log, i) /\ direct.posts[e.post] = "live"
    BY <1>2, <1>3, <1>4, <1>5, <1>9, TipCounted DEF DirectSound, RowsSound
  <1>12. /\ e.kind = "like" /\ <<e.user, e.post>> \notin tx.rows.likes => e.post \in LocksTaken(e)
         /\ e.kind = "tip" /\ tx.rows.tips = << >> => e.post \in LocksTaken(e) /\ FirstTip(log, i)
    BY <1>10, <1>11 DEF LocksTaken
  <1>13. LocksTaken(e) \subseteq Posts
    BY <1>8 DEF LocksTaken, OnPost
  <1>14. e.kind \in Deletion => e.post \notin tx.locks
    BY <1>1 DEF UpdatesRow, Deletion
  <1>15. g \in {"author", "check", "run"}
    BY StepNames
  <1> HIDE DEF e, d, q, i, locks, g
  <1>16. tx' = [tx EXCEPT !.next = i + 1, !.rows = q, !.locks = locks, !.step = g]
    BY <1>1, <1>2 DEF i, q, locks, TxSet
  <1>17. locks \in SUBSET Posts
    BY <1>2, <1>13 DEF locks, TxSet
  <1>18. /\ tx'.open = tx.open /\ tx'.next = i + 1 /\ tx'.to = tx.to /\ tx'.rows = q
         /\ tx'.locks = locks /\ tx'.step = g
    BY <1>2, <1>16 DEF TxSet
  <1>19. tx' \in TxSet
    BY <1>2, <1>3, <1>6, <1>15, <1>16, <1>17 DEF TxSet, Steps
  <1>20. Place'
    <2>1. \A j \in 1 .. MaxLog : InFlight(j)' => j =< processed' /\ log'[j].kind \in Notifying
      BY <1>1 DEF ProjectionInv, Place, InFlight
    <2> QED
      BY <1>1, <1>2, <1>3, <1>18, <1>19, <2>1 DEF ProjectionInv, Place
  <1>21. Reached' = i /\ i \in Nat /\ i # 0
    BY <1>1, <1>3, <1>18 DEF Reached
  <1>22. Sure(at)' = Sure(at) /\ Sure(Reached) \in Nat /\ Sure(Reached)' \in Nat
         /\ Passes(Sure(Reached), Sure(Reached)', i)
    BY <1>1, <1>3, <1>21, Numbers DEF Sure, Passes
  <1>23. Seen' \in Nat /\ Extends(Seen, Seen', i)
    BY <1>1, <1>3, <1>21, Numbers DEF Seen, Extends
  <1>24. DirectSound(log, d, Sure(Reached)', Seen')
    BY <1>2, <1>3, <1>4, <1>7, <1>9, <1>22, <1>23, DirectPass DEF e
  <1>25. CountedBeforeDeleted(log, d, rows)
    BY <1>2, <1>3, <1>4, <1>5, <1>7, <1>9, <1>14, DeletionsPass DEF e, RowsSound
  <1>26. RowsTrack(log, q, Sure(Reached)', Seen')
    BY <1>3, <1>4, <1>5, <1>6, <1>8, <1>9, <1>22, <1>23, Numbers, RowsPass DEF e, RowsSound
  <1>27. RowsCounted(q)
    BY <1>4, <1>5, <1>6, <1>8, <1>10, <1>11, CountsPass DEF RowsSound
  <1>28. LocksHeld(log, rows, q, locks)
    BY <1>2, <1>3, <1>4, <1>6, <1>12, LocksPass DEF e, locks
  <1>29. TablesSound'
    BY <1>1, <1>4, <1>6, <1>18, <1>22, <1>24, <1>25, <1>26, <1>27, <1>28 DEF TablesSound, RowsSound
  <1>30. PushSound'
    <2>1. \A j : Handler(j) = "run"
      BY <1>1 DEF Handler
    <2>2. \A j \in 1 .. MaxLog : Handler(j)' = IF j = i THEN g ELSE "run"
      BY <1>3, <1>18, <1>1 DEF Handler
    <2>3. \A j \in 1 .. MaxLog : Handled(j)' => j = i \/ Handled(j)
      BY <1>1, <1>3, <1>18, Numbers DEF Handled, i
    <2>4. i \notin refetched' => ~Busy(listening[i])
      BY <1>1, InFlightBusy
    <2>5. refetched \subseteq refetched'
      BY <1>1
    <2>6. sent \in [1 .. MaxLog -> Nat]
      BY DEF ProjectionInv, PushSound
    <2>7. ASSUME NEW j \in 1 .. MaxLog, j \notin unmarked \cup refetched'
          PROVE  /\ OneCall(j, listening[j], Handler(j)', sent[j], marked)
                 /\ Handled(j)' => ~Busy(listening[j])
      <3>1. OneCall(j, listening[j], "run", sent[j], marked) /\ (Handled(j) => ~Busy(listening[j]))
        BY <2>1, <2>5, <2>7 DEF ProjectionInv, PushSound
      <3>2. CASE j = i
        BY <1>2, <1>15, <2>2, <2>4, <2>6, <2>7, <3>1, <3>2, CallStarts
      <3>3. CASE j # i
        BY <2>2, <2>3, <3>1, <3>3
      <3> QED
        BY <3>2, <3>3
    <2>8. \A j \in 1 .. MaxLog : Calling(listening[j], Handler(j)', "mark") => sent[j] >= 1
      <3>1. \A j \in 1 .. MaxLog : Handler(j)' # "mark"
        BY <1>15, <2>2
      <3> QED
        BY <2>1, <3>1 DEF ProjectionInv, PushSound, Calling
    <2> QED
      BY <1>1, <2>7, <2>8 DEF ProjectionInv, PushSound
  <1> QED
    BY <1>1, <1>2, <1>20, <1>29, <1>30 DEF ProjectionInv

(***************************************************************************)
(* The awaits of the handler, and those of the bus listener.               *)
(***************************************************************************)
LEMMA HandlerStep == ASSUME ProjectionInv, HandlerDispatches PROVE ProjectionInv'
  <1> DEFINE i == tx.next - 1
  <1>1. /\ tx.open /\ tx.step \in Steps /\ UNCHANGED <<log, place, tables, listening, refetched>>
    BY DEF HandlerDispatches
  <1>2. PICK t \in Steps \cup {"done"} :
            Await(i, tx.step, t) /\ tx' = [tx EXCEPT !.step = IF t = "done" THEN "run" ELSE t]
    BY DEF HandlerDispatches
  <1> DEFINE g == IF t = "done" THEN "run" ELSE t
  <1>3. /\ at' = at /\ processed' = processed /\ recovering' = recovering /\ log' = log
        /\ listening' = listening /\ refetched' = refetched
    BY <1>1 DEF place
  <1>4. /\ tx \in TxSet /\ tx.to \in at + 1 .. Len(log) /\ tx.next \in at + 1 .. tx.to + 1
        /\ tx.to - at =< PageSize /\ tx.next # at + 1 /\ listening \in [1 .. MaxLog -> [Steps -> Nat]]
    BY <1>1 DEF ProjectionInv, Place
  <1>5. i \in 1 .. MaxLog /\ i \in at + 1 .. tx.next - 1 /\ tx.next = i + 1
    BY <1>4, Numbers
  <1>6. g \in Steps \cup {"run"}
    BY <1>2
  <1>7. /\ tx' \in TxSet /\ tx'.open = tx.open /\ tx'.next = tx.next /\ tx'.to = tx.to
        /\ tx'.rows = tx.rows /\ tx'.locks = tx.locks /\ tx'.step = g
    BY <1>2, <1>4, <1>6 DEF TxSet
  <1> HIDE DEF g
  <1>8. Place'
    <2>1. \A j \in 1 .. MaxLog : InFlight(j)' => j =< processed' /\ log'[j].kind \in Notifying
      BY <1>3 DEF ProjectionInv, Place, InFlight
    <2> QED
      BY <1>3, <1>4, <1>7, <2>1 DEF ProjectionInv, Place
  <1>9. TablesSound'
    BY <1>1, <1>7, TablesKept
  <1>10. \A j \in 1 .. MaxLog : /\ Handler(j) = IF j = i THEN tx.step ELSE "run"
                                /\ Handler(j)' = IF j = i THEN g ELSE "run"
    BY <1>1, <1>5, <1>7, Numbers DEF Handler
  <1>11. \A j : Handled(j)' <=> Handled(j)
    BY <1>3, <1>7 DEF Handled
  <1>12. PushSound /\ (tx.step = "mark" => sent[i] >= 1)
    BY <1>5, <1>10 DEF ProjectionInv, PushSound, Calling
  <1> HIDE DEF i
  <1>13. /\ AwaitOne(i, tx.step, t, sent[i], sent'[i], marked, marked')
         /\ sent' \in [1 .. MaxLog -> Nat] /\ marked' \subseteq 1 .. MaxLog
         /\ \A j \in 1 .. MaxLog : j # i => sent'[j] = sent[j] /\ (j \in marked' <=> j \in marked)
         /\ \A j \in marked' : sent'[j] >= 1
         /\ sent'[i] >= sent[i] /\ (t = "mark" => sent'[i] >= 1)
         /\ unmarked' = unmarked
    BY <1>2, <1>5, <1>12, AwaitEach
  <1>14. PushSound'
    <2>1. ASSUME NEW j \in 1 .. MaxLog, j \notin unmarked \cup refetched
          PROVE  OneCall(j, listening[j], Handler(j)', sent'[j], marked') /\ (Handled(j)' => ~Busy(listening[j]))
      <3>1. OneCall(j, listening[j], Handler(j), sent[j], marked) /\ (Handled(j) => ~Busy(listening[j]))
            /\ sent[j] \in Nat
        BY <1>12, <2>1 DEF PushSound
      <3>2. CASE j = i
        BY <1>1, <1>5, <1>10, <1>11, <1>13, <3>1, <3>2, HandlerAwaits DEF g
      <3>3. CASE j # i
        <4>1. Handler(j)' = Handler(j) /\ sent'[j] = sent[j] /\ (j \in marked' <=> j \in marked)
          BY <1>10, <1>13, <3>3
        <4> QED
          BY <1>11, <3>1, <4>1 DEF OneCall
      <3> QED
        BY <3>2, <3>3
    <2>2. ASSUME NEW j \in 1 .. MaxLog, Calling(listening[j], Handler(j)', "mark") PROVE sent'[j] >= 1
      <3>1. CASE j # i
        BY <1>10, <1>12, <1>13, <2>2, <3>1 DEF PushSound
      <3>2. CASE j = i
        <4>1. CASE listening[i]["mark"] > 0
          <5>1. sent[i] >= 1 /\ sent[i] \in Nat /\ sent'[i] \in Nat
            BY <1>5, <1>12, <1>13, <4>1 DEF PushSound, Calling
          <5> QED
            BY <1>13, <3>2, <5>1
        <4>2. CASE ~(listening[i]["mark"] > 0)
          <5>1. g = "mark"
            BY <1>5, <1>10, <2>2, <3>2, <4>2 DEF Calling
          <5>2. t = "mark"
            BY <5>1 DEF g
          <5> QED
            BY <1>13, <3>2, <5>2
        <4> QED
          BY <4>1, <4>2
      <3> QED
        BY <3>1, <3>2
    <2> QED
      BY <1>3, <1>13, <2>1, <2>2 DEF PushSound
  <1> QED
    BY <1>3, <1>8, <1>9, <1>14 DEF ProjectionInv

\* What a step of the listener's calls leaves alone.
LEMMA Outside ==
    ASSUME ProjectionInv, UNCHANGED <<log, place, tables, tx>>,
           listening' \in [1 .. MaxLog -> [Steps -> Nat]],
           \A j \in 1 .. MaxLog : Busy(listening'[j]) => Busy(listening[j])
    PROVE  /\ LogSound(log') /\ Place' /\ TablesSound'
           /\ \A j : Handler(j)' = Handler(j) /\ (Handled(j)' <=> Handled(j))
  <1>1. at' = at /\ processed' = processed /\ recovering' = recovering /\ log' = log /\ tx' = tx
    BY DEF place
  <1>2. \A j \in 1 .. MaxLog : InFlight(j)' => InFlight(j)
    BY DEF InFlight, Busy
  <1>3. Place'
    BY <1>1, <1>2 DEF ProjectionInv, Place
  <1>4. TablesSound'
    BY <1>1, TablesKept
  <1>5. \A j : Handler(j)' = Handler(j) /\ (Handled(j)' <=> Handled(j))
    BY <1>1 DEF Handler, Handled
  <1> QED
    BY <1>1, <1>3, <1>4, <1>5 DEF ProjectionInv

LEMMA ListenerStep ==
    ASSUME ProjectionInv, NEW i \in 1 .. MaxLog, ListenerDispatches(i)
    PROVE  ProjectionInv'
  <1>1. UNCHANGED <<log, place, tables, tx>> /\ refetched' = refetched
    BY DEF ListenerDispatches
  <1>2. PICK x \in Steps, t \in Steps \cup {"done"} :
            /\ listening[i][x] > 0
            /\ Await(i, x, t)
            /\ listening' = IF t = "done" THEN Returned(i, x)
                            ELSE [Returned(i, x) EXCEPT ![i][t] = @ + 1]
    BY DEF ListenerDispatches
  <1> DEFINE c == listening[i]
             c2 == Moved(c, x, t)
  <1>3. listening \in [1 .. MaxLog -> [Steps -> Nat]] /\ c \in [Steps -> Nat] /\ PushSound
    BY DEF ProjectionInv, Place
  <1>4. c2 \in [Steps -> Nat]
    BY <1>2, <1>3 DEF Moved
  <1>5. listening' = [listening EXCEPT ![i] = c2]
    <2>1. CASE t = "done"
      BY <1>2, <1>3, <2>1 DEF Returned, Moved
    <2>2. CASE t # "done"
      BY <1>2, <1>3, <2>2 DEF Returned, Moved
    <2> QED
      BY <2>1, <2>2
  <1>6. Busy(c)
    BY <1>2 DEF Busy
  <1>7. c2["mark"] > 0 => c["mark"] > 0 \/ t = "mark"
    <2>1. "mark" \in Steps
      BY DEF Steps
    <2> QED
      BY <1>2, <1>3, <2>1 DEF Moved
  <1> HIDE DEF c2
  <1>8. /\ listening' \in [1 .. MaxLog -> [Steps -> Nat]]
        /\ \A j \in 1 .. MaxLog : listening'[j] = IF j = i THEN c2 ELSE listening[j]
    BY <1>3, <1>4, <1>5
  <1>9. \A j \in 1 .. MaxLog : Busy(listening'[j]) => Busy(listening[j])
    BY <1>6, <1>8
  <1>10. /\ LogSound(log') /\ Place' /\ TablesSound'
         /\ \A j : Handler(j)' = Handler(j) /\ (Handled(j)' <=> Handled(j))
    BY <1>1, <1>8, <1>9, Outside
  <1>11. x = "mark" => sent[i] >= 1
    BY <1>2, <1>3 DEF PushSound, Calling
  <1>12. /\ AwaitOne(i, x, t, sent[i], sent'[i], marked, marked')
         /\ sent' \in [1 .. MaxLog -> Nat] /\ marked' \subseteq 1 .. MaxLog
         /\ \A j \in 1 .. MaxLog : j # i => sent'[j] = sent[j] /\ (j \in marked' <=> j \in marked)
         /\ \A j \in marked' : sent'[j] >= 1
         /\ sent'[i] >= sent[i] /\ (t = "mark" => sent'[i] >= 1)
         /\ unmarked' = unmarked
    BY <1>2, <1>3, <1>11, AwaitEach
  <1>13. ASSUME NEW j \in 1 .. MaxLog, j \notin unmarked \cup refetched
         PROVE  /\ OneCall(j, listening'[j], Handler(j), sent'[j], marked')
                /\ Handled(j) => ~Busy(listening'[j])
    <2>1. OneCall(j, listening[j], Handler(j), sent[j], marked) /\ (Handled(j) => ~Busy(listening[j]))
          /\ sent[j] \in Nat
      BY <1>3, <1>13 DEF PushSound
    <2>2. CASE j = i
      <3> HIDE DEF c
      <3>1. OneCall(i, c, Handler(i), sent[i], marked) /\ sent[i] \in Nat /\ c[x] > 0 /\ x \in Steps
        BY <1>2, <2>1, <2>2 DEF c
      <3>2. OneCall(i, c2, Handler(i), sent'[i], marked')
        BY <1>3, <1>12, <3>1, ListenerAwaits DEF c2
      <3> QED
        BY <1>8, <1>9, <2>1, <2>2, <3>2
    <2>3. CASE j # i
      <3>1. listening'[j] = listening[j] /\ sent'[j] = sent[j] /\ (j \in marked' <=> j \in marked)
        BY <1>8, <1>12, <2>3
      <3> QED
        BY <2>1, <3>1 DEF OneCall
    <2> QED
      BY <2>2, <2>3
  <1>14. ASSUME NEW j \in 1 .. MaxLog, Calling(listening'[j], Handler(j), "mark") PROVE sent'[j] >= 1
    <2>1. CASE t = "mark" /\ j = i
      BY <1>12, <2>1
    <2>2. CASE ~(t = "mark" /\ j = i)
      <3>1. Calling(listening[j], Handler(j), "mark")
        BY <1>7, <1>8, <1>14, <2>2 DEF Calling
      <3>2. sent[j] >= 1 /\ sent[j] \in Nat /\ sent'[j] \in Nat
        BY <1>3, <1>12, <3>1 DEF PushSound
      <3> QED
        BY <1>12, <3>2
    <2> QED
      BY <2>1, <2>2
  <1>15. PushSound'
    BY <1>1, <1>10, <1>12, <1>13, <1>14 DEF PushSound
  <1> QED
    BY <1>10, <1>15 DEF ProjectionInv

LEMMA ListenerFailsStep ==
    ASSUME ProjectionInv, NEW i \in 1 .. MaxLog, ListenerFails(i)
    PROVE  ProjectionInv'
  <1>1. UNCHANGED <<log, place, tables, tx>> /\ refetched' = refetched /\ sent' = sent /\ marked' = marked
    BY DEF ListenerFails
  <1>2. PICK x \in Steps :
            /\ listening[i][x] > 0 /\ listening' = Returned(i, x)
            /\ unmarked' = IF x = "mark" THEN unmarked \cup {i} ELSE unmarked
    BY DEF ListenerFails
  <1> DEFINE c == listening[i]
             c2 == [c EXCEPT ![x] = @ - 1]
  <1>3. listening \in [1 .. MaxLog -> [Steps -> Nat]] /\ c \in [Steps -> Nat] /\ PushSound
    BY DEF ProjectionInv, Place
  <1>4. c2 \in [Steps -> Nat] /\ listening' = [listening EXCEPT ![i] = c2]
    BY <1>2, <1>3 DEF Returned
  <1>5. Busy(c)
    BY <1>2 DEF Busy
  <1>6. c2["mark"] > 0 => c["mark"] > 0
    <2>1. "mark" \in Steps
      BY DEF Steps
    <2> QED
      BY <1>2, <1>3, <2>1
  <1> HIDE DEF c2
  <1>7. /\ listening' \in [1 .. MaxLog -> [Steps -> Nat]]
        /\ \A j \in 1 .. MaxLog : listening'[j] = IF j = i THEN c2 ELSE listening[j]
    BY <1>3, <1>4
  <1>8. \A j \in 1 .. MaxLog : Busy(listening'[j]) => Busy(listening[j])
    BY <1>5, <1>7
  <1>9. /\ LogSound(log') /\ Place' /\ TablesSound'
        /\ \A j : Handler(j)' = Handler(j) /\ (Handled(j)' <=> Handled(j))
    BY <1>1, <1>7, <1>8, Outside
  <1>10. ASSUME NEW j \in 1 .. MaxLog, j \notin unmarked' \cup refetched
         PROVE  /\ OneCall(j, listening'[j], Handler(j), sent[j], marked)
                /\ Handled(j) => ~Busy(listening'[j])
    <2>1. OneCall(j, listening[j], Handler(j), sent[j], marked) /\ (Handled(j) => ~Busy(listening[j]))
      BY <1>2, <1>3, <1>10 DEF PushSound
    <2>2. CASE j = i
      <3>1. x # "mark"
        BY <1>2, <1>10, <2>2
      <3>2. OneCall(i, c2, Handler(i), sent[i], marked)
        BY <1>2, <1>3, <2>1, <2>2, <3>1, ListenerEnds DEF c2
      <3> QED
        BY <1>7, <1>8, <2>1, <2>2, <3>2
    <2>3. CASE j # i
      BY <1>7, <2>1, <2>3
    <2> QED
      BY <2>2, <2>3
  <1>11. \A j \in 1 .. MaxLog : Calling(listening'[j], Handler(j), "mark") => sent[j] >= 1
    BY <1>3, <1>6, <1>7 DEF PushSound, Calling
  <1>12. PushSound'
    BY <1>1, <1>3, <1>9, <1>10, <1>11 DEF PushSound
  <1> QED
    BY <1>9, <1>12 DEF ProjectionInv

LEMMA UnansweredStep ==
    ASSUME ProjectionInv, NEW i \in 1 .. MaxLog, PushUnanswered(i)
    PROVE  ProjectionInv'
  <1>1. /\ UNCHANGED <<log, place, tables, tx>> /\ listening' = listening /\ refetched' = refetched
        /\ marked' = marked /\ sent' = [sent EXCEPT ![i] = @ + 1] /\ unmarked' = unmarked \cup {i}
    BY DEF PushUnanswered
  <1>2. listening \in [1 .. MaxLog -> [Steps -> Nat]] /\ PushSound
    BY DEF ProjectionInv, Place
  <1>3. /\ LogSound(log') /\ Place' /\ TablesSound'
        /\ \A j : Handler(j)' = Handler(j) /\ (Handled(j)' <=> Handled(j))
    BY <1>1, <1>2, Outside
  <1>4. /\ sent' \in [1 .. MaxLog -> Nat] /\ sent \in [1 .. MaxLog -> Nat]
        /\ \A j \in 1 .. MaxLog : sent'[j] >= sent[j] /\ (j # i => sent'[j] = sent[j])
    BY <1>1, <1>2 DEF PushSound
  <1>5. \A j \in 1 .. MaxLog : sent[j] >= 1 => sent'[j] >= 1
    BY <1>4
  <1>6. \A j \in 1 .. MaxLog : j \notin unmarked' \cup refetched' =>
           /\ OneCall(j, listening'[j], Handler(j)', sent'[j], marked')
           /\ Handled(j)' => ~Busy(listening'[j])
    BY <1>1, <1>2, <1>3, <1>4 DEF PushSound
  <1>7. /\ marked' \subseteq 1 .. MaxLog /\ \A j \in marked' : sent'[j] >= 1
        /\ \A j \in 1 .. MaxLog : Calling(listening'[j], Handler(j)', "mark") => sent'[j] >= 1
    BY <1>1, <1>2, <1>3, <1>5 DEF PushSound
  <1>8. PushSound'
    BY <1>4, <1>6, <1>7 DEF PushSound
  <1> QED
    BY <1>3, <1>8 DEF ProjectionInv

(***************************************************************************)
(* COMMIT, seen by its caller or not, and the events published after it.   *)
(***************************************************************************)
LEMMA CommittedStep ==
    ASSUME ProjectionInv, Committed, Publish \/ listening' = listening,
           at' \in {at, tx.to}, UNCHANGED <<log, recovering, direct, pushes, refetched>>
    PROVE  ProjectionInv'
  <1>1. /\ tx.open /\ tx.step = "run" /\ tx.next > tx.to /\ rows' = tx.rows /\ tx' = NoTx
        /\ processed' = IF tx.to > processed THEN tx.to ELSE processed
        /\ sent' = sent /\ marked' = marked /\ unmarked' = unmarked /\ refetched' = refetched
    BY DEF Committed, pushes
  <1>2. /\ Reached = tx.to /\ tx.to \in Nat /\ tx.to =< Len(log) /\ at < tx.to /\ tx.next - 1 = tx.to
    BY <1>1, Numbers
  <1>3. /\ at' \in 0 .. Len(log) /\ processed' \in at' .. Len(log) /\ processed' = Seen
        /\ processed =< processed' /\ tx.to =< processed' /\ at' =< Reached /\ at' =< processed'
    BY <1>1, <1>2, Numbers DEF Seen
  <1>4. listening \in [1 .. MaxLog -> [Steps -> Nat]] /\ PushSound
    BY DEF ProjectionInv, Place
  <1>5. \A i : FirstStep(log[i]) \in {"author", "check"} /\ FirstStep(log[i]) \in Steps
    BY StepNames DEF Steps
  <1>6. /\ listening' \in [1 .. MaxLog -> [Steps -> Nat]]
        /\ \A i \in 1 .. MaxLog :
              \/ listening'[i] = listening[i]
              \/ /\ i \in at + 1 .. tx.to /\ log[i].kind \in Notifying
                 /\ listening'[i] = [listening[i] EXCEPT ![FirstStep(log[i])] = @ + 1]
    <2>1. CASE Publish
      <3>1. \A i \in 1 .. MaxLog : listening'[i] =
                IF i \in (at + 1) .. tx.to /\ log[i].kind \in Notifying /\ Calls(i) < MaxListening
                THEN [listening[i] EXCEPT ![FirstStep(log[i])] = @ + 1] ELSE listening[i]
        BY <2>1 DEF Publish
      <3>2. \A i \in 1 .. MaxLog : listening'[i] \in [Steps -> Nat]
        <4> SUFFICES ASSUME NEW i \in 1 .. MaxLog PROVE listening'[i] \in [Steps -> Nat]
          OBVIOUS
        <4>1. listening[i] \in [Steps -> Nat] /\ FirstStep(log[i]) \in Steps
          BY <1>4, <1>5
        <4>2. [listening[i] EXCEPT ![FirstStep(log[i])] = @ + 1] \in [Steps -> Nat]
          BY <4>1
        <4> QED
          BY <3>1, <4>1, <4>2
      <3>3. listening' = [i \in 1 .. MaxLog |-> listening'[i]]
        BY <2>1 DEF Publish
      <3>4. listening' \in [1 .. MaxLog -> [Steps -> Nat]]
        BY <3>2, <3>3
      <3> QED
        BY <3>1, <3>4
    <2>2. CASE listening' = listening
      BY <1>4, <2>2
    <2> QED
      BY <2>1, <2>2
  <1>7. Place'
    <2>1. ASSUME NEW i \in 1 .. MaxLog, Busy(listening'[i]) PROVE i =< processed' /\ log[i].kind \in Notifying
      <3>1. CASE listening'[i] = listening[i]
        <4>1. i =< processed /\ log[i].kind \in Notifying
          BY <2>1, <3>1, InFlightBusy DEF ProjectionInv, Place
        <4> QED
          BY <1>3, <4>1, Numbers
      <3>2. CASE i \in at + 1 .. tx.to /\ log[i].kind \in Notifying
        BY <1>2, <1>3, <3>2, Numbers
      <3> QED
        BY <1>6, <3>1, <3>2
    <2>2. recovering' \in BOOLEAN
      BY Numbers
    <2> QED
      BY <1>1, <1>3, <1>6, <2>1, <2>2, ClosedPlace
  <1>8. RowsSound(log, tx.rows, Sure(Reached), Seen) /\ LocksHeld(log, rows, tx.rows, tx.locks)
    BY <1>1 DEF ProjectionInv, TablesSound
  <1>9. /\ Reached' = at' /\ Seen' = Seen /\ Sure(Reached)' = Sure(at)'
        /\ Sure(at)' \in Nat /\ Sure(at)' =< Sure(Reached)
    <2>1. Reached' = at' /\ at' \in Nat
      BY <1>1, <1>3, NoTxTyped, Numbers DEF Reached
    <2>2. Seen' = processed' /\ processed' = Seen
      <3>1. ~(processed' < Reached')
        BY <1>3, <2>1, Numbers
      <3> QED
        BY <1>3, <3>1 DEF Seen
    <2>3. recovering' = recovering
      OBVIOUS
    <2>4. Sure(Reached)' = Sure(at)' /\ Sure(at)' = IF recovering THEN 0 ELSE at'
      BY <2>1, <2>3 DEF Sure
    <2>5. Sure(at)' \in Nat /\ Sure(at)' =< Sure(Reached)
      BY <1>3, <2>1, <2>4, Numbers DEF Sure
    <2> QED
      BY <2>1, <2>2, <2>4, <2>5
  <1>10. RowsSound(log, tx.rows, Sure(at)', Seen)
    BY <1>8, <1>9, Numbers, SureNumbers, RowsGrow DEF RowsSound
  <1>11. DirectSound(log, direct, Sure(at)', Seen)
    BY <1>9, Numbers, SureNumbers, DirectGrow DEF ProjectionInv, TablesSound
  <1>12. CountedBeforeDeleted(log, direct, tx.rows)
    BY <1>8 DEF ProjectionInv, TablesSound, CountedBeforeDeleted, LocksHeld
  <1>13. TablesSound'
    BY <1>1, <1>3, <1>9, <1>10, <1>11, <1>12, NoTxTyped DEF TablesSound
  <1>14. \A i : Handler(i) = "run" /\ Handler(i)' = "run" /\ ~Handled(i)'
    BY <1>1, NoTxTyped DEF Handler, Handled
  <1>15. ASSUME NEW i \in 1 .. MaxLog, i \notin unmarked \cup refetched
         PROVE  OneCall(i, listening'[i], "run", sent[i], marked)
    <2>1. OneCall(i, listening[i], "run", sent[i], marked) /\ (Handled(i) => ~Busy(listening[i]))
          /\ sent[i] \in Nat /\ listening[i] \in [Steps -> Nat]
      BY <1>4, <1>14, <1>15 DEF PushSound
    <2>2. CASE listening'[i] = listening[i]
      BY <2>1, <2>2
    <2>3. CASE /\ i \in at + 1 .. tx.to
               /\ listening'[i] = [listening[i] EXCEPT ![FirstStep(log[i])] = @ + 1]
      <3>1. Handled(i)
        BY <1>1, <1>2, <2>3 DEF Handled
      <3> QED
        BY <1>5, <2>1, <2>3, <3>1, ListenerStarts
    <2> QED
      BY <1>6, <2>2, <2>3
  <1>16. ASSUME NEW i \in 1 .. MaxLog, Calling(listening'[i], "run", "mark") PROVE sent[i] >= 1
    <2>1. "mark" \in Steps /\ FirstStep(log[i]) # "mark" /\ listening[i] \in [Steps -> Nat]
      BY <1>4, <1>5 DEF Steps
    <2>2. listening'[i]["mark"] = listening[i]["mark"]
      BY <1>6, <2>1
    <2>3. Calling(listening[i], Handler(i), "mark")
      BY <1>14, <1>16, <2>2 DEF Calling
    <2> QED
      BY <1>4, <2>3 DEF PushSound
  <1>17. PushSound'
    BY <1>1, <1>4, <1>14, <1>15, <1>16 DEF PushSound
  <1> QED
    BY <1>7, <1>13, <1>17 DEF ProjectionInv

LEMMA CommitStep == ASSUME ProjectionInv, Commit PROVE ProjectionInv'
  BY CommittedStep DEF Commit

LEMMA CommitUnseenStep ==
    ASSUME ProjectionInv, NEW published \in BOOLEAN, CommitUnseen(published)
    PROVE  ProjectionInv'
  <1>1. /\ Committed /\ (Publish \/ listening' = listening)
        /\ at' \in {at, tx.to} /\ UNCHANGED <<log, recovering, direct, pushes, refetched>>
    BY DEF CommitUnseen
  <1> QED
    BY <1>1, CommittedStep

(***************************************************************************)
(* The batch is given up, the process starts again, the recovery ends.     *)
(***************************************************************************)
LEMMA GiveUpStep == ASSUME ProjectionInv, StatementRefused \/ RollBack PROVE ProjectionInv'
  <1>1. /\ tx.open /\ tx' = NoTx /\ UNCHANGED <<log, place, tables, listening, sent, marked, refetched>>
        /\ unmarked \subseteq unmarked' /\ (tx.step = "mark" => tx.next - 1 \in unmarked')
    BY DEF StatementRefused, RollBack, Processing, pushes
  <1>2. /\ log' = log /\ at' = at /\ processed' = processed /\ recovering' = recovering
        /\ listening' = listening
    BY <1>1 DEF place
  <1>3. listening \in [1 .. MaxLog -> [Steps -> Nat]]
        /\ \A i \in 1 .. MaxLog : Busy(listening[i]) => i =< processed /\ log[i].kind \in Notifying
    BY InFlightBusy DEF ProjectionInv, Place
  <1>4. Place'
    BY <1>1, <1>2, <1>3, Numbers, ClosedPlace
  <1>5. Sure(at)' = Sure(at)
    BY <1>2 DEF Sure
  <1>6. Sure(at)' =< Sure(at) /\ at' \in 0 .. processed
    BY <1>2, <1>5, Numbers, SureNumbers
  <1>7. TablesSound'
    BY <1>1, <1>2, <1>6, Numbers, FallBack
  <1>8. \A i \in 1 .. MaxLog : Handler(i) = "mark" => i \in unmarked'
    BY <1>1, Numbers DEF Handler
  <1>9. PushSound'
    BY <1>1, <1>8, PushClosed DEF ProjectionInv
  <1> QED
    BY <1>2, <1>4, <1>7, <1>9 DEF ProjectionInv

LEMMA RestartStep == ASSUME ProjectionInv, Restart PROVE ProjectionInv'
  <1>1. /\ tx' = NoTx /\ at' = processed /\ recovering' = (processed > 0) /\ listening' = NoListeners
        /\ unmarked' = unmarked \cup {i \in 1 .. MaxLog : AtStep(i, "mark")}
        /\ UNCHANGED <<log, processed, tables>> /\ sent' = sent /\ marked' = marked /\ refetched' = refetched
    BY DEF Restart
  <1>2. /\ listening' \in [1 .. MaxLog -> [Steps -> Nat]]
        /\ \A i \in 1 .. MaxLog : \A x \in Steps : listening'[i][x] = 0
    BY <1>1 DEF NoListeners
  <1>3. \A i \in 1 .. MaxLog : ~Busy(listening'[i])
    BY <1>2 DEF Busy
  <1>4. recovering' \in BOOLEAN /\ (processed # 0 => recovering')
    <2>1. processed # 0 => processed > 0
      BY Numbers
    <2>2. CASE processed > 0
      BY <1>1, <2>2
    <2>3. CASE ~(processed > 0)
      BY <1>1, <2>1, <2>3
    <2> QED
      BY <2>2, <2>3
  <1>5. Place'
    <2>1. at' \in 0 .. Len(log) /\ processed' \in at' .. Len(log)
      BY <1>1, Numbers
    <2> QED
      BY <1>1, <1>2, <1>3, <1>4, <2>1, ClosedPlace
  <1>6. Sure(at)' = 0
    BY <1>1, <1>4 DEF Sure
  <1>7. Sure(at)' =< Sure(at) /\ at' \in 0 .. processed
    BY <1>1, <1>6, Numbers, SureNumbers
  <1>8. TablesSound'
    BY <1>1, <1>4, <1>7, FallBack
  <1>9. PushSound'
    <2>1. \A i : Handler(i)' = "run" /\ ~Handled(i)'
      BY <1>1, NoTxTyped DEF Handler, Handled
    <2>2. "mark" \in Steps /\ "send" \in Steps
      BY DEF Steps
    <2>3. \A i \in 1 .. MaxLog : ~Calling(listening'[i], "run", "mark") /\ ~Calling(listening'[i], "run", "send")
      BY <1>2, <2>2 DEF Calling
    <2>4. ASSUME NEW i \in 1 .. MaxLog, i \notin unmarked' \cup refetched
          PROVE  OneCall(i, listening'[i], "run", sent[i], marked)
      <3>1. OneCall(i, listening[i], Handler(i), sent[i], marked)
        BY <1>1, <2>4 DEF ProjectionInv, PushSound
      <3>2. ~AtStep(i, "mark")
        BY <1>1, <2>4
      <3>3. ~Calling(listening[i], Handler(i), "mark")
        BY <3>2 DEF AtStep, Calling, Handler
      <3>4. sent[i] =< 1 /\ (sent[i] = 1 => i \in marked)
        BY <3>1, <3>3 DEF OneCall
      <3> QED
        BY <1>2, <1>3, <2>3, <2>4, <3>4 DEF OneCall
    <2> QED
      BY <1>1, <1>3, <2>1, <2>3, <2>4 DEF ProjectionInv, PushSound
  <1> QED
    BY <1>1, <1>5, <1>8, <1>9 DEF ProjectionInv

LEMMA StreamStep == ASSUME ProjectionInv, StreamStarts PROVE ProjectionInv'
  <1>1. /\ ~tx.open /\ recovering' = FALSE /\ at' = 0 /\ tx' = tx /\ listening' = listening
        /\ UNCHANGED <<log, processed, tables, pushes, refetched>>
    BY DEF StreamStarts
  <1>2. /\ Reached' = at' /\ Reached = at
        /\ \A i : Handler(i)' = "run" /\ Handler(i) = "run" /\ ~Handled(i)'
    BY <1>1 DEF Reached, Handler, Handled
  <1>3. Sure(at)' = 0 /\ Sure(Reached)' = 0 /\ Seen' = processed
    BY <1>1, <1>2, Numbers DEF Sure, Seen
  <1>4. Place'
    <2>1. \A i \in 1 .. MaxLog : InFlight(i)' => i =< processed' /\ log'[i].kind \in Notifying
      BY <1>1 DEF ProjectionInv, Place, InFlight
    <2>2. at' \in 0 .. Len(log') /\ processed' \in at' .. Len(log')
      BY <1>1, Numbers
    <2>3. recovering' \in BOOLEAN
      BY <1>1
    <2> QED
      BY <1>1, <2>1, <2>2, <2>3 DEF ProjectionInv, Place
  <1>5. RowsSound(log, rows, 0, processed)
    BY Numbers, SureNumbers, RowsGrow DEF ProjectionInv, TablesSound, RowsSound
  <1>6. DirectSound(log, direct, 0, processed)
    BY Numbers, SureNumbers, DirectGrow DEF ProjectionInv, TablesSound
  <1>7. TablesSound'
    BY <1>1, <1>3, <1>5, <1>6 DEF ProjectionInv, TablesSound, tables
  <1>8. PushSound'
    <2>1. sent' = sent /\ marked' = marked /\ unmarked' = unmarked /\ refetched' = refetched
      BY <1>1 DEF pushes
    <2> QED
      BY <1>1, <1>2, <2>1 DEF ProjectionInv, PushSound
  <1> QED
    BY <1>1, <1>4, <1>7, <1>8 DEF ProjectionInv

LEMMA StutterStep == ASSUME ProjectionInv, UNCHANGED vars PROVE ProjectionInv'
  <1>1. /\ UNCHANGED <<log, place, tables, tx>> /\ listening' = listening
        /\ UNCHANGED <<pushes, refetched>> /\ at' = at
    BY DEF vars, place
  <1>2. listening \in [1 .. MaxLog -> [Steps -> Nat]]
    BY DEF ProjectionInv, Place
  <1>3. LogSound(log') /\ Place' /\ TablesSound'
    BY <1>1, <1>2, Outside
  <1>4. PushSound'
    BY <1>1, PushKept DEF ProjectionInv
  <1> QED
    BY <1>3, <1>4 DEF ProjectionInv

(***************************************************************************)
(* The inductive invariant, for any users, posts, families of topics, page *)
(* size, kind of client, and number of events, faults and restarts.        *)
(***************************************************************************)
THEOREM ProjectionInvariant == Spec => []ProjectionInv
  <1>1. ASSUME ProjectionInv, [Next]_vars PROVE ProjectionInv'
    <2>1. ASSUME NEW i \in 1 .. MaxLog, ListenerDispatches(i) \/ ListenerFails(i) \/ PushUnanswered(i)
          PROVE  ProjectionInv'
      BY <1>1, <2>1, ListenerStep, ListenerFailsStep, UnansweredStep
    <2>2. ASSUME NEW published \in BOOLEAN, CommitUnseen(published) PROVE ProjectionInv'
      BY <1>1, <2>2, CommitUnseenStep
    <2>3. Pipeline => ProjectionInv'
      BY <1>1, BeginStep, ProcessStep, HandlerStep, GiveUpStep, CommitStep DEF Pipeline
    <2> QED
      BY <1>1, <2>1, <2>2, <2>3, EmitStep, GiveUpStep, RestartStep, StreamStep, StutterStep DEF Next
  <1> QED
    BY <1>1, InitInv, PTL DEF Spec

-----------------------------------------------------------------------------
(***************************************************************************)
(* What the invariant says once the whole log is passed.                   *)
(***************************************************************************)
LEMMA AtRange ==
    ASSUME LogSound(log)
    PROVE  /\ Len(log) \in Nat
           /\ \A k : At(log, k) \in SUBSET (1 .. Len(log))
           /\ \A k, u : AtUser(log, k, u) \in SUBSET (1 .. Len(log))
           /\ \A k, p : AtPost(log, k, p) \in SUBSET (1 .. Len(log))
           /\ \A k, u, p : AtPair(log, k, u, p) \in SUBSET (1 .. Len(log))
  BY DEF LogSound, At, AtUser, AtPost, AtPair

LEMMA Distinct ==
    ASSUME NEW l, NEW k, NEW k2, k # k2, NEW u
    PROVE  AtUser(l, k, u) \cap AtUser(l, k2, u) = {}
  BY DEF AtUser, At

LEMMA LatestBoolean == ASSUME NEW on, NEW off PROVE Latest(on, off) \in BOOLEAN
  BY DEF Latest

LEMMA UsersConverge ==
    ASSUME LogSound(log), rows \in RowSet, direct \in DirectSet,
           RowsTrack(log, rows, Len(log), Len(log)), ProfilesTrack(log, direct, Len(log)),
           PoolTracks(log, direct, Len(log), Len(log)), NEW u \in Users
    PROVE  /\ (u \in rows.follows) = FollowEmitted(u)
           /\ (u \in rows.blocks) = Blocked(u)
           /\ direct.profile[u] = Shown(HasProfile(u), "profile_set", u)
           /\ rows.dmKey[u] = Shown(OfUser("dm_key_published", u) # {}, "dm_key_published", u)
           /\ (u \in direct.admins) = Admin(u)
  <1>1. \A k : AtUser(log, k, u) \in SUBSET (1 .. Len(log)) /\ OfUser(k, u) = AtUser(log, k, u)
    BY AtRange, OfAt
  <1>2. Len(log) \in Nat
    BY AtRange
  <1>3. u \in rows.follows <=> FollowEmitted(u)
    <2>1. Tracks(u, rows.follows, AtUser(log, "follow", u), AtUser(log, "unfollow", u), Len(log))
      BY DEF RowsTrack
    <2> QED
      BY <1>1, <1>2, <2>1, TracksEnd DEF FollowEmitted
  <1>4. u \in rows.blocks <=> Blocked(u)
    <2>1. Tracks(u, rows.blocks, AtUser(log, "block", u), AtUser(log, "unblock", u), Len(log))
      BY DEF RowsTrack
    <2> QED
      BY <1>1, <1>2, <2>1, TracksEnd DEF Blocked
  <1>5. u \in direct.admins <=> Admin(u)
    <2>1. Tracks(u, direct.admins, AtUser(log, "pool_admin_added", u),
                 AtUser(log, "pool_admin_removed", u), Len(log))
      BY DEF PoolTracks
    <2> QED
      BY <1>1, <1>2, <2>1, TracksEnd DEF Admin
  <1>6. direct.profile[u] = Shown(HasProfile(u), "profile_set", u)
    <2>1. Shows(direct.profile[u], AtUser(log, "profile_set", u),
                AtUser(log, "profile_deleted", u), Len(log))
      BY DEF ProfilesTrack
    <2>2. direct.profile[u] \in Nat
      BY DEF DirectSet
    <2>3. AtUser(log, "profile_set", u) \cap AtUser(log, "profile_deleted", u) = {}
      BY Distinct
    <2> DEFINE on == AtUser(log, "profile_set", u)
               off == AtUser(log, "profile_deleted", u)
    <2>4. direct.profile[u] = IF Latest(on, off) THEN CHOOSE i \in on : \A j \in on : j =< i ELSE 0
      BY <1>1, <1>2, <2>1, <2>2, <2>3, ShowsEnd
    <2>5. OfUser("profile_set", u) = on /\ OfUser("profile_deleted", u) = off
      BY <1>1
    <2> QED
      BY <2>4, <2>5 DEF Shown, HasProfile
  <1>7. rows.dmKey[u] = Shown(OfUser("dm_key_published", u) # {}, "dm_key_published", u)
    <2>1. Shows(rows.dmKey[u], AtUser(log, "dm_key_published", u), {}, Len(log))
      BY DEF RowsTrack
    <2>2. rows.dmKey[u] \in Nat
      BY DEF RowSet
    <2> DEFINE on == AtUser(log, "dm_key_published", u)
    <2>3. {} \in SUBSET (1 .. Len(log)) /\ on \cap {} = {}
      OBVIOUS
    <2>4. rows.dmKey[u] = IF Latest(on, {}) THEN CHOOSE i \in on : \A j \in on : j =< i ELSE 0
      BY <1>1, <1>2, <2>1, <2>2, <2>3, ShowsEnd
    <2>5. OfUser("dm_key_published", u) = on
      BY <1>1
    <2>6. Latest(on, {}) <=> on # {}
      BY DEF Latest
    <2> QED
      BY <2>4, <2>5, <2>6 DEF Shown
  <1>8. (u \in rows.follows) = FollowEmitted(u)
    BY <1>3, LatestBoolean DEF FollowEmitted
  <1>9. (u \in rows.blocks) = Blocked(u)
    BY <1>4, LatestBoolean DEF Blocked
  <1>10. (u \in direct.admins) = Admin(u)
    BY <1>5, LatestBoolean DEF Admin
  <1> QED
    BY <1>6, <1>7, <1>8, <1>9, <1>10

LEMMA PostsConverge ==
    ASSUME LogSound(log), direct \in DirectSet, PostsTrack(log, direct, Len(log)),
           ReportsTrack(log, direct, Len(log)), NEW p \in Posts
    PROVE  /\ (direct.posts[p] = "live") = Live(p)
           /\ (direct.posts[p] = "none") = (OfPost("post_created", p) = {})
           /\ \A u \in Users : (<<u, p>> \in direct.pending) = Pending(u, p)
  <1>1. \A k : AtPost(log, k, p) \in SUBSET (1 .. Len(log)) /\ OfPost(k, p) = AtPost(log, k, p)
    BY AtRange, OfAt
  <1>2. Len(log) \in Nat
    BY AtRange
  <1>3. \A k : (\A i \in AtPost(log, k, p) : i > Len(log)) => AtPost(log, k, p) = {}
    BY <1>1, <1>2
  <1>4. direct.posts[p] \in {"none", "live", "deleted"}
    BY DEF DirectSet
  <1>5. direct.posts[p] = "none" <=> AtPost(log, "post_created", p) = {}
    BY <1>3 DEF PostsTrack
  <1>6. direct.posts[p] = "deleted" <=>
          ~(AtPost(log, "post_deleted", p) = {} /\ AtPost(log, "post_removed", p) = {})
    BY <1>3 DEF PostsTrack, Deletion
  <1>7. Live(p) <=> /\ AtPost(log, "post_created", p) # {}
                    /\ AtPost(log, "post_deleted", p) = {} /\ AtPost(log, "post_removed", p) = {}
    BY <1>1 DEF Live
  <1>8. direct.posts[p] = "live" <=> direct.posts[p] # "none" /\ direct.posts[p] # "deleted"
    BY <1>4
  <1>9. direct.posts[p] = "live" <=> Live(p)
    BY <1>5, <1>6, <1>7, <1>8
  <1>10. (direct.posts[p] = "live") = Live(p)
    BY <1>9 DEF Live
  <1>11. (direct.posts[p] = "none") = (OfPost("post_created", p) = {})
    BY <1>1, <1>5
  <1>12. ASSUME NEW u \in Users PROVE (<<u, p>> \in direct.pending) = Pending(u, p)
    <2> DEFINE on == AtPair(log, "post_reported", u, p)
               off == AtPair(log, "report_dismissed", u, p) \cup AtPost(log, "post_removed", p)
    <2>1. Tracks(<<u, p>>, direct.pending, on, off, Len(log))
      BY DEF ReportsTrack
    <2>2. \A k : AtPair(log, k, u, p) \in SUBSET (1 .. Len(log)) /\ OfPair(k, u, p) = AtPair(log, k, u, p)
      BY AtRange, OfAt
    <2>3. on \in SUBSET (1 .. Len(log)) /\ off \in SUBSET (1 .. Len(log))
      BY <1>1, <2>2
    <2>4. Pending(u, p) = Latest(on, off)
      <3>1. /\ OfPair("post_reported", u, p) = on
            /\ OfPair("report_dismissed", u, p) \cup OfPost("post_removed", p) = off
        BY <1>1, <2>2
      <3> QED
        BY <3>1, Zenon DEF Pending
    <2> HIDE DEF on, off
    <2>5. <<u, p>> \in direct.pending <=> Latest(on, off)
      BY <1>2, <2>1, <2>3, TracksEnd
    <2> QED
      BY <2>4, <2>5, LatestBoolean
  <1> QED
    BY <1>10, <1>11, <1>12

LEMMA ProposalConverges ==
    ASSUME LogSound(log), ProposalTracks(log, direct, Len(log), Len(log))
    PROVE  (direct.status = "Active") = Open
  <1> DEFINE on == At(log, "gov_proposal_created")
             off == At(log, "gov_proposal_executed") \cup At(log, "gov_proposal_vetoed")
  <1>1. /\ on \in SUBSET (1 .. Len(log)) /\ off \in SUBSET (1 .. Len(log)) /\ Len(log) \in Nat
    BY AtRange
  <1>2. "Active" \in {direct.status} <=> Latest(on, off)
    <2>1. Tracks("Active", {direct.status}, on, off, Len(log))
      BY DEF ProposalTracks
    <2> HIDE DEF on, off
    <2> QED
      BY <1>1, <2>1, TracksEnd
  <1>3. Open <=> on # {} /\ off = {}
    BY OfAt DEF Open
  <1>4. ASSUME NEW i \in on, NEW j \in off PROVE i < j
    <2>1. j \in 1 .. Len(log) /\ log[j].kind \in OfProposal
      BY DEF At, OfProposal
    <2>2. PICK k \in 1 .. j - 1 : log[k].kind = "gov_proposal_created"
      BY <2>1 DEF LogSound, KindBefore
    <2>3. k \in on
      BY <1>1, <2>1, <2>2 DEF At
    <2>4. k = i
      BY <2>3 DEF LogSound
    <2> QED
      BY <2>1, <2>2, <2>4
  <1>5. \A i \in on, j \in off : ~(j < i)
    BY <1>1, <1>4
  <1>6. Latest(on, off) <=> on # {} /\ off = {}
    BY <1>5 DEF Latest
  <1>7. direct.status = "Active" <=> Open
    BY <1>2, <1>3, <1>6
  <1> QED
    BY <1>7 DEF Open

LEMMA VotesConverge ==
    ASSUME LogSound(log), VotesTrack(log, direct, Len(log))
    PROVE  direct.tally = Cardinality(Of("gov_vote"))
  <1> DEFINE V == At(log, "gov_vote")
             f == [i \in V |-> log[i].user]
  <1>1. V \in SUBSET (1 .. Len(log)) /\ Len(log) \in Nat /\ Of("gov_vote") = V
    BY AtRange, OfAt
  <1>2. IsFiniteSet(V)
    <2>1. IsFiniteSet(1 .. Len(log))
      BY <1>1, FS_Interval
    <2> QED
      BY <1>1, <2>1, FS_Subset
  <1>3. \A i \in V : log[i].user \in direct.voters
    BY <1>1 DEF VotesTrack
  <1>4. \A i, j \in V : log[i].user = log[j].user => i = j
    BY DEF LogSound
  <1>5. \A u \in direct.voters : \E i \in V : log[i].user = u
    BY DEF VotesTrack, AtUser
  <1>6. f \in Bijection(V, direct.voters)
    BY <1>3, <1>4, <1>5 DEF Bijection, Injection, Surjection, IsInjective
  <1>7. ExistsBijection(V, direct.voters)
    BY <1>6 DEF ExistsBijection
  <1> QED
    BY <1>1, <1>2, <1>7, FS_Bijection DEF VotesTrack

LEMMA DeadConverge ==
    ASSUME LogSound(log), RowsTrack(log, rows, Len(log), Len(log))
    PROVE  rows.dead = Of("malformed")
  <1>1. \A i \in At(log, "malformed") : i =< Len(log)
    BY AtRange
  <1> QED
    BY <1>1, OfAt DEF RowsTrack

LEMMA CountsHold == ASSUME rows \in RowSet, RowsCounted(rows) PROVE CountsMatchRows
  <1> SUFFICES ASSUME NEW p \in Posts
               PROVE  /\ rows.count[p] = Cardinality({l \in rows.likes : l[2] = p})
                      /\ rows.total[p] = Cardinality({i \in DOMAIN rows.tips : rows.tips[i] = p})
    BY DEF CountsMatchRows
  <1>1. rows.count[p] = Cardinality({l \in rows.likes : l[2] = p})
    BY DEF RowsCounted, LikesOn
  <1> DEFINE T == {i \in DOMAIN rows.tips : rows.tips[i] = p}
  <1>2. CASE rows.tips = << >>
    <2>1. T = {}
      BY <1>2
    <2>2. rows.total[p] = 0
      BY <1>2 DEF RowsCounted
    <2> QED
      BY <1>1, <2>1, <2>2, FS_EmptySet
  <1>3. CASE rows.tips # << >>
    <2>1. PICK q \in Posts : rows.tips = <<q>> /\ \A x \in Posts : rows.total[x] = IF x = q THEN 1 ELSE 0
      BY <1>3 DEF RowsCounted
    <2>2. T = IF p = q THEN {1} ELSE {}
      BY <2>1
    <2> QED
      BY <1>1, <2>1, <2>2, FS_EmptySet, FS_Singleton
  <1> QED
    BY <1>2, <1>3

\* A post has at most one like of each user.
LEMMA CountBound ==
    ASSUME rows \in RowSet, RowsCounted(rows), NEW p \in Posts
    PROVE  rows.count[p] \in 0 .. Cardinality(Users)
  <1> DEFINE L == LikesOn(rows, p)
             f == [x \in L |-> x[1]]
  <1>1. rows.likes \subseteq Users \X Posts
    BY DEF RowSet
  <1>2. \A x \in L : x \in Users \X Posts /\ x[2] = p
    BY <1>1 DEF LikesOn
  <1>3. \A x \in L : x[1] \in Users /\ x = <<x[1], p>>
    BY <1>2
  <1>4. \A x, y \in L : x[1] = y[1] => x = y
    BY <1>3
  <1>5. f \in Injection(L, Users)
    BY <1>3, <1>4 DEF Injection, IsInjective
  <1>6. IsFiniteSet(Users)
    BY ProjectionAssumption
  <1>7. IsFiniteSet(L) /\ Cardinality(L) =< Cardinality(Users)
    BY <1>5, <1>6, FS_Injection
  <1>8. Cardinality(L) \in Nat /\ Cardinality(Users) \in Nat
    BY <1>6, <1>7, FS_CardinalityType
  <1>9. rows.count[p] = Cardinality(L)
    BY DEF RowsCounted
  <1> QED
    BY <1>7, <1>8, <1>9

LEMMA InvTypeOK == ProjectionInv => TypeOK
  <1> SUFFICES ASSUME ProjectionInv PROVE TypeOK
    OBVIOUS
  <1>1. rows \in RowSet /\ RowsCounted(rows) /\ direct \in DirectSet
    BY DEF ProjectionInv, TablesSound, RowsSound, DirectSound
  <1>2. rows.count \in [Posts -> 0 .. Cardinality(Users)]
    <2>1. rows.count \in [Posts -> Nat]
      BY <1>1 DEF RowSet
    <2> QED
      BY <1>1, <2>1, CountBound
  <1>3. rows.likes \subseteq Users \X Posts /\ rows.follows \subseteq Users
    BY <1>1 DEF RowSet
  <1>4. /\ direct.posts \in [Posts -> {"none", "live", "deleted"}]
        /\ direct.status \in {"none", "Active", "Executed", "Vetoed"}
        /\ direct.balance \in Nat
    BY <1>1 DEF DirectSet
  <1>5. /\ at \in 0 .. Len(log) /\ processed \in at .. Len(log)
        /\ tx.open => /\ tx.to \in (at + 1) .. Len(log) /\ tx.next \in (at + 1) .. (tx.to + 1)
                      /\ tx.to - at =< PageSize
        /\ listening \in [1 .. MaxLog -> [Steps -> Nat]]
        /\ \A i \in 1 .. MaxLog : InFlight(i) => i =< processed /\ log[i].kind \in Notifying
    BY DEF ProjectionInv, Place
  <1>6. \A i \in marked : sent[i] >= 1
    BY DEF ProjectionInv, PushSound
  <1> QED
    BY <1>2, <1>3, <1>4, <1>5, <1>6 DEF TypeOK

LEMMA InvTablesConverge == ProjectionInv => TablesConverge
  <1> SUFFICES ASSUME ProjectionInv, CaughtUp PROVE TablesConverge
    BY DEF TablesConverge
  <1>1. /\ at = Len(log) /\ Sure(at) = Len(log) /\ Sure(Reached) = Len(log)
        /\ processed = Len(log) /\ Seen = Len(log)
    <2>1. at = Len(log) /\ Reached = at /\ ~recovering /\ Seen = processed
      BY Numbers DEF CaughtUp
    <2>2. processed = Len(log)
      BY <2>1, Numbers
    <2> QED
      BY <2>1, <2>2 DEF Sure
  <1>2. LogSound(log) /\ rows \in RowSet /\ RowsTrack(log, rows, Len(log), Len(log)) /\ DirectSound(log, direct, Len(log), Len(log))
    BY <1>1 DEF ProjectionInv, TablesSound, RowsSound
  <1>3. /\ direct \in DirectSet /\ PostsTrack(log, direct, Len(log)) /\ ReportsTrack(log, direct, Len(log))
        /\ ProfilesTrack(log, direct, Len(log)) /\ PoolTracks(log, direct, Len(log), Len(log))
        /\ ProposalTracks(log, direct, Len(log), Len(log)) /\ VotesTrack(log, direct, Len(log))
    BY <1>2 DEF DirectSound
  <1>4. \A u \in Users :
           /\ (u \in rows.follows) = FollowEmitted(u)
           /\ (u \in rows.blocks) = Blocked(u)
           /\ direct.profile[u] = Shown(HasProfile(u), "profile_set", u)
           /\ rows.dmKey[u] = Shown(OfUser("dm_key_published", u) # {}, "dm_key_published", u)
           /\ (u \in direct.admins) = Admin(u)
    BY <1>2, <1>3, UsersConverge
  <1>5. \A p \in Posts :
           /\ (direct.posts[p] = "live") = Live(p)
           /\ (direct.posts[p] = "none") = (OfPost("post_created", p) = {})
           /\ \A u \in Users : (<<u, p>> \in direct.pending) = Pending(u, p)
    BY <1>2, <1>3, PostsConverge
  <1>6. (direct.status = "Active") = Open
    BY <1>2, <1>3, ProposalConverges
  <1>7. direct.tally = Cardinality(Of("gov_vote")) /\ rows.dead = Of("malformed")
    BY <1>2, <1>3, VotesConverge, DeadConverge
  <1> QED
    BY <1>4, <1>5, <1>6, <1>7 DEF TablesConverge

(***************************************************************************)
(* Whatever rolled back, was retried or was replayed, once the stream has  *)
(* passed the log the tables of the ingest pipeline say what the events    *)
(* say; and at all times the counts on a post equal its like and tip rows. *)
(***************************************************************************)
THEOREM TablesAreConsistent == Spec => []TablesConsistent
  <1>1. ProjectionInv => CountsMatchRows
    BY CountsHold DEF ProjectionInv, TablesSound, RowsSound
  <1>2. ProjectionInv => TablesConsistent
    BY <1>1, InvTypeOK, InvTablesConverge DEF TablesConsistent
  <1> QED
    BY <1>2, ProjectionInvariant, PTL

(***************************************************************************)
(* dispatchNotificationForBusEvent looks, pushes and records in separate   *)
(* awaits, and runs in the handler, from the bus and on every retry and    *)
(* replay.  It pushes an event twice only if a push was sent and could not *)
(* be recorded, or if the event was handled again while the listener's     *)
(* call for it was in flight.                                              *)
(***************************************************************************)
THEOREM NotifiedOnce == Spec => []NoDuplicatePush
  <1>1. ASSUME ProjectionInv PROVE NoDuplicatePush
    <2>1. \A i \in DOMAIN log : i \in 1 .. MaxLog
      BY <1>1, Numbers, OfAt DEF ProjectionInv
    <2>2. ASSUME NEW i \in 1 .. MaxLog, sent[i] > 1 PROVE i \in unmarked \cup refetched
      <3>1. sent[i] \in Nat /\ (i \notin unmarked \cup refetched => sent[i] =< 1)
        BY <1>1 DEF ProjectionInv, PushSound, OneCall
      <3> QED
        BY <2>2, <3>1
    <2> QED
      BY <2>1, <2>2 DEF NoDuplicatePush
  <1> QED
    BY <1>1, ProjectionInvariant, PTL

-------------------------------------------------------------------------------
(***************************************************************************)
(* LiveInbox: the reader of the follow and like rows.  It shares no state  *)
(* with Projection.  First its inductive invariant.                        *)
(***************************************************************************)
InboxSizes ==
    /\ Absent \notin Account /\ Absent \notin 1 .. 2 * N /\ Absent \notin Pages /\ Absent \notin Requests
    /\ IsFiniteSet(Note) /\ To \in [Note -> Account] /\ InboxPageSize \in Nat \ {0} /\ N \in Nat
    /\ Follow \cap Like = {}

(***************************************************************************)
(* The lists: of the right shape, and unless the wallet went from one      *)
(* account straight to another, with follows of their own account only.    *)
(***************************************************************************)
Good(l) == l \in Lists /\ l.read \subseteq l.all
Own(l, a) == \A n \in l.all \cap Follow : To[n] = a

ListsSound(p, st, ls, ad, w, on, dir) ==
    /\ Good(p) /\ w \in Account \cup {Absent} /\ (w = Absent => p.all = {})
    /\ st \in [Account -> Lists] /\ \A a \in Account : Good(st[a])
    /\ ls \in [Hooks -> Lists] /\ \A h \in Hooks : Good(ls[h])
    /\ ad \in [Hooks -> Account \cup {Absent}] /\ ad["bell"] = w /\ (on => ad["page"] = w)
    /\ ~dir => /\ Own(p, w)
               /\ \A a \in Account : Own(st[a], a)
               /\ \A h \in Hooks : Own(ls[h], ad[h])

(***************************************************************************)
(* A page of the inbox, and a hook's request for it.                       *)
(***************************************************************************)
PageSound(pg, w) ==
    /\ pg \in Pages /\ pg.more = (pg.next # Absent) /\ pg.read \subseteq pg.all
    /\ \A n \in pg.all \cup pg.inbox : To[n] = w

Fetches == [status : {"idle", "loading", "loading-more", "error"}, next : Cursors,
            more : BOOLEAN, req : Requests \cup {Absent}]

FetchSound(f, w) ==
    /\ f \in Fetches /\ f.more = (f.next # Absent)
    /\ f.status \in {"loading", "loading-more"} <=> f.req # Absent
    /\ w = Absent => f = Idle
    /\ f.req # Absent => /\ f.req.cursor = f.next
                         /\ f.req.page # Absent => PageSound(f.req.page, w)

(***************************************************************************)
(* The cursor of the notifications page: what the inbox held when its      *)
(* first page was read, and still holds, is listed down to the cursor; and *)
(* a reply under way continues from there.                                 *)
(***************************************************************************)
KeyIn(b, n) == IF n \in Follow THEN b[n] ELSE N + b[n]
Down(b, n, cursor) == cursor = Absent \/ KeyIn(b, n) >= cursor

Listed(b, g, c, ba, shown) == \A n \in ba \ g : Down(b, n, c) => n \in shown

Continues(b, g, cursor, pg, ba) ==
    \A n \in (IF cursor = Absent THEN pg.inbox ELSE ba) \ g :
        cursor = Absent \/ KeyIn(b, n) < cursor => (Down(b, n, pg.next) => n \in pg.all)

Covered(b, g, f, ba, shown, w) ==
    /\ \A n \in ba : b[n] # 0 /\ To[n] = w
    /\ Listed(b, g, f.next, ba, shown)
    /\ f.req # Absent /\ f.req.page # Absent =>
          /\ \A n \in f.req.page.inbox : b[n] # 0
          /\ Continues(b, g, f.req.cursor, f.req.page, ba)

RowsTyped ==
    /\ born \in [Note -> 0 .. N] /\ gone \subseteq Note /\ readThrough \in [Account -> 0 .. N \cup {Absent}]
    /\ waiting \subseteq Like /\ onPage \in BOOLEAN /\ jumped \in BOOLEAN /\ base \subseteq Note
    /\ mark \in [Hooks -> [is : {"none", "sent", "stamped"}, owner : Account \cup {Absent},
                           ids : SUBSET Note]]

InboxInv ==
    /\ InboxSizes /\ RowsTyped
    /\ ListsSound(prov, stored, list, addr, wallet, onPage, jumped)
    /\ fetch \in [Hooks -> Fetches] /\ \A h \in Hooks : FetchSound(fetch[h], wallet)
    /\ ~onPage => fetch["page"] = Idle
    /\ onPage => Covered(born, gone, fetch["page"], base, list["page"].all, wallet)

-----------------------------------------------------------------------------
(***************************************************************************)
(* The indexer's pages.                                                    *)
(***************************************************************************)
LEMMA LeastNote ==
    ASSUME NEW S \in SUBSET Nat, S # {}
    PROVE  \E x \in S : \A y \in S : x =< y
  <1> DEFINE R == OpToRel(<, Nat)
  <1>1. IsWellFoundedOn(R, Nat)
    BY NatLessThanWellFounded
  <1>2. \A x, y \in Nat : <<y, x>> \in R <=> y < x
    BY DEF OpToRel
  <1> HIDE DEF R
  <1>3. PICK x \in S : \A y \in S : ~(<<y, x>> \in R)
    BY <1>1, WFMin
  <1>4. x \in Nat /\ \A y \in S : y \in Nat
    OBVIOUS
  <1>5. ASSUME NEW y \in S PROVE x =< y
    <2>1. ~(y < x)
      BY <1>2, <1>3, <1>4, Zenon
    <2> QED
      BY <1>4, <2>1
  <1> QED
    BY <1>5

LEMMA KeyTyped ==
    ASSUME InboxSizes, NEW b \in [Note -> 0 .. N], NEW n \in Note
    PROVE  /\ KeyIn(b, n) \in Nat /\ KeyIn(b, n) =< 2 * N
           /\ b[n] # 0 => KeyIn(b, n) \in 1 .. 2 * N
  <1>1. b[n] \in 0 .. N /\ N \in Nat
    BY DEF InboxSizes
  <1> QED
    BY <1>1 DEF KeyIn

\* The rows a page holds are those with fewer than InboxPageSize rows above them.
Above(b, below, n) == {m \in below : KeyIn(b, m) > KeyIn(b, n)}
Top(b, below) == {n \in below : Cardinality(Above(b, below, n)) < InboxPageSize}

LEMMA TopClosed ==
    ASSUME InboxSizes, NEW b \in [Note -> 0 .. N], NEW below \in SUBSET Note,
           NEW n \in below, NEW m \in Top(b, below), KeyIn(b, n) >= KeyIn(b, m)
    PROVE  n \in Top(b, below)
  <1>1. \A x \in below : KeyIn(b, x) \in Nat
    BY KeyTyped
  <1>2. m \in below /\ Cardinality(Above(b, below, m)) < InboxPageSize
    BY DEF Top
  <1>3. Above(b, below, n) \in SUBSET Above(b, below, m)
    BY <1>1, <1>2 DEF Above
  <1>4. IsFiniteSet(Above(b, below, m)) /\ IsFiniteSet(Above(b, below, n))
    BY FS_Subset DEF InboxSizes, Above
  <1>5. Cardinality(Above(b, below, n)) =< Cardinality(Above(b, below, m))
    BY <1>3, <1>4, FS_Subset
  <1>6. /\ Cardinality(Above(b, below, n)) \in Nat /\ Cardinality(Above(b, below, m)) \in Nat
        /\ InboxPageSize \in Nat
    BY <1>4, FS_CardinalityType DEF InboxSizes
  <1> QED
    BY <1>2, <1>5, <1>6 DEF Top

\* The newest row is on the page.
LEMMA TopNotEmpty ==
    ASSUME InboxSizes, NEW b \in [Note -> 0 .. N], NEW below \in SUBSET Note, below # {}
    PROVE  Top(b, below) # {}
  <1>1. \A x \in below : KeyIn(b, x) \in Nat /\ KeyIn(b, x) =< 2 * N
    BY KeyTyped
  <1>2. N \in Nat
    BY DEF InboxSizes
  <1> DEFINE T == {2 * N - KeyIn(b, x) : x \in below}
  <1>3. \A x \in below : 2 * N - KeyIn(b, x) \in Nat
    BY <1>1, <1>2
  <1>4. T \in SUBSET Nat /\ T # {}
    BY <1>3
  <1>5. PICK t \in T : \A y \in T : t =< y
    BY <1>4, LeastNote
  <1>6. PICK n \in below : t = 2 * N - KeyIn(b, n)
    BY <1>5
  <1>7. ASSUME NEW m \in below PROVE ~(KeyIn(b, m) > KeyIn(b, n))
    <2>1. 2 * N - KeyIn(b, n) =< 2 * N - KeyIn(b, m)
      BY <1>5, <1>6
    <2> QED
      BY <1>1, <1>2, <2>1
  <1>8. Above(b, below, n) = {}
    BY <1>7 DEF Above
  <1>9. Cardinality(Above(b, below, n)) < InboxPageSize
    BY <1>8, FS_EmptySet DEF InboxSizes
  <1> QED
    BY <1>9 DEF Top

LEMMA LowestKey ==
    ASSUME InboxSizes, NEW b \in [Note -> 0 .. N], NEW S \in SUBSET Note, S # {},
           \A n \in S : b[n] # 0
    PROVE  /\ Min({KeyIn(b, n) : n \in S}) \in 1 .. 2 * N
           /\ \E n \in S : KeyIn(b, n) = Min({KeyIn(b, x) : x \in S})
  <1> DEFINE K == {KeyIn(b, n) : n \in S}
  <1>1. \A n \in S : KeyIn(b, n) \in 1 .. 2 * N /\ KeyIn(b, n) \in Nat
    BY KeyTyped
  <1>2. K \in SUBSET Nat /\ K # {} /\ K \subseteq 1 .. 2 * N
    BY <1>1
  <1>3. \E x \in K : \A y \in K : x =< y
    BY <1>2, LeastNote
  <1>4. Min(K) \in K
    BY <1>3 DEF Min
  <1> QED
    BY <1>2, <1>4

LEMMA PageAnswers ==
    ASSUME InboxSizes, RowsTyped, NEW a \in Account, NEW c \in Cursors
    PROVE  /\ PageSound(PageOf(a, c), a)
           /\ \A n \in PageOf(a, c).inbox : born[n] # 0
           /\ \A n \in Inbox(a) : c = Absent \/ KeyIn(born, n) < c =>
                 (Down(born, n, PageOf(a, c).next) => n \in PageOf(a, c).all)
           /\ PageOf(a, c).inbox = Inbox(a)
  <1> DEFINE below == {n \in Inbox(a) : c = Absent \/ Key(n) < c}
             top == {n \in below : Cardinality({m \in below : Key(m) > Key(n)}) < InboxPageSize}
             more == below # top
             next == IF more THEN Min({Key(n) : n \in top}) ELSE Absent
             pg == [all |-> top, read |-> {n \in top : ReadAt(n, a)}, more |-> more,
                    next |-> next, inbox |-> Inbox(a)]
  <1>1. PageOf(a, c) = pg
    BY DEF PageOf
  <1>2. \A n : Key(n) = KeyIn(born, n)
    BY DEF Key, KeyIn
  <1>3. below \in SUBSET Note /\ Inbox(a) \in SUBSET Note /\ \A n \in Inbox(a) : born[n] # 0 /\ To[n] = a
    BY DEF Inbox
  <1>4. top = Top(born, below)
    BY <1>2 DEF Top, Above
  <1>5. born \in [Note -> 0 .. N]
    BY DEF RowsTyped
  <1>6. top \subseteq below /\ top \in SUBSET Note
    BY <1>3
  <1>7. more => top # {}
    BY <1>3, <1>4, <1>5, <1>6, TopNotEmpty
  <1>8. more => /\ next \in 1 .. 2 * N
                /\ \E m \in top : KeyIn(born, m) = next
    <2> SUFFICES ASSUME more PROVE next \in 1 .. 2 * N /\ \E m \in top : KeyIn(born, m) = next
      OBVIOUS
    <2>1. next = Min({KeyIn(born, n) : n \in top})
      BY <1>2
    <2>2. \A n \in top : born[n] # 0
      BY <1>3, <1>6
    <2> HIDE DEF top, next, more
    <2> QED
      BY <1>5, <1>6, <1>7, <2>1, <2>2, LowestKey
  <1>9. ~more => next = Absent
    OBVIOUS
  <1>10. more \in BOOLEAN /\ (more <=> next # Absent)
    BY <1>8, <1>9 DEF InboxSizes
  <1>11. next \in Cursors
    BY <1>8, <1>9 DEF Cursors
  <1>12. ASSUME NEW n \in below, Down(born, n, next) PROVE n \in top
    <2>1. CASE ~more
      BY <2>1
    <2>2. CASE more
      <3>1. PICK m \in top : KeyIn(born, m) = next
        BY <1>8, <2>2
      <3>2. KeyIn(born, n) >= KeyIn(born, m)
        BY <1>10, <1>12, <2>2, <3>1 DEF Down
      <3> HIDE DEF top, next, more, below
      <3> QED
        BY <1>3, <1>4, <1>5, <3>1, <3>2, TopClosed
    <2> QED
      BY <2>1, <2>2
  <1>13. {n \in top : ReadAt(n, a)} \in SUBSET top
    OBVIOUS
  <1> HIDE DEF more, next
  <1>14. pg \in Pages
    <2> HIDE DEF top, below
    <2> QED
      BY <1>3, <1>6, <1>10, <1>11, <1>13 DEF Pages
  <1>15. PageSound(pg, a)
    <2>1. pg.more = (pg.next # Absent)
      BY <1>10
    <2>2. pg.all = top /\ pg.inbox = Inbox(a) /\ pg.read \subseteq pg.all
      OBVIOUS
    <2>3. \A n \in pg.all \cup pg.inbox : To[n] = a
      BY <1>3, <1>6, <2>2
    <2> QED
      BY <1>14, <2>1, <2>2, <2>3 DEF PageSound
  <1>16. \A n \in Inbox(a) : c = Absent \/ KeyIn(born, n) < c => n \in below
    BY <1>2
  <1>17. pg.inbox = Inbox(a) /\ pg.next = next /\ pg.all = top
    OBVIOUS
  <1> HIDE DEF below, top, pg
  <1> QED
    BY <1>1, <1>3, <1>12, <1>15, <1>16, <1>17

-----------------------------------------------------------------------------
(***************************************************************************)
(* The lists.                                                              *)
(***************************************************************************)
Contains(l, l2) == l.all \subseteq l2.all /\ l.read \subseteq l2.read

LEMMA Merged ==
    ASSUME NEW l, NEW m, Good(l), Good(m)
    PROVE  /\ Good(merge(l, m)) /\ Contains(l, merge(l, m))
           /\ \A a : Own(l, a) /\ Own(m, a) => Own(merge(l, m), a)
  <1>1. merge(l, m).all = l.all \cup m.all /\ merge(l, m).read = l.read \cup m.read
    BY DEF merge
  <1>2. merge(l, m) \in Lists
    BY DEF merge, Good, Lists
  <1> QED
    BY <1>1, <1>2 DEF Good, Contains, Own

LEMMA FollowedSound ==
    ASSUME NEW h \in Hooks, NEW l, NEW p, Good(l), Good(p)
    PROVE  /\ Good(Followed(h, l, p)) /\ Contains(l, Followed(h, l, p))
           /\ \A a : Own(l, a) /\ (Mounted(h) => Own(p, a)) => Own(Followed(h, l, p), a)
  <1>1. CASE Mounted(h) /\ p.all # {}
    BY <1>1, Merged DEF Followed
  <1>2. CASE ~(Mounted(h) /\ p.all # {})
    BY <1>2 DEF Followed, Contains
  <1> QED
    BY <1>1, <1>2

LEMMA GoodTyped == ASSUME NEW l, Good(l) PROVE l \in Lists
  BY DEF Good

LEMMA RenderedSound ==
    ASSUME NEW p, NEW ls, NEW st, Rendered(p, ls, st), onPage \in BOOLEAN,
           ListsSound(p, st, ls, addr, wallet, onPage, jumped)
    PROVE  /\ ListsSound(p, stored', list', addr, wallet, onPage, jumped)
           /\ \A h \in Hooks : Contains(ls[h], list'[h])
  <1> DEFINE new == [h \in Hooks |-> Followed(h, ls[h], p)]
             top == IF onPage THEN "page" ELSE "bell"
  <1>1. list' = new
    BY DEF Rendered
  <1>2. stored' = IF p.all = {} \/ wallet = Absent THEN st ELSE [st EXCEPT ![wallet] = new[top]]
    BY DEF Rendered
  <1>3. Good(p) /\ \A h \in Hooks : Good(ls[h])
    BY DEF ListsSound
  <1>4. \A h \in Hooks : Good(Followed(h, ls[h], p)) /\ Contains(ls[h], Followed(h, ls[h], p))
    BY <1>3, FollowedSound
  <1>5. \A h \in Hooks : new[h] = Followed(h, ls[h], p)
    OBVIOUS
  <1>6. new \in [Hooks -> Lists]
    BY <1>4, GoodTyped
  <1>7. top \in Hooks /\ addr[top] = wallet /\ wallet \in Account \cup {Absent}
    BY DEF Hooks, ListsSound
  <1>8. \A h \in Hooks : Mounted(h) => addr[h] = wallet
    BY DEF ListsSound, Mounted, Hooks
  <1>9. ~jumped => \A h \in Hooks : Own(new[h], addr[h])
    <2> SUFFICES ASSUME ~jumped, NEW h \in Hooks PROVE Own(new[h], addr[h])
      OBVIOUS
    <2>1. Own(p, wallet) /\ Own(ls[h], addr[h])
      BY DEF ListsSound
    <2>2. Mounted(h) => Own(p, addr[h])
      BY <1>8, <2>1
    <2>3. Own(Followed(h, ls[h], p), addr[h])
      BY <1>3, <2>1, <2>2, FollowedSound
    <2> QED
      BY <1>5, <2>3
  <1> HIDE DEF new
  <1>10. Good(new[top]) /\ new[top] \in Lists
    BY <1>4, <1>5, <1>7, GoodTyped
  <1>11. st \in [Account -> Lists] /\ \A a \in Account : Good(st[a])
    BY DEF ListsSound
  <1>12. stored' \in [Account -> Lists] /\ \A a \in Account : Good(stored'[a])
    BY <1>2, <1>10, <1>11
  <1>13. ~jumped => \A a \in Account : Own(stored'[a], a)
    <2> SUFFICES ASSUME ~jumped, NEW a \in Account PROVE Own(stored'[a], a)
      OBVIOUS
    <2>1. Own(st[a], a)
      BY DEF ListsSound
    <2>2. Own(new[top], wallet)
      BY <1>7, <1>9
    <2>3. stored'[a] = st[a] \/ (stored'[a] = new[top] /\ a = wallet)
      BY <1>2, <1>11
    <2> QED
      BY <2>1, <2>2, <2>3
  <1>14. \A h \in Hooks : Good(new[h])
    BY <1>4, <1>5
  <1>15. ListsSound(p, stored', new, addr, wallet, onPage, jumped)
    BY <1>6, <1>9, <1>12, <1>13, <1>14 DEF ListsSound
  <1> QED
    BY <1>1, <1>4, <1>5, <1>15

\* One list and one stored copy are replaced.
LEMMA Replaced ==
    ASSUME NEW p, NEW st, NEW ls, NEW ad, NEW w, NEW on, NEW dir, ListsSound(p, st, ls, ad, w, on, dir),
           NEW h \in Hooks, NEW new, Good(new), ~dir => Own(new, ad[h]), NEW a, a = ad[h]
    PROVE  ListsSound(p, [st EXCEPT ![a] = new], [ls EXCEPT ![h] = new], ad, w, on, dir)
  <1>1. /\ st \in [Account -> Lists] /\ \A x \in Account : Good(st[x])
        /\ ls \in [Hooks -> Lists] /\ \A x \in Hooks : Good(ls[x])
    BY DEF ListsSound
  <1>2. new \in Lists
    BY GoodTyped
  <1>3. /\ [st EXCEPT ![a] = new] \in [Account -> Lists]
        /\ \A x \in Account : [st EXCEPT ![a] = new][x] = IF x = a THEN new ELSE st[x]
    BY <1>1, <1>2
  <1>4. /\ [ls EXCEPT ![h] = new] \in [Hooks -> Lists]
        /\ \A x \in Hooks : [ls EXCEPT ![h] = new][x] = IF x = h THEN new ELSE ls[x]
    BY <1>1, <1>2
  <1>5. /\ \A x \in Account : Good([st EXCEPT ![a] = new][x])
        /\ \A x \in Hooks : Good([ls EXCEPT ![h] = new][x])
    BY <1>1, <1>3, <1>4
  <1>6. ~dir => /\ \A x \in Account : Own([st EXCEPT ![a] = new][x], x)
                /\ \A x \in Hooks : Own([ls EXCEPT ![h] = new][x], ad[x])
    BY <1>3, <1>4 DEF ListsSound
  <1> DEFINE st2 == [st EXCEPT ![a] = new]
             ls2 == [ls EXCEPT ![h] = new]
  <1>7. /\ st2 \in [Account -> Lists] /\ \A x \in Account : Good(st2[x])
        /\ ls2 \in [Hooks -> Lists] /\ \A x \in Hooks : Good(ls2[x])
        /\ ~dir => /\ \A x \in Account : Own(st2[x], x)
                   /\ \A x \in Hooks : Own(ls2[x], ad[x])
    BY <1>3, <1>4, <1>5, <1>6
  <1> HIDE DEF st2, ls2
  <1>8. ListsSound(p, st2, ls2, ad, w, on, dir)
    BY <1>7 DEF ListsSound
  <1> QED
    BY <1>8 DEF st2, ls2

\* A hook that is mounted replaces its list by one that contains it, and the
\* provider may render.
LEMMA CommitSound ==
    ASSUME InboxInv, NEW h \in Hooks, NEW new, Mounted(h), wallet # Absent, Good(new),
           ~jumped => Own(new, wallet), CommitAndRender(h, new)
    PROVE  /\ ListsSound(prov, stored', list', addr, wallet, onPage, jumped)
           /\ Contains(new, list'[h])
           /\ \A x \in Hooks : x # h => Contains(list[x], list'[x])
  <1> DEFINE st == [stored EXCEPT ![wallet] = new]
             ls == [list EXCEPT ![h] = new]
  <1>1. ListsSound(prov, stored, list, addr, wallet, onPage, jumped) /\ onPage \in BOOLEAN
    BY DEF InboxInv, RowsTyped
  <1>2. addr[h] = wallet /\ list \in [Hooks -> Lists]
    BY <1>1 DEF ListsSound, Mounted, Hooks
  <1>3. ListsSound(prov, st, ls, addr, wallet, onPage, jumped)
    BY <1>1, <1>2, Replaced
  <1>4. \A x \in Hooks : ls[x] = IF x = h THEN new ELSE list[x]
    BY <1>2
  <1>5. \A l : Contains(l, l)
    BY DEF Contains
  <1>6. (list' = ls /\ stored' = st) \/ Rendered(prov, ls, st)
    BY DEF CommitAndRender
  <1> HIDE DEF st, ls
  <1>7. CASE list' = ls /\ stored' = st
    BY <1>3, <1>4, <1>5, <1>7
  <1>8. CASE Rendered(prov, ls, st)
    <2>1. /\ ListsSound(prov, stored', list', addr, wallet, onPage, jumped)
          /\ \A x \in Hooks : Contains(ls[x], list'[x])
      BY <1>1, <1>3, <1>8, RenderedSound
    <2> QED
      BY <1>4, <2>1
  <1> QED
    BY <1>6, <1>7, <1>8

LEMMA AddSound ==
    ASSUME InboxInv, NEW n \in Note, n \in Follow => To[n] = wallet, addInboxNotification(n)
    PROVE  /\ ListsSound(prov', stored', list', addr, wallet, onPage, jumped)
           /\ \A h \in Hooks : Contains(list[h], list'[h])
  <1> DEFINE p == [prov EXCEPT !.all = @ \cup {n}]
  <1>1. ListsSound(prov, stored, list, addr, wallet, onPage, jumped) /\ onPage \in BOOLEAN
    BY DEF InboxInv, RowsTyped
  <1>2. CASE wallet = Absent
    BY <1>1, <1>2 DEF addInboxNotification, Contains
  <1>3. CASE wallet # Absent
    <2>1. prov \in Lists /\ prov.read \subseteq prov.all
      BY <1>1 DEF ListsSound, Good
    <2>2. p \in Lists /\ p.all = prov.all \cup {n} /\ p.read = prov.read
      BY <2>1 DEF Lists
    <2>3. Good(p)
      BY <2>1, <2>2 DEF Good
    <2>4. ~jumped => Own(p, wallet)
      BY <1>1, <2>2 DEF ListsSound, Own
    <2>5. prov' = p /\ Rendered(p, list, stored)
      BY <1>3 DEF addInboxNotification
    <2> HIDE DEF p
    <2>6. ListsSound(p, stored, list, addr, wallet, onPage, jumped)
      BY <1>1, <1>3, <2>3, <2>4 DEF ListsSound
    <2> QED
      BY <1>1, <2>5, <2>6, RenderedSound
  <1> QED
    BY <1>2, <1>3

\* The end of a "mark all as read" that failed.
LEMMA RollbackSound ==
    ASSUME InboxInv, NEW h \in Hooks, NEW ids, addr[h] = mark[h].owner,
           Rendered(prov, [list EXCEPT ![h] = RolledBack(list[h], ids)],
                    [stored EXCEPT ![mark[h].owner] = RolledBack(list[h], ids)])
    PROVE  /\ ListsSound(prov, stored', list', addr, wallet, onPage, jumped)
           /\ Contains([all |-> list[h].all, read |-> list[h].read \ ids], list'[h])
           /\ \A x \in Hooks : x # h => Contains(list[x], list'[x])
  <1> DEFINE new == RolledBack(list[h], ids)
             st == [stored EXCEPT ![mark[h].owner] = new]
             ls == [list EXCEPT ![h] = new]
  <1>1. ListsSound(prov, stored, list, addr, wallet, onPage, jumped) /\ onPage \in BOOLEAN
    BY DEF InboxInv, RowsTyped
  <1>2. list \in [Hooks -> Lists] /\ list[h] \in Lists /\ list[h].read \subseteq list[h].all
    BY <1>1 DEF ListsSound, Good
  <1>3. /\ new \in Lists /\ new.all = list[h].all /\ new.read = list[h].read \ ids
    BY <1>2 DEF RolledBack, Lists
  <1>4. Good(new) /\ (~jumped => Own(new, addr[h]))
    BY <1>1, <1>2, <1>3 DEF Good, ListsSound, Own
  <1> HIDE DEF new
  <1>5. ListsSound(prov, st, ls, addr, wallet, onPage, jumped)
    BY <1>1, <1>4, Replaced
  <1>6. \A x \in Hooks : ls[x] = IF x = h THEN new ELSE list[x]
    BY <1>2
  <1>7. Rendered(prov, ls, st)
    BY DEF new
  <1> HIDE DEF st, ls
  <1>8. /\ ListsSound(prov, stored', list', addr, wallet, onPage, jumped)
        /\ \A x \in Hooks : Contains(ls[x], list'[x])
    BY <1>1, <1>5, <1>7, RenderedSound
  <1> QED
    BY <1>3, <1>6, <1>8 DEF Contains

-----------------------------------------------------------------------------
(***************************************************************************)
(* The requests.                                                           *)
(***************************************************************************)
LEMMA IdleSound ==
    ASSUME InboxSizes, NEW w PROVE FetchSound(Idle, w) /\ Idle.req = Absent /\ Idle.next = Absent
  <1>1. Idle \in Fetches /\ Idle.status = "idle" /\ Idle.next = Absent /\ Idle.more = FALSE /\ Idle.req = Absent
    BY DEF Idle, Fetches, Cursors
  <1> QED
    BY <1>1 DEF FetchSound

\* A request goes out, from the cursor the hook has.
LEMMA LoadSound ==
    ASSUME InboxSizes, NEW f, NEW w, w # Absent, FetchSound(f, w)
    PROVE  /\ FetchSound(loadPage(f, f.next), w) /\ loadPage(f, f.next).next = f.next
           /\ loadPage(f, f.next).req.page = Absent
  <1> DEFINE q == [cursor |-> f.next, page |-> Absent]
             s == IF f.next = Absent THEN "loading" ELSE "loading-more"
             g == loadPage(f, f.next)
  <1>1. f \in Fetches /\ f.more = (f.next # Absent)
    BY DEF FetchSound
  <1>2. f.next \in Cursors
    BY <1>1 DEF Fetches
  <1>3. q \in Requests /\ q # Absent
    BY <1>2 DEF Requests, InboxSizes
  <1>4. s \in {"loading", "loading-more"}
    OBVIOUS
  <1>5. g = [f EXCEPT !.status = s, !.req = q]
    BY DEF loadPage
  <1> HIDE DEF s
  <1>6. q.cursor = f.next /\ q.page = Absent
    OBVIOUS
  <1> HIDE DEF q
  <1>7. g \in Fetches /\ g.status = s /\ g.req = q /\ g.next = f.next /\ g.more = f.more
    BY <1>1, <1>3, <1>4, <1>5 DEF Fetches
  <1> HIDE DEF g
  <1>8. FetchSound(g, w)
    BY <1>1, <1>3, <1>4, <1>6, <1>7 DEF FetchSound
  <1> QED
    BY <1>6, <1>7, <1>8 DEF g

LEMMA FirstLoadSound ==
    ASSUME InboxSizes, NEW w, w # Absent
    PROVE  /\ FetchSound(loadPage(Idle, Absent), w) /\ loadPage(Idle, Absent).next = Absent
           /\ loadPage(Idle, Absent).req.page = Absent
  <1>1. FetchSound(Idle, w) /\ Idle.next = Absent
    BY IdleSound
  <1> QED
    BY <1>1, LoadSound

LEMMA FetchTyped == ASSUME NEW f, NEW w, FetchSound(f, w) PROVE f \in Fetches
  BY DEF FetchSound

\* One hook's request changes and nothing else that the requests depend on.
LEMMA FetchReplaced ==
    ASSUME InboxInv, NEW h \in Hooks, NEW f, FetchSound(f, wallet)
    PROVE  /\ [fetch EXCEPT ![h] = f] \in [Hooks -> Fetches]
           /\ \A x \in Hooks : FetchSound([fetch EXCEPT ![h] = f][x], wallet)
           /\ \A x \in Hooks : [fetch EXCEPT ![h] = f][x] = IF x = h THEN f ELSE fetch[x]
  <1>1. f \in Fetches
    BY FetchTyped
  <1>2. fetch \in [Hooks -> Fetches] /\ \A x \in Hooks : FetchSound(fetch[x], wallet)
    BY DEF InboxInv
  <1> QED
    BY <1>1, <1>2

-----------------------------------------------------------------------------
(***************************************************************************)
(* The steps.                                                              *)
(***************************************************************************)
LEMMA InboxStarts == ASSUME WebInit PROVE InboxInv
  <1>1. N \in Nat
    BY LiveInboxAssumption, FS_CardinalityType DEF N
  <1>2. InboxSizes
    BY LiveInboxAssumption, <1>1 DEF InboxSizes
  <1>3. Unmarked \in [is : {"none", "sent", "stamped"}, owner : Account \cup {Absent}, ids : SUBSET Note]
    BY DEF Unmarked
  <1>4. RowsTyped
    <2>1. mark \in [Hooks -> [is : {"none", "sent", "stamped"}, owner : Account \cup {Absent},
                              ids : SUBSET Note]]
      BY <1>3 DEF WebInit
    <2>2. 0 \in 0 .. N
      BY <1>1
    <2>3. born \in [Note -> 0 .. N] /\ readThrough \in [Account -> 0 .. N \cup {Absent}]
      BY <2>2 DEF WebInit
    <2> QED
      BY <2>1, <2>3 DEF WebInit, RowsTyped
  <1>5. Good(Empty) /\ Empty.all = {} /\ \A a : Own(Empty, a)
    BY DEF Empty, Good, Lists, Own
  <1>6. Empty \in Lists
    BY <1>5, GoodTyped
  <1>7. /\ stored \in [Account -> Lists] /\ \A a \in Account : stored[a] = Empty
        /\ list \in [Hooks -> Lists] /\ \A h \in Hooks : list[h] = Empty
        /\ addr \in [Hooks -> Account \cup {Absent}] /\ \A h \in Hooks : addr[h] = Absent
        /\ prov = Empty /\ wallet = Absent /\ onPage = FALSE
    BY <1>6 DEF WebInit
  <1>8. ListsSound(prov, stored, list, addr, wallet, onPage, jumped)
    BY <1>5, <1>7 DEF ListsSound, Hooks
  <1>9. fetch = [h \in Hooks |-> Idle] /\ FetchSound(Idle, wallet) /\ Idle.req = Absent
    BY <1>2, IdleSound DEF WebInit
  <1>10. Idle \in Fetches
    BY <1>9, FetchTyped
  <1>11. fetch \in [Hooks -> Fetches] /\ \A h \in Hooks : FetchSound(fetch[h], wallet)
    BY <1>9, <1>10
  <1>12. fetch["page"] = Idle
    BY <1>9 DEF Hooks
  <1> QED
    BY <1>2, <1>4, <1>7, <1>8, <1>11, <1>12 DEF InboxInv

LEMMA SizesKept == InboxSizes => InboxSizes'
  BY DEF InboxSizes, N, Note, Pages, Requests, Cursors

LEMMA Held ==
    ASSUME InboxInv
    PROVE  /\ InboxSizes /\ RowsTyped /\ ListsSound(prov, stored, list, addr, wallet, onPage, jumped)
           /\ fetch \in [Hooks -> Fetches] /\ \A h \in Hooks : FetchSound(fetch[h], wallet)
           /\ onPage => Covered(born, gone, fetch["page"], base, list["page"].all, wallet)
           /\ ~onPage => fetch["page"] = Idle
           /\ "page" \in Hooks /\ "bell" \in Hooks
  BY DEF InboxInv, Hooks

LEMMA CoveredGrows ==
    ASSUME NEW b, NEW g, NEW f, NEW ba, NEW w, NEW shown, NEW shown2, shown \subseteq shown2,
           Covered(b, g, f, ba, shown, w)
    PROVE  Covered(b, g, f, ba, shown2, w)
  BY DEF Covered, Listed

\* Only lists, marks and the indexer's watermark change; no list of the page
\* loses a notification.
LEMMA ListStep ==
    ASSUME InboxInv, RowsTyped', ListsSound(prov, stored, list, addr, wallet, onPage, jumped)',
           onPage => list["page"].all \subseteq list'["page"].all,
           UNCHANGED <<born, gone, wallet, fetch, onPage, base>>
    PROVE  InboxInv'
  <1>1. InboxSizes'
    BY Held, SizesKept
  <1>2. fetch' \in [Hooks -> Fetches] /\ \A h \in Hooks : FetchSound(fetch'[h], wallet')
    BY Held
  <1>3. ~onPage' => fetch'["page"] = Idle
    BY Held
  <1>4. onPage' => Covered(born', gone', fetch'["page"], base', list'["page"].all, wallet')
    BY Held, CoveredGrows
  <1> QED
    BY <1>1, <1>2, <1>3, <1>4 DEF InboxInv

LEMMA ArriveStep ==
    ASSUME InboxInv, NEW n \in Note, Arrive(n) \/ ExcerptDone(n)
    PROVE  InboxInv' /\ \A h \in Hooks : Contains(list[h], list'[h])
  <1>1. UNCHANGED <<born, gone, readThrough, wallet, addr, fetch, mark, onPage, base, jumped>>
    BY DEF Arrive, ExcerptDone
  <1>2. RowsTyped'
    <2>1. waiting' \subseteq Like
      BY Held DEF RowsTyped, Arrive, ExcerptDone
    <2> QED
      BY <1>1, <2>1, Held DEF RowsTyped
  <1>3. waiting \subseteq Like /\ Follow \cap Like = {}
    BY Held DEF RowsTyped, InboxSizes
  <1>4. \/ addInboxNotification(n) /\ (n \in Follow => To[n] = wallet)
        \/ UNCHANGED <<prov, list, stored>>
    BY <1>3 DEF Arrive, ExcerptDone, FollowsMe
  <1>5. /\ ListsSound(prov', stored', list', addr, wallet, onPage, jumped)
        /\ \A h \in Hooks : Contains(list[h], list'[h])
    <2>1. CASE addInboxNotification(n) /\ (n \in Follow => To[n] = wallet)
      BY <2>1, AddSound
    <2>2. CASE UNCHANGED <<prov, list, stored>>
      BY <2>2, Held DEF Contains
    <2> QED
      BY <1>4, <2>1, <2>2
  <1>6. ListsSound(prov, stored, list, addr, wallet, onPage, jumped)'
    BY <1>1, <1>5
  <1>7. list["page"].all \subseteq list'["page"].all
    BY <1>5, Held DEF Contains
  <1> QED
    BY <1>1, <1>2, <1>5, <1>6, <1>7, ListStep

LEMMA MarkReadStep ==
    ASSUME InboxInv, NEW h \in Hooks, NEW n, MarkRead(h, n) \/ MarkAllRead(h)
    PROVE  InboxInv' /\ \A x \in Hooks : Contains(list[x], list'[x])
  <1>1. /\ Mounted(h) /\ wallet # Absent
        /\ UNCHANGED <<born, gone, readThrough, wallet, addr, waiting, prov, fetch, onPage, base, jumped>>
    BY DEF MarkRead, MarkAllRead
  <1>2. /\ list[h] \in Lists /\ list[h].read \subseteq list[h].all /\ addr[h] = wallet
        /\ ~jumped => Own(list[h], wallet)
    BY <1>1, Held DEF ListsSound, Good, Mounted, Hooks
  <1>3. PICK read : /\ CommitAndRender(h, [list[h] EXCEPT !.read = read])
                    /\ list[h].read \subseteq read /\ read \subseteq list[h].all
    BY <1>2 DEF MarkRead, MarkAllRead
  <1> DEFINE new == [list[h] EXCEPT !.read = read]
  <1>4. list[h].all \in SUBSET Note
    BY <1>2 DEF Lists
  <1>5. new \in Lists /\ new.all = list[h].all /\ new.read = read
    BY <1>2, <1>3, <1>4 DEF Lists
  <1>6. Good(new) /\ (~jumped => Own(new, wallet)) /\ Contains(list[h], new)
    BY <1>2, <1>3, <1>5 DEF Good, Own, Contains
  <1>7. CommitAndRender(h, new)
    BY <1>3
  <1> HIDE DEF new
  <1>8. /\ ListsSound(prov, stored', list', addr, wallet, onPage, jumped)
        /\ Contains(new, list'[h])
        /\ \A x \in Hooks : x # h => Contains(list[x], list'[x])
    BY <1>1, <1>6, <1>7, CommitSound
  <1>9. \A x \in Hooks : Contains(list[x], list'[x])
    BY <1>6, <1>8 DEF Contains
  <1>10. RowsTyped'
    <2>1. mark' \in [Hooks -> [is : {"none", "sent", "stamped"}, owner : Account \cup {Absent},
                               ids : SUBSET Note]]
      <3>1. CASE MarkRead(h, n)
        BY <3>1, Held DEF MarkRead, RowsTyped
      <3>2. CASE MarkAllRead(h)
        <4> DEFINE m == [is |-> "sent", owner |-> wallet, ids |-> list[h].all \ list[h].read]
        <4>1. mark' = [mark EXCEPT ![h] = m]
          BY <3>2 DEF MarkAllRead
        <4>2. m \in [is : {"none", "sent", "stamped"}, owner : Account \cup {Absent}, ids : SUBSET Note]
          BY <1>4, Held DEF ListsSound
        <4> HIDE DEF m
        <4> QED
          BY <4>1, <4>2, Held DEF RowsTyped
      <3> QED
        BY <3>1, <3>2
    <2> QED
      BY <1>1, <2>1, Held DEF RowsTyped
  <1>11. list["page"].all \subseteq list'["page"].all
    BY <1>9, Held DEF Contains
  <1> QED
    BY <1>1, <1>8, <1>9, <1>10, <1>11, ListStep

LEMMA ClockTyped == ASSUME InboxInv PROVE Clock \in 0 .. N
  <1>1. {n \in Note : born[n] # 0} \in SUBSET Note /\ IsFiniteSet(Note) /\ N \in Nat
    BY Held DEF InboxSizes
  <1>2. Cardinality({n \in Note : born[n] # 0}) =< N
    BY <1>1, FS_Subset DEF N
  <1>3. Cardinality({n \in Note : born[n] # 0}) \in Nat
    BY <1>1, FS_Subset, FS_CardinalityType
  <1> QED
    BY <1>1, <1>2, <1>3 DEF Clock

LEMMA StampStep ==
    ASSUME InboxInv, NEW h \in Hooks, Stamp(h) \/ MarkDone(h)
    PROVE  InboxInv' /\ UNCHANGED list
  <1>1. UNCHANGED <<born, gone, wallet, addr, waiting, prov, stored, list, fetch, onPage, base, jumped>>
    BY DEF Stamp, MarkDone
  <1>2. readThrough' \in [Account -> 0 .. N \cup {Absent}]
    BY Held, ClockTyped DEF RowsTyped, Stamp, MarkDone
  <1>3. mark' \in [Hooks -> [is : {"none", "sent", "stamped"}, owner : Account \cup {Absent},
                             ids : SUBSET Note]]
    <2>1. Unmarked \in [is : {"none", "sent", "stamped"}, owner : Account \cup {Absent}, ids : SUBSET Note]
      BY DEF Unmarked
    <2> QED
      BY <2>1, Held DEF RowsTyped, Stamp, MarkDone
  <1>4. RowsTyped'
    BY <1>1, <1>2, <1>3, Held DEF RowsTyped
  <1> QED
    BY <1>1, <1>4, Held, ListStep

LEMMA MarkFailsStep ==
    ASSUME InboxInv, NEW h \in Hooks, MarkFails(h)
    PROVE  /\ InboxInv' /\ mark[h].is # "none" /\ mark'[h].is = "none"
           /\ Contains([all |-> list[h].all, read |-> list[h].read \ mark[h].ids], list'[h])
           /\ \A x \in Hooks : x # h => Contains(list[x], list'[x])
  <1>1. /\ mark[h].is # "none" /\ mark' = [mark EXCEPT ![h] = Unmarked]
        /\ UNCHANGED <<born, gone, readThrough, wallet, addr, waiting, prov, fetch, onPage, base, jumped>>
    BY DEF MarkFails
  <1>2. mark'[h].is = "none"
    BY <1>1, Held DEF RowsTyped, Unmarked
  <1>3. RowsTyped'
    <2>1. Unmarked \in [is : {"none", "sent", "stamped"}, owner : Account \cup {Absent}, ids : SUBSET Note]
      BY DEF Unmarked
    <2> QED
      BY <1>1, <2>1, Held DEF RowsTyped
  <1>4. /\ ListsSound(prov, stored', list', addr, wallet, onPage, jumped)
        /\ Contains([all |-> list[h].all, read |-> list[h].read \ mark[h].ids], list'[h])
        /\ \A x \in Hooks : x # h => Contains(list[x], list'[x])
    <2>1. CASE addr[h] # mark[h].owner
      <3>1. UNCHANGED <<list, stored>>
        BY <2>1 DEF MarkFails
      <3> QED
        BY <3>1, Held DEF Contains
    <2>2. CASE addr[h] = mark[h].owner
      <3>1. Rendered(prov, [list EXCEPT ![h] = RolledBack(list[h], mark[h].ids)],
                     [stored EXCEPT ![mark[h].owner] = RolledBack(list[h], mark[h].ids)])
        BY <2>2 DEF MarkFails
      <3> QED
        BY <2>2, <3>1, RollbackSound
    <2> QED
      BY <2>1, <2>2
  <1>5. list["page"].all \subseteq list'["page"].all
    BY <1>4, Held DEF Contains
  <1> QED
    BY <1>1, <1>2, <1>3, <1>4, <1>5, ListStep

\* Rows are added and removed: the rows that were there keep their keys.
LEMMA CoveredKept ==
    ASSUME NEW b, NEW b2, NEW g, NEW g2, NEW f, NEW ba, NEW shown, NEW w,
           \A n \in Note : b[n] # 0 => b2[n] = b[n], g \subseteq g2, ba \subseteq Note,
           f.req # Absent /\ f.req.page # Absent => f.req.page.inbox \subseteq Note,
           Covered(b, g, f, ba, shown, w)
    PROVE  Covered(b2, g2, f, ba, shown, w)
  <1>1. \A n \in Note : \A c : b[n] # 0 => b2[n] # 0 /\ KeyIn(b2, n) = KeyIn(b, n) /\ (Down(b2, n, c) <=> Down(b, n, c))
    BY DEF KeyIn, Down
  <1>2. \A n \in ba : n \in Note /\ b[n] # 0 /\ To[n] = w
    BY DEF Covered
  <1>3. Listed(b2, g2, f.next, ba, shown)
    <2>1. Listed(b, g, f.next, ba, shown)
      BY DEF Covered
    <2> QED
      BY <1>1, <1>2, <2>1 DEF Listed
  <1>4. ASSUME f.req # Absent, f.req.page # Absent
        PROVE  /\ \A n \in f.req.page.inbox : b2[n] # 0
               /\ Continues(b2, g2, f.req.cursor, f.req.page, ba)
    <2>1. /\ \A n \in f.req.page.inbox : n \in Note /\ b[n] # 0
          /\ Continues(b, g, f.req.cursor, f.req.page, ba)
      BY <1>4 DEF Covered
    <2> DEFINE S == IF f.req.cursor = Absent THEN f.req.page.inbox ELSE ba
    <2>2. \A n \in S : n \in Note /\ b[n] # 0
      BY <1>2, <2>1
    <2>3. \A n \in S \ g : f.req.cursor = Absent \/ KeyIn(b, n) < f.req.cursor
              => (Down(b, n, f.req.page.next) => n \in f.req.page.all)
      BY <2>1 DEF Continues
    <2> HIDE DEF S
    <2>4. \A n \in S \ g2 : f.req.cursor = Absent \/ KeyIn(b2, n) < f.req.cursor
              => (Down(b2, n, f.req.page.next) => n \in f.req.page.all)
      BY <1>1, <2>2, <2>3
    <2>5. Continues(b2, g2, f.req.cursor, f.req.page, ba)
      BY <2>4 DEF Continues, S
    <2> QED
      BY <1>1, <2>1, <2>5
  <1> QED
    BY <1>1, <1>2, <1>3, <1>4 DEF Covered

LEMMA RowStep ==
    ASSUME InboxInv, NEW n \in Note, CommitRow(n) \/ Remove(n)
    PROVE  InboxInv' /\ UNCHANGED list
  <1>1. UNCHANGED <<readThrough, wallet, addr, waiting, prov, stored, list, fetch, mark, onPage, base, jumped>>
    BY DEF CommitRow, Remove
  <1>2. /\ born' \in [Note -> 0 .. N] /\ gone' \subseteq Note /\ gone \subseteq gone'
        /\ \A m \in Note : born[m] # 0 => born'[m] = born[m]
    <2>1. born \in [Note -> 0 .. N] /\ gone \subseteq Note
      BY Held DEF RowsTyped
    <2>2. CASE CommitRow(n)
      <3> DEFINE S == {m \in Note : born[m] # 0}
      <3>1. born[n] = 0 /\ born' = [born EXCEPT ![n] = Cardinality(S) + 1] /\ gone' = gone
        BY <2>2 DEF CommitRow, Clock
      <3>2. IsFiniteSet(Note) /\ N \in Nat
        BY Held DEF InboxSizes
      <3>3. IsFiniteSet(Note \ {n}) /\ Cardinality(Note \ {n}) = N - 1
        BY <3>2, FS_RemoveElement DEF N
      <3>4. S \in SUBSET (Note \ {n})
        BY <3>1
      <3>5. Cardinality(S) =< N - 1
        BY <3>3, <3>4, FS_Subset
      <3>6. Cardinality(S) \in Nat
        BY <3>3, <3>4, FS_Subset, FS_CardinalityType
      <3> HIDE DEF S
      <3>7. Cardinality(S) + 1 \in 0 .. N
        BY <3>2, <3>5, <3>6
      <3> QED
        BY <2>1, <3>1, <3>7
    <2>3. CASE Remove(n)
      BY <2>1, <2>3 DEF Remove
    <2> QED
      BY <2>2, <2>3
  <1>3. RowsTyped'
    BY <1>1, <1>2, Held DEF RowsTyped
  <1>4. ListsSound(prov, stored, list, addr, wallet, onPage, jumped)'
    BY <1>1, Held
  <1>5. onPage' => Covered(born', gone', fetch'["page"], base', list'["page"].all, wallet')
    <2> SUFFICES ASSUME onPage PROVE Covered(born', gone', fetch["page"], base, list["page"].all, wallet)
      BY <1>1
    <2>1. FetchSound(fetch["page"], wallet)
      BY Held
    <2>2. fetch["page"].req # Absent /\ fetch["page"].req.page # Absent => fetch["page"].req.page.inbox \subseteq Note
      BY <2>1 DEF FetchSound, PageSound, Pages
    <2>3. base \subseteq Note
      BY Held DEF RowsTyped
    <2>4. Covered(born, gone, fetch["page"], base, list["page"].all, wallet)
      BY Held
    <2> QED
      BY <1>2, <2>2, <2>3, <2>4, CoveredKept
  <1>6. InboxSizes'
    BY Held, SizesKept
  <1>7. /\ fetch' \in [Hooks -> Fetches] /\ \A h \in Hooks : FetchSound(fetch'[h], wallet')
        /\ ~onPage' => fetch'["page"] = Idle
    BY <1>1, Held
  <1> QED
    BY <1>1, <1>3, <1>4, <1>5, <1>6, <1>7 DEF InboxInv

\* Only one hook's request changes.
LEMMA FetchStep ==
    ASSUME InboxInv, NEW h \in Hooks, NEW f, FetchSound(f, wallet), h = "page" => onPage,
           h = "page" => Covered(born, gone, f, base, list["page"].all, wallet),
           fetch' = [fetch EXCEPT ![h] = f],
           UNCHANGED <<born, gone, readThrough, wallet, addr, waiting, prov, stored, list, mark,
                       onPage, base, jumped>>
    PROVE  InboxInv'
  <1>1. InboxSizes' /\ RowsTyped'
    BY Held, SizesKept DEF RowsTyped
  <1>2. ListsSound(prov, stored, list, addr, wallet, onPage, jumped)'
    BY Held
  <1>3. /\ fetch' \in [Hooks -> Fetches] /\ \A x \in Hooks : FetchSound(fetch'[x], wallet')
        /\ \A x \in Hooks : fetch'[x] = IF x = h THEN f ELSE fetch[x]
    BY FetchReplaced
  <1>4. ~onPage' => fetch'["page"] = Idle
    BY <1>3, Held
  <1>5. onPage' => Covered(born', gone', fetch'["page"], base', list'["page"].all, wallet')
    BY <1>3, Held
  <1> QED
    BY <1>1, <1>2, <1>3, <1>4, <1>5 DEF InboxInv

\* A hook with a request is mounted and has the wallet's address.
LEMMA Requesting ==
    ASSUME InboxInv, NEW h \in Hooks, fetch[h].req # Absent
    PROVE  /\ wallet \in Account /\ wallet # Absent /\ (h = "page" => onPage) /\ addr[h] = wallet
           /\ fetch[h] \in Fetches /\ fetch[h].req \in Requests /\ fetch[h].req.cursor \in Cursors
           /\ fetch[h].req.cursor = fetch[h].next /\ fetch[h].more = (fetch[h].next # Absent)
           /\ fetch[h].status \in {"loading", "loading-more"}
           /\ fetch[h].req.page # Absent => PageSound(fetch[h].req.page, wallet)
  <1>1. FetchSound(fetch[h], wallet) /\ wallet \in Account \cup {Absent}
    BY Held DEF ListsSound
  <1>2. Idle.req = Absent
    BY DEF Idle
  <1>3. wallet # Absent /\ (h = "page" => onPage)
    BY <1>1, <1>2, Held DEF FetchSound
  <1>4. addr[h] = wallet
    BY <1>3, Held DEF ListsSound, Hooks
  <1>5. fetch[h] \in Fetches
    BY <1>1 DEF FetchSound
  <1>6. fetch[h].req \in Requests
    BY <1>5 DEF Fetches
  <1>7. fetch[h].req.cursor \in Cursors
    BY <1>6 DEF Requests
  <1> QED
    BY <1>1, <1>3, <1>4, <1>5, <1>6, <1>7 DEF FetchSound

LEMMA AnswerStep ==
    ASSUME InboxInv, NEW h \in Hooks, Answer(h)
    PROVE  InboxInv' /\ UNCHANGED list
  <1> DEFINE pg == PageOf(wallet, fetch[h].req.cursor)
             q == [fetch[h].req EXCEPT !.page = pg]
             f == [fetch[h] EXCEPT !.req = q]
  <1>1. /\ fetch[h].req # Absent
        /\ UNCHANGED <<born, gone, readThrough, wallet, addr, waiting, prov, stored, list, mark,
                       onPage, base, jumped>>
    BY DEF Answer
  <1>2. fetch' = [fetch EXCEPT ![h] = f]
    BY DEF Answer
  <1>3. /\ wallet \in Account /\ wallet # Absent /\ (h = "page" => onPage)
        /\ fetch[h] \in Fetches /\ fetch[h].req \in Requests /\ fetch[h].req.cursor \in Cursors
        /\ fetch[h].req.cursor = fetch[h].next /\ fetch[h].more = (fetch[h].next # Absent)
        /\ fetch[h].status \in {"loading", "loading-more"}
    BY <1>1, Requesting
  <1>4. /\ PageSound(pg, wallet)
        /\ \A n \in pg.inbox : born[n] # 0
        /\ \A n \in Inbox(wallet) : fetch[h].req.cursor = Absent \/ KeyIn(born, n) < fetch[h].req.cursor =>
              (Down(born, n, pg.next) => n \in pg.all)
        /\ pg.inbox = Inbox(wallet)
    BY <1>3, Held, PageAnswers
  <1>5. pg \in Pages
    BY <1>4 DEF PageSound
  <1> HIDE DEF pg
  <1>6. q \in Requests /\ q.cursor = fetch[h].req.cursor /\ q.page = pg
    BY <1>3, <1>5 DEF Requests
  <1>7. q # Absent
    BY <1>6, Held DEF InboxSizes
  <1> HIDE DEF q
  <1>8. f \in Fetches /\ f.status = fetch[h].status /\ f.next = fetch[h].next /\ f.more = fetch[h].more /\ f.req = q
    BY <1>3, <1>6 DEF Fetches
  <1> HIDE DEF f
  <1>9. FetchSound(f, wallet)
    BY <1>3, <1>4, <1>6, <1>7, <1>8 DEF FetchSound
  <1>10. ASSUME h = "page" PROVE Covered(born, gone, f, base, list["page"].all, wallet)
    <2>1. Covered(born, gone, fetch[h], base, list["page"].all, wallet)
      BY <1>3, <1>10, Held
    <2>2. \A n \in base : born[n] # 0 /\ To[n] = wallet
      BY <2>1 DEF Covered
    <2>3. Listed(born, gone, f.next, base, list["page"].all)
      BY <1>8, <2>1 DEF Covered
    <2>4. base \subseteq Note
      BY Held DEF RowsTyped
    <2>5. \A n \in base \ gone : n \in Inbox(wallet)
      BY <2>2, <2>4 DEF Inbox
    <2>6. \A n \in Inbox(wallet) : f.req.cursor = Absent \/ KeyIn(born, n) < f.req.cursor =>
              (Down(born, n, pg.next) => n \in pg.all)
      BY <1>4, <1>6, <1>8
    <2>7. Continues(born, gone, f.req.cursor, pg, base)
      BY <1>4, <2>5, <2>6 DEF Continues
    <2>8. Continues(born, gone, f.req.cursor, f.req.page, base) /\ f.req.page = pg
      BY <1>6, <1>8, <2>7
    <2> QED
      BY <1>4, <2>2, <2>3, <2>8 DEF Covered
  <1> QED
    BY <1>1, <1>2, <1>3, <1>9, <1>10, FetchStep

\* A page is merged into the list of the hook that asked for it.
LEMMA ApplyStep ==
    ASSUME InboxInv, NEW h \in Hooks, Apply(h)
    PROVE  InboxInv' /\ \A x \in Hooks : Contains(list[x], list'[x])
  <1> DEFINE page == fetch[h].req.page
             top == [all |-> page.all, read |-> page.read]
             new == merge(list[h], top)
             f == [status |-> "idle", next |-> page.next, more |-> page.more, req |-> Absent]
  <1>1. /\ fetch[h].req # Absent /\ page # Absent
        /\ list' = [list EXCEPT ![h] = new] /\ stored' = [stored EXCEPT ![wallet] = new]
        /\ fetch' = [fetch EXCEPT ![h] = f]
        /\ base' = IF h = "page" /\ fetch[h].req.cursor = Absent THEN page.inbox ELSE base
        /\ UNCHANGED <<born, gone, readThrough, wallet, addr, waiting, prov, mark, onPage, jumped>>
    BY DEF Apply
  <1>2. /\ wallet \in Account /\ wallet # Absent /\ (h = "page" => onPage) /\ addr[h] = wallet
        /\ fetch[h].req.cursor \in Cursors /\ fetch[h].req.cursor = fetch[h].next
        /\ PageSound(page, wallet)
    BY <1>1, Requesting
  <1>3. /\ page \in Pages /\ page.more = (page.next # Absent) /\ page.read \subseteq page.all
        /\ \A n \in page.all \cup page.inbox : To[n] = wallet
    BY <1>2 DEF PageSound
  <1> HIDE DEF page
  <1>4. /\ page.all \in SUBSET Note /\ page.read \in SUBSET Note /\ page.next \in Cursors
        /\ page.more \in BOOLEAN /\ page.inbox \in SUBSET Note
    BY <1>3 DEF Pages
  <1>5. top \in Lists /\ top.all = page.all /\ top.read = page.read
    BY <1>4 DEF Lists
  <1>6. Good(top) /\ Own(top, wallet)
    BY <1>3, <1>5 DEF Good, Own
  <1> HIDE DEF top
  <1>7. Good(list[h]) /\ (~jumped => Own(list[h], wallet)) /\ list \in [Hooks -> Lists]
    BY <1>2, Held DEF ListsSound
  <1>8. Good(new) /\ Contains(list[h], new) /\ (~jumped => Own(new, wallet))
    BY <1>6, <1>7, Merged
  <1>9. new.all = list[h].all \cup page.all
    BY <1>5 DEF merge
  <1> HIDE DEF new
  <1>10. ListsSound(prov, stored', list', addr, wallet, onPage, jumped)
    BY <1>1, <1>2, <1>8, Held, Replaced
  <1>11. \A x \in Hooks : list'[x] = IF x = h THEN new ELSE list[x]
    BY <1>1, <1>7
  <1>12. \A x \in Hooks : Contains(list[x], list'[x])
    BY <1>8, <1>11 DEF Contains
  <1>13. f \in Fetches /\ f.status = "idle" /\ f.next = page.next /\ f.more = page.more /\ f.req = Absent
    BY <1>4 DEF Fetches
  <1> HIDE DEF f
  <1>14. FetchSound(f, wallet)
    BY <1>2, <1>3, <1>13 DEF FetchSound
  <1>15. /\ fetch' \in [Hooks -> Fetches] /\ \A x \in Hooks : FetchSound(fetch'[x], wallet)
         /\ \A x \in Hooks : fetch'[x] = IF x = h THEN f ELSE fetch[x]
    BY <1>1, <1>14, FetchReplaced
  <1>16. RowsTyped'
    <2>1. base' \subseteq Note
      BY <1>1, <1>4, Held DEF RowsTyped
    <2> QED
      BY <1>1, <2>1, Held DEF RowsTyped
  <1>17. ASSUME h = "page" PROVE Covered(born, gone, f, base', new.all, wallet)
    <2>1. Covered(born, gone, fetch[h], base, list[h].all, wallet)
      BY <1>2, <1>17, Held
    <2>2. /\ \A n \in base : born[n] # 0 /\ To[n] = wallet
          /\ Listed(born, gone, fetch[h].next, base, list[h].all)
          /\ \A n \in page.inbox : born[n] # 0
          /\ Continues(born, gone, fetch[h].req.cursor, page, base)
      BY <1>1, <2>1 DEF Covered, page
    <2>3. \A n \in base' : born[n] # 0 /\ To[n] = wallet
      BY <1>1, <1>3, <2>2
    <2>4. ASSUME NEW n \in base' \ gone, Down(born, n, page.next) PROVE n \in new.all
      <3>1. CASE fetch[h].req.cursor = Absent
        <4>1. n \in page.inbox \ gone
          BY <1>1, <1>17, <2>4, <3>1
        <4> QED
          BY <1>9, <2>2, <2>4, <3>1, <4>1 DEF Continues
      <3>2. CASE fetch[h].req.cursor # Absent
        <4>1. n \in base \ gone /\ n \in Note
          BY <1>1, <2>4, <3>2, Held DEF RowsTyped
        <4>2. KeyIn(born, n) \in Nat /\ fetch[h].req.cursor \in 1 .. 2 * N /\ N \in Nat
          BY <1>2, <3>2, <4>1, Held, KeyTyped DEF RowsTyped, Cursors, InboxSizes
        <4>3. CASE KeyIn(born, n) < fetch[h].req.cursor
          BY <1>9, <2>2, <2>4, <3>2, <4>1, <4>3 DEF Continues
        <4>4. CASE KeyIn(born, n) >= fetch[h].req.cursor
          <5>1. Down(born, n, fetch[h].next)
            BY <1>2, <4>4 DEF Down
          <5> QED
            BY <1>9, <2>2, <4>1, <5>1 DEF Listed
        <4> QED
          BY <4>2, <4>3, <4>4
      <3> QED
        BY <3>1, <3>2
    <2>5. Listed(born, gone, f.next, base', new.all)
      BY <1>13, <2>4 DEF Listed
    <2> QED
      BY <1>13, <2>3, <2>5 DEF Covered
  <1>18. onPage => Covered(born, gone, fetch'["page"], base', list'["page"].all, wallet)
    <2>1. CASE h = "page"
      BY <1>11, <1>15, <1>17, <2>1
    <2>2. CASE h # "page"
      BY <1>1, <1>11, <1>15, <2>2, Held
    <2> QED
      BY <2>1, <2>2
  <1>19. InboxSizes' /\ (~onPage => fetch'["page"] = Idle)
    BY <1>2, <1>15, Held, SizesKept
  <1>20. ListsSound(prov, stored, list, addr, wallet, onPage, jumped)'
    BY <1>1, <1>10
  <1>21. UNCHANGED <<born, gone, wallet, onPage>>
    BY <1>1
  <1>22. /\ \A x \in Hooks : FetchSound(fetch'[x], wallet')
         /\ onPage' => Covered(born', gone', fetch'["page"], base', list'["page"].all, wallet')
         /\ ~onPage' => fetch'["page"] = Idle
    BY <1>15, <1>18, <1>19, <1>21
  <1> QED
    BY <1>12, <1>15, <1>16, <1>19, <1>20, <1>22 DEF InboxInv

LEMMA FetchFailsStep ==
    ASSUME InboxInv, NEW h \in Hooks, FetchFails(h)
    PROVE  InboxInv' /\ UNCHANGED list
  <1> DEFINE f == [fetch[h] EXCEPT !.status = "error", !.req = Absent]
  <1>1. /\ fetch[h].req # Absent
        /\ UNCHANGED <<born, gone, readThrough, wallet, addr, waiting, prov, stored, list, mark,
                       onPage, base, jumped>>
    BY DEF FetchFails
  <1>2. fetch' = [fetch EXCEPT ![h] = f]
    BY DEF FetchFails
  <1>3. /\ wallet # Absent /\ (h = "page" => onPage)
        /\ fetch[h] \in Fetches /\ fetch[h].more = (fetch[h].next # Absent)
    BY <1>1, Requesting
  <1>4. f \in Fetches /\ f.status = "error" /\ f.next = fetch[h].next /\ f.more = fetch[h].more /\ f.req = Absent
    BY <1>3 DEF Fetches
  <1> HIDE DEF f
  <1>5. FetchSound(f, wallet)
    BY <1>3, <1>4 DEF FetchSound
  <1>6. h = "page" => Covered(born, gone, f, base, list["page"].all, wallet)
    BY <1>3, <1>4, Held DEF Covered
  <1> QED
    BY <1>1, <1>2, <1>3, <1>5, <1>6, FetchStep

LEMMA LoadStep ==
    ASSUME InboxInv, LoadMore \/ Retry
    PROVE  InboxInv' /\ UNCHANGED list
  <1> DEFINE g == fetch["page"]
             f == loadPage(g, g.next)
  <1>1. /\ onPage /\ fetch' = [fetch EXCEPT !["page"] = f]
        /\ UNCHANGED <<born, gone, readThrough, wallet, addr, waiting, prov, stored, list, mark,
                       onPage, base, jumped>>
    BY DEF LoadMore, Retry
  <1>2. FetchSound(g, wallet)
    BY Held
  <1>3. wallet # Absent
    <2>1. g.more \/ g.status = "error"
      BY DEF LoadMore, Retry
    <2>2. Idle.more = FALSE /\ Idle.status = "idle"
      BY DEF Idle
    <2> QED
      BY <1>2, <2>1, <2>2 DEF FetchSound
  <1>4. FetchSound(f, wallet) /\ f.next = g.next /\ f.req.page = Absent
    BY <1>2, <1>3, Held, LoadSound
  <1>5. Covered(born, gone, g, base, list["page"].all, wallet)
    BY <1>1, Held
  <1> HIDE DEF f
  <1>6. Covered(born, gone, f, base, list["page"].all, wallet)
    BY <1>4, <1>5 DEF Covered
  <1> QED
    BY <1>1, <1>4, <1>6, Held, FetchStep

\* A request that has no answer yet, after the history was reset.
LEMMA CoveredAnew ==
    ASSUME NEW b, NEW g, NEW f, NEW shown, NEW w, f.req = Absent \/ f.req.page = Absent
    PROVE  Covered(b, g, f, {}, shown, w)
  BY DEF Covered, Listed

LEMMA MountStep ==
    ASSUME InboxInv, Mount
    PROVE  InboxInv'
  <1> DEFINE l == merge(stored[wallet], prov)
             f == loadPage(Idle, Absent)
  <1>1. /\ wallet # Absent /\ onPage' = TRUE /\ addr' = [addr EXCEPT !["page"] = wallet]
        /\ list' = [list EXCEPT !["page"] = l]
        /\ stored' = IF prov.all = {} THEN stored ELSE [stored EXCEPT ![wallet] = l]
        /\ fetch' = [fetch EXCEPT !["page"] = f] /\ base' = {}
        /\ UNCHANGED <<born, gone, readThrough, wallet, waiting, prov, mark, jumped>>
    BY DEF Mount
  <1>2. /\ wallet \in Account /\ Good(prov) /\ stored \in [Account -> Lists]
        /\ \A a \in Account : Good(stored[a])
        /\ list \in [Hooks -> Lists] /\ \A h \in Hooks : Good(list[h])
        /\ addr \in [Hooks -> Account \cup {Absent}] /\ addr["bell"] = wallet
        /\ ~jumped => /\ Own(prov, wallet) /\ \A a \in Account : Own(stored[a], a)
                      /\ \A h \in Hooks : Own(list[h], addr[h])
    BY <1>1, Held DEF ListsSound
  <1>3. Good(l) /\ (~jumped => Own(l, wallet))
    BY <1>2, Merged
  <1>4. l \in Lists
    BY <1>3, GoodTyped
  <1> HIDE DEF l
  <1>5. /\ addr' \in [Hooks -> Account \cup {Absent}] /\ \A h \in Hooks : addr'[h] = IF h = "page" THEN wallet ELSE addr[h]
        /\ list' \in [Hooks -> Lists] /\ \A h \in Hooks : list'[h] = IF h = "page" THEN l ELSE list[h]
        /\ stored' \in [Account -> Lists] /\ \A a \in Account : stored'[a] \in {stored[a], IF a = wallet THEN l ELSE stored[a]}
    BY <1>1, <1>2, <1>4
  <1>6. /\ \A h \in Hooks : Good(list'[h])
        /\ \A a \in Account : Good(stored'[a])
        /\ addr'["bell"] = wallet /\ addr'["page"] = wallet
    BY <1>2, <1>3, <1>5, Held
  <1>7. ~jumped => /\ \A a \in Account : Own(stored'[a], a)
                   /\ \A h \in Hooks : Own(list'[h], addr'[h])
    BY <1>2, <1>3, <1>5
  <1>8. ListsSound(prov, stored', list', addr', wallet, TRUE, jumped)
    BY <1>1, <1>2, <1>5, <1>6, <1>7 DEF ListsSound
  <1>9. ListsSound(prov, stored, list, addr, wallet, onPage, jumped)'
    BY <1>1, <1>8
  <1>10. FetchSound(f, wallet) /\ f.req.page = Absent
    BY <1>1, Held, FirstLoadSound
  <1> HIDE DEF f
  <1>11. /\ fetch' \in [Hooks -> Fetches] /\ \A x \in Hooks : FetchSound(fetch'[x], wallet)
         /\ fetch'["page"] = f
    BY <1>1, <1>10, Held, FetchReplaced
  <1>12. Covered(born', gone', fetch'["page"], base', list'["page"].all, wallet')
    BY <1>1, <1>10, <1>11, CoveredAnew
  <1>13. RowsTyped' /\ InboxSizes'
    <2>1. RowsTyped'
      BY <1>1, Held DEF RowsTyped
    <2> QED
      BY <2>1, Held, SizesKept
  <1>14. \A x \in Hooks : FetchSound(fetch'[x], wallet')
    BY <1>1, <1>11
  <1> QED
    BY <1>1, <1>9, <1>11, <1>12, <1>13, <1>14 DEF InboxInv

LEMMA EmptySound == Good(Empty) /\ Empty \in Lists /\ Empty.all = {} /\ \A a : Own(Empty, a)
  BY DEF Empty, Good, Lists, Own

LEMMA UnmountStep ==
    ASSUME InboxInv, Unmount
    PROVE  InboxInv'
  <1>1. /\ onPage' = FALSE /\ fetch' = [fetch EXCEPT !["page"] = Idle]
        /\ \/ list' = [list EXCEPT !["page"] = Empty] /\ addr' = [addr EXCEPT !["page"] = Absent]
           \/ UNCHANGED <<list, addr>>
        /\ UNCHANGED <<born, gone, readThrough, wallet, waiting, prov, stored, mark, base, jumped>>
    BY DEF Unmount
  <1>2. ListsSound(prov, stored, list, addr, wallet, onPage, jumped)
    BY Held
  <1>3. ListsSound(prov, stored, list', addr', wallet, FALSE, jumped)
    <2>1. CASE UNCHANGED <<list, addr>>
      BY <1>2, <2>1 DEF ListsSound
    <2>2. CASE list' = [list EXCEPT !["page"] = Empty] /\ addr' = [addr EXCEPT !["page"] = Absent]
      <3>1. list \in [Hooks -> Lists] /\ addr \in [Hooks -> Account \cup {Absent}]
        BY <1>2 DEF ListsSound
      <3>2. /\ list' \in [Hooks -> Lists] /\ \A h \in Hooks : list'[h] = IF h = "page" THEN Empty ELSE list[h]
            /\ addr' \in [Hooks -> Account \cup {Absent}] /\ \A h \in Hooks : addr'[h] = IF h = "page" THEN Absent ELSE addr[h]
        BY <2>2, <3>1, EmptySound
      <3>3. /\ \A h \in Hooks : Good(list'[h])
            /\ addr'["bell"] = wallet
            /\ ~jumped => \A h \in Hooks : Own(list'[h], addr'[h])
        BY <1>2, <3>2, EmptySound DEF ListsSound, Hooks
      <3> QED
        BY <1>2, <3>2, <3>3 DEF ListsSound
    <2> QED
      BY <1>1, <2>1, <2>2
  <1>4. ListsSound(prov, stored, list, addr, wallet, onPage, jumped)'
    BY <1>1, <1>3
  <1>5. FetchSound(Idle, wallet)
    BY Held, IdleSound
  <1>6. /\ fetch' \in [Hooks -> Fetches] /\ \A x \in Hooks : FetchSound(fetch'[x], wallet)
        /\ fetch'["page"] = Idle
    BY <1>1, <1>5, Held, FetchReplaced
  <1>7. RowsTyped' /\ InboxSizes'
    <2>1. RowsTyped'
      BY <1>1, Held DEF RowsTyped
    <2> QED
      BY <2>1, Held, SizesKept
  <1>8. \A x \in Hooks : FetchSound(fetch'[x], wallet')
    BY <1>1, <1>6
  <1> QED
    BY <1>1, <1>4, <1>6, <1>7, <1>8 DEF InboxInv

\* The wallet's address changes.
LEMMA SwitchStep ==
    ASSUME InboxInv, NEW a \in Account \cup {Absent}, Switch(a)
    PROVE  InboxInv'
  <1> DEFINE kept(h) == h = "page" /\ ~onPage
  <1>1. /\ a # wallet /\ wallet' = a /\ base' = {}
        /\ jumped' = (jumped \/ (a # Absent /\ wallet # Absent))
        /\ addr' = [h \in Hooks |-> IF kept(h) THEN addr[h] ELSE a]
        /\ UNCHANGED <<born, gone, readThrough, waiting, mark, onPage>>
    BY DEF Switch
  <1>2. /\ Good(prov) /\ (wallet = Absent => prov.all = {}) /\ stored \in [Account -> Lists]
        /\ \A x \in Account : Good(stored[x])
        /\ list \in [Hooks -> Lists] /\ \A h \in Hooks : Good(list[h])
        /\ addr \in [Hooks -> Account \cup {Absent}]
        /\ ~jumped => /\ \A x \in Account : Own(stored[x], x)
                      /\ \A h \in Hooks : Own(list[h], addr[h])
    BY Held DEF ListsSound
  <1>3. PICK l, f :
           /\ Good(l) /\ (~jumped' => Own(l, a)) /\ Good(prov') /\ (~jumped' => Own(prov', a))
           /\ (a = Absent => prov'.all = {}) /\ FetchSound(f, a) /\ (f.req = Absent \/ f.req.page = Absent)
           /\ stored' \in [Account -> Lists] /\ \A x \in Account : Good(stored'[x])
           /\ ~jumped' => \A x \in Account : Own(stored'[x], x)
           /\ list' = [h \in Hooks |-> IF kept(h) THEN list[h] ELSE l]
           /\ fetch' = [h \in Hooks |-> IF kept(h) THEN fetch[h] ELSE f]
    <2>1. CASE a = Absent
      <3>1. /\ prov' = Empty /\ UNCHANGED stored
            /\ list' = [h \in Hooks |-> IF kept(h) THEN list[h] ELSE Empty]
            /\ fetch' = [h \in Hooks |-> IF kept(h) THEN fetch[h] ELSE Idle]
        BY <2>1 DEF Switch, SignedOut
      <3>2. FetchSound(Idle, a) /\ Idle.req = Absent
        BY Held, IdleSound
      <3>3. ~jumped' => ~jumped
        BY <1>1
      <3> QED
        BY <1>2, <3>1, <3>2, <3>3, EmptySound
    <2>2. CASE a # Absent
      <3> DEFINE l == merge(stored[a], prov)
                 st == IF prov.all = {} THEN stored ELSE [stored EXCEPT ![a] = l]
                 f == loadPage(Idle, Absent)
      <3>1. /\ stored' = st /\ prov' = st[a]
            /\ list' = [h \in Hooks |-> IF kept(h) THEN list[h] ELSE l]
            /\ fetch' = [h \in Hooks |-> IF kept(h) THEN fetch[h] ELSE f]
        BY <2>2 DEF Switch
      <3>2. FetchSound(f, a) /\ f.req.page = Absent
        BY <2>2, Held, FirstLoadSound
      <3>3. ~jumped' => ~jumped /\ wallet = Absent
        BY <1>1, <2>2
      <3>4. a \in Account /\ Good(stored[a]) /\ (~jumped' => Own(stored[a], a) /\ Own(prov, a))
        BY <1>2, <2>2, <3>3 DEF Own
      <3>5. Good(l) /\ (~jumped' => Own(l, a))
        BY <1>2, <3>4, Merged
      <3>6. l \in Lists
        BY <3>5, GoodTyped
      <3> HIDE DEF l, f
      <3>7. st \in [Account -> Lists] /\ \A x \in Account : st[x] = stored[x] \/ (x = a /\ st[x] = l)
        BY <1>2, <3>6
      <3>8. /\ \A x \in Account : Good(st[x])
            /\ ~jumped' => \A x \in Account : Own(st[x], x)
        BY <1>2, <3>3, <3>5, <3>7
      <3> HIDE DEF st
      <3> QED
        BY <2>2, <3>1, <3>2, <3>4, <3>5, <3>7, <3>8
    <2> QED
      BY <2>1, <2>2
  <1>4. l \in Lists /\ f \in Fetches
    BY <1>3, GoodTyped, FetchTyped
  <1>5. ~jumped' => ~jumped
    BY <1>1
  <1>6. /\ list' \in [Hooks -> Lists] /\ \A h \in Hooks : list'[h] = IF kept(h) THEN list[h] ELSE l
        /\ addr' \in [Hooks -> Account \cup {Absent}] /\ \A h \in Hooks : addr'[h] = IF kept(h) THEN addr[h] ELSE a
    BY <1>1, <1>2, <1>3, <1>4
  <1>7. fetch' \in [Hooks -> Fetches] /\ \A h \in Hooks : fetch'[h] = IF kept(h) THEN fetch[h] ELSE f
    BY <1>3, <1>4, Held
  <1>8. addr'["bell"] = a /\ (onPage => addr'["page"] = a)
    BY <1>6, Held
  <1>9. \A h \in Hooks : Good(list'[h])
    BY <1>2, <1>3, <1>6
  <1>10. ~jumped' => \A h \in Hooks : Own(list'[h], addr'[h])
    BY <1>2, <1>3, <1>5, <1>6
  <1>11. ListsSound(prov', stored', list', addr', a, onPage, jumped')
    BY <1>3, <1>6, <1>8, <1>9, <1>10 DEF ListsSound
  <1>12. ListsSound(prov, stored, list, addr, wallet, onPage, jumped)'
    BY <1>1, <1>11
  <1>13. FetchSound(Idle, a)
    BY Held, IdleSound
  <1>14. \A h \in Hooks : FetchSound(fetch'[h], a)
    BY <1>3, <1>7, <1>13, Held
  <1>15. ~onPage' => fetch'["page"] = Idle
    BY <1>1, <1>7, Held
  <1>16. onPage' => Covered(born', gone', fetch'["page"], base', list'["page"].all, wallet')
    <2>1. onPage => fetch'["page"] = f
      BY <1>7, Held
    <2> QED
      BY <1>1, <1>3, <2>1, CoveredAnew
  <1>17. RowsTyped' /\ InboxSizes'
    <2>1. jumped' \in BOOLEAN
      BY <1>1, Held DEF RowsTyped
    <2>2. RowsTyped'
      BY <1>1, <2>1, Held DEF RowsTyped
    <2> QED
      BY <2>2, Held, SizesKept
  <1>18. \A h \in Hooks : FetchSound(fetch'[h], wallet')
    BY <1>1, <1>14
  <1> QED
    BY <1>7, <1>12, <1>15, <1>16, <1>17, <1>18 DEF InboxInv

-----------------------------------------------------------------------------
(***************************************************************************)
(* What the invariant says of the run's properties.                        *)
(***************************************************************************)
LEMMA InboxStep == ASSUME InboxInv, [WebNext]_webVars PROVE InboxInv'
  <1>1. ASSUME NEW n \in Note, CommitRow(n) \/ Remove(n) PROVE InboxInv'
    BY <1>1, RowStep
  <1>2. ASSUME NEW n \in Note, Arrive(n) \/ ExcerptDone(n) PROVE InboxInv'
    BY <1>2, ArriveStep
  <1>3. ASSUME NEW h \in Hooks, Answer(h) PROVE InboxInv'
    BY <1>3, AnswerStep
  <1>4. ASSUME NEW h \in Hooks, Apply(h) PROVE InboxInv'
    BY <1>4, ApplyStep
  <1>5. ASSUME NEW h \in Hooks, FetchFails(h) PROVE InboxInv'
    BY <1>5, FetchFailsStep
  <1>6. CASE LoadMore \/ Retry
    BY <1>6, LoadStep
  <1>7. CASE Mount
    BY <1>7, MountStep
  <1>8. CASE Unmount
    BY <1>8, UnmountStep
  <1>9. ASSUME NEW h \in Hooks, NEW n \in Note, MarkRead(h, n) PROVE InboxInv'
    BY <1>9, MarkReadStep
  <1>10. ASSUME NEW h \in Hooks, MarkAllRead(h) PROVE InboxInv'
    BY <1>10, MarkReadStep
  <1>11. ASSUME NEW h \in Hooks, Stamp(h) \/ MarkDone(h) PROVE InboxInv'
    BY <1>11, StampStep
  <1>12. ASSUME NEW h \in Hooks, MarkFails(h) PROVE InboxInv'
    BY <1>12, MarkFailsStep
  <1>13. ASSUME NEW a \in Account \cup {Absent}, Switch(a) PROVE InboxInv'
    BY <1>13, SwitchStep
  <1>14. CASE UNCHANGED webVars
    <2>1. UNCHANGED <<born, gone, readThrough, wallet, addr, waiting, prov, stored, list, fetch, mark,
                      onPage, base, jumped>>
      BY <1>14 DEF webVars
    <2>2. RowsTyped'
      BY <2>1, Held DEF RowsTyped
    <2>3. ListsSound(prov, stored, list, addr, wallet, onPage, jumped)'
      BY <2>1, Held
    <2> QED
      BY <2>1, <2>2, <2>3, ListStep
  <1> QED
    BY <1>1, <1>2, <1>3, <1>4, <1>5, <1>6, <1>7, <1>8, <1>9, <1>10, <1>11, <1>12, <1>13, <1>14 DEF WebNext

LEMMA InboxHolds == WebSpec => []InboxInv
  <1>1. WebInit => InboxInv
    BY InboxStarts
  <1>2. InboxInv /\ [WebNext]_webVars => InboxInv'
    BY InboxStep
  <1> QED
    BY <1>1, <1>2, PTL DEF WebSpec

(***************************************************************************)
(* Whatever arrives, fails, is retried or switched, the lists, cursors and *)
(* requests of useNotifications.ts keep their shape, a hook that shows     *)
(* itself loading has a request under way, and no follow is listed or      *)
(* stored under another account unless the wallet went from one account    *)
(* straight to another.                                                    *)
(***************************************************************************)
THEOREM InboxIsConsistent == WebSpec => []InboxConsistent
  <1>1. InboxInv => InboxConsistent
    <2> SUFFICES ASSUME InboxInv PROVE InboxConsistent
      OBVIOUS
    <2>1. /\ prov \in Lists /\ stored \in [Account -> Lists] /\ list \in [Hooks -> Lists]
          /\ addr \in [Hooks -> Account \cup {Absent}] /\ wallet \in Account \cup {Absent}
          /\ \A h \in Hooks : list[h].read \subseteq list[h].all
      BY Held DEF ListsSound, Good
    <2>2. \A h \in Hooks : /\ fetch[h].more = (fetch[h].next # Absent)
                           /\ fetch[h].status \in {"loading", "loading-more"} <=> fetch[h].req # Absent
      BY Held DEF FetchSound
    <2>3. WebTypeOK
      BY <2>1, <2>2, Held DEF WebTypeOK, RowsTyped, Fetches
    <2>4. LoadingMeansInFlight
      BY <2>2 DEF LoadingMeansInFlight
    <2>5. NoForeignFollowUnlessSwitched
      <3>1. /\ \A h \in Hooks : Mounted(h) => addr[h] = wallet
            /\ ~jumped => /\ \A a \in Account : Own(stored[a], a)
                          /\ \A h \in Hooks : Own(list[h], addr[h])
        BY Held DEF ListsSound, Mounted, Hooks
      <3> QED
        BY <3>1 DEF NoForeignFollowUnlessSwitched, Own
    <2> QED
      BY <2>3, <2>4, <2>5 DEF InboxConsistent
  <1> QED
    BY <1>1, InboxHolds, PTL

(***************************************************************************)
(* Paging by the cursors of notificationInbox.ts skips nothing that was in *)
(* the inbox when the notifications page read its first page and is still  *)
(* there, for every page size and inbox, although rows come and go         *)
(* meanwhile.                                                              *)
(***************************************************************************)
THEOREM InboxPagesCover == WebSpec => []PagesCoverInbox
  <1>1. InboxInv => PagesCoverInbox
    <2> SUFFICES ASSUME InboxInv, onPage, NEW n \in base \ gone,
                        fetch["page"].next = Absent \/ Key(n) >= fetch["page"].next
                 PROVE  n \in list["page"].all
      BY DEF PagesCoverInbox
    <2>1. Covered(born, gone, fetch["page"], base, list["page"].all, wallet)
      BY Held
    <2>2. Listed(born, gone, fetch["page"].next, base, list["page"].all)
      BY <2>1 DEF Covered
    <2>3. Key(n) = KeyIn(born, n)
      BY DEF Key, KeyIn
    <2> QED
      BY <2>2, <2>3 DEF Listed, Down
  <1> QED
    BY <1>1, InboxHolds, PTL

\* One step of the two action properties.
Kept(h) ==
    /\ list[h].read \ list'[h].read \subseteq
          IF mark[h].is # "none" /\ mark'[h].is = "none" THEN mark[h].ids ELSE {}
    /\ list[h].all \subseteq list'[h].all

LEMMA KeptByContaining == ASSUME NEW h, Contains(list[h], list'[h]) PROVE Kept(h)
  BY DEF Kept, Contains

LEMMA ListsKept == ASSUME InboxInv, [WebNext]_webVars, NEW h \in Hooks, Steady(h) PROVE Kept(h)
  <1>1. ASSUME UNCHANGED list PROVE Kept(h)
    BY <1>1 DEF Kept
  <1>2. ASSUME NEW n \in Note, CommitRow(n) \/ Remove(n) PROVE Kept(h)
    BY <1>1, <1>2, RowStep
  <1>3. ASSUME NEW n \in Note, Arrive(n) \/ ExcerptDone(n) PROVE Kept(h)
    BY <1>3, ArriveStep, KeptByContaining
  <1>4. ASSUME NEW x \in Hooks, Answer(x) \/ FetchFails(x) PROVE Kept(h)
    BY <1>1, <1>4, AnswerStep, FetchFailsStep
  <1>5. ASSUME NEW x \in Hooks, Apply(x) PROVE Kept(h)
    BY <1>5, ApplyStep, KeptByContaining
  <1>6. CASE LoadMore \/ Retry
    BY <1>1, <1>6, LoadStep
  <1>7. CASE Mount \/ Unmount
    BY <1>7 DEF Mount, Unmount, Steady
  <1>8. ASSUME NEW x \in Hooks, NEW n \in Note, MarkRead(x, n) PROVE Kept(h)
    BY <1>8, MarkReadStep, KeptByContaining
  <1>9. ASSUME NEW x \in Hooks, MarkAllRead(x) PROVE Kept(h)
    BY <1>9, MarkReadStep, KeptByContaining
  <1>10. ASSUME NEW x \in Hooks, Stamp(x) \/ MarkDone(x) PROVE Kept(h)
    BY <1>1, <1>10, StampStep
  <1>11. ASSUME NEW x \in Hooks, MarkFails(x) PROVE Kept(h)
    <2>1. CASE x = h
      BY <1>11, <2>1, MarkFailsStep DEF Kept, Contains
    <2>2. CASE x # h
      BY <1>11, <2>2, MarkFailsStep, KeptByContaining
    <2> QED
      BY <2>1, <2>2
  <1>12. ASSUME NEW a \in Account \cup {Absent}, Switch(a) PROVE Kept(h)
    BY <1>12 DEF Switch, Steady
  <1>13. CASE UNCHANGED webVars
    BY <1>1, <1>13 DEF webVars
  <1> QED
    BY <1>2, <1>3, <1>4, <1>5, <1>6, <1>7, <1>8, <1>9, <1>10, <1>11, <1>12, <1>13 DEF WebNext

(***************************************************************************)
(* While the wallet and the page stay, a page of the inbox, a live frame   *)
(* or a failed request takes nothing back that a list of                   *)
(* useNotifications.ts shows, and only a failed "mark all as read" takes   *)
(* read flags back, its own.                                               *)
(***************************************************************************)
THEOREM InboxListsKeep == WebSpec => ListsKeepWhatTheyShow
  <1> DEFINE Reads == \A h \in Hooks : Steady(h) =>
                 list[h].read \ list'[h].read \subseteq
                     IF mark[h].is # "none" /\ mark'[h].is = "none" THEN mark[h].ids ELSE {}
             Keeps == \A h \in Hooks : Steady(h) => list[h].all \subseteq list'[h].all
  <1>1. InboxInv /\ [WebNext]_webVars => [Reads]_webVars
    BY ListsKept DEF Kept
  <1>2. InboxInv /\ [WebNext]_webVars => [Keeps]_webVars
    BY ListsKept DEF Kept
  <1> HIDE DEF Reads, Keeps
  <1>3. WebSpec => [][Reads]_webVars
    BY <1>1, InboxHolds, PTL DEF WebSpec
  <1>4. WebSpec => [][Keeps]_webVars
    BY <1>2, InboxHolds, PTL DEF WebSpec
  <1> QED
    BY <1>3, <1>4 DEF ListsKeepWhatTheyShow, ReadStaysRead, ArrivalsSurviveRollback, Reads, Keeps
================================================================================
