---------------------------- MODULE EventFanout ----------------------------
(***************************************************************************)
(* The indexer's /ws endpoint and the browser's notification socket: the    *)
(* fan-out of committed events to bounded send queues, the auth deadline,   *)
(* control frames under a rate limit, heartbeats, shutdown, and the         *)
(* client's reconnects.                                                     *)
(*                                                                          *)
(* One browser tab dials; a connection occupies a slot until both ends have *)
(* let go of it, so a connection the server still believes in may stand     *)
(* beside its replacement.  Events are numbered by the order of their       *)
(* publication on the bus.                                                  *)
(***************************************************************************)
EXTENDS Integers, Sequences, FiniteSets, SequencesExt

CONSTANTS
    Slots,          \* bound: numbers of the connections that exist at once
    Types,          \* event types
    Wanted,         \* the types the client's subscribe frame names
    Depth,          \* sendQueueDepth
    MaxDrops,       \* maxDropsBeforeDisconnect
    Burst,          \* capacity of a connection's token bucket
    MaxViolations,  \* rateLimit.maxViolations
    MaxBroadcasts,  \* bound: events published
    MaxFrames,      \* bound: control frames the client sends on a connection
    MaxMishaps      \* bound: cut connections, refused dials, sign-outs

ASSUME EventFanoutAssumption ==
    /\ Slots \subseteq Nat /\ IsFiniteSet(Slots) /\ Slots # {} /\ Wanted \subseteq Types
    /\ Depth \in Nat \ {0} /\ Burst \in Nat \ {0}
    /\ {MaxDrops, MaxViolations, MaxBroadcasts, MaxFrames, MaxMishaps} \subseteq Nat

VARIABLES
    authRequired, signs,  \* WS_AUTH_REQUIRED; whether this client sends auth frames
    broadcast,  \* how many events the bus has published
    server,     \* the process: up, draining, exited
    conn,       \* the server's end of each connection (ClientState, readyState)
    cli,        \* the client's end of each connection
    up, down,   \* frames under way to the server and to the client
    got,        \* events the client received on each connection
    asked,      \* history: events published that the connection qualified for
    tab,        \* the effect in the provider: off, dialling, open, waiting
    mishaps

fanVars == <<authRequired, signs, broadcast, server, conn, cli, up, down, got, asked, tab, mishaps>>

Frames == {"auth", "stale", "subscribe", "junk"}

(* The state the connection handler creates. *)
NewClient == [is |-> "open", listed |-> TRUE, alive |-> TRUE, types |-> Types, tokens |-> Burst,
              violations |-> 0, address |-> FALSE, deadline |-> authRequired,
              queue |-> <<>>, sending |-> 0, dropped |-> 0]
(* After terminate or the close event: cleaned up and out of the client map. *)
NoClient == [is |-> "gone", listed |-> FALSE, alive |-> FALSE, types |-> {}, tokens |-> 0,
             violations |-> 0, address |-> FALSE, deadline |-> FALSE,
             queue |-> <<>>, sending |-> 0, dropped |-> 0]

FanTypeOK ==
    /\ {authRequired, signs} \subseteq BOOLEAN
    /\ broadcast \in 0..MaxBroadcasts
    /\ server \in {"up", "draining", "exited"}
    /\ conn \in [Slots -> [is : {"open", "closing", "gone"}, listed : BOOLEAN, alive : BOOLEAN,
                           types : SUBSET Types, tokens : 0..Burst, violations : 0..MaxViolations,
                           address : BOOLEAN, deadline : BOOLEAN, queue : Seq(1..MaxBroadcasts),
                           sending : 0..MaxBroadcasts, dropped : 0..MaxDrops + 1]]
    /\ \A k \in Slots : Len(conn[k].queue) <= Depth
    /\ cli \in [Slots -> {"none", "dialling", "open", "cut"}]
    /\ up \in [Slots -> Seq(Frames)] /\ down \in [Slots -> Seq(1..MaxBroadcasts)]
    /\ got \in [Slots -> Seq(1..MaxBroadcasts)] /\ asked \in [Slots -> SUBSET (1..MaxBroadcasts)]
    /\ tab \in {"off", "dialling", "open", "waiting"} /\ mishaps \in 0..MaxMishaps

FanInit ==
    /\ authRequired \in BOOLEAN /\ signs \in BOOLEAN
    /\ broadcast = 0 /\ server = "up" /\ conn = [k \in Slots |-> NoClient]
    /\ cli = [k \in Slots |-> "none"]
    /\ up = [k \in Slots |-> <<>>] /\ down = [k \in Slots |-> <<>>]
    /\ got = [k \in Slots |-> <<>>] /\ asked = [k \in Slots |-> {}]
    /\ tab = "off" /\ mishaps = 0

Mishap == mishaps < MaxMishaps /\ mishaps' = mishaps + 1
Config == UNCHANGED <<authRequired, signs>>

-----------------------------------------------------------------------------
(* The server's end of a connection.                                        *)

(* ws.close(): the socket is no longer OPEN; the close event comes later. *)
Closing(s) == [s EXCEPT !.is = "closing"]

(* cleanup(state) and, at shutdown, clients.clear(). *)
Forgotten(s) == [s EXCEPT !.listed = FALSE, !.deadline = FALSE, !.queue = <<>>]

(* Mutant: a dropped frame is not counted. *)
enqueueUncounted(s, e) ==
    [s EXCEPT !.queue = Append(IF Len(s.queue) >= Depth THEN Tail(s.queue) ELSE s.queue, e)]

(* A full queue loses its oldest frame; one drop too many ends the connection, *)
(* without the new frame. *)
enqueue(s, e) ==
    IF Len(s.queue) < Depth THEN [s EXCEPT !.queue = Append(s.queue, e)]
    ELSE IF s.dropped = MaxDrops
         THEN Closing([s EXCEPT !.queue = Tail(s.queue), !.dropped = MaxDrops + 1])
         ELSE [s EXCEPT !.queue = Append(Tail(s.queue), e), !.dropped = s.dropped + 1]

(* Mutant: the frame that is sent stays in the queue. *)
sendNextKeeps(s) ==
    IF s.is # "open" \/ s.queue = <<>> THEN [s EXCEPT !.sending = 0]
    ELSE [s EXCEPT !.sending = Head(s.queue)]

(* Hand the next queued frame to ws.send; a socket no longer open drops the rest. *)
sendNext(s) ==
    IF s.is # "open" THEN [s EXCEPT !.sending = 0, !.queue = <<>>]
    ELSE IF s.queue = <<>> THEN [s EXCEPT !.sending = 0]
         ELSE [s EXCEPT !.sending = Head(s.queue), !.queue = Tail(s.queue)]

(* Only one drain runs on a connection. *)
drainQueue(s) == IF s.sending # 0 THEN s ELSE sendNext(s)

(* The fan-out's tests for one client. *)
Receives(s, t) ==
    /\ s.listed /\ s.is = "open"
    /\ authRequired => s.address
    /\ t \in s.types

Offer(s, e, t) ==
    IF ~Receives(s, t) THEN s
    ELSE LET q == enqueue(s, e) IN IF q.is = "open" THEN drainQueue(q) ELSE q

(* bus.publish reaches every listed client before anything else runs. *)
Publish(t) ==
    LET e == broadcast + 1 IN
    /\ server = "up" /\ broadcast < MaxBroadcasts
    /\ broadcast' = e
    /\ conn' = [k \in Slots |-> Offer(conn[k], e, t)]
    /\ asked' = [k \in Slots |-> IF Receives(conn[k], t) /\ cli[k] = "open" THEN asked[k] \cup {e} ELSE asked[k]]
    /\ Config /\ UNCHANGED <<server, cli, up, down, got, tab, mishaps>>

(* The callback of ws.send: written to the socket, and on with the queue. *)
SendDone(k) ==
    /\ conn[k].sending # 0 /\ cli[k] = "open"
    /\ down' = [down EXCEPT ![k] = Append(@, conn[k].sending)]
    /\ conn' = [conn EXCEPT ![k] = sendNext(@)]
    /\ Config /\ UNCHANGED <<broadcast, server, cli, up, got, asked, tab, mishaps>>

(* The callback of ws.send with an error: the socket is broken. *)
SendFails(k) ==
    /\ conn[k].sending # 0 /\ cli[k] # "open"
    /\ conn' = [conn EXCEPT ![k].sending = 0, ![k].queue = <<>>]
    /\ Config /\ UNCHANGED <<broadcast, server, cli, up, down, got, asked, tab, mishaps>>

(* validateAndStoreAuth: a good frame stops the deadline, a stale one closes. *)
validateAndStoreAuth(s, f) ==
    IF f = "stale" THEN Closing(s) ELSE [s EXCEPT !.address = TRUE, !.deadline = FALSE]

(* handleControlFrame.  Error and acknowledgement frames bypass the queue and *)
(* carry no event. *)
Controlled(s, f) ==
    IF f \in {"auth", "stale"} THEN IF authRequired /\ s.address THEN s ELSE validateAndStoreAuth(s, f)
    ELSE IF f = "subscribe" /\ (authRequired => s.address) THEN [s EXCEPT !.types = Wanted]
    ELSE s

(* The message event: the rate limit, then the frame. *)
HandleMessage(k) ==
    LET s == conn[k] IN
    /\ up[k] # <<>> /\ s.is # "gone"
    /\ up' = [up EXCEPT ![k] = Tail(@)]
    /\ conn' = [conn EXCEPT ![k] =
           IF s.tokens > 0 THEN Controlled([s EXCEPT !.tokens = s.tokens - 1, !.violations = 0], Head(up[k]))
           ELSE IF s.violations >= MaxViolations THEN Closing(s)
                ELSE [s EXCEPT !.violations = s.violations + 1]]
    /\ Config /\ UNCHANGED <<broadcast, server, cli, down, got, asked, tab, mishaps>>

(* Time refills a bucket; where it matters is when the bucket is empty. *)
Refill(k) ==
    /\ conn[k].is = "open" /\ conn[k].tokens = 0
    /\ conn' = [conn EXCEPT ![k].tokens = Burst]
    /\ Config /\ UNCHANGED <<broadcast, server, cli, up, down, got, asked, tab, mishaps>>

(* The timer of an unauthenticated connection, long enough for frames that are *)
(* under way. *)
AuthDeadline(k) ==
    /\ conn[k].deadline /\ up[k] = <<>>
    /\ conn' = [conn EXCEPT ![k] =
           LET s == [conn[k] EXCEPT !.deadline = FALSE]
           IN IF s.address \/ s.is # "open" THEN s ELSE Closing(s)]
    /\ Config /\ UNCHANGED <<broadcast, server, cli, up, down, got, asked, tab, mishaps>>

(* Mutant: the mark of the last round is not taken down. *)
BeatenStaysAlive(s) ==
    IF ~s.listed THEN s
    ELSE IF ~s.alive THEN NoClient
         ELSE s

(* One round for one client: no pong since the last round terminates it. *)
Beaten(s) ==
    IF ~s.listed THEN s
    ELSE IF ~s.alive THEN NoClient
         ELSE [s EXCEPT !.alive = FALSE]

(* The interval is long enough for a reachable browser to answer. *)
Heartbeat ==
    /\ server = "up"
    /\ \A k \in Slots : conn[k].listed /\ cli[k] = "open" => conn[k].alive
    /\ \E k \in Slots : conn[k].listed
    /\ conn' = [k \in Slots |-> Beaten(conn[k])]
    /\ Config /\ UNCHANGED <<broadcast, server, cli, up, down, got, asked, tab, mishaps>>

Pong(k) ==
    /\ conn[k].is = "open" /\ cli[k] = "open" /\ ~conn[k].alive
    /\ conn' = [conn EXCEPT ![k].alive = TRUE]
    /\ Config /\ UNCHANGED <<broadcast, server, cli, up, down, got, asked, tab, mishaps>>

(* The close or error event of the server's socket: cleanup and clients.delete. *)
SocketClosed(k) ==
    /\ conn[k].is = "closing" \/ (conn[k].is = "open" /\ cli[k] # "open")
    /\ conn' = [conn EXCEPT ![k] = NoClient]
    /\ Config /\ UNCHANGED <<broadcast, server, cli, up, down, got, asked, tab, mishaps>>

(* GracefulShutdown.shutdown: the stream stops, the HTTP server accepts no more *)
(* connections, WsHandle.close empties the client map and closes every socket. *)
Shutdown ==
    /\ server = "up" /\ server' = "draining"
    /\ conn' = [k \in Slots |->
           IF conn[k].is = "gone" THEN conn[k] ELSE Closing(Forgotten(conn[k]))]
    /\ Config /\ UNCHANGED <<broadcast, cli, up, down, got, asked, tab, mishaps>>

(* wss.close calls back when the last socket is gone; or the shutdown times out. *)
Exit ==
    /\ server = "draining" /\ server' = "exited"
    /\ conn' = [k \in Slots |-> NoClient]
    /\ Config /\ UNCHANGED <<broadcast, cli, up, down, got, asked, tab, mishaps>>

-----------------------------------------------------------------------------
(* The browser's end: the socket effect of NotificationsProvider.           *)

(* Slots are alike: a new connection takes the first that both ends let go. *)
FreeSlot(k) ==
    LET Free == {j \in Slots : conn[j].is = "gone" /\ cli[j] = "none"}
    IN k \in Free /\ \A j \in Free : k <= j

(* connect(): a new WebSocket. *)
Dial(k) ==
    /\ FreeSlot(k) /\ cli' = [cli EXCEPT ![k] = "dialling"] /\ tab' = "dialling"
    /\ Config /\ UNCHANGED <<broadcast, server, conn, up, down, got, asked, mishaps>>

SignIn == tab = "off" /\ \E k \in Slots : Dial(k)

(* Mutant: the timer's handle is not reset, so the next one is not set. *)
ReconnectOnce == tab = "waiting" /\ mishaps = 0 /\ \E k \in Slots : Dial(k)

(* The backoff timer fires. *)
Reconnect == tab = "waiting" /\ \E k \in Slots : Dial(k)

(* The upgrade and onopen: an authenticating client signs before it subscribes. *)
Open(k) ==
    /\ cli[k] = "dialling" /\ server = "up"
    /\ cli' = [cli EXCEPT ![k] = "open"] /\ tab' = "open"
    /\ conn' = [conn EXCEPT ![k] = NewClient]
    /\ up' = [up EXCEPT ![k] = IF signs THEN <<"auth", "subscribe">> ELSE <<"subscribe">>]
    /\ asked' = [asked EXCEPT ![k] = {}]
    /\ Config /\ UNCHANGED <<broadcast, server, down, got, mishaps>>

(* onclose before the socket opened: no server, or a refused dial. *)
DialFails(k) ==
    /\ cli[k] = "dialling"
    /\ IF server = "up" THEN Mishap ELSE UNCHANGED mishaps
    /\ cli' = [cli EXCEPT ![k] = "none"] /\ tab' = "waiting"
    /\ Config /\ UNCHANGED <<broadcast, server, conn, up, down, got, asked>>

(* A control frame of a client written to the protocol's description. *)
SendFrame(k, f) ==
    /\ cli[k] = "open" /\ conn[k].is = "open"
    /\ Len(up[k]) < MaxFrames
    /\ Mishap
    /\ up' = [up EXCEPT ![k] = Append(@, f)]
    /\ Config /\ UNCHANGED <<broadcast, server, conn, cli, down, got, asked, tab>>

Deliver(k) ==
    /\ cli[k] = "open" /\ down[k] # <<>>
    /\ got' = [got EXCEPT ![k] = Append(@, Head(down[k]))]
    /\ down' = [down EXCEPT ![k] = Tail(@)]
    /\ Config /\ UNCHANGED <<broadcast, server, conn, cli, up, asked, tab, mishaps>>

(* The network fails: what is under way is lost and neither end knows yet. *)
Cut(k) ==
    /\ cli[k] = "open" /\ Mishap
    /\ cli' = [cli EXCEPT ![k] = "cut"]
    /\ up' = [up EXCEPT ![k] = <<>>] /\ down' = [down EXCEPT ![k] = <<>>]
    /\ Config /\ UNCHANGED <<broadcast, server, conn, got, asked, tab>>

(* onclose: frames that arrived are read first; scheduleReconnect. *)
OnClose(k) ==
    /\ cli[k] = "cut" \/ (cli[k] = "open" /\ conn[k].is = "gone" /\ down[k] = <<>>)
    /\ cli' = [cli EXCEPT ![k] = "none"] /\ tab' = "waiting"
    /\ up' = [up EXCEPT ![k] = <<>>]
    /\ got' = [got EXCEPT ![k] = <<>>] /\ asked' = [asked EXCEPT ![k] = {}]
    /\ Config /\ UNCHANGED <<broadcast, server, conn, down, mishaps>>

(* The cleanup of the effect when the wallet's address goes: the timer is     *)
(* cleared and the socket closed without a reconnect. *)
SignOut ==
    /\ tab # "off" /\ Mishap /\ tab' = "off"
    /\ cli' = [k \in Slots |-> "none"]
    /\ up' = [k \in Slots |-> <<>>] /\ down' = [k \in Slots |-> <<>>]
    /\ got' = [k \in Slots |-> <<>>] /\ asked' = [k \in Slots |-> {}]
    /\ Config /\ UNCHANGED <<broadcast, server, conn>>

-----------------------------------------------------------------------------
FanNext ==
    \/ \E t \in Types : Publish(t)
    \/ \E k \in Slots : SendDone(k) \/ SendFails(k) \/ HandleMessage(k) \/ Refill(k)
    \/ \E k \in Slots : AuthDeadline(k) \/ Pong(k) \/ SocketClosed(k)
    \/ Heartbeat \/ Shutdown \/ Exit
    \/ SignIn \/ Reconnect \/ SignOut
    \/ \E k \in Slots : Open(k) \/ DialFails(k) \/ Deliver(k) \/ Cut(k) \/ OnClose(k)
    \/ \E k \in Slots, f \in Frames : SendFrame(k, f)

FanSpec == FanInit /\ [][FanNext]_fanVars

(* Timers fire, callbacks run, the network delivers and a reachable peer     *)
(* answers.  Nothing promises the server a close event for a connection that *)
(* was cut, nor a user who signs in, nor another event.                      *)
FanFairness ==
    /\ WF_fanVars(Heartbeat) /\ WF_fanVars(Exit) /\ WF_fanVars(Reconnect)
    /\ \A k \in Slots :
          /\ WF_fanVars(SendDone(k)) /\ WF_fanVars(HandleMessage(k)) /\ WF_fanVars(AuthDeadline(k))
          /\ WF_fanVars(Pong(k)) /\ WF_fanVars(Open(k)) /\ WF_fanVars(Deliver(k)) /\ WF_fanVars(OnClose(k))
          /\ WF_fanVars(conn[k].is = "closing" /\ SocketClosed(k))

FanFairSpec == FanSpec /\ FanFairness

-----------------------------------------------------------------------------
(* Frames of a connection, oldest first: read, on the wire, in ws.send, queued. *)
Pipeline(k) ==
    got[k] \o down[k] \o (IF conn[k].sending = 0 THEN <<>> ELSE <<conn[k].sending>>) \o conn[k].queue

(* Events reach a client in the order of their publication and none twice,   *)
(* however the queue dropped and drained (drainQueue's single sender).       *)
InOrderOnce ==
    \A k \in Slots : \A i, j \in DOMAIN Pipeline(k) : i < j => Pipeline(k)[i] < Pipeline(k)[j]

(* A client that is still connected has missed at most MaxDrops of the events *)
(* it qualified for: a slower one is disconnected rather than left to miss    *)
(* more (maxDropsBeforeDisconnect).                                           *)
MissedBounded ==
    \A k \in Slots :
        conn[k].is = "open" /\ cli[k] = "open"
            => Cardinality(asked[k] \ ToSet(Pipeline(k))) <= MaxDrops

(* A queue never waits without a send in flight that will continue it: the   *)
(* draining flag cannot be left up or down by a callback (drainQueue).       *)
DrainNeverStalls ==
    \A k \in Slots : conn[k].is = "open" /\ conn[k].queue # <<>> => conn[k].sending # 0

(* A connection that was cut leaves the client map although no close event   *)
(* ever comes: two heartbeat rounds find it silent.                          *)
SilentPeerForgotten ==
    \A k \in Slots : (conn[k].listed /\ cli[k] # "open") ~> ~(conn[k].listed /\ cli[k] # "open")

(* Once the network behaves, a tab that is signed in gets its socket back and *)
(* keeps it, unless the indexer stopped or wants a signature this client does *)
(* not send.                                                                  *)
Reconnects ==
    <>[](\/ server # "up" \/ tab = "off" \/ (authRequired /\ ~signs)
         \/ \E k \in Slots : cli[k] = "open" /\ conn[k].is = "open" /\ conn[k].listed)

(* The send queues: within their depth, in order, and never left waiting      *)
(* without a send that continues them (enqueue, drainQueue).                  *)
QueuesConsistent == FanTypeOK /\ InOrderOnce /\ DrainNeverStalls
=============================================================================
