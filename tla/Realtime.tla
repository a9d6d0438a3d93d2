------------------------------ MODULE Realtime ------------------------------
(***************************************************************************)
(* From the event bus to the browsers: EventBusService publishes a reading *)
(* on the tenant's and then on the sensor's channel, RedisService hears    *)
(* what it subscribed and psubscribed to, RealtimeGateway keeps the latest *)
(* reading per room and emits it ten times a second, alerts at once.       *)
(*                                                                         *)
(* One tenant and one sensor.  Readings and alerts are numbered in the     *)
(* order in which they are published.  Redis keeps the order of a          *)
(* connection: "queue" are the commands sent to it, "wire" the messages on *)
(* their way back.                                                         *)
(***************************************************************************)
EXTENDS Naturals, Sequences

CONSTANTS
    Clients,    \* sockets
    Readings,   \* bound: readings published
    Alerts,     \* bound: alerts published
    Faults      \* bound: commands that fail, connections that break

ASSUME RealtimeAssumption == Readings \in Nat /\ Alerts \in Nat /\ Faults \in Nat

Keys == {"sensor:tenant", "alert:tenant", "sensor-direct"}
Rooms == {"tenant", "sensor"}
Channels == {"tenant", "sensor", "alert"}

VARIABLES
    sent,       \* sent[k]: how many readings, how many alerts were published
    queue,      \* commands PUBLISH on their way to Redis
    wire,       \* messages on their way from Redis
    active,     \* activeRedisSubscriptions
    asked,      \* asked[k]: handlers that wait for the SUBSCRIBE behind a key
    listeners,  \* listeners[k]: callbacks that subscribe() has attached
    rooms,      \* rooms[c]: the rooms c is in, "gone" when not connected
    buffer,     \* roomBuffers: the reading that waits in a room, or 0
    shown,      \* shown[c]: the reading that c was sent last
    got,        \* got[c][a]: how often c was sent alert a
    owed,       \* history: the readings and alerts that c was in time for
    overlapped, \* history: did two readings overlap on their way out?
    faults      \* faults so far

server == <<active, asked, listeners>>
vars == <<sent, queue, wire, active, asked, listeners, rooms, buffer,
          shown, got, owed, overlapped, faults>>

Cmd == [chan : Channels, n : 1 .. Readings + Alerts]
Msg == [kind : {"message", "pmessage"}, chan : Channels, n : 1 .. Readings + Alerts]
KeyOf(chan) == CASE chan = "tenant" -> "sensor:tenant" [] chan = "alert" -> "alert:tenant"
                 [] OTHER -> "sensor-direct"

(* Mutation: a message of a socket that is gone is handled.                *)
AlwaysConnected(c) == TRUE

Connected(c) == "gone" \notin rooms[c]

TypeOK ==
    /\ sent \in [{"reading", "alert"} -> Nat]
    /\ sent["reading"] <= Readings /\ sent["alert"] <= Alerts
    /\ queue \in Seq(Cmd) /\ Len(queue) <= sent["reading"] + sent["alert"]
    /\ wire \in Seq(Msg)
    /\ active \subseteq Keys
    /\ asked \in [Keys -> Nat] /\ listeners \in [Keys -> Nat]
    /\ rooms \in [Clients -> (SUBSET Rooms) \cup {{"gone"}}]
    /\ buffer \in [Rooms -> 0 .. Readings]
    /\ shown \in [Clients -> 0 .. Readings]
    /\ got \in [Clients -> [1 .. Alerts -> Nat]]
    /\ owed \in [Clients -> [reading : 0 .. Readings, alerts : SUBSET (1 .. Alerts)]]
    /\ overlapped \in BOOLEAN /\ faults \in 0 .. Faults

Init ==
    /\ sent = [k \in {"reading", "alert"} |-> 0]
    /\ queue = <<>> /\ wire = <<>>
    /\ active = {}
    /\ asked = [k \in Keys |-> 0] /\ listeners = [k \in Keys |-> 0]
    /\ rooms = [c \in Clients |-> {"gone"}]
    /\ buffer = [r \in Rooms |-> 0]
    /\ shown = [c \in Clients |-> 0]
    /\ got = [c \in Clients |-> [a \in 1 .. Alerts |-> 0]]
    /\ owed = [c \in Clients |-> [reading |-> 0, alerts |-> {}]]
    /\ overlapped = FALSE /\ faults = 0

-----------------------------------------------------------------------------
(* publishSensorData and publishAlert start.                               *)
InRoom(c, r) == r \in rooms[c]

PublishReading ==
    LET n == sent["reading"] + 1 IN
    /\ n <= Readings
    /\ sent' = [sent EXCEPT !["reading"] = n]
    /\ queue' = Append(queue, [chan |-> "tenant", n |-> n])
    /\ overlapped' = (overlapped \/ \E i \in DOMAIN queue : queue[i].chan # "alert")
    /\ owed' = [c \in Clients |-> IF rooms[c] \in {{"gone"}, {}} THEN owed[c]
                                  ELSE [owed[c] EXCEPT !.reading = n]]
    /\ UNCHANGED <<wire, server, rooms, buffer, shown, got, faults>>

PublishAlert ==
    LET n == sent["alert"] + 1 IN
    /\ n <= Alerts
    /\ sent' = [sent EXCEPT !["alert"] = n]
    /\ queue' = Append(queue, [chan |-> "alert", n |-> n])
    /\ owed' = [c \in Clients |-> IF InRoom(c, "tenant")
                                  THEN [owed[c] EXCEPT !.alerts = @ \cup {n}] ELSE owed[c]]
    /\ UNCHANGED <<wire, server, rooms, buffer, shown, got, overlapped, faults>>

(* Redis executes a PUBLISH: once for the channel, if anyone subscribed to *)
(* it, and once for the pattern.  Its answer lets publishSensorData go on  *)
(* to the sensor's channel.                                                *)
Copies(cmd) ==
    LET copy(kind) == [kind |-> kind, chan |-> cmd.chan, n |-> cmd.n] IN
    IF listeners[KeyOf(cmd.chan)] > 0 THEN <<copy("message"), copy("pmessage")>>
    ELSE <<copy("pmessage")>>

Publish ==
    LET cmd == Head(queue) IN
    /\ queue # <<>>
    /\ wire' = wire \o Copies(cmd)
    /\ queue' = IF cmd.chan = "tenant" THEN Append(Tail(queue), [cmd EXCEPT !.chan = "sensor"])
                ELSE Tail(queue)
    /\ UNCHANGED <<sent, server, rooms, buffer, shown, got, owed, overlapped, faults>>

-----------------------------------------------------------------------------
(* Mutation: a reading does not replace the one that waits.                *)
BufferFirst(b, rs, n) == [r \in Rooms |-> IF r \in rs /\ b[r] = 0 THEN n ELSE b[r]]

(* bufferEvent: the latest reading of a room.                              *)
Buffer(b, rs, n) == [r \in Rooms |-> IF r \in rs THEN n ELSE b[r]]

(* Mutation: the listeners of the tenant's channel feed the tenant's room. *)
RoomsByChannel(m) == {m.chan}

(* The listeners: those of the tenant's channel and of the pattern feed    *)
(* both rooms, those of the sensor's channel its own.                      *)
RoomsFed(m) == IF m.kind = "message" /\ m.chan = "sensor" THEN {"sensor"} ELSE Rooms

Heard(m) == IF m.kind = "message" THEN listeners[KeyOf(m.chan)] ELSE 1

(* A message arrives: readings wait for the next flush, alerts do not.     *)
Deliver ==
    LET m == Head(wire) IN
    /\ wire # <<>>
    /\ wire' = Tail(wire)
    /\ IF m.chan = "alert"
       THEN /\ got' = [c \in Clients |-> IF InRoom(c, "tenant")
                         THEN [got[c] EXCEPT ![m.n] = @ + Heard(m)] ELSE got[c]]
            /\ UNCHANGED buffer
       ELSE /\ buffer' = IF Heard(m) > 0 THEN Buffer(buffer, RoomsFed(m), m.n) ELSE buffer
            /\ UNCHANGED got
    /\ UNCHANGED <<sent, queue, server, rooms, shown, owed, overlapped, faults>>

(* flushBuffers: the rooms in any order; what a client in both sees last   *)
(* is what it shows.                                                       *)
Flush ==
    /\ \E r \in Rooms : buffer[r] > 0
    /\ \E last \in Rooms :
         shown' = [c \in Clients |->
           LET mine == {r \in Rooms : InRoom(c, r) /\ buffer[r] > 0} IN
           IF mine = {} THEN shown[c]
           ELSE buffer[IF last \in mine THEN last ELSE CHOOSE r \in mine : TRUE]]
    /\ buffer' = [r \in Rooms |-> 0]
    /\ UNCHANGED <<sent, queue, wire, server, rooms, got, owed, overlapped, faults>>

-----------------------------------------------------------------------------
Connect(c) ==
    /\ ~Connected(c)
    /\ rooms' = [rooms EXCEPT ![c] = {}]
    /\ UNCHANGED <<sent, queue, wire, server, buffer, shown, got, owed, overlapped, faults>>

(* Mutation: the key is added when the listener is attached.               *)
ActivatedLate(k) == active

Activated(k) == active \cup {k}

(* The handler of a subscription comes to keys: it asks Redis for one that *)
(* is not there, whether or not Redis then answers.                        *)
Ask(k) ==
    /\ active' = Activated(k)
    /\ asked' = [asked EXCEPT ![k] = @ + 1]

Subscribe(c, r) ==
    LET keys == (IF r = "sensor" THEN {"sensor-direct"} ELSE {"sensor:tenant", "alert:tenant"})
                \ active IN
    /\ Connected(c)
    /\ rooms' = [rooms EXCEPT ![c] = @ \cup {r}]
    /\ IF keys = {} THEN UNCHANGED <<active, asked>>
       ELSE Ask(IF "sensor:tenant" \in keys THEN "sensor:tenant"
                                       ELSE CHOOSE k \in keys : TRUE)
    /\ UNCHANGED <<sent, queue, wire, listeners, buffer, shown, got, owed, overlapped, faults>>

(* Redis answers, which attaches the listener; the tenant's alerts are     *)
(* next.                                                                   *)
Attach(k) ==
    LET more == k = "sensor:tenant" /\ "alert:tenant" \notin active IN
    /\ asked[k] > 0
    /\ listeners' = [listeners EXCEPT ![k] = @ + 1]
    /\ asked' = [asked EXCEPT ![k] = @ - 1, !["alert:tenant"] = IF more THEN @ + 1 ELSE @]
    /\ active' = IF more THEN Activated("alert:tenant") ELSE active \cup {k}
    /\ UNCHANGED <<sent, queue, wire, rooms, buffer, shown, got, owed, overlapped, faults>>

Unsubscribe(c, r) ==
    /\ InRoom(c, r)
    /\ rooms' = [rooms EXCEPT ![c] = @ \ {r}]
    /\ owed' = [owed EXCEPT ![c] = [reading |-> IF rooms'[c] = {} THEN 0 ELSE @.reading,
                                    alerts |-> IF r = "tenant" THEN {} ELSE @.alerts]]
    /\ UNCHANGED <<sent, queue, wire, server, buffer, shown, got, overlapped, faults>>

Forget(cs) ==
    /\ rooms' = [c \in Clients |-> IF c \in cs THEN {"gone"} ELSE rooms[c]]
    /\ shown' = [c \in Clients |-> IF c \in cs THEN 0 ELSE shown[c]]
    /\ got' = [c \in Clients |-> IF c \in cs THEN [a \in 1 .. Alerts |-> 0] ELSE got[c]]
    /\ owed' = [c \in Clients |-> IF c \in cs THEN [reading |-> 0, alerts |-> {}] ELSE owed[c]]

Disconnect(c) ==
    /\ Connected(c)
    /\ Forget({c})
    /\ UNCHANGED <<sent, queue, wire, server, buffer, overlapped, faults>>

-----------------------------------------------------------------------------
Fault == faults < Faults /\ faults' = faults + 1

(* A PUBLISH fails; publishSensorData does not go on.                      *)
LosePublish ==
    /\ Fault /\ queue # <<>>
    /\ queue' = Tail(queue)
    /\ owed' = [c \in Clients |-> [reading |-> 0, alerts |-> {}]]
    /\ UNCHANGED <<sent, wire, server, rooms, buffer, shown, got, overlapped>>

(* A SUBSCRIBE fails: its handler throws and the key stays.                *)
LoseSubscribe(k) ==
    /\ Fault /\ asked[k] > 0
    /\ asked' = [asked EXCEPT ![k] = @ - 1]
    /\ UNCHANGED <<sent, queue, wire, active, listeners, rooms, buffer, shown, got,
                   owed, overlapped>>

(* The subscriber's connection breaks: what was on its way is lost, and    *)
(* ioredis subscribes again to what it was subscribed to.                  *)
LoseWire ==
    /\ Fault /\ wire # <<>>
    /\ wire' = <<>>
    /\ owed' = [c \in Clients |-> [reading |-> 0, alerts |-> {}]]
    /\ UNCHANGED <<sent, queue, server, rooms, buffer, shown, got, overlapped>>

Restart ==
    /\ Fault
    /\ queue' = <<>> /\ wire' = <<>> /\ active' = {}
    /\ asked' = [k \in Keys |-> 0] /\ listeners' = [k \in Keys |-> 0]
    /\ buffer' = [r \in Rooms |-> 0]
    /\ Forget(Clients)
    /\ UNCHANGED <<sent, overlapped>>

Next ==
    \/ PublishReading \/ PublishAlert \/ Publish \/ Deliver \/ Flush
    \/ \E c \in Clients : Connect(c) \/ Disconnect(c)
    \/ \E c \in Clients, r \in Rooms : Subscribe(c, r) \/ Unsubscribe(c, r)
    \/ \E k \in Keys : Attach(k) \/ LoseSubscribe(k)
    \/ LosePublish \/ LoseWire \/ Restart

Spec == Init /\ [][Next]_vars

-----------------------------------------------------------------------------
(* What a client was in its room for has reached it when nothing is on its *)
(* way any more, however the subscriptions to Redis went: the newest       *)
(* reading, and every alert.                                               *)
CaughtUp ==
    queue = <<>> /\ wire = <<>> /\ (\A r \in Rooms : buffer[r] = 0) =>
    \A c \in Clients : /\ shown[c] >= owed[c].reading
                       /\ \A a \in owed[c].alerts : got[c][a] > 0

(* Readings that are published one after the other, while nothing is lost, *)
(* never go out in the wrong order, although every one comes on two   *)
(* channels and in up to four messages: whenever the next flush comes, it  *)
(* has nothing for a client that is older than what it shows, or two       *)
(* readings at once.                                                       *)
InOrder ==
    ~overlapped /\ faults = 0 => \A c \in Clients : \A r, q \in rooms[c] \cap Rooms :
      buffer[r] > 0 => buffer[r] >= shown[c] /\ buffer[q] \in {0, buffer[r]}

(* However many clients subscribe, a client is sent an alert once for the  *)
(* channel and once for the pattern.                                       *)
AtMostTwice ==
    \A c \in Clients, a \in 1 .. Alerts : got[c][a] <= 2
=============================================================================
