--------------------------- MODULE RealtimeProofs ---------------------------
(***************************************************************************)
(* Proofs about Realtime, for any set of clients and any number of         *)
(* readings, alerts and faults.                                            *)
(*                                                                         *)
(* None of the properties is inductive: each speaks of what was sent or    *)
(* waits in a room, and depends on what is still on its way to Redis and   *)
(* back.  TwiceInv counts the copies of an alert that are still to come,   *)
(* OwedInv finds what a client is owed on its way or delivered, OrderInv   *)
(* says in which order the copies of readings come.                        *)
(***************************************************************************)
EXTENDS Realtime, SequenceTheorems, TLAPS

Reading(x) == x.chan # "alert"
Alert(x) == x.chan = "alert"

(* Nothing is on its way, or was sent, that was not published.             *)
NumberOf(s, x) == IF Reading(x) THEN s["reading"] ELSE s["alert"]

Published ==
    /\ \A i \in 1 .. Len(queue) : queue[i].n <= NumberOf(sent, queue[i])
    /\ \A i \in 1 .. Len(wire) : wire[i].n <= NumberOf(sent, wire[i])

(* A key that has a listener, or waits for one, is in                      *)
(* activeRedisSubscriptions and has only that one.                         *)
OneListener ==
    \A k \in Keys : /\ asked[k] + listeners[k] <= 1
                    /\ asked[k] + listeners[k] > 0 => k \in active

(* Of an alert there is one command, or up to two messages, that have not  *)
(* been counted yet.                                                       *)
AlertsQueued ==
    \A i \in 1 .. Len(queue) : Alert(queue[i]) =>
      /\ \A j \in 1 .. Len(queue) : Alert(queue[j]) /\ queue[j].n = queue[i].n => j = i
      /\ \A j \in 1 .. Len(wire) : Alert(wire[j]) => wire[j].n # queue[i].n
      /\ \A c \in Clients : got[c][queue[i].n] = 0

AlertsWired ==
    \A i \in 1 .. Len(wire) : Alert(wire[i]) =>
      /\ \A c \in Clients : got[c][wire[i].n] <= 1
      /\ \A j \in 1 .. Len(wire) : Alert(wire[j]) /\ wire[j].n = wire[i].n /\ j # i =>
           /\ wire[j].kind # wire[i].kind
           /\ \A c \in Clients : got[c][wire[i].n] = 0

AlertsNew == \A c \in Clients, a \in 1 .. Alerts : a > sent["alert"] => got[c][a] = 0

AlertsCounted == AlertsQueued /\ AlertsWired /\ AlertsNew /\ AtMostTwice

TwiceInv == OneListener /\ AlertsCounted

(* An alert that is owed is counted, or its command or the message of the  *)
(* pattern is on its way, and the client is still in the tenant's room.    *)
AlertsComing ==
    \A c \in Clients : \A a \in owed[c].alerts :
      /\ InRoom(c, "tenant")
      /\ \/ got[c][a] > 0
         \/ \E i \in 1 .. Len(queue) : Alert(queue[i]) /\ queue[i].n = a
         \/ \E i \in 1 .. Len(wire) : Alert(wire[i]) /\ wire[i].n = a /\ wire[i].kind = "pmessage"

(* The commands of readings: for the tenant in the order of publication,   *)
(* and behind them the older ones, for the sensor.                         *)
QueueOrder ==
    \A i, j \in 1 .. Len(queue) :
      /\ queue[i].chan = "tenant" /\ queue[j].chan = "tenant" /\ i < j => queue[i].n < queue[j].n
      /\ queue[i].chan = "sensor" /\ queue[j].chan = "sensor" /\ i < j => queue[i].n < queue[j].n
      /\ queue[i].chan = "sensor" /\ queue[j].chan = "tenant" => queue[i].n < queue[j].n

NoneQueued == \A i \in 1 .. Len(queue) : Alert(queue[i])
NoneWired == \A i \in 1 .. Len(wire) : Alert(wire[i])

(* A reading numbered at least n is the last that will reach client c.     *)
Queued(n) == \E i \in 1 .. Len(queue) : Reading(queue[i]) /\ queue[i].n >= n
Wired(n) ==
    /\ NoneQueued
    /\ \E i \in 1 .. Len(wire) :
         /\ Reading(wire[i]) /\ wire[i].n >= n /\ wire[i].kind = "pmessage"
         /\ \A j \in i + 1 .. Len(wire) : Alert(wire[j])
Buffered(n) == NoneQueued /\ NoneWired /\ \A r \in Rooms : buffer[r] >= n
Seen(c, n) == NoneQueued /\ NoneWired /\ (\A r \in Rooms : buffer[r] = 0) /\ shown[c] >= n

Coming(c, n) == Queued(n) \/ Wired(n) \/ Buffered(n) \/ Seen(c, n)

ReadingsComing ==
    \A c \in Clients : owed[c].reading > 0 => /\ rooms[c] \notin {{}, {"gone"}}
                                              /\ Coming(c, owed[c].reading)

OwedInv == QueueOrder /\ AlertsComing /\ ReadingsComing

(* While nothing is lost and readings do not overlap.                      *)
OneQueued ==
    \A i, j \in 1 .. Len(queue) : Reading(queue[i]) /\ Reading(queue[j]) => i = j

WireOrder ==
    \A i \in 1 .. Len(wire) : Reading(wire[i]) =>
      /\ \A j \in 1 .. Len(wire) : Reading(wire[j]) /\ i < j => wire[i].n <= wire[j].n
      /\ \A j \in 1 .. Len(queue) : Reading(queue[j]) => wire[i].n <= queue[j].n

NotNewer(n) ==
    /\ \A i \in 1 .. Len(wire) : Reading(wire[i]) => n <= wire[i].n
    /\ \A i \in 1 .. Len(queue) : Reading(queue[i]) => n <= queue[i].n
    /\ n <= sent["reading"]

NothingOlder == (\A r \in Rooms : NotNewer(buffer[r])) /\ (\A c \in Clients : NotNewer(shown[c]))

(* Before a message that feeds one room only, both rooms have its reading. *)
Fed(n, k) ==
    \/ \E j \in 1 .. k : wire[j].chan = "tenant" /\ wire[j].kind = "pmessage" /\ wire[j].n = n
    \/ /\ \A r \in Rooms : buffer[r] \in {0, n}
       /\ \A j \in 1 .. k : Reading(wire[j]) => wire[j].n = n

BothFed ==
    /\ \A i \in 1 .. Len(wire) : wire[i].chan = "sensor" => Fed(wire[i].n, i - 1)
    /\ \A i \in 1 .. Len(queue) : queue[i].chan = "sensor" => Fed(queue[i].n, Len(wire))

BufferOrder ==
    \A r \in Rooms : buffer[r] > 0 => /\ \A q \in Rooms : buffer[q] \in {0, buffer[r]}
                                      /\ \A c \in Clients : shown[c] <= buffer[r]

Ordered == OneQueued /\ WireOrder /\ NothingOlder /\ BothFed /\ BufferOrder

OrderInv == ~overlapped /\ faults = 0 => Ordered

-----------------------------------------------------------------------------
(* Sequences that lose their head or grow at their end.                    *)
LEMMA Popped ==
    ASSUME NEW S, NEW s \in Seq(S), s # <<>>
    PROVE  /\ Len(s) \in Nat \ {0} /\ Head(s) = s[1] /\ Head(s) \in S
           /\ Tail(s) \in Seq(S) /\ Len(Tail(s)) = Len(s) - 1
           /\ \A i \in 1 .. Len(s) - 1 : Tail(s)[i] = s[i + 1]
<1>1. Len(s) \in Nat \ {0}
  BY EmptySeq
<1>2. Head(s) = s[1]
  BY <1>1
<1> QED BY <1>1, <1>2, HeadTailProperties

LEMMA Pushed ==
    ASSUME NEW S, NEW s \in Seq(S), NEW e \in S
    PROVE  /\ Len(s) \in Nat
           /\ Append(s, e) \in Seq(S) /\ Len(Append(s, e)) = Len(s) + 1
           /\ \A i \in 1 .. Len(s) : Append(s, e)[i] = s[i]
           /\ Append(s, e)[Len(s) + 1] = e
  BY AppendProperties, LenProperties

LEMMA Elements ==
    ASSUME TypeOK
    PROVE  /\ Len(queue) \in Nat /\ \A i \in 1 .. Len(queue) : queue[i] \in Cmd
           /\ Len(wire) \in Nat /\ \A i \in 1 .. Len(wire) : wire[i] \in Msg
  BY ElementOfSeq, LenProperties DEF TypeOK

(* What Publish makes of its two sequences, without Head and Tail.         *)
Moved(h) ==
    /\ h = queue[1] /\ h \in Cmd /\ Len(queue) \in Nat \ {0} /\ Len(wire) \in Nat
    /\ queue' \in Seq(Cmd)
    /\ Len(queue') = IF h.chan = "tenant" THEN Len(queue) ELSE Len(queue) - 1
    /\ \A i \in 1 .. Len(queue) - 1 : queue'[i] = queue[i + 1]
    /\ h.chan = "tenant" => queue'[Len(queue)] \in Cmd /\ queue'[Len(queue)].chan = "sensor" /\ queue'[Len(queue)].n = h.n
    /\ wire' \in Seq(Msg)
    /\ Len(wire') \in {Len(wire) + 1, Len(wire) + 2}
    /\ \A i \in 1 .. Len(wire) : wire'[i] = wire[i]
    /\ \A i \in Len(wire) + 1 .. Len(wire') :
         /\ wire'[i].chan = h.chan /\ wire'[i].n = h.n
         /\ wire'[i].kind = IF i = Len(wire') THEN "pmessage" ELSE "message"

LEMMA PublishMoves ==
    ASSUME TypeOK, Publish
    PROVE  \E h \in Cmd : Moved(h)
<1> DEFINE h == Head(queue)
<1> /\ queue \in Seq(Cmd) /\ wire \in Seq(Msg) /\ queue # <<>>
  BY DEF TypeOK, Publish
<1>1. /\ Len(queue) \in Nat \ {0} /\ h = queue[1] /\ h \in Cmd
      /\ Tail(queue) \in Seq(Cmd) /\ Len(Tail(queue)) = Len(queue) - 1
      /\ \A i \in 1 .. Len(queue) - 1 : Tail(queue)[i] = queue[i + 1]
  BY Popped
<1>2. /\ Len(wire) \in Nat
  BY LenProperties
<1>3. PICK g \in Cmd : g = h
  BY <1>1
<1>4. PICK e \in Cmd : e = [g EXCEPT !.chan = "sensor"]
  BY DEF Cmd, Channels
<1>5. e.chan = "sensor" /\ e.n = g.n
  BY <1>4 DEF Cmd
<1>6. /\ queue' \in Seq(Cmd)
      /\ Len(queue') = IF g.chan = "tenant" THEN Len(queue) ELSE Len(queue) - 1
      /\ \A i \in 1 .. Len(queue) - 1 : queue'[i] = queue[i + 1]
      /\ g.chan = "tenant" => queue'[Len(queue)] = e
  <2>1. CASE g.chan = "tenant"
    <3>1. queue' = Append(Tail(queue), e)
      BY <2>1, <1>3, <1>4 DEF Publish
    <3>2. /\ queue' \in Seq(Cmd) /\ Len(queue') = Len(Tail(queue)) + 1
          /\ \A i \in 1 .. Len(Tail(queue)) : queue'[i] = Tail(queue)[i]
          /\ queue'[Len(Tail(queue)) + 1] = e
      BY <3>1, <1>1, Pushed
    <3> QED BY <3>2, <1>1, <2>1
  <2>2. CASE g.chan # "tenant"
    <3>1. queue' = Tail(queue)
      BY <2>2, <1>3 DEF Publish
    <3> QED BY <3>1, <1>1, <2>2
  <2> QED BY <2>1, <2>2
<1>7. PICK cs \in Seq(Msg) :
        /\ wire' = wire \o cs /\ Len(cs) \in {1, 2}
        /\ \A i \in 1 .. Len(cs) : /\ cs[i].chan = g.chan /\ cs[i].n = g.n
                                   /\ cs[i].kind = IF i = Len(cs) THEN "pmessage" ELSE "message"
  <2>0. PICK a \in Msg, b \in Msg :
          /\ a = [kind |-> "message", chan |-> g.chan, n |-> g.n]
          /\ b = [kind |-> "pmessage", chan |-> g.chan, n |-> g.n]
    BY DEF Msg, Cmd
  <2>1. /\ a.kind = "message" /\ a.chan = g.chan /\ a.n = g.n
        /\ b.kind = "pmessage" /\ b.chan = g.chan /\ b.n = g.n
    BY <2>0
  <2>2. wire' = wire \o (IF listeners[KeyOf(g.chan)] > 0 THEN <<a, b>> ELSE <<b>>)
    BY <1>3, <2>0 DEF Publish, Copies
  <2>3. CASE listeners[KeyOf(g.chan)] > 0
    <3>1. PICK cs : cs = <<a, b>>
      OBVIOUS
    <3>2. cs \in Seq(Msg) /\ Len(cs) = 2 /\ cs[1] = a /\ cs[2] = b
      BY <3>1
    <3>3. wire' = wire \o cs
      BY <2>2, <2>3, <3>1
    <3>4. \A i \in 1 .. Len(cs) : /\ cs[i].chan = g.chan /\ cs[i].n = g.n
                                  /\ cs[i].kind = IF i = Len(cs) THEN "pmessage" ELSE "message"
      BY <3>2, <2>1
    <3> QED BY <3>2, <3>3, <3>4
  <2>4. CASE ~(listeners[KeyOf(g.chan)] > 0)
    <3>1. PICK cs : cs = <<b>>
      OBVIOUS
    <3>2. cs \in Seq(Msg) /\ Len(cs) = 1 /\ cs[1] = b
      BY <3>1
    <3>3. wire' = wire \o cs
      BY <2>2, <2>4, <3>1
    <3>4. \A i \in 1 .. Len(cs) : /\ cs[i].chan = g.chan /\ cs[i].n = g.n
                                  /\ cs[i].kind = IF i = Len(cs) THEN "pmessage" ELSE "message"
      BY <3>2, <2>1
    <3> QED BY <3>2, <3>3, <3>4
  <2> QED BY <2>3, <2>4
<1>8. /\ wire' \in Seq(Msg) /\ Len(wire') = Len(wire) + Len(cs)
      /\ \A i \in 1 .. Len(wire) + Len(cs) : wire'[i] = IF i <= Len(wire) THEN wire[i] ELSE cs[i - Len(wire)]
  BY <1>7, ConcatProperties
<1>9. ASSUME NEW i \in Len(wire) + 1 .. Len(wire')
      PROVE  /\ wire'[i].chan = g.chan /\ wire'[i].n = g.n
             /\ wire'[i].kind = IF i = Len(wire') THEN "pmessage" ELSE "message"
  <2>1. i - Len(wire) \in 1 .. Len(cs) /\ wire'[i] = cs[i - Len(wire)]
    BY <1>8, <1>7, <1>2
  <2>2. i = Len(wire') <=> i - Len(wire) = Len(cs)
    BY <1>8, <1>7, <1>2
  <2> QED BY <2>1, <2>2, <1>7
<1>10. Len(wire') \in {Len(wire) + 1, Len(wire) + 2}
  BY <1>8, <1>7, <1>2
<1>11. ASSUME NEW i \in 1 .. Len(wire) PROVE wire'[i] = wire[i]
  <2>1. i \in 1 .. Len(wire) + Len(cs) /\ i <= Len(wire)
    BY <1>2, <1>7
  <2> QED BY <2>1, <1>8
<1> QED BY <1>1, <1>2, <1>3, <1>5, <1>6, <1>8, <1>9, <1>10, <1>11 DEF Moved

(* The message that Deliver hands on.                                      *)
Taken(m) ==
    /\ m = wire[1] /\ m = Head(wire) /\ m \in Msg /\ Len(wire) \in Nat \ {0}
    /\ wire' \in Seq(Msg) /\ Len(wire') = Len(wire) - 1
    /\ \A i \in 1 .. Len(wire) - 1 : wire'[i] = wire[i + 1]

LEMMA DeliverTakes ==
    ASSUME TypeOK, Deliver
    PROVE  \E m \in Msg : Taken(m)
  BY Popped DEF TypeOK, Deliver, Taken

(* A command is added.                                                     *)
Added(e) ==
    /\ e \in Cmd /\ Len(queue) \in Nat
    /\ queue' \in Seq(Cmd) /\ Len(queue') = Len(queue) + 1
    /\ \A i \in 1 .. Len(queue) : queue'[i] = queue[i]
    /\ queue'[Len(queue) + 1] = e

LEMMA ReadingAdded ==
    ASSUME TypeOK, PublishReading
    PROVE  \E e \in Cmd : Added(e) /\ e.chan = "tenant" /\ e.n = sent["reading"] + 1 /\ e.n <= Readings
<1> DEFINE e == [chan |-> "tenant", n |-> sent["reading"] + 1]
<1>1. e \in Cmd /\ e.chan = "tenant" /\ e.n = sent["reading"] + 1 /\ e.n <= Readings
  BY RealtimeAssumption DEF TypeOK, PublishReading, Cmd, Channels
<1>2. queue' = Append(queue, e)
  BY DEF PublishReading
<1>3. queue \in Seq(Cmd)
  BY DEF TypeOK
<1>4. Added(e)
  BY <1>1, <1>2, <1>3, Pushed DEF Added
<1> QED BY <1>1, <1>4

LEMMA AlertAdded ==
    ASSUME TypeOK, PublishAlert
    PROVE  \E e \in Cmd : Added(e) /\ e.chan = "alert" /\ e.n = sent["alert"] + 1 /\ e.n <= Alerts
<1> DEFINE e == [chan |-> "alert", n |-> sent["alert"] + 1]
<1>1. e \in Cmd /\ e.chan = "alert" /\ e.n = sent["alert"] + 1 /\ e.n <= Alerts
  BY RealtimeAssumption DEF TypeOK, PublishAlert, Cmd, Channels
<1>2. queue' = Append(queue, e)
  BY DEF PublishAlert
<1>3. queue \in Seq(Cmd)
  BY DEF TypeOK
<1>4. Added(e)
  BY <1>1, <1>2, <1>3, Pushed DEF Added
<1> QED BY <1>1, <1>4

(* A command is lost.                                                      *)
Dropped ==
    /\ Len(queue) \in Nat \ {0}
    /\ queue' \in Seq(Cmd) /\ Len(queue') = Len(queue) - 1
    /\ \A i \in 1 .. Len(queue) - 1 : queue'[i] = queue[i + 1]

LEMMA LoseDrops ==
    ASSUME TypeOK, LosePublish
    PROVE  Dropped
  BY Popped DEF TypeOK, LosePublish, Dropped

-----------------------------------------------------------------------------
Sound == TypeOK /\ Published

LEMMA InitSound ==
    ASSUME Init PROVE Sound
<1>1. /\ <<>> \in Seq(Cmd) /\ Len(<<>>) = 0
      /\ <<>> \in Seq(Msg)
  BY EmptySeq
<1>2. TypeOK
  <2>1. /\ sent \in [{"reading", "alert"} -> Nat]
        /\ sent["reading"] <= Readings /\ sent["alert"] <= Alerts
        /\ queue \in Seq(Cmd) /\ Len(queue) <= sent["reading"] + sent["alert"]
        /\ wire \in Seq(Msg) /\ faults \in 0 .. Faults
    BY <1>1, RealtimeAssumption DEF Init
  <2>2. /\ asked \in [Keys -> Nat] /\ listeners \in [Keys -> Nat] /\ active \subseteq Keys
        /\ overlapped \in BOOLEAN
    BY DEF Init
  <2>3. /\ rooms \in [Clients -> (SUBSET Rooms) \cup {{"gone"}}]
    BY DEF Init
  <2>6. buffer \in [Rooms -> 0 .. Readings] /\ shown \in [Clients -> 0 .. Readings]
    BY RealtimeAssumption DEF Init
  <2>4. got \in [Clients -> [1 .. Alerts -> Nat]]
    BY DEF Init
  <2>5. owed \in [Clients -> [reading : 0 .. Readings, alerts : SUBSET (1 .. Alerts)]]
    BY RealtimeAssumption DEF Init
  <2> QED BY <2>1, <2>2, <2>3, <2>4, <2>5, <2>6 DEF TypeOK
<1>3. Published
  BY <1>1 DEF Init, Published
<1> QED BY <1>2, <1>3 DEF Sound

LEMMA SoundReading ==
    ASSUME Sound, PublishReading PROVE Sound'
<1> USE DEF Sound
<1>1. PICK e \in Cmd : Added(e) /\ e.chan = "tenant" /\ e.n = sent["reading"] + 1 /\ e.n <= Readings
  BY ReadingAdded
<1>2. /\ sent' = [sent EXCEPT !["reading"] = e.n]
      /\ sent'["reading"] = sent["reading"] + 1 /\ sent'["alert"] = sent["alert"]
      /\ sent' \in [{"reading", "alert"} -> Nat]
      /\ sent["reading"] \in Nat /\ sent["alert"] \in Nat
  BY <1>1 DEF PublishReading, TypeOK
<1>3. owed' \in [Clients -> [reading : 0 .. Readings, alerts : SUBSET (1 .. Alerts)]]
  <2>1. e.n \in 0 .. Readings /\ e.n = sent["reading"] + 1
    BY <1>1, <1>2, RealtimeAssumption DEF Cmd
  <2> QED BY <2>1 DEF PublishReading, TypeOK
<1>4. queue' \in Seq(Cmd) /\ Len(queue') <= sent'["reading"] + sent'["alert"]
  BY <1>1, <1>2 DEF Added, TypeOK
<1>5. overlapped' \in BOOLEAN
  BY DEF PublishReading, TypeOK
<1>6. TypeOK'
  <2>1. sent'["reading"] <= Readings /\ sent'["alert"] <= Alerts
    BY <1>1, <1>2 DEF TypeOK
  <2> QED BY <2>1, <1>2, <1>3, <1>4, <1>5 DEF PublishReading, TypeOK, server
<1>7. Published'
  <2>1. ASSUME NEW i \in 1 .. Len(queue') PROVE queue'[i].n <= NumberOf(sent', queue'[i])
    <3>1. CASE i \in 1 .. Len(queue)
      <4>1. queue'[i] = queue[i] /\ queue[i] \in Cmd /\ queue[i].n <= NumberOf(sent, queue[i])
        BY <3>1, <1>1, Elements DEF Added, Published
      <4> QED BY <4>1, <1>2 DEF NumberOf, Cmd
    <3>2. CASE i = Len(queue) + 1
      <4>1. queue'[i] = e /\ Reading(e)
        BY <3>2, <1>1 DEF Added, Reading
      <4> QED BY <4>1, <1>1, <1>2 DEF NumberOf, Reading
    <3> QED BY <3>1, <3>2, <1>1 DEF Added
  <2>2. ASSUME NEW i \in 1 .. Len(wire') PROVE wire'[i].n <= NumberOf(sent', wire'[i])
    <3>1. wire' = wire /\ wire[i] \in Msg /\ wire[i].n <= NumberOf(sent, wire[i])
      BY Elements DEF PublishReading, Published
    <3> QED BY <3>1, <1>2 DEF NumberOf, Msg
  <2> QED BY <2>1, <2>2 DEF Published
<1> QED BY <1>6, <1>7

LEMMA SoundAlert ==
    ASSUME Sound, PublishAlert PROVE Sound'
<1> USE DEF Sound
<1>1. PICK e \in Cmd : Added(e) /\ e.chan = "alert" /\ e.n = sent["alert"] + 1 /\ e.n <= Alerts
  BY AlertAdded
<1>2. /\ sent' = [sent EXCEPT !["alert"] = e.n]
      /\ sent'["alert"] = sent["alert"] + 1 /\ sent'["reading"] = sent["reading"]
      /\ sent' \in [{"reading", "alert"} -> Nat]
      /\ sent["reading"] \in Nat /\ sent["alert"] \in Nat
  BY <1>1 DEF PublishAlert, TypeOK
<1>3. owed' \in [Clients -> [reading : 0 .. Readings, alerts : SUBSET (1 .. Alerts)]]
  <2>1. e.n \in 1 .. Alerts /\ e.n = sent["alert"] + 1
    BY <1>1, <1>2, RealtimeAssumption DEF Cmd
  <2>2. ASSUME NEW c \in Clients
        PROVE  owed'[c] \in [reading : 0 .. Readings, alerts : SUBSET (1 .. Alerts)]
    <3>1. PICK o \in [reading : 0 .. Readings, alerts : SUBSET (1 .. Alerts)] : o = owed[c]
      BY DEF TypeOK
    <3>2. [o EXCEPT !.alerts = @ \cup {e.n}] \in [reading : 0 .. Readings, alerts : SUBSET (1 .. Alerts)]
      BY <2>1
    <3>3. owed'[c] \in {o, [o EXCEPT !.alerts = @ \cup {e.n}]}
      BY <3>1, <2>1 DEF PublishAlert
    <3> QED BY <3>2, <3>3
  <2>3. owed' = [c \in Clients |-> owed'[c]]
    BY DEF PublishAlert
  <2> QED BY <2>2, <2>3
<1>4. queue' \in Seq(Cmd) /\ Len(queue') <= sent'["reading"] + sent'["alert"]
  BY <1>1, <1>2 DEF Added, TypeOK
<1>6. TypeOK'
  <2>1. sent'["reading"] <= Readings /\ sent'["alert"] <= Alerts
    BY <1>1, <1>2 DEF TypeOK
  <2> QED BY <2>1, <1>2, <1>3, <1>4 DEF PublishAlert, TypeOK, server
<1>7. Published'
  <2>1. ASSUME NEW i \in 1 .. Len(queue') PROVE queue'[i].n <= NumberOf(sent', queue'[i])
    <3>1. CASE i \in 1 .. Len(queue)
      <4>1. queue'[i] = queue[i] /\ queue[i] \in Cmd /\ queue[i].n <= NumberOf(sent, queue[i])
        BY <3>1, <1>1, Elements DEF Added, Published
      <4> QED BY <4>1, <1>2 DEF NumberOf, Cmd
    <3>2. CASE i = Len(queue) + 1
      <4>1. queue'[i] = e /\ ~Reading(e)
        BY <3>2, <1>1 DEF Added, Reading
      <4> QED BY <4>1, <1>1, <1>2 DEF NumberOf, Reading
    <3> QED BY <3>1, <3>2, <1>1 DEF Added
  <2>2. ASSUME NEW i \in 1 .. Len(wire') PROVE wire'[i].n <= NumberOf(sent', wire'[i])
    <3>1. wire' = wire /\ wire[i] \in Msg /\ wire[i].n <= NumberOf(sent, wire[i])
      BY Elements DEF PublishAlert, Published
    <3> QED BY <3>1, <1>2 DEF NumberOf, Msg
  <2> QED BY <2>1, <2>2 DEF Published
<1> QED BY <1>6, <1>7

LEMMA SoundPublish ==
    ASSUME Sound, Publish PROVE Sound'
<1> USE DEF Sound
<1>1. PICK h \in Cmd : Moved(h)
  BY PublishMoves
<1>2. sent' = sent /\ h.n <= NumberOf(sent, h) /\ h = queue[1]
  BY <1>1 DEF Publish, Moved, Published
<1>3. TypeOK'
  <2>1. Len(queue') <= Len(queue) /\ Len(queue) \in Nat /\ Len(queue') \in Nat
    BY <1>1, LenProperties DEF Moved
  <2>2. Len(queue') <= sent["reading"] + sent["alert"]
    BY <2>1 DEF TypeOK
  <2>3. queue' \in Seq(Cmd) /\ wire' \in Seq(Msg)
    BY <1>1 DEF Moved
  <2> QED BY <2>2, <2>3 DEF Publish, TypeOK, server
<1>4. ASSUME NEW i \in 1 .. Len(queue') PROVE queue'[i].n <= NumberOf(sent', queue'[i])
  <2>1. CASE i \in 1 .. Len(queue) - 1
    <3>1. queue'[i] = queue[i + 1] /\ i + 1 \in 1 .. Len(queue)
      BY <2>1, <1>1 DEF Moved
    <3> QED BY <3>1, <1>2 DEF Published, NumberOf
  <2>2. CASE i = Len(queue) /\ h.chan = "tenant"
    <3>1. queue'[i].n = h.n /\ queue'[i].chan = "sensor"
      BY <2>2, <1>1 DEF Moved
    <3> QED BY <3>1, <2>2, <1>2 DEF NumberOf, Reading
  <2> QED BY <2>1, <2>2, <1>1 DEF Moved
<1>5. ASSUME NEW i \in 1 .. Len(wire') PROVE wire'[i].n <= NumberOf(sent', wire'[i])
  <2>1. CASE i \in 1 .. Len(wire)
    BY <2>1, <1>1, <1>2 DEF Moved, Published, NumberOf
  <2>2. CASE i \in Len(wire) + 1 .. Len(wire')
    BY <2>2, <1>1, <1>2 DEF Moved, NumberOf, Reading
  <2> QED BY <2>1, <2>2, <1>1 DEF Moved
<1> QED BY <1>3, <1>4, <1>5 DEF Published

LEMMA SoundDeliver ==
    ASSUME Sound, Deliver PROVE Sound'
<1> USE DEF Sound
<1>1. PICK m \in Msg : Taken(m)
  BY DeliverTakes
<1>2. sent' = sent /\ m.n <= NumberOf(sent, m) /\ m = wire[1] /\ m = Head(wire)
  BY <1>1 DEF Deliver, Taken, Published
<1>3. Heard(m) \in Nat
  BY DEF Heard, KeyOf, TypeOK, Keys, Msg, Channels
<1>4. got' \in [Clients -> [1 .. Alerts -> Nat]]
  <2>1. CASE m.chan = "alert"
    <3>1. m.n \in 1 .. Alerts
      BY <2>1, <1>2, RealtimeAssumption DEF NumberOf, Reading, TypeOK, Msg
    <3>2. got' = [c \in Clients |-> IF InRoom(c, "tenant")
                         THEN [got[c] EXCEPT ![m.n] = @ + Heard(m)] ELSE got[c]]
      BY <2>1, <1>2 DEF Deliver
    <3>3. ASSUME NEW g \in [1 .. Alerts -> Nat] PROVE [g EXCEPT ![m.n] = @ + Heard(m)] \in [1 .. Alerts -> Nat]
      BY <3>1, <1>3
    <3> HIDE <1>1
    <3> QED BY <3>2, <3>3 DEF TypeOK
  <2>2. CASE m.chan # "alert"
    BY <2>2, <1>2 DEF Deliver, TypeOK
  <2> QED BY <2>1, <2>2
<1>5. buffer' \in [Rooms -> 0 .. Readings]
  <2>1. CASE m.chan = "alert"
    BY <2>1, <1>2 DEF Deliver, TypeOK
  <2>2. CASE m.chan # "alert"
    <3>1. m.n \in 0 .. Readings
      BY <2>2, <1>2, RealtimeAssumption DEF NumberOf, Reading, TypeOK, Msg
    <3> QED BY <2>2, <3>1, <1>2 DEF Deliver, Buffer, TypeOK
  <2> QED BY <2>1, <2>2
<1>6. TypeOK'
  <2>1. wire' \in Seq(Msg)
    BY <1>1 DEF Taken
  <2> QED BY <2>1, <1>4, <1>5 DEF Deliver, TypeOK, server
<1>7. ASSUME NEW i \in 1 .. Len(wire') PROVE wire'[i].n <= NumberOf(sent', wire'[i])
  <2>1. wire'[i] = wire[i + 1] /\ i + 1 \in 1 .. Len(wire)
    BY <1>1 DEF Taken
  <2> QED BY <2>1, <1>2 DEF Published, NumberOf
<1>8. queue' = queue
  BY DEF Deliver
<1> QED BY <1>2, <1>6, <1>7, <1>8 DEF Published, NumberOf

LEMMA ForgetTypes ==
    ASSUME TypeOK, NEW cs, Forget(cs)
    PROVE  /\ rooms' \in [Clients -> (SUBSET Rooms) \cup {{"gone"}}]
           /\ shown' \in [Clients -> 0 .. Readings]
           /\ got' \in [Clients -> [1 .. Alerts -> Nat]]
           /\ owed' \in [Clients -> [reading : 0 .. Readings, alerts : SUBSET (1 .. Alerts)]]
<1>1. 0 \in 0 .. Readings /\ {} \in SUBSET (1 .. Alerts) /\ [a \in 1 .. Alerts |-> 0] \in [1 .. Alerts -> Nat]
  BY RealtimeAssumption
<1>2. rooms' \in [Clients -> (SUBSET Rooms) \cup {{"gone"}}]
  <2>1. PICK T : T = (SUBSET Rooms) \cup {{"gone"}}
    OBVIOUS
  <2>2. rooms \in [Clients -> T] /\ {"gone"} \in T
    BY <2>1 DEF TypeOK
  <2>3. rooms' \in [Clients -> T]
    BY <2>2 DEF Forget
  <2> QED BY <2>1, <2>3
<1>3. shown' \in [Clients -> 0 .. Readings]
  BY <1>1 DEF Forget, TypeOK
<1>4. got' \in [Clients -> [1 .. Alerts -> Nat]]
  <2> DEFINE none == [a \in 1 .. Alerts |-> 0]
  <2>1. none \in [1 .. Alerts -> Nat]
    OBVIOUS
  <2>2. got' = [c \in Clients |-> IF c \in cs THEN none ELSE got[c]]
    BY DEF Forget
  <2> HIDE DEF none
  <2> QED BY <2>1, <2>2 DEF TypeOK
<1>5. owed' \in [Clients -> [reading : 0 .. Readings, alerts : SUBSET (1 .. Alerts)]]
  BY <1>1 DEF Forget, TypeOK
<1> QED BY <1>2, <1>3, <1>4, <1>5

(* Steps that touch neither what was published nor what is on its way.     *)
LEMMA SoundStay ==
    ASSUME Published, UNCHANGED <<sent, queue, wire>> PROVE Published'
  BY DEF Published, NumberOf

LEMMA SoundRest ==
    ASSUME Sound,
           \/ Flush
           \/ \E c \in Clients : Connect(c) \/ Disconnect(c)
           \/ \E c \in Clients, r \in Rooms : Subscribe(c, r) \/ Unsubscribe(c, r)
           \/ \E k \in Keys : Attach(k) \/ LoseSubscribe(k)
           \/ UNCHANGED vars
    PROVE  Sound'
<1> USE DEF Sound
<1>1. UNCHANGED <<sent, queue, wire>>
  BY DEF Flush, Connect, Disconnect, Subscribe, Unsubscribe, Attach, LoseSubscribe, vars
<1>2. Published'
  BY <1>1, SoundStay
<1>3. CASE Flush
  <2>1. shown' \in [Clients -> 0 .. Readings]
    <3>1. PICK last \in Rooms :
            shown' = [c \in Clients |->
              LET mine == {r \in Rooms : InRoom(c, r) /\ buffer[r] > 0} IN
              IF mine = {} THEN shown[c]
              ELSE buffer[IF last \in mine THEN last ELSE CHOOSE r \in mine : TRUE]]
      BY <1>3 DEF Flush
    <3>2. ASSUME NEW c \in Clients PROVE shown'[c] \in 0 .. Readings
      <4> DEFINE mine == {r \in Rooms : InRoom(c, r) /\ buffer[r] > 0}
      <4>1. CASE mine = {}
        BY <4>1, <3>1 DEF TypeOK
      <4>2. CASE mine # {}
        <5>1. (IF last \in mine THEN last ELSE CHOOSE r \in mine : TRUE) \in Rooms
          BY <4>2
        <5> QED BY <4>2, <5>1, <3>1 DEF TypeOK
      <4> QED BY <4>1, <4>2
    <3> QED BY <3>1, <3>2
  <2>2. buffer' \in [Rooms -> 0 .. Readings]
    BY <1>3, RealtimeAssumption DEF Flush
  <2> QED BY <1>2, <1>3, <2>1, <2>2 DEF Flush, TypeOK, server
<1>4. CASE \E c \in Clients : Connect(c)
  BY <1>2, <1>4 DEF Connect, TypeOK, server
<1>5. CASE \E c \in Clients : Disconnect(c)
  <2>0. PICK c \in Clients : Forget({c})
    BY <1>5 DEF Disconnect
  <2>1. got' \in [Clients -> [1 .. Alerts -> Nat]]
    BY <2>0, ForgetTypes DEF TypeOK
  <2>2. owed' \in [Clients -> [reading : 0 .. Readings, alerts : SUBSET (1 .. Alerts)]]
    BY <2>0, ForgetTypes DEF TypeOK
  <2>3. rooms' \in [Clients -> (SUBSET Rooms) \cup {{"gone"}}] /\ shown' \in [Clients -> 0 .. Readings]
    BY <2>0, ForgetTypes DEF TypeOK
  <2> QED BY <1>2, <1>5, <2>1, <2>2, <2>3 DEF Disconnect, TypeOK, server
<1>6. CASE \E c \in Clients, r \in Rooms : Subscribe(c, r)
  <2>1. PICK c \in Clients, r \in Rooms : Subscribe(c, r)
    BY <1>6
  <2>2. rooms' \in [Clients -> (SUBSET Rooms) \cup {{"gone"}}]
    BY <2>1 DEF Subscribe, Connected, TypeOK
  <2>3. active' \subseteq Keys /\ asked' \in [Keys -> Nat]
    <3> DEFINE keys == (IF r = "sensor" THEN {"sensor-direct"} ELSE {"sensor:tenant", "alert:tenant"}) \ active
               k == IF "sensor:tenant" \in keys THEN "sensor:tenant" ELSE CHOOSE x \in keys : TRUE
    <3>1. CASE keys = {}
      BY <3>1, <2>1 DEF Subscribe, TypeOK
    <3>2. CASE keys # {}
      <4>1. k \in keys /\ keys \subseteq Keys
        BY <3>2 DEF Keys
      <4>2. Ask(k)
        BY <3>2, <2>1 DEF Subscribe
      <4> HIDE DEF k
      <4> QED BY <4>1, <4>2 DEF Ask, Activated, TypeOK
    <3> QED BY <3>1, <3>2
  <2> QED BY <1>2, <2>1, <2>2, <2>3 DEF Subscribe, TypeOK
<1>7. CASE \E c \in Clients, r \in Rooms : Unsubscribe(c, r)
  <2>1. PICK c \in Clients, r \in Rooms : Unsubscribe(c, r)
    BY <1>7
  <2>2. rooms' \in [Clients -> (SUBSET Rooms) \cup {{"gone"}}]
    BY <2>1 DEF Unsubscribe, InRoom, TypeOK, Rooms
  <2>3. owed' \in [Clients -> [reading : 0 .. Readings, alerts : SUBSET (1 .. Alerts)]]
    <3>1. PICK o \in [reading : 0 .. Readings, alerts : SUBSET (1 .. Alerts)] : o = owed[c]
      BY DEF TypeOK
    <3>2. owed' = [owed EXCEPT ![c] = [reading |-> IF rooms'[c] = {} THEN 0 ELSE o.reading,
                                       alerts |-> IF r = "tenant" THEN {} ELSE o.alerts]]
      BY <2>1, <3>1 DEF Unsubscribe
    <3>3. [reading |-> IF rooms'[c] = {} THEN 0 ELSE o.reading,
           alerts |-> IF r = "tenant" THEN {} ELSE o.alerts]
          \in [reading : 0 .. Readings, alerts : SUBSET (1 .. Alerts)]
      BY RealtimeAssumption
    <3> QED BY <3>2, <3>3 DEF TypeOK
  <2> QED BY <1>2, <2>1, <2>2, <2>3 DEF Unsubscribe, TypeOK, server
<1>8. CASE \E k \in Keys : Attach(k)
  <2>1. PICK k \in Keys : Attach(k)
    BY <1>8
  <2>2. listeners' \in [Keys -> Nat] /\ asked' \in [Keys -> Nat] /\ active' \subseteq Keys
    BY <2>1 DEF Attach, Activated, TypeOK, Keys
  <2> QED BY <1>2, <2>1, <2>2 DEF Attach, TypeOK
<1>9. CASE \E k \in Keys : LoseSubscribe(k)
  <2>1. PICK k \in Keys : LoseSubscribe(k)
    BY <1>9
  <2>2. asked' \in [Keys -> Nat] /\ faults' \in 0 .. Faults
    BY <2>1, RealtimeAssumption DEF LoseSubscribe, Fault, TypeOK
  <2> QED BY <1>2, <2>1, <2>2 DEF LoseSubscribe, TypeOK
<1>10. CASE UNCHANGED vars
  BY <1>2, <1>10 DEF vars, TypeOK
<1> QED BY <1>3, <1>4, <1>5, <1>6, <1>7, <1>8, <1>9, <1>10

LEMMA SoundLoss ==
    ASSUME Sound, LosePublish \/ LoseWire \/ Restart
    PROVE  Sound'
<1> USE DEF Sound
<1>1. sent' = sent /\ faults' \in 0 .. Faults
  BY RealtimeAssumption DEF LosePublish, LoseWire, Restart, Fault, TypeOK
<1>2. <<>> \in Seq(Cmd) /\ <<>> \in Seq(Msg) /\ Len(<<>>) = 0
  BY EmptySeq
<1>3. CASE LosePublish
  <2>1. Dropped
    BY <1>3, LoseDrops
  <2>2. owed' \in [Clients -> [reading : 0 .. Readings, alerts : SUBSET (1 .. Alerts)]]
    BY <1>3, RealtimeAssumption DEF LosePublish
  <2>3. queue' \in Seq(Cmd) /\ Len(queue') <= sent["reading"] + sent["alert"]
    BY <2>1 DEF Dropped, TypeOK
  <2>4. TypeOK'
    BY <1>1, <1>3, <2>2, <2>3 DEF LosePublish, TypeOK, server
  <2>5. ASSUME NEW i \in 1 .. Len(queue') PROVE queue'[i].n <= NumberOf(sent', queue'[i])
    <3>1. queue'[i] = queue[i + 1] /\ i + 1 \in 1 .. Len(queue)
      BY <2>1 DEF Dropped
    <3> QED BY <3>1, <1>1 DEF Published, NumberOf
  <2>6. wire' = wire
    BY <1>3 DEF LosePublish
  <2> QED BY <1>1, <2>4, <2>5, <2>6 DEF Published, NumberOf
<1>4. CASE LoseWire
  <2>1. owed' \in [Clients -> [reading : 0 .. Readings, alerts : SUBSET (1 .. Alerts)]]
    BY <1>4, RealtimeAssumption DEF LoseWire
  <2>2. TypeOK'
    BY <1>1, <1>2, <1>4, <2>1 DEF LoseWire, TypeOK, server
  <2> QED BY <1>1, <1>2, <1>4, <2>2 DEF LoseWire, Published, NumberOf
<1>5. CASE Restart
  <2>1. /\ rooms' \in [Clients -> (SUBSET Rooms) \cup {{"gone"}}] /\ shown' \in [Clients -> 0 .. Readings]
        /\ got' \in [Clients -> [1 .. Alerts -> Nat]]
        /\ owed' \in [Clients -> [reading : 0 .. Readings, alerts : SUBSET (1 .. Alerts)]]
    BY <1>5, ForgetTypes DEF Restart
  <2>0. buffer' \in [Rooms -> 0 .. Readings]
    BY <1>5, RealtimeAssumption DEF Restart
  <2>2. asked' \in [Keys -> Nat] /\ listeners' \in [Keys -> Nat] /\ active' \subseteq Keys
    BY <1>5 DEF Restart
  <2>3. Len(queue') <= sent["reading"] + sent["alert"]
    BY <1>2, <1>5 DEF Restart, TypeOK
  <2>4. TypeOK'
    BY <1>1, <1>2, <1>5, <2>0, <2>1, <2>2, <2>3 DEF Restart, TypeOK
  <2> QED BY <1>1, <1>2, <1>5, <2>4 DEF Restart, Published, NumberOf
<1> QED BY <1>3, <1>4, <1>5

LEMMA SoundNext ==
    ASSUME Sound, [Next]_vars PROVE Sound'
  BY SoundReading, SoundAlert, SoundPublish, SoundDeliver, SoundRest, SoundLoss DEF Next

(* Every variable keeps its type; at most Readings + Alerts commands wait. *)
THEOREM RealtimeTypes == Spec => []TypeOK
<1>1. Init => Sound
  BY InitSound
<1>2. Sound /\ [Next]_vars => Sound'
  BY SoundNext
<1>3. Sound => TypeOK
  BY DEF Sound
<1> QED BY <1>1, <1>2, <1>3, PTL DEF Spec

LEMMA AlwaysSound == Spec => []Sound
<1>1. Init => Sound
  BY InitSound
<1>2. Sound /\ [Next]_vars => Sound'
  BY SoundNext
<1> QED BY <1>1, <1>2, PTL DEF Spec

-----------------------------------------------------------------------------
(* At most one listener behind a key.                                      *)
LEMMA ListenerAsk ==
    ASSUME TypeOK, OneListener, NEW k \in Keys, k \notin active, Ask(k), listeners' = listeners
    PROVE  OneListener'
<1>1. asked[k] + listeners[k] = 0
  BY DEF TypeOK, OneListener
<1>2. asked'[k] + listeners'[k] = 1 /\ k \in active'
  BY <1>1 DEF Ask, Activated, TypeOK
<1>3. ASSUME NEW j \in Keys, j # k
      PROVE  asked'[j] + listeners'[j] = asked[j] + listeners[j] /\ (j \in active => j \in active')
  BY <1>3 DEF Ask, Activated, TypeOK
<1> QED BY <1>2, <1>3 DEF OneListener

LEMMA ListenerAttach ==
    ASSUME TypeOK, OneListener, NEW k \in Keys, Attach(k)
    PROVE  OneListener'
<1> DEFINE more == k = "sensor:tenant" /\ "alert:tenant" \notin active
<1>1. "alert:tenant" \in Keys /\ asked[k] > 0
  BY DEF Attach, Keys
<1>2. /\ asked \in [Keys -> Nat] /\ listeners \in [Keys -> Nat]
      /\ listeners' = [listeners EXCEPT ![k] = @ + 1]
      /\ asked' = [asked EXCEPT ![k] = @ - 1, !["alert:tenant"] = IF more THEN @ + 1 ELSE @]
      /\ active' = IF more THEN active \cup {"alert:tenant"} ELSE active \cup {k}
  BY DEF Attach, TypeOK, Activated
<1>3. CASE more
  <2>1. asked["alert:tenant"] + listeners["alert:tenant"] = 0
    BY <1>1, <1>2, <1>3 DEF OneListener
  <2>2. k # "alert:tenant" /\ k \in active
    BY <1>1, <1>2, <1>3 DEF OneListener
  <2>3. asked'["alert:tenant"] + listeners'["alert:tenant"] = 1 /\ "alert:tenant" \in active'
    BY <1>1, <1>2, <1>3, <2>1, <2>2
  <2>4. asked'[k] + listeners'[k] = asked[k] + listeners[k] /\ k \in active'
    BY <1>1, <1>2, <1>3, <2>2
  <2>5. ASSUME NEW j \in Keys, j # k, j # "alert:tenant"
        PROVE  asked'[j] + listeners'[j] = asked[j] + listeners[j] /\ (j \in active => j \in active')
    BY <1>2, <1>3, <2>5
  <2> QED BY <2>3, <2>4, <2>5 DEF OneListener
<1>4. CASE ~more
  <2>1. asked'[k] + listeners'[k] = asked[k] + listeners[k] /\ k \in active'
    BY <1>1, <1>2, <1>4
  <2>2. ASSUME NEW j \in Keys, j # k
        PROVE  asked'[j] + listeners'[j] = asked[j] + listeners[j] /\ (j \in active => j \in active')
    BY <1>1, <1>2, <1>4, <2>2
  <2> QED BY <2>1, <2>2 DEF OneListener
<1> QED BY <1>3, <1>4

LEMMA ListenerNext ==
    ASSUME TypeOK, OneListener, [Next]_vars
    PROVE  OneListener'
<1>1. CASE \E c \in Clients, r \in Rooms : Subscribe(c, r)
  <2>1. PICK c \in Clients, r \in Rooms : Subscribe(c, r)
    BY <1>1
  <2> DEFINE keys == (IF r = "sensor" THEN {"sensor-direct"} ELSE {"sensor:tenant", "alert:tenant"}) \ active
             k == IF "sensor:tenant" \in keys THEN "sensor:tenant" ELSE CHOOSE x \in keys : TRUE
  <2>2. CASE keys = {}
    BY <2>1, <2>2 DEF Subscribe, OneListener
  <2>3. CASE keys # {}
    <3>1. k \in keys /\ keys \subseteq Keys \ active
      BY <2>3 DEF Keys
    <3>2. Ask(k) /\ listeners' = listeners
      BY <2>1, <2>3 DEF Subscribe
    <3> HIDE DEF k
    <3> QED BY <3>1, <3>2, ListenerAsk
  <2> QED BY <2>2, <2>3
<1>2. CASE \E k \in Keys : Attach(k)
  BY <1>2, ListenerAttach
<1>3. CASE \E k \in Keys : LoseSubscribe(k)
  BY <1>3 DEF LoseSubscribe, OneListener, TypeOK
<1>4. CASE Restart
  BY <1>4 DEF Restart, OneListener
<1>5. CASE UNCHANGED server
  BY <1>5 DEF server, OneListener
<1> QED BY <1>1, <1>2, <1>3, <1>4, <1>5
    DEF Next, vars, server, PublishReading, PublishAlert, Publish, Deliver, Flush, Connect, Disconnect,
        Unsubscribe, LosePublish, LoseWire

LEMMA HeardOnce ==
    ASSUME TypeOK, OneListener, NEW m \in Msg
    PROVE  Heard(m) \in {0, 1} /\ (m.kind = "pmessage" => Heard(m) = 1)
<1>1. KeyOf(m.chan) \in Keys
  BY DEF KeyOf, Keys, Msg, Channels
<1>2. listeners[KeyOf(m.chan)] \in {0, 1}
  BY <1>1 DEF OneListener, TypeOK
<1> QED BY <1>2 DEF Heard, Msg

-----------------------------------------------------------------------------
(* Copies of alerts.                                                       *)
LEMMA AlertNumbers ==
    ASSUME Sound
    PROVE  /\ \A i \in 1 .. Len(queue) : Alert(queue[i]) => queue[i].n \in 1 .. Alerts
           /\ \A i \in 1 .. Len(wire) : Alert(wire[i]) => wire[i].n \in 1 .. Alerts
<1>1. sent["alert"] <= Alerts /\ sent["alert"] \in Nat /\ Alerts \in Nat /\ Readings \in Nat
  BY RealtimeAssumption DEF Sound, TypeOK
<1>2. ASSUME NEW i \in 1 .. Len(queue), Alert(queue[i]) PROVE queue[i].n \in 1 .. Alerts
  <2>1. PICK x \in Cmd : x = queue[i]
    BY Elements DEF Sound
  <2>2. x.n <= sent["alert"]
    BY <1>2, <2>1 DEF Sound, Published, NumberOf, Reading, Alert
  <2> QED BY <1>1, <2>1, <2>2 DEF Cmd
<1>3. ASSUME NEW i \in 1 .. Len(wire), Alert(wire[i]) PROVE wire[i].n \in 1 .. Alerts
  <2>1. PICK x \in Msg : x = wire[i]
    BY Elements DEF Sound
  <2>2. x.n <= sent["alert"]
    BY <1>3, <2>1 DEF Sound, Published, NumberOf, Reading, Alert
  <2> QED BY <1>1, <2>1, <2>2 DEF Msg
<1> QED BY <1>2, <1>3

LEMMA CountedReading ==
    ASSUME Sound, AlertsCounted, PublishReading
    PROVE  AlertsCounted'
<1> USE DEF Sound
<1>1. PICK e \in Cmd : Added(e) /\ e.chan = "tenant" /\ e.n = sent["reading"] + 1 /\ e.n <= Readings
  BY ReadingAdded
<1>2. wire' = wire /\ got' = got /\ sent'["alert"] = sent["alert"]
  BY DEF PublishReading, TypeOK
<1>3. ASSUME NEW i \in 1 .. Len(queue'), Alert(queue'[i])
      PROVE  i \in 1 .. Len(queue) /\ queue'[i] = queue[i]
  BY <1>1, <1>3 DEF Added, Alert
<1>4. AlertsQueued'
  BY <1>2, <1>3 DEF AlertsCounted, AlertsQueued, Alert
<1>5. AlertsWired' /\ AlertsNew' /\ AtMostTwice'
  BY <1>2 DEF AlertsCounted, AlertsWired, AlertsNew, AtMostTwice, Alert
<1> QED BY <1>4, <1>5 DEF AlertsCounted

LEMMA CountedAlert ==
    ASSUME Sound, AlertsCounted, PublishAlert
    PROVE  AlertsCounted'
<1> USE DEF Sound
<1>1. PICK e \in Cmd : Added(e) /\ e.chan = "alert" /\ e.n = sent["alert"] + 1 /\ e.n <= Alerts
  BY AlertAdded
<1>2. /\ wire' = wire /\ got' = got
      /\ sent'["alert"] = sent["alert"] + 1 /\ sent["alert"] \in Nat /\ e.n \in 1 .. Alerts
  BY <1>1, RealtimeAssumption DEF PublishAlert, TypeOK, Cmd
<1>3. ASSUME NEW c \in Clients PROVE got[c][e.n] = 0
  BY <1>1, <1>2 DEF AlertsCounted, AlertsNew
<1>4. ASSUME NEW i \in 1 .. Len(wire), Alert(wire[i]) PROVE wire[i].n # e.n /\ wire[i].n \in Nat
  BY <1>1, <1>2, <1>4, Elements DEF Published, NumberOf, Reading, Alert, Msg
<1>5. ASSUME NEW i \in 1 .. Len(queue), Alert(queue[i]) PROVE queue[i].n # e.n /\ queue[i].n \in Nat
  BY <1>1, <1>2, <1>5, Elements DEF Published, NumberOf, Reading, Alert, Cmd
<1>6. AlertsQueued'
  <2> SUFFICES ASSUME NEW i \in 1 .. Len(queue'), Alert(queue'[i])
               PROVE  /\ \A j \in 1 .. Len(queue') : Alert(queue'[j]) /\ queue'[j].n = queue'[i].n => j = i
                      /\ \A j \in 1 .. Len(wire) : Alert(wire[j]) => wire[j].n # queue'[i].n
                      /\ \A c \in Clients : got[c][queue'[i].n] = 0
    BY <1>2 DEF AlertsQueued, Alert
  <2>1. \A j \in 1 .. Len(queue') : \/ j \in 1 .. Len(queue) /\ queue'[j] = queue[j]
                                    \/ j = Len(queue) + 1 /\ queue'[j] = e
    BY <1>1 DEF Added
  <2>2. CASE i \in 1 .. Len(queue) /\ queue'[i] = queue[i]
    BY <2>1, <2>2, <1>5 DEF AlertsCounted, AlertsQueued
  <2>3. CASE i = Len(queue) + 1 /\ queue'[i] = e
    BY <2>1, <2>3, <1>3, <1>4, <1>5
  <2> QED BY <2>1, <2>2, <2>3
<1>7. AlertsNew'
  <2> SUFFICES ASSUME NEW c \in Clients, NEW a \in 1 .. Alerts, a > sent["alert"] + 1 PROVE got[c][a] = 0
    BY <1>2 DEF AlertsNew
  <2> QED BY <1>2 DEF AlertsCounted, AlertsNew
<1>8. AlertsWired' /\ AtMostTwice'
  BY <1>2 DEF AlertsCounted, AlertsWired, AtMostTwice, Alert
<1> QED BY <1>6, <1>7, <1>8 DEF AlertsCounted

LEMMA CountedPublish ==
    ASSUME Sound, AlertsCounted, Publish
    PROVE  AlertsCounted'
<1> USE DEF Sound
<1>1. PICK h \in Cmd : Moved(h)
  BY PublishMoves
<1>2. got' = got /\ sent' = sent
  BY DEF Publish
<1>3. ASSUME NEW i \in 1 .. Len(queue'), Alert(queue'[i])
      PROVE  i + 1 \in 2 .. Len(queue) /\ queue'[i] = queue[i + 1]
  BY <1>1, <1>3 DEF Moved, Alert
<1>4. ASSUME Alert(h)
      PROVE  /\ \A j \in 2 .. Len(queue) : Alert(queue[j]) => queue[j].n # h.n
             /\ \A j \in 1 .. Len(wire) : Alert(wire[j]) => wire[j].n # h.n
             /\ \A c \in Clients : got[c][h.n] = 0
  <2>1. 1 \in 1 .. Len(queue) /\ queue[1] = h
    BY <1>1 DEF Moved
  <2>2. \A j \in 2 .. Len(queue) : j \in 1 .. Len(queue) /\ j # 1
    BY <1>1 DEF Moved
  <2> QED BY <1>4, <2>1, <2>2 DEF AlertsCounted, AlertsQueued
<1>5. \A j \in 1 .. Len(wire') :
        \/ j \in 1 .. Len(wire) /\ wire'[j] = wire[j]
        \/ /\ j \in Len(wire) + 1 .. Len(wire') /\ wire'[j].chan = h.chan /\ wire'[j].n = h.n
           /\ wire'[j].kind = IF j = Len(wire') THEN "pmessage" ELSE "message"
  BY <1>1 DEF Moved
<1>6. AlertsQueued'
  <2> SUFFICES ASSUME NEW i \in 1 .. Len(queue'), Alert(queue'[i])
               PROVE  /\ \A j \in 1 .. Len(queue') : Alert(queue'[j]) /\ queue'[j].n = queue'[i].n => j = i
                      /\ \A j \in 1 .. Len(wire') : Alert(wire'[j]) => wire'[j].n # queue'[i].n
                      /\ \A c \in Clients : got[c][queue'[i].n] = 0
    BY <1>2 DEF AlertsQueued, Alert
  <2>1. i + 1 \in 2 .. Len(queue) /\ i + 1 \in 1 .. Len(queue) /\ queue'[i] = queue[i + 1] /\ Alert(queue[i + 1])
    BY <1>1, <1>3 DEF Moved
  <2>2. ASSUME NEW j \in 1 .. Len(queue'), Alert(queue'[j]), queue'[j].n = queue'[i].n PROVE j = i
    <3>1. j + 1 \in 1 .. Len(queue) /\ queue'[j] = queue[j + 1]
      BY <1>1, <1>3, <2>2 DEF Moved
    <3>2. j + 1 = i + 1
      BY <2>1, <2>2, <3>1 DEF AlertsCounted, AlertsQueued
    <3> QED BY <3>2
  <2>3. ASSUME NEW j \in 1 .. Len(wire'), Alert(wire'[j]) PROVE wire'[j].n # queue'[i].n
    BY <1>4, <1>5, <2>1, <2>3 DEF AlertsCounted, AlertsQueued, Alert
  <2>4. \A c \in Clients : got[c][queue'[i].n] = 0
    BY <2>1 DEF AlertsCounted, AlertsQueued
  <2> QED BY <2>2, <2>3, <2>4
<1>7. AlertsWired'
  <2> SUFFICES ASSUME NEW i \in 1 .. Len(wire'), Alert(wire'[i])
               PROVE  /\ \A c \in Clients : got[c][wire'[i].n] <= 1
                      /\ \A j \in 1 .. Len(wire') : Alert(wire'[j]) /\ wire'[j].n = wire'[i].n /\ j # i =>
                           /\ wire'[j].kind # wire'[i].kind
                           /\ \A c \in Clients : got[c][wire'[i].n] = 0
    BY <1>2 DEF AlertsWired, Alert
  <2>1. CASE i \in 1 .. Len(wire) /\ wire'[i] = wire[i]
    <3>1. \A c \in Clients : got[c][wire'[i].n] <= 1
      BY <2>1 DEF AlertsCounted, AlertsWired
    <3>2. ASSUME NEW j \in 1 .. Len(wire'), Alert(wire'[j]), wire'[j].n = wire'[i].n, j # i
          PROVE  j \in 1 .. Len(wire) /\ wire'[j] = wire[j]
      BY <1>4, <1>5, <2>1, <3>2 DEF Alert
    <3> QED BY <2>1, <3>1, <3>2 DEF AlertsCounted, AlertsWired
  <2>2. CASE i \in Len(wire) + 1 .. Len(wire') /\ wire'[i].chan = h.chan /\ wire'[i].n = h.n
    <3>1. Alert(h)
      BY <2>2 DEF Alert
    <3>2. \A c \in Clients : got[c][wire'[i].n] = 0
      BY <1>4, <2>2, <3>1
    <3>3. ASSUME NEW j \in 1 .. Len(wire'), Alert(wire'[j]), wire'[j].n = wire'[i].n, j # i
          PROVE  wire'[j].kind # wire'[i].kind
      <4>1. j \in Len(wire) + 1 .. Len(wire')
        BY <1>4, <1>5, <2>2, <3>1, <3>3
      <4>2. i = Len(wire') \/ j = Len(wire')
        BY <1>1, <2>2, <3>3, <4>1 DEF Moved
      <4> QED BY <1>5, <2>2, <3>3, <4>1, <4>2, <1>1 DEF Moved
    <3> QED BY <3>2, <3>3
  <2> QED BY <1>5, <2>1, <2>2
<1>8. AlertsNew' /\ AtMostTwice'
  BY <1>2 DEF AlertsCounted, AlertsNew, AtMostTwice
<1> QED BY <1>6, <1>7, <1>8 DEF AlertsCounted

LEMMA CountedDeliver ==
    ASSUME Sound, OneListener, AlertsCounted, Deliver
    PROVE  AlertsCounted'
<1> USE DEF Sound
<1>1. PICK m \in Msg : Taken(m)
  BY DeliverTakes
<1>2. queue' = queue /\ sent' = sent /\ m = Head(wire) /\ 1 \in 1 .. Len(wire) /\ wire[1] = m
  BY <1>1 DEF Deliver, Taken
<1>3. \A i \in 1 .. Len(wire') : i + 1 \in 1 .. Len(wire) /\ i + 1 # 1 /\ wire'[i] = wire[i + 1]
  BY <1>1 DEF Taken
<1>4. PICK n \in {0, 1} : n = Heard(m)
  BY HeardOnce
<1>5. CASE ~Alert(m)
  <2>1. got' = got
    BY <1>2, <1>5 DEF Deliver, Alert
  <2>2. AlertsQueued' /\ AlertsNew' /\ AtMostTwice'
    BY <1>2, <1>3, <2>1 DEF AlertsCounted, AlertsQueued, AlertsNew, AtMostTwice, Alert
  <2>3. AlertsWired'
    <3> SUFFICES ASSUME NEW i \in 1 .. Len(wire'), Alert(wire'[i])
                 PROVE  /\ \A c \in Clients : got[c][wire'[i].n] <= 1
                        /\ \A j \in 1 .. Len(wire') : Alert(wire'[j]) /\ wire'[j].n = wire'[i].n /\ j # i =>
                             /\ wire'[j].kind # wire'[i].kind
                             /\ \A c \in Clients : got[c][wire'[i].n] = 0
      BY <2>1 DEF AlertsWired, Alert
    <3>1. i + 1 \in 1 .. Len(wire) /\ wire'[i] = wire[i + 1]
      BY <1>3
    <3>2. ASSUME NEW j \in 1 .. Len(wire'), Alert(wire'[j]), wire'[j].n = wire'[i].n, j # i
          PROVE  /\ wire'[j].kind # wire'[i].kind
                 /\ \A c \in Clients : got[c][wire'[i].n] = 0
      <4>1. j + 1 \in 1 .. Len(wire) /\ j + 1 # i + 1 /\ wire'[j] = wire[j + 1]
        BY <1>3, <3>2
      <4> QED BY <3>1, <3>2, <4>1 DEF AlertsCounted, AlertsWired
    <3> QED BY <3>1, <3>2 DEF AlertsCounted, AlertsWired
  <2> QED BY <2>2, <2>3 DEF AlertsCounted
<1>6. CASE Alert(m)
  <2>1. m.n \in 1 .. Alerts /\ m.n <= sent["alert"]
    BY <1>2, <1>6, AlertNumbers DEF Published, NumberOf, Reading, Alert
  <2>2. got' = [c \in Clients |-> IF InRoom(c, "tenant") THEN [got[c] EXCEPT ![m.n] = @ + n] ELSE got[c]]
    BY <1>2, <1>4, <1>6 DEF Deliver, Alert
  <2>3. ASSUME NEW c \in Clients, NEW a \in 1 .. Alerts
        PROVE  /\ got[c][a] \in Nat /\ got[c][m.n] \in Nat
               /\ a # m.n => got'[c][a] = got[c][a]
               /\ got'[c][m.n] \in {got[c][m.n], got[c][m.n] + 1}
    <3>1. PICK g \in [1 .. Alerts -> Nat] : g = got[c]
      BY DEF TypeOK
    <3>2. got'[c] = IF InRoom(c, "tenant") THEN [g EXCEPT ![m.n] = @ + n] ELSE g
      BY <2>2, <3>1
    <3>0. \A x \in 1 .. Alerts : g[x] \in Nat /\ g[x] + n \in {g[x], g[x] + 1} /\ g[x] + n \in Nat
      OBVIOUS
    <3>3. PICK p : p = [g EXCEPT ![m.n] = @ + n]
      OBVIOUS
    <3>4. p[m.n] = g[m.n] + n /\ g[m.n] \in Nat /\ (a # m.n => p[a] = g[a])
      BY <2>1, <3>3
    <3>5. got'[c] \in {p, g}
      BY <3>2, <3>3
    <3>6. got'[c][m.n] \in {got[c][m.n], got[c][m.n] + 1}
      BY <2>1, <3>0, <3>1, <3>4, <3>5
    <3> QED BY <2>1, <3>1, <3>4, <3>5, <3>6
  <2>4. ASSUME NEW c \in Clients PROVE got[c][m.n] <= 1
    BY <1>2, <1>6 DEF AlertsCounted, AlertsWired
  <2>5. AtMostTwice'
    <3> SUFFICES ASSUME NEW c \in Clients, NEW a \in 1 .. Alerts PROVE got'[c][a] <= 2
      BY DEF AtMostTwice
    <3>1. CASE a = m.n
      BY <2>1, <2>3, <2>4, <3>1
    <3>2. CASE a # m.n
      BY <2>3, <3>2 DEF AlertsCounted, AtMostTwice
    <3> QED BY <3>1, <3>2
  <2>6. AlertsNew'
    <3>1. \A a \in 1 .. Alerts : a > sent["alert"] => a # m.n
      BY <2>1 DEF TypeOK
    <3> QED BY <1>2, <2>3, <3>1 DEF AlertsCounted, AlertsNew
  <2>7. AlertsQueued'
    <3> SUFFICES ASSUME NEW i \in 1 .. Len(queue), Alert(queue[i])
                 PROVE  /\ \A j \in 1 .. Len(queue) : Alert(queue[j]) /\ queue[j].n = queue[i].n => j = i
                        /\ \A j \in 1 .. Len(wire') : Alert(wire'[j]) => wire'[j].n # queue[i].n
                        /\ \A c \in Clients : got'[c][queue[i].n] = 0
      BY <1>2 DEF AlertsQueued, Alert
    <3>1. queue[i].n \in 1 .. Alerts /\ queue[i].n # m.n
      BY <1>2, <1>6, AlertNumbers DEF AlertsCounted, AlertsQueued
    <3>2. \A c \in Clients : got'[c][queue[i].n] = 0
      BY <2>3, <3>1 DEF AlertsCounted, AlertsQueued
    <3>3. \A j \in 1 .. Len(queue) : Alert(queue[j]) /\ queue[j].n = queue[i].n => j = i
      BY DEF AlertsCounted, AlertsQueued
    <3>4. ASSUME NEW j \in 1 .. Len(wire'), Alert(wire'[j]) PROVE wire'[j].n # queue[i].n
      <4>1. j + 1 \in 1 .. Len(wire) /\ wire'[j] = wire[j + 1]
        BY <1>3
      <4> QED BY <3>4, <4>1 DEF AlertsCounted, AlertsQueued
    <3> QED BY <3>2, <3>3, <3>4
  <2>8. AlertsWired'
    <3> SUFFICES ASSUME NEW i \in 1 .. Len(wire'), Alert(wire'[i])
                 PROVE  /\ \A c \in Clients : got'[c][wire'[i].n] <= 1
                        /\ \A j \in 1 .. Len(wire') : Alert(wire'[j]) /\ wire'[j].n = wire'[i].n /\ j # i =>
                             /\ wire'[j].kind # wire'[i].kind
                             /\ \A c \in Clients : got'[c][wire'[i].n] = 0
      BY DEF AlertsWired, Alert
    <3>1. \A j \in 1 .. Len(wire') : j # i => j + 1 # i + 1
      BY <1>1 DEF Taken
    <3>2. PICK x \in Msg : x = wire'[i] /\ x = wire[i + 1]
      BY <1>3, Elements
    <3>3. x.n \in 1 .. Alerts
      BY <1>3, <3>2, AlertNumbers
    <3>4. CASE x.n = m.n
      <4>1. x.kind # m.kind /\ \A c \in Clients : got[c][m.n] = 0
        BY <1>2, <1>3, <1>6, <3>2, <3>4 DEF AlertsCounted, AlertsWired
      <4>2. \A c \in Clients : got'[c][m.n] <= 1
        BY <2>1, <2>3, <4>1
      <4>3. ASSUME NEW j \in 1 .. Len(wire'), Alert(wire'[j]), wire'[j].n = m.n, j # i PROVE FALSE
        <5>1. PICK y \in Msg : y = wire'[j] /\ y = wire[j + 1]
          BY <1>3, Elements
        <5>2. y.kind # m.kind
          <6>1. /\ j + 1 \in 1 .. Len(wire) /\ j + 1 # 1 /\ wire[j + 1] = y /\ Alert(y)
                /\ 1 \in 1 .. Len(wire) /\ wire[1] = m /\ y.n = m.n
            BY <1>2, <1>3, <4>3, <5>1
          <6> QED BY <1>6, <6>1 DEF AlertsCounted, AlertsWired
        <5>3. y.kind # x.kind
          BY <1>3, <3>1, <3>2, <3>4, <4>3, <5>1 DEF AlertsCounted, AlertsWired
        <5> QED BY <4>1, <5>2, <5>3 DEF Msg
      <4> QED BY <3>2, <3>4, <4>2, <4>3
    <3>5. CASE x.n # m.n
      <4>1. \A c \in Clients : got'[c][x.n] = got[c][x.n]
        BY <2>3, <3>3, <3>5
      <4>2. \A c \in Clients : got'[c][x.n] <= 1
        BY <1>3, <3>2, <4>1 DEF AlertsCounted, AlertsWired
      <4>3. ASSUME NEW j \in 1 .. Len(wire'), Alert(wire'[j]), wire'[j].n = x.n, j # i
            PROVE  wire'[j].kind # x.kind /\ \A c \in Clients : got[c][x.n] = 0
        <5>1. j + 1 \in 1 .. Len(wire) /\ i + 1 \in 1 .. Len(wire) /\ j + 1 # i + 1
              /\ wire'[j] = wire[j + 1] /\ Alert(x) /\ x = wire[i + 1]
          BY <1>3, <3>1, <3>2, <4>3
        <5> QED BY <5>1, <4>3 DEF AlertsCounted, AlertsWired
      <4> QED BY <3>2, <4>1, <4>2, <4>3
    <3> QED BY <3>4, <3>5
  <2> QED BY <2>5, <2>6, <2>7, <2>8 DEF AlertsCounted
<1> QED BY <1>5, <1>6

(* Steps after which fewer copies are on their way, or fewer were counted. *)
LEMMA CountedLess ==
    ASSUME Sound, AlertsCounted, sent' = sent, wire' = wire \/ wire' = <<>>,
           \/ queue' = queue
           \/ queue' = <<>>
           \/ Dropped,
           \A c \in Clients, a \in 1 .. Alerts : got'[c][a] \in {0, got[c][a]}
    PROVE  AlertsCounted'
<1> USE DEF Sound
<1>1. \A i \in 1 .. Len(wire') : i \in 1 .. Len(wire) /\ wire'[i] = wire[i]
  BY EmptySeq
<1>2. PICK d \in {0, 1} : \A i \in 1 .. Len(queue') : i + d \in 1 .. Len(queue) /\ queue'[i] = queue[i + d]
  <2>1. CASE queue' = queue
    <3>1. \A i \in 1 .. Len(queue') : i + 0 \in 1 .. Len(queue) /\ queue'[i] = queue[i + 0]
      BY <2>1
    <3> QED BY <3>1
  <2>2. CASE queue' = <<>>
    BY <2>2, EmptySeq
  <2>3. CASE Dropped
    <3>1. \A i \in 1 .. Len(queue') : i + 1 \in 1 .. Len(queue) /\ queue'[i] = queue[i + 1]
      BY <2>3 DEF Dropped
    <3> QED BY <3>1
  <2> QED BY <2>1, <2>2, <2>3
<1>3. \A i \in 1 .. Len(queue) : Alert(queue[i]) => queue[i].n \in 1 .. Alerts
  BY AlertNumbers
<1>4. \A i \in 1 .. Len(wire) : Alert(wire[i]) => wire[i].n \in 1 .. Alerts
  BY AlertNumbers
<1>5. AlertsQueued'
  <2> SUFFICES ASSUME NEW i \in 1 .. Len(queue'), Alert(queue'[i])
               PROVE  /\ \A j \in 1 .. Len(queue') : Alert(queue'[j]) /\ queue'[j].n = queue'[i].n => j = i
                      /\ \A j \in 1 .. Len(wire') : Alert(wire'[j]) => wire'[j].n # queue'[i].n
                      /\ \A c \in Clients : got'[c][queue'[i].n] = 0
    BY DEF AlertsQueued, Alert
  <2>1. \A j \in 1 .. Len(queue') : j + d = i + d => j = i
    OBVIOUS
  <2>2. \A c \in Clients : got'[c][queue'[i].n] = 0
    <3>1. i + d \in 1 .. Len(queue) /\ queue'[i] = queue[i + d] /\ Alert(queue[i + d])
      BY <1>2
    <3>2. \A c \in Clients : got[c][queue[i + d].n] = 0
      BY <3>1 DEF AlertsCounted, AlertsQueued
    <3>3. queue[i + d].n \in 1 .. Alerts
      BY <1>3, <3>1
    <3> QED BY <3>1, <3>2, <3>3
  <2>3. \A j \in 1 .. Len(queue') : Alert(queue'[j]) /\ queue'[j].n = queue'[i].n => j + d = i + d
    BY <1>2 DEF AlertsCounted, AlertsQueued
  <2>4. \A j \in 1 .. Len(wire') : Alert(wire'[j]) => wire'[j].n # queue'[i].n
    BY <1>1, <1>2 DEF AlertsCounted, AlertsQueued
  <2> QED BY <2>1, <2>2, <2>3, <2>4
<1>6. AlertsWired'
  <2> SUFFICES ASSUME NEW i \in 1 .. Len(wire'), Alert(wire'[i])
               PROVE  /\ \A c \in Clients : got'[c][wire'[i].n] <= 1
                      /\ \A j \in 1 .. Len(wire') : Alert(wire'[j]) /\ wire'[j].n = wire'[i].n /\ j # i =>
                           /\ wire'[j].kind # wire'[i].kind
                           /\ \A c \in Clients : got'[c][wire'[i].n] = 0
    BY DEF AlertsWired, Alert
  <2>1. \A c \in Clients : got'[c][wire[i].n] \in {0, got[c][wire[i].n]}
    BY <1>1, <1>4
  <2>2. \A c \in Clients : got'[c][wire'[i].n] <= 1
    BY <1>1, <2>1 DEF AlertsCounted, AlertsWired
  <2>3. ASSUME NEW j \in 1 .. Len(wire'), Alert(wire'[j]), wire'[j].n = wire'[i].n, j # i
        PROVE  /\ wire'[j].kind # wire'[i].kind
               /\ \A c \in Clients : got'[c][wire'[i].n] = 0
    BY <1>1, <2>1, <2>3 DEF AlertsCounted, AlertsWired
  <2> QED BY <2>2, <2>3
<1>7. AlertsNew' /\ AtMostTwice'
  BY DEF AlertsCounted, AlertsNew, AtMostTwice
<1> QED BY <1>5, <1>6, <1>7 DEF AlertsCounted

LEMMA CountedNext ==
    ASSUME Sound, OneListener, AlertsCounted, [Next]_vars
    PROVE  AlertsCounted'
<1> USE DEF Sound
<1>1. CASE PublishReading
  BY <1>1, CountedReading
<1>2. CASE PublishAlert
  BY <1>2, CountedAlert
<1>3. CASE Publish
  BY <1>3, CountedPublish
<1>4. CASE Deliver
  BY <1>4, CountedDeliver
<1>5. CASE UNCHANGED <<sent, queue, wire, got>>
  BY <1>5, CountedLess
<1>6. CASE LosePublish
  BY <1>6, LoseDrops, CountedLess DEF LosePublish
<1>7. CASE LoseWire
  BY <1>7, CountedLess DEF LoseWire
<1>8. CASE (\E cs : Forget(cs)) /\ sent' = sent /\ (UNCHANGED <<queue, wire>> \/ (queue' = <<>> /\ wire' = <<>>))
  <2>1. \A c \in Clients, a \in 1 .. Alerts : got'[c][a] \in {0, got[c][a]}
    BY <1>8 DEF Forget
  <2> QED BY <1>8, <2>1, CountedLess
<1>9. CASE \E c \in Clients : Disconnect(c)
  BY <1>8, <1>9 DEF Disconnect
<1>10. CASE Restart
  BY <1>8, <1>10 DEF Restart
<1> QED BY <1>1, <1>2, <1>3, <1>4, <1>5, <1>6, <1>7, <1>9, <1>10
    DEF Next, vars, Flush, Connect, Subscribe, Unsubscribe, Attach, LoseSubscribe

(* However many clients subscribe, and however their subscriptions, lost   *)
(* commands and restarts interleave, a client is sent an alert at most     *)
(* twice: once for its channel and once for the pattern.                   *)
THEOREM AtMostTwiceCorrect == Spec => []AtMostTwice
<1>1. Init => TwiceInv
  <2> SUFFICES ASSUME Init PROVE TwiceInv
    OBVIOUS
  <2>1. OneListener
    BY DEF Init, OneListener
  <2>2. AlertsCounted
    BY EmptySeq DEF Init, AlertsCounted, AlertsQueued, AlertsWired, AlertsNew, AtMostTwice
  <2> QED BY <2>1, <2>2 DEF TwiceInv
<1>2. Sound /\ TwiceInv /\ [Next]_vars => TwiceInv'
  BY ListenerNext, CountedNext DEF TwiceInv, Sound
<1>3. TwiceInv => AtMostTwice
  BY DEF TwiceInv, AlertsCounted
<1> QED BY <1>1, <1>2, <1>3, AlwaysSound, PTL DEF Spec

-----------------------------------------------------------------------------
(* The order of commands.                                                  *)
LEMMA QueueOrderNext ==
    ASSUME Sound, QueueOrder, [Next]_vars
    PROVE  QueueOrder'
<1> USE DEF Sound
<1>0. Len(queue) \in Nat /\ Len(queue') \in Nat
  BY SoundNext, Elements
<1>1. CASE PublishReading
  <2>1. PICK e \in Cmd : Added(e) /\ e.chan = "tenant" /\ e.n = sent["reading"] + 1 /\ e.n <= Readings
    BY <1>1, ReadingAdded
  <2>2. \A i \in 1 .. Len(queue') : \/ i \in 1 .. Len(queue) /\ queue'[i] = queue[i]
                                    \/ i = Len(queue) + 1 /\ queue'[i] = e
    BY <2>1 DEF Added
  <2>3. ASSUME NEW i \in 1 .. Len(queue), Reading(queue[i]) PROVE queue[i].n < e.n
    <3>1. PICK x \in Cmd : x = queue[i]
      BY Elements
    <3>2. x.n <= sent["reading"] /\ sent["reading"] \in Nat
      BY <2>3, <3>1 DEF Published, NumberOf, TypeOK
    <3> QED BY <2>1, <3>1, <3>2 DEF Cmd
  <2>4. ASSUME NEW i \in 1 .. Len(queue'), NEW j \in 1 .. Len(queue'), i < j,
               queue'[i].chan = "tenant", queue'[j].chan = "tenant"
        PROVE  queue'[i].n < queue'[j].n
    BY <1>0, <2>2, <2>3, <2>4 DEF QueueOrder, Reading
  <2>5. ASSUME NEW i \in 1 .. Len(queue'), NEW j \in 1 .. Len(queue'), i < j,
               queue'[i].chan = "sensor", queue'[j].chan = "sensor"
        PROVE  queue'[i].n < queue'[j].n
    BY <1>0, <2>1, <2>2, <2>5 DEF QueueOrder
  <2>6. ASSUME NEW i \in 1 .. Len(queue'), NEW j \in 1 .. Len(queue'),
               queue'[i].chan = "sensor", queue'[j].chan = "tenant"
        PROVE  queue'[i].n < queue'[j].n
    BY <1>0, <2>1, <2>2, <2>3, <2>6 DEF QueueOrder, Reading
  <2> QED BY <2>4, <2>5, <2>6 DEF QueueOrder
<1>2. CASE PublishAlert
  <2>1. PICK e \in Cmd : Added(e) /\ e.chan = "alert" /\ e.n = sent["alert"] + 1 /\ e.n <= Alerts
    BY <1>2, AlertAdded
  <2>2. \A i \in 1 .. Len(queue') : \/ i \in 1 .. Len(queue) /\ queue'[i] = queue[i]
                                    \/ queue'[i].chan = "alert"
    BY <2>1 DEF Added
  <2> QED BY <2>2 DEF QueueOrder
<1>3. CASE Publish
  <2>1. PICK h \in Cmd : Moved(h)
    BY <1>3, PublishMoves
  <2>2. \A i \in 1 .. Len(queue') :
          \/ i \in 1 .. Len(queue) - 1 /\ queue'[i] = queue[i + 1]
          \/ h.chan = "tenant" /\ i = Len(queue) /\ queue'[i].chan = "sensor" /\ queue'[i].n = h.n
    BY <2>1 DEF Moved
  <2>3. 1 \in 1 .. Len(queue) /\ queue[1] = h
    BY <2>1 DEF Moved
  <2>4. ASSUME NEW i \in 1 .. Len(queue'), NEW j \in 1 .. Len(queue'), i < j,
               queue'[i].chan = "tenant", queue'[j].chan = "tenant"
        PROVE  queue'[i].n < queue'[j].n
    <3>1. i + 1 \in 1 .. Len(queue) /\ j + 1 \in 1 .. Len(queue) /\ i + 1 < j + 1
          /\ queue'[i] = queue[i + 1] /\ queue'[j] = queue[j + 1]
      BY <1>0, <2>2, <2>4
    <3> QED BY <2>4, <3>1 DEF QueueOrder
  <2>5. ASSUME NEW i \in 1 .. Len(queue'), NEW j \in 1 .. Len(queue'), i < j,
               queue'[i].chan = "sensor", queue'[j].chan = "sensor"
        PROVE  queue'[i].n < queue'[j].n
    <3>1. i + 1 \in 1 .. Len(queue) /\ queue'[i] = queue[i + 1]
      BY <1>0, <2>2, <2>5
    <3>2. CASE j \in 1 .. Len(queue) - 1
      <4>1. j + 1 \in 1 .. Len(queue) /\ i + 1 < j + 1 /\ queue'[j] = queue[j + 1]
        BY <1>0, <2>2, <2>5, <3>2
      <4> QED BY <2>5, <3>1, <4>1 DEF QueueOrder
    <3>3. CASE h.chan = "tenant" /\ j = Len(queue) /\ queue'[j].n = h.n
      BY <2>3, <2>5, <3>1, <3>3 DEF QueueOrder
    <3> QED BY <2>2, <3>2, <3>3
  <2>6. ASSUME NEW i \in 1 .. Len(queue'), NEW j \in 1 .. Len(queue'),
               queue'[i].chan = "sensor", queue'[j].chan = "tenant"
        PROVE  queue'[i].n < queue'[j].n
    <3>1. j + 1 \in 1 .. Len(queue) /\ queue'[j] = queue[j + 1] /\ 1 < j + 1
      BY <1>0, <2>2, <2>6
    <3>2. CASE i \in 1 .. Len(queue) - 1
      <4>1. i + 1 \in 1 .. Len(queue) /\ queue'[i] = queue[i + 1]
        BY <1>0, <2>2, <3>2
      <4> QED BY <2>6, <3>1, <4>1 DEF QueueOrder
    <3>3. CASE h.chan = "tenant" /\ i = Len(queue) /\ queue'[i].n = h.n
      BY <2>3, <2>6, <3>1, <3>3 DEF QueueOrder
    <3> QED BY <2>2, <3>2, <3>3
  <2> QED BY <2>4, <2>5, <2>6 DEF QueueOrder
<1>4. CASE LosePublish
  <2>1. Dropped
    BY <1>4, LoseDrops
  <2>2. ASSUME NEW i \in 1 .. Len(queue'), NEW j \in 1 .. Len(queue')
        PROVE  /\ i + 1 \in 1 .. Len(queue) /\ j + 1 \in 1 .. Len(queue) /\ (i < j <=> i + 1 < j + 1)
               /\ queue'[i] = queue[i + 1] /\ queue'[j] = queue[j + 1]
    BY <2>1 DEF Dropped
  <2> QED BY <2>2 DEF QueueOrder
<1>5. CASE Restart
  BY <1>5, EmptySeq DEF Restart, QueueOrder
<1>6. CASE queue' = queue
  BY <1>6 DEF QueueOrder
<1> QED BY <1>1, <1>2, <1>3, <1>4, <1>5, <1>6
    DEF Next, vars, Deliver, Flush, Connect, Disconnect, Subscribe, Unsubscribe, Attach, LoseSubscribe, LoseWire

-----------------------------------------------------------------------------
(* Alerts that are owed.                                                   *)
AlertComes(c, a) ==
    \/ got[c][a] > 0
    \/ \E i \in 1 .. Len(queue) : Alert(queue[i]) /\ queue[i].n = a
    \/ \E i \in 1 .. Len(wire) : Alert(wire[i]) /\ wire[i].n = a /\ wire[i].kind = "pmessage"

Owes(c, a) == a \in owed[c].alerts => InRoom(c, "tenant") /\ AlertComes(c, a)

LEMMA AlertsAre ==
    ASSUME TypeOK
    PROVE  /\ AlertsComing <=> \A c \in Clients, a \in 1 .. Alerts : Owes(c, a)
           /\ \A c \in Clients : owed[c].alerts \subseteq 1 .. Alerts
<1>1. \A c \in Clients : owed[c].alerts \subseteq 1 .. Alerts
  BY DEF TypeOK
<1> QED BY <1>1 DEF AlertsComing, Owes, AlertComes

LEMMA AlertsArePrimed ==
    ASSUME TypeOK'
    PROVE  AlertsComing' <=> \A c \in Clients, a \in 1 .. Alerts : Owes(c, a)'
<1>1. \A c \in Clients : owed'[c].alerts \subseteq 1 .. Alerts
  BY DEF TypeOK
<1> QED BY <1>1 DEF AlertsComing, Owes, AlertComes

LEMMA InRooms ==
    ASSUME TypeOK, NEW c \in Clients
    PROVE  /\ Connected(c) <=> rooms[c] \subseteq Rooms
           /\ ~Connected(c) <=> rooms[c] = {"gone"}
           /\ \A r \in Rooms : InRoom(c, r) => Connected(c)
  BY DEF TypeOK, Connected, InRoom, Rooms

LEMMA OwesPublished ==
    ASSUME Sound, NEW c \in Clients, NEW a \in 1 .. Alerts, Owes(c, a), PublishReading \/ PublishAlert
    PROVE  Owes(c, a)'
<1> USE DEF Sound
<1>1. PICK e \in Cmd : /\ Added(e)
                       /\ PublishAlert => e.chan = "alert" /\ e.n = sent["alert"] + 1
  BY ReadingAdded, AlertAdded DEF PublishReading, PublishAlert
<1>2. wire' = wire /\ got' = got /\ rooms' = rooms
  BY DEF PublishReading, PublishAlert
<1>3. AlertComes(c, a) => AlertComes(c, a)'
  <2>1. ASSUME NEW i \in 1 .. Len(queue), Alert(queue[i]) /\ queue[i].n = a PROVE AlertComes(c, a)'
    <3>1. i \in 1 .. Len(queue') /\ queue'[i] = queue[i]
      BY <1>1 DEF Added
    <3> QED BY <2>1, <3>1 DEF AlertComes, Alert
  <2>2. got[c][a] > 0 => AlertComes(c, a)'
    BY <1>2 DEF AlertComes
  <2>3. (\E i \in 1 .. Len(wire) : Alert(wire[i]) /\ wire[i].n = a /\ wire[i].kind = "pmessage")
           => AlertComes(c, a)'
    BY <1>2 DEF AlertComes, Alert
  <2> QED BY <2>1, <2>2, <2>3 DEF AlertComes
<1>4. PICK o \in [reading : 0 .. Readings, alerts : SUBSET (1 .. Alerts)] : o = owed[c]
  BY DEF TypeOK
<1>5. CASE PublishReading
  <2>1. owed'[c].alerts = owed[c].alerts
    BY <1>4, <1>5 DEF PublishReading
  <2> QED BY <1>2, <1>3, <2>1 DEF Owes, InRoom
<1>6. CASE PublishAlert
  <2>1. owed'[c].alerts = owed[c].alerts \/ (InRoom(c, "tenant") /\ owed'[c].alerts = owed[c].alerts \cup {e.n})
    BY <1>1, <1>4, <1>6 DEF PublishAlert
  <2>2. Len(queue) + 1 \in 1 .. Len(queue') /\ queue'[Len(queue) + 1] = e
    BY <1>1 DEF Added
  <2>3. a = e.n => AlertComes(c, a)'
    BY <1>1, <1>6, <2>2 DEF AlertComes, Alert
  <2> QED BY <1>2, <1>3, <2>1, <2>3 DEF Owes, InRoom
<1> QED BY <1>5, <1>6

LEMMA OwesPublish ==
    ASSUME Sound, NEW c \in Clients, NEW a \in 1 .. Alerts, Owes(c, a), Publish
    PROVE  Owes(c, a)'
<1> USE DEF Sound
<1>1. PICK h \in Cmd : Moved(h)
  BY PublishMoves
<1>2. owed' = owed /\ got' = got /\ rooms' = rooms
  BY DEF Publish
<1>3. ASSUME NEW i \in 1 .. Len(queue), Alert(queue[i]) /\ queue[i].n = a PROVE AlertComes(c, a)'
  <2>1. CASE i = 1
    <3>1. Len(wire') \in 1 .. Len(wire') /\ Len(wire') \in Len(wire) + 1 .. Len(wire')
      BY <1>1 DEF Moved
    <3>2. /\ wire'[Len(wire')].chan = h.chan /\ wire'[Len(wire')].n = h.n
          /\ wire'[Len(wire')].kind = "pmessage" /\ queue[1] = h
      BY <1>1, <3>1 DEF Moved
    <3> QED BY <1>3, <2>1, <3>1, <3>2 DEF AlertComes, Alert
  <2>2. CASE i # 1
    <3>1. i - 1 \in 1 .. Len(queue) - 1 /\ (i - 1) + 1 = i /\ i - 1 \in 1 .. Len(queue')
      BY <1>1, <2>2 DEF Moved
    <3>2. queue'[i - 1] = queue[i]
      BY <1>1, <3>1 DEF Moved
    <3> QED BY <1>3, <3>1, <3>2 DEF AlertComes, Alert
  <2> QED BY <2>1, <2>2
<1>4. ASSUME NEW i \in 1 .. Len(wire), Alert(wire[i]) /\ wire[i].n = a /\ wire[i].kind = "pmessage"
      PROVE  AlertComes(c, a)'
  <2>1. Len(wire) \in Nat /\ Len(wire') \in {Len(wire) + 1, Len(wire) + 2} /\ wire'[i] = wire[i]
    BY <1>1 DEF Moved
  <2>2. i \in 1 .. Len(wire')
    BY <2>1
  <2> QED BY <1>4, <2>1, <2>2 DEF AlertComes, Alert
<1>5. got[c][a] > 0 => AlertComes(c, a)'
  BY <1>2 DEF AlertComes
<1> QED BY <1>2, <1>3, <1>4, <1>5 DEF Owes, AlertComes, InRoom

LEMMA OwesDeliver ==
    ASSUME Sound, OneListener, NEW c \in Clients, NEW a \in 1 .. Alerts, Owes(c, a), Deliver
    PROVE  Owes(c, a)'
<1> USE DEF Sound
<1>1. PICK m \in Msg : Taken(m)
  BY DeliverTakes
<1>2. owed' = owed /\ queue' = queue /\ rooms' = rooms /\ m = Head(wire) /\ m = wire[1]
  BY <1>1 DEF Deliver, Taken
<1>3. PICK n \in {0, 1} : n = Heard(m) /\ (m.kind = "pmessage" => n = 1)
  BY HeardOnce
<1>4. PICK g \in [1 .. Alerts -> Nat] : g = got[c]
  BY DEF TypeOK
<1>5. got'[c] = IF Alert(m) /\ InRoom(c, "tenant") THEN [g EXCEPT ![m.n] = @ + n] ELSE g
  <2>1. CASE Alert(m)
    <3>1. got' = [d \in Clients |-> IF InRoom(d, "tenant")
                         THEN [got[d] EXCEPT ![m.n] = @ + n] ELSE got[d]]
      BY <1>2, <1>3, <2>1 DEF Deliver, Alert
    <3> QED BY <1>4, <2>1, <3>1
  <2>2. CASE ~Alert(m)
    BY <1>2, <1>4, <2>2 DEF Deliver, Alert
  <2> QED BY <2>1, <2>2
<1>6. g[a] > 0 => got'[c][a] > 0
  <2>1. PICK p : p = [g EXCEPT ![m.n] = @ + n]
    OBVIOUS
  <2>2. g[a] \in Nat /\ (a = m.n => p[a] = g[a] + n) /\ (a # m.n => p[a] = g[a])
    BY <2>1
  <2>3. g[a] > 0 => p[a] > 0
    BY <2>2
  <2> QED BY <1>5, <2>1, <2>3
<1>7. ASSUME Alert(m), m.n = a, m.kind = "pmessage", InRoom(c, "tenant") PROVE got'[c][a] > 0
  <2>1. PICK p : p = [g EXCEPT ![m.n] = @ + n]
    OBVIOUS
  <2>2. g[a] \in Nat /\ p[a] = g[a] + 1
    BY <1>3, <1>7, <2>1
  <2> QED BY <1>5, <1>7, <2>1, <2>2
<1>8. ASSUME NEW i \in 1 .. Len(wire), Alert(wire[i]) /\ wire[i].n = a /\ wire[i].kind = "pmessage",
             InRoom(c, "tenant")
      PROVE  AlertComes(c, a)'
  <2>1. CASE i = 1
    BY <1>2, <1>7, <1>8, <2>1 DEF AlertComes
  <2>2. CASE i # 1
    <3>1. i - 1 \in 1 .. Len(wire) - 1 /\ (i - 1) + 1 = i /\ i - 1 \in 1 .. Len(wire')
      BY <1>1, <2>2 DEF Taken
    <3>2. wire'[i - 1] = wire[i]
      BY <1>1, <3>1 DEF Taken
    <3> QED BY <1>8, <3>1, <3>2 DEF AlertComes, Alert
  <2> QED BY <2>1, <2>2
<1>9. (\E i \in 1 .. Len(queue) : Alert(queue[i]) /\ queue[i].n = a) => AlertComes(c, a)'
  BY <1>2 DEF AlertComes, Alert
<1>10. got[c][a] > 0 => AlertComes(c, a)'
  BY <1>4, <1>6 DEF AlertComes
<1> QED BY <1>2, <1>8, <1>9, <1>10 DEF Owes, AlertComes, InRoom

LEMMA OwesRest ==
    ASSUME Sound, NEW c \in Clients, NEW a \in 1 .. Alerts, Owes(c, a),
           UNCHANGED <<queue, wire>>,
           owed'[c].alerts = {} \/ (got'[c] = got[c] /\ owed'[c].alerts = owed[c].alerts),
           owed'[c].alerts # {} /\ InRoom(c, "tenant") => InRoom(c, "tenant")'
    PROVE  Owes(c, a)'
  BY DEF Owes, AlertComes, InRoom, Alert

LEMMA AlertsComingNext ==
    ASSUME Sound, OneListener, AlertsComing, [Next]_vars
    PROVE  AlertsComing'
<1>0. TypeOK /\ TypeOK'
  BY SoundNext DEF Sound
<1> SUFFICES ASSUME NEW c \in Clients, NEW a \in 1 .. Alerts PROVE Owes(c, a)'
  BY <1>0, AlertsArePrimed
<1>1. Owes(c, a)
  BY <1>0, AlertsAre
<1>2. CASE PublishReading \/ PublishAlert
  BY <1>1, <1>2, OwesPublished
<1>3. CASE Publish
  BY <1>1, <1>3, OwesPublish
<1>4. CASE Deliver
  BY <1>1, <1>4, OwesDeliver
<1>5. CASE UNCHANGED <<queue, wire, rooms, got, owed>>
  BY <1>1, <1>5, OwesRest DEF InRoom
<1>6. CASE LosePublish \/ LoseWire \/ Restart
  <2>1. owed'[c].alerts = {}
    BY <1>6 DEF LosePublish, LoseWire, Restart, Forget
  <2> QED BY <2>1 DEF Owes
<1>7. ASSUME NEW d \in Clients, Connect(d) PROVE Owes(c, a)'
  <2>1. InRoom(c, "tenant") => InRoom(c, "tenant")'
    BY <1>0, <1>7, InRooms DEF Connect, InRoom, TypeOK, Rooms
  <2> QED BY <1>1, <1>7, <2>1, OwesRest DEF Connect
<1>8. ASSUME NEW d \in Clients, Disconnect(d) PROVE Owes(c, a)'
  <2>1. CASE c = d
    <3>1. owed'[c].alerts = {}
      BY <1>8, <2>1 DEF Disconnect, Forget
    <3> QED BY <3>1 DEF Owes
  <2>2. CASE c # d
    <3>1. owed'[c] = owed[c] /\ got'[c] = got[c] /\ rooms'[c] = rooms[c]
      BY <1>8, <2>2 DEF Disconnect, Forget
    <3>2. UNCHANGED <<queue, wire>>
      BY <1>8 DEF Disconnect
    <3> QED BY <1>1, <3>1, <3>2, OwesRest DEF InRoom
  <2> QED BY <2>1, <2>2
<1>9. ASSUME NEW d \in Clients, NEW r \in Rooms, Subscribe(d, r) PROVE Owes(c, a)'
  <2>1. InRoom(c, "tenant") => InRoom(c, "tenant")'
    BY <1>0, <1>9 DEF Subscribe, InRoom, TypeOK
  <2> QED BY <1>1, <1>9, <2>1, OwesRest DEF Subscribe
<1>10. ASSUME NEW d \in Clients, NEW r \in Rooms, Unsubscribe(d, r) PROVE Owes(c, a)'
  <2>1. PICK o \in [reading : 0 .. Readings, alerts : SUBSET (1 .. Alerts)] : o = owed[d]
    BY <1>0 DEF TypeOK
  <2>2. /\ owed'[c].alerts = IF c = d /\ r = "tenant" THEN {} ELSE owed[c].alerts
        /\ rooms'[c] = IF c = d THEN rooms[c] \ {r} ELSE rooms[c]
    <3>1. PICK p : p = [reading |-> IF rooms'[d] = {} THEN 0 ELSE o.reading,
                        alerts |-> IF r = "tenant" THEN {} ELSE o.alerts]
      OBVIOUS
    <3>2. owed' = [owed EXCEPT ![d] = p] /\ rooms' = [rooms EXCEPT ![d] = @ \ {r}]
      BY <1>10, <2>1, <3>1 DEF Unsubscribe
    <3>3. p.alerts = IF r = "tenant" THEN {} ELSE o.alerts
      BY <3>1
    <3>4. owed'[c] = IF c = d THEN p ELSE owed[c]
      BY <1>0, <3>2 DEF TypeOK
    <3>5. rooms'[c] = IF c = d THEN rooms[c] \ {r} ELSE rooms[c]
      BY <1>0, <3>2 DEF TypeOK
    <3> QED BY <2>1, <3>3, <3>4, <3>5
  <2>3. owed'[c].alerts # {} /\ InRoom(c, "tenant") => InRoom(c, "tenant")'
    BY <2>2 DEF InRoom, Rooms
  <2> QED BY <1>1, <1>10, <2>2, <2>3, OwesRest DEF Unsubscribe
<1> QED BY <1>2, <1>3, <1>4, <1>5, <1>6, <1>7, <1>8, <1>9, <1>10
    DEF Next, vars, Flush, Attach, LoseSubscribe

-----------------------------------------------------------------------------
(* Readings that are owed.                                                 *)
Awaits(c) ==
    owed[c].reading > 0 => rooms[c] \notin {{}, {"gone"}} /\ Coming(c, owed[c].reading)

LEMMA ComingStays ==
    ASSUME NEW c, NEW n, Coming(c, n), UNCHANGED <<queue, wire, buffer>>, shown'[c] = shown[c]
    PROVE  Coming(c, n)'
  BY DEF Coming, Queued, Wired, Buffered, Seen, NoneQueued, NoneWired, Reading, Alert

LEMMA ComingReading ==
    ASSUME Sound, NEW c \in Clients, PublishReading,
           \A d \in Clients : Awaits(d)
    PROVE  Awaits(c)'
<1> USE DEF Sound
<1>1. PICK e \in Cmd : Added(e) /\ e.chan = "tenant" /\ e.n = sent["reading"] + 1 /\ e.n <= Readings
  BY ReadingAdded
<1>2. PICK o \in [reading : 0 .. Readings, alerts : SUBSET (1 .. Alerts)] : o = owed[c]
  BY DEF TypeOK
<1>3. rooms' = rooms
  BY DEF PublishReading
<1>4. CASE rooms[c] \in {{"gone"}, {}}
  <2>1. owed'[c] = owed[c]
    BY <1>4 DEF PublishReading
  <2> QED BY <1>3, <1>4, <2>1 DEF Awaits
<1>5. CASE rooms[c] \notin {{"gone"}, {}}
  <2>1. owed'[c] = [o EXCEPT !.reading = e.n]
    BY <1>1, <1>2, <1>5 DEF PublishReading
  <2>2. owed'[c].reading = e.n
    BY <2>1
  <2>3. Len(queue) + 1 \in 1 .. Len(queue') /\ queue'[Len(queue) + 1] = e /\ e.n >= e.n
    BY <1>1 DEF Added, Cmd
  <2>4. Queued(e.n)'
    BY <1>1, <2>3 DEF Queued, Reading
  <2>5. Coming(c, e.n)'
    BY <2>4 DEF Coming
  <2> QED BY <1>3, <1>5, <2>2, <2>5 DEF Awaits
<1> QED BY <1>4, <1>5

LEMMA ComingAlert ==
    ASSUME Sound, NEW c, NEW n, Coming(c, n), PublishAlert
    PROVE  Coming(c, n)'
<1> USE DEF Sound
<1>1. PICK e \in Cmd : Added(e) /\ e.chan = "alert" /\ e.n = sent["alert"] + 1 /\ e.n <= Alerts
  BY AlertAdded
<1>2. UNCHANGED <<wire, buffer, shown>>
  BY DEF PublishAlert
<1>3. NoneQueued => NoneQueued'
  BY <1>1 DEF NoneQueued, Added, Alert
<1>4. Queued(n) => Queued(n)'
  <2> SUFFICES ASSUME NEW i \in 1 .. Len(queue), Reading(queue[i]), queue[i].n >= n PROVE Queued(n)'
    BY DEF Queued
  <2>1. i \in 1 .. Len(queue') /\ queue'[i] = queue[i]
    BY <1>1 DEF Added
  <2> QED BY <2>1 DEF Queued, Reading
<1>5. /\ Wired(n) => Wired(n)'
      /\ Buffered(n) => Buffered(n)'
      /\ Seen(c, n) => Seen(c, n)'
  BY <1>2, <1>3 DEF Wired, Buffered, Seen, NoneWired, Reading, Alert
<1> QED BY <1>4, <1>5 DEF Coming

LEMMA ComingPublish ==
    ASSUME Sound, QueueOrder, NEW c, NEW n \in Nat, Coming(c, n), Publish
    PROVE  Coming(c, n)'
<1> USE DEF Sound
<1>1. PICK h \in Cmd : Moved(h)
  BY PublishMoves
<1>2. UNCHANGED <<buffer, shown>>
  BY DEF Publish
<1>3. 1 \in 1 .. Len(queue) /\ queue[1] = h /\ Len(queue) \in Nat \ {0}
  BY <1>1 DEF Moved
<1>4. ASSUME NEW i \in 2 .. Len(queue), Reading(queue[i]), queue[i].n >= n PROVE Queued(n)'
  <2>1. i - 1 \in 1 .. Len(queue) - 1 /\ (i - 1) + 1 = i /\ i - 1 \in 1 .. Len(queue')
    BY <1>1, <1>4 DEF Moved
  <2>2. queue'[i - 1] = queue[i]
    BY <1>1, <2>1 DEF Moved
  <2> QED BY <1>4, <2>1, <2>2 DEF Queued, Reading
<1>5. ASSUME h.chan = "tenant", h.n >= n PROVE Queued(n)'
  <2>1. Len(queue) \in 1 .. Len(queue') /\ queue'[Len(queue)].chan = "sensor" /\ queue'[Len(queue)].n = h.n
    BY <1>1, <1>3, <1>5 DEF Moved
  <2> QED BY <1>5, <2>1 DEF Queued, Reading
<1>6. ASSUME h.chan = "sensor", h.n >= n, ~\E i \in 2 .. Len(queue) : Reading(queue[i]) /\ queue[i].n >= n
      PROVE  Wired(n)'
  <2>1. ASSUME NEW i \in 2 .. Len(queue) PROVE Alert(queue[i])
    <3>1. SUFFICES ASSUME Reading(queue[i]) PROVE FALSE
      BY DEF Reading, Alert
    <3>2. PICK x \in Cmd : x = queue[i]
      BY Elements, <1>3
    <3>3. i \in 1 .. Len(queue) /\ 1 < i
      BY <1>3
    <3>4. h.n < x.n
      BY <1>3, <1>6, <3>1, <3>2, <3>3 DEF QueueOrder, Reading, Cmd, Channels
    <3>5. x.n >= n
      BY <1>6, <3>4 DEF Cmd
    <3> QED BY <1>6, <3>1, <3>2, <3>5
  <2>2. NoneQueued'
    <3> SUFFICES ASSUME NEW i \in 1 .. Len(queue') PROVE Alert(queue'[i])
      BY DEF NoneQueued, Alert
    <3>1. i \in 1 .. Len(queue) - 1 /\ i + 1 \in 2 .. Len(queue) /\ queue'[i] = queue[i + 1]
      BY <1>1, <1>3, <1>6 DEF Moved
    <3> QED BY <2>1, <3>1
  <2>3. /\ Len(wire') \in 1 .. Len(wire') /\ Len(wire') \in Len(wire) + 1 .. Len(wire')
        /\ \A j \in Len(wire') + 1 .. Len(wire') : FALSE
    BY <1>1 DEF Moved
  <2>4. /\ wire'[Len(wire')].chan = h.chan /\ wire'[Len(wire')].n = h.n
        /\ wire'[Len(wire')].kind = "pmessage"
    BY <1>1, <2>3 DEF Moved
  <2>5. \E i \in 1 .. Len(wire') :
          /\ Reading(wire'[i]) /\ wire'[i].n >= n /\ wire'[i].kind = "pmessage"
          /\ \A j \in i + 1 .. Len(wire') : Alert(wire'[j])
    BY <1>6, <2>3, <2>4 DEF Reading
  <2> QED BY <2>2, <2>5 DEF Wired, Reading, Alert
<1>7. CASE Queued(n)
  <2>1. PICK i \in 1 .. Len(queue) : Reading(queue[i]) /\ queue[i].n >= n
    BY <1>7 DEF Queued
  <2>2. CASE \E j \in 2 .. Len(queue) : Reading(queue[j]) /\ queue[j].n >= n
    BY <1>4, <2>2 DEF Coming
  <2>3. CASE ~\E j \in 2 .. Len(queue) : Reading(queue[j]) /\ queue[j].n >= n
    <3>1. i = 1
      BY <1>3, <2>1, <2>3
    <3>2. h.chan \in {"tenant", "sensor"} /\ h.n >= n
      BY <1>3, <2>1, <3>1 DEF Reading, Cmd, Channels
    <3> QED BY <1>5, <1>6, <2>3, <3>2 DEF Coming
  <2> QED BY <2>2, <2>3
<1>8. CASE NoneQueued
  <2>1. h.chan = "alert"
    BY <1>3, <1>8 DEF NoneQueued, Alert
  <2>2. NoneQueued'
    <3> SUFFICES ASSUME NEW i \in 1 .. Len(queue') PROVE Alert(queue'[i])
      BY DEF NoneQueued, Alert
    <3>1. i + 1 \in 1 .. Len(queue) /\ queue'[i] = queue[i + 1]
      BY <1>1, <1>3, <2>1 DEF Moved
    <3> QED BY <1>8, <3>1 DEF NoneQueued
  <2>3. \A j \in 1 .. Len(wire') : (j \in 1 .. Len(wire) /\ wire'[j] = wire[j]) \/ Alert(wire'[j])
    BY <1>1, <2>1 DEF Moved, Alert
  <2>4. CASE Wired(n)
    <3>1. PICK i \in 1 .. Len(wire) : /\ Reading(wire[i]) /\ wire[i].n >= n /\ wire[i].kind = "pmessage"
                                      /\ \A j \in i + 1 .. Len(wire) : Alert(wire[j])
      BY <2>4 DEF Wired
    <3>2. i \in 1 .. Len(wire') /\ wire'[i] = wire[i]
      BY <1>1 DEF Moved
    <3>3. ASSUME NEW j \in i + 1 .. Len(wire') PROVE Alert(wire'[j])
      <4>1. j \in 1 .. Len(wire') /\ (j \in 1 .. Len(wire) => j \in i + 1 .. Len(wire))
        BY <1>1, <3>3 DEF Moved
      <4> QED BY <2>3, <3>1, <4>1
    <3>4. Wired(n)'
      BY <2>2, <3>1, <3>2, <3>3 DEF Wired, Reading, Alert
    <3> QED BY <3>4 DEF Coming
  <2>5. NoneWired => NoneWired'
    BY <2>3 DEF NoneWired, Alert
  <2>6. CASE Buffered(n) \/ Seen(c, n)
    BY <1>2, <2>2, <2>5, <2>6 DEF Buffered, Seen, Coming
  <2>7. Queued(n) \/ Wired(n) \/ Buffered(n) \/ Seen(c, n)
    BY DEF Coming
  <2> QED BY <1>7, <2>4, <2>6, <2>7
<1> QED BY <1>7, <1>8 DEF Coming, Wired, Buffered, Seen

LEMMA ComingDeliver ==
    ASSUME Sound, OneListener, NEW c, NEW n \in Nat, Coming(c, n), Deliver
    PROVE  Coming(c, n)'
<1> USE DEF Sound
<1>1. PICK m \in Msg : Taken(m)
  BY DeliverTakes
<1>2. queue' = queue /\ shown' = shown /\ m = Head(wire) /\ m = wire[1] /\ 1 \in 1 .. Len(wire)
  BY <1>1 DEF Deliver, Taken
<1>3. \A i \in 1 .. Len(wire') : i + 1 \in 2 .. Len(wire) /\ i + 1 \in 1 .. Len(wire) /\ wire'[i] = wire[i + 1]
  BY <1>1 DEF Taken
<1>4. Queued(n) => Queued(n)'
  BY <1>2 DEF Queued, Reading
<1>5. NoneQueued => NoneQueued'
  BY <1>2 DEF NoneQueued, Alert
<1>6. CASE Wired(n)
  <2>1. PICK i \in 1 .. Len(wire) : /\ Reading(wire[i]) /\ wire[i].n >= n /\ wire[i].kind = "pmessage"
                                    /\ \A j \in i + 1 .. Len(wire) : Alert(wire[j])
    BY <1>6 DEF Wired
  <2>2. CASE i = 1
    <3>1. buffer' = Buffer(buffer, RoomsFed(m), m.n)
      BY <1>2, <2>1, <2>2, HeardOnce DEF Deliver, Reading
    <3>2. \A r \in Rooms : buffer'[r] = m.n
      BY <1>2, <2>1, <2>2, <3>1 DEF Buffer, RoomsFed
    <3>3. \A r \in Rooms : buffer'[r] >= n
      BY <1>2, <2>1, <2>2, <3>2
    <3>4. NoneWired'
      BY <1>3, <2>1, <2>2 DEF NoneWired, Alert
    <3>5. Buffered(n)'
      BY <1>5, <1>6, <3>3, <3>4 DEF Buffered, Wired
    <3> QED BY <3>5 DEF Coming
  <2>3. CASE i # 1
    <3>1. i - 1 \in 1 .. Len(wire') /\ (i - 1) + 1 = i
      BY <1>1, <2>3 DEF Taken
    <3>2. wire'[i - 1] = wire[i]
      BY <1>3, <3>1
    <3>3. ASSUME NEW j \in (i - 1) + 1 .. Len(wire') PROVE Alert(wire'[j])
      <4>1. j \in 1 .. Len(wire') /\ j + 1 \in i + 1 .. Len(wire)
        BY <1>1, <3>1, <3>3 DEF Taken
      <4> QED BY <1>3, <2>1, <4>1
    <3>4. Wired(n)'
      BY <1>5, <1>6, <2>1, <3>1, <3>2, <3>3 DEF Wired, Reading, Alert
    <3> QED BY <3>4 DEF Coming
  <2> QED BY <2>2, <2>3
<1>7. CASE Buffered(n) \/ Seen(c, n)
  <2>1. m.chan = "alert" /\ NoneWired'
    BY <1>2, <1>3, <1>7 DEF Buffered, Seen, NoneWired, Alert
  <2>2. buffer' = buffer
    BY <1>2, <2>1 DEF Deliver
  <2> QED BY <1>2, <1>5, <1>7, <2>1, <2>2 DEF Buffered, Seen, Coming
<1> QED BY <1>4, <1>6, <1>7 DEF Coming

LEMMA ComingFlush ==
    ASSUME Sound, NEW c \in Clients, rooms[c] \notin {{}, {"gone"}}, NEW n \in Nat, n > 0, Coming(c, n), Flush
    PROVE  Coming(c, n)'
<1> USE DEF Sound
<1>1. UNCHANGED <<queue, wire>> /\ \A r \in Rooms : buffer'[r] = 0
  BY DEF Flush
<1>2. /\ Queued(n) => Queued(n)'
      /\ Wired(n) => Wired(n)'
      /\ NoneQueued => NoneQueued'
      /\ NoneWired => NoneWired'
  BY <1>1 DEF Queued, Wired, NoneQueued, NoneWired, Reading, Alert
<1>3. CASE Buffered(n)
  <2> DEFINE mine == {r \in Rooms : InRoom(c, r) /\ buffer[r] > 0}
  <2>1. PICK last \in Rooms :
          shown'[c] = IF mine = {} THEN shown[c]
                      ELSE buffer[IF last \in mine THEN last ELSE CHOOSE r \in mine : TRUE]
    BY DEF Flush
  <2>2. \A r \in Rooms : buffer[r] > 0
    BY <1>3 DEF Buffered, TypeOK
  <2>3. mine # {}
    BY <2>2 DEF TypeOK, InRoom, Rooms
  <2>4. \E r \in Rooms : shown'[c] = buffer[r]
    BY <2>1, <2>3
  <2>5. shown'[c] >= n
    BY <1>3, <2>4 DEF Buffered
  <2> QED BY <1>1, <1>2, <1>3, <2>5 DEF Buffered, Seen, Coming
<1>4. CASE Seen(c, n)
  BY <1>4 DEF Seen, Flush
<1> QED BY <1>2, <1>3, <1>4 DEF Coming

LEMMA ReadingsComingNext ==
    ASSUME Sound, OneListener, QueueOrder, ReadingsComing, [Next]_vars
    PROVE  ReadingsComing'
<1>0. TypeOK
  BY DEF Sound
<1> SUFFICES ASSUME NEW c \in Clients PROVE Awaits(c)'
  BY DEF ReadingsComing, Awaits
<1>1. \A d \in Clients : Awaits(d)
  BY DEF ReadingsComing, Awaits
<1>2. PICK o \in [reading : 0 .. Readings, alerts : SUBSET (1 .. Alerts)] : o = owed[c]
  BY <1>0 DEF TypeOK
<1>3. PICK n \in Nat : n = owed[c].reading
  BY <1>2
<1>4. ASSUME owed'[c].reading = n,
             n > 0 /\ rooms[c] \notin {{}, {"gone"}} /\ Coming(c, n) =>
               rooms'[c] \notin {{}, {"gone"}} /\ Coming(c, n)'
      PROVE  Awaits(c)'
  BY <1>1, <1>3, <1>4 DEF Awaits
<1>5. CASE PublishReading
  BY <1>1, <1>5, ComingReading
<1>6. CASE PublishAlert
  <2>1. owed'[c].reading = n
    BY <1>2, <1>3, <1>6 DEF PublishAlert
  <2> QED BY <1>4, <1>6, <2>1, ComingAlert DEF PublishAlert
<1>7. CASE Publish
  BY <1>3, <1>4, <1>7, ComingPublish DEF Publish
<1>8. CASE Deliver
  BY <1>3, <1>4, <1>8, ComingDeliver DEF Deliver
<1>9. CASE Flush
  BY <1>3, <1>4, <1>9, ComingFlush DEF Flush
<1>10. CASE UNCHANGED <<queue, wire, buffer, shown, rooms, owed>>
  BY <1>3, <1>4, <1>10, ComingStays
<1>11. CASE LosePublish \/ LoseWire \/ Restart
  <2>1. owed'[c].reading = 0
    BY <1>11 DEF LosePublish, LoseWire, Restart, Forget
  <2> QED BY <2>1 DEF Awaits
<1>12. ASSUME NEW d \in Clients, Connect(d) PROVE Awaits(c)'
  <2>1. rooms[c] # {"gone"} => rooms'[c] = rooms[c]
    BY <1>0, <1>12, InRooms DEF Connect, TypeOK
  <2>2. UNCHANGED <<queue, wire, buffer, shown, owed>>
    BY <1>12 DEF Connect
  <2> QED BY <1>3, <1>4, <2>1, <2>2, ComingStays
<1>13. ASSUME NEW d \in Clients, Disconnect(d) PROVE Awaits(c)'
  <2>1. UNCHANGED <<queue, wire, buffer>>
    BY <1>13 DEF Disconnect
  <2>2. CASE c = d
    <3>1. owed'[c].reading = 0
      BY <1>13, <2>2 DEF Disconnect, Forget
    <3> QED BY <3>1 DEF Awaits
  <2>3. CASE c # d
    <3>1. owed'[c] = owed[c] /\ shown'[c] = shown[c] /\ rooms'[c] = rooms[c]
      BY <1>13, <2>3 DEF Disconnect, Forget
    <3> QED BY <1>3, <1>4, <2>1, <3>1, ComingStays
  <2> QED BY <2>2, <2>3
<1>14. ASSUME NEW d \in Clients, NEW r \in Rooms, Subscribe(d, r) PROVE Awaits(c)'
  <2>1. UNCHANGED <<queue, wire, buffer, shown, owed>>
    BY <1>14 DEF Subscribe
  <2>2. rooms'[c] = rooms[c] \/ (r \in rooms'[c] /\ r # "gone")
    BY <1>0, <1>14 DEF Subscribe, TypeOK, Rooms
  <2> QED BY <1>3, <1>4, <2>1, <2>2, ComingStays
<1>15. ASSUME NEW d \in Clients, NEW r \in Rooms, Unsubscribe(d, r) PROVE Awaits(c)'
  <2>1. UNCHANGED <<queue, wire, buffer, shown>>
    BY <1>15 DEF Unsubscribe
  <2>2. CASE c # d
    <3>1. owed'[c] = owed[c] /\ rooms'[c] = rooms[c]
      BY <1>0, <1>15, <2>2 DEF Unsubscribe, TypeOK
    <3> QED BY <1>3, <1>4, <2>1, <3>1, ComingStays
  <2>3. CASE c = d
    <3>1. PICK p : p = [reading |-> IF rooms'[c] = {} THEN 0 ELSE o.reading,
                        alerts |-> IF r = "tenant" THEN {} ELSE o.alerts]
      OBVIOUS
    <3>2. owed' = [owed EXCEPT ![c] = p]
      BY <1>2, <1>15, <2>3, <3>1 DEF Unsubscribe
    <3>3. owed'[c].reading = IF rooms'[c] = {} THEN 0 ELSE o.reading
      BY <1>0, <3>1, <3>2 DEF TypeOK
    <3>4. rooms'[c] = rooms[c] \ {r} /\ r \in rooms[c] /\ rooms[c] \subseteq Rooms
      BY <1>0, <1>15, <2>3, InRooms DEF Unsubscribe, InRoom, TypeOK
    <3>5. CASE rooms'[c] = {}
      BY <3>3, <3>5 DEF Awaits
    <3>6. CASE rooms'[c] # {}
      <4>1. rooms'[c] # {"gone"}
        BY <3>4 DEF Rooms
      <4> QED BY <1>2, <1>3, <1>4, <2>1, <3>3, <3>6, <4>1, ComingStays
    <3> QED BY <3>5, <3>6
  <2> QED BY <2>2, <2>3
<1> QED BY <1>5, <1>6, <1>7, <1>8, <1>9, <1>10, <1>11, <1>12, <1>13, <1>14, <1>15
    DEF Next, vars, Attach, LoseSubscribe

LEMMA OwedCaughtUp ==
    ASSUME TypeOK, OwedInv
    PROVE  CaughtUp
<1> SUFFICES ASSUME queue = <<>>, wire = <<>>, \A r \in Rooms : buffer[r] = 0, NEW c \in Clients
             PROVE  /\ shown[c] >= owed[c].reading
                    /\ \A a \in owed[c].alerts : got[c][a] > 0
  BY DEF CaughtUp
<1>1. Len(queue) = 0 /\ Len(wire) = 0
  BY EmptySeq
<1>2. \A a \in owed[c].alerts : got[c][a] > 0
  BY <1>1 DEF OwedInv, AlertsComing
<1>3. owed[c].reading \in Nat /\ shown[c] \in Nat
  BY DEF TypeOK
<1>4. CASE owed[c].reading > 0
  <2>1. Coming(c, owed[c].reading)
    BY <1>4 DEF OwedInv, ReadingsComing
  <2>2. ~Queued(owed[c].reading) /\ ~Wired(owed[c].reading)
    BY <1>1 DEF Queued, Wired
  <2>3. ~Buffered(owed[c].reading)
    BY <1>3, <1>4 DEF Buffered, Rooms
  <2> QED BY <1>2, <2>1, <2>2, <2>3 DEF Coming, Seen
<1> QED BY <1>2, <1>3, <1>4

(* Once nothing is on its way any more, every client that stayed in a room *)
(* shows the newest reading published meanwhile and has every alert, in    *)
(* whatever order subscriptions, publications and flushes came.            *)
THEOREM CaughtUpCorrect == Spec => []CaughtUp
<1> DEFINE Inv == OneListener /\ OwedInv
<1>1. Init => Inv
  <2> SUFFICES ASSUME Init PROVE Inv
    OBVIOUS
  <2>1. OneListener
    BY DEF Init, OneListener
  <2>2. QueueOrder /\ AlertsComing /\ ReadingsComing
    BY EmptySeq DEF Init, QueueOrder, AlertsComing, ReadingsComing
  <2> QED BY <2>1, <2>2 DEF OwedInv
<1>2. Sound /\ Inv /\ [Next]_vars => Inv'
  BY ListenerNext, QueueOrderNext, AlertsComingNext, ReadingsComingNext DEF OwedInv, Sound
<1>3. Sound /\ Inv => CaughtUp
  BY OwedCaughtUp DEF Sound
<1> QED BY <1>1, <1>2, <1>3, AlwaysSound, PTL DEF Spec

-----------------------------------------------------------------------------
(* Readings in order.                                                      *)
LEMMA OrderReading ==
    ASSUME Sound, Ordered, PublishReading, ~overlapped'
    PROVE  Ordered'
<1> USE DEF Sound
<1>1. PICK e \in Cmd : Added(e) /\ e.chan = "tenant" /\ e.n = sent["reading"] + 1 /\ e.n <= Readings
  BY ReadingAdded
<1>2. wire' = wire /\ buffer' = buffer /\ shown' = shown
  BY DEF PublishReading
<1>3. sent'["reading"] = sent["reading"] + 1 /\ sent["reading"] \in Nat /\ e.n \in Nat
  BY <1>1 DEF PublishReading, TypeOK, Cmd
<1>4. \A i \in 1 .. Len(queue) : Alert(queue[i])
  <2>1. DOMAIN queue = 1 .. Len(queue)
    BY LenProperties DEF TypeOK
  <2> QED BY <2>1 DEF PublishReading, Alert
<1>5. \A i \in 1 .. Len(queue') : \/ Alert(queue'[i])
                                  \/ i = Len(queue) + 1 /\ queue'[i] = e
  BY <1>1, <1>4 DEF Added
<1>6. ASSUME NEW i \in 1 .. Len(wire), Reading(wire[i]) PROVE wire[i].n <= e.n
  <2>1. PICK x \in Msg : x = wire[i]
    BY Elements
  <2>2. x.n <= sent["reading"]
    BY <1>6, <2>1 DEF Published, NumberOf
  <2> QED BY <1>1, <1>3, <2>1, <2>2 DEF Msg
<1>7. OneQueued'
  BY <1>5 DEF OneQueued, Reading, Alert
<1>8. WireOrder'
  BY <1>2, <1>5, <1>6 DEF Ordered, WireOrder, Reading, Alert
<1>9. NothingOlder'
  <2>1. ASSUME NEW n \in Nat, NotNewer(n) PROVE NotNewer(n)'
    <3>1. n <= sent["reading"]
      BY <2>1 DEF NotNewer
    <3>2. n <= e.n /\ n <= sent'["reading"]
      BY <1>1, <1>3, <3>1
    <3> QED BY <1>2, <1>5, <2>1, <3>2 DEF NotNewer, Reading, Alert
  <2>2. \A r \in Rooms : \A n \in Nat : n = buffer[r] => NotNewer(n)'
    BY <2>1 DEF Ordered, NothingOlder
  <2>3. \A c \in Clients : \A n \in Nat : n = shown[c] => NotNewer(n)'
    BY <2>1 DEF Ordered, NothingOlder
  <2>4. (\A r \in Rooms : buffer[r] \in Nat) /\ (\A c \in Clients : shown[c] \in Nat)
    BY DEF TypeOK
  <2> QED BY <1>2, <2>2, <2>3, <2>4 DEF NothingOlder, NotNewer
<1>10. BothFed'
  BY <1>1, <1>2, <1>5 DEF Ordered, BothFed, Fed, Reading, Alert
<1>11. BufferOrder'
  BY <1>2 DEF Ordered, BufferOrder
<1> QED BY <1>7, <1>8, <1>9, <1>10, <1>11 DEF Ordered

LEMMA OrderAlert ==
    ASSUME Sound, Ordered, PublishAlert
    PROVE  Ordered'
<1> USE DEF Sound
<1>1. PICK e \in Cmd : Added(e) /\ e.chan = "alert" /\ e.n = sent["alert"] + 1 /\ e.n <= Alerts
  BY AlertAdded
<1>2. wire' = wire /\ buffer' = buffer /\ shown' = shown /\ sent'["reading"] = sent["reading"]
  BY DEF PublishAlert, TypeOK
<1>3. \A i \in 1 .. Len(queue') : \/ Alert(queue'[i])
                                  \/ i \in 1 .. Len(queue) /\ queue'[i] = queue[i]
  BY <1>1 DEF Added, Alert
<1>4. OneQueued'
  BY <1>3 DEF Ordered, OneQueued, Reading, Alert
<1>5. WireOrder'
  BY <1>2, <1>3 DEF Ordered, WireOrder, Reading, Alert
<1>6. NothingOlder'
  BY <1>2, <1>3 DEF Ordered, NothingOlder, NotNewer, Reading, Alert
<1>7. BothFed'
  BY <1>2, <1>3 DEF Ordered, BothFed, Fed, Reading, Alert
<1>8. BufferOrder'
  BY <1>2 DEF Ordered, BufferOrder
<1> QED BY <1>4, <1>5, <1>6, <1>7, <1>8 DEF Ordered

LEMMA OrderPublish ==
    ASSUME Sound, Ordered, Publish
    PROVE  Ordered'
<1> USE DEF Sound
<1>1. PICK h \in Cmd : Moved(h)
  BY PublishMoves
<1>2. buffer' = buffer /\ shown' = shown /\ sent' = sent
  BY DEF Publish
<1>3. 1 \in 1 .. Len(queue) /\ queue[1] = h /\ Len(queue) \in Nat \ {0} /\ Len(wire) \in Nat /\ h.n \in Nat
  BY <1>1 DEF Moved, Cmd
<1>4. \A i \in 1 .. Len(queue') :
        \/ i + 1 \in 2 .. Len(queue) /\ queue'[i] = queue[i + 1]
        \/ h.chan = "tenant" /\ i = Len(queue) /\ queue'[i].chan = "sensor" /\ queue'[i].n = h.n
  BY <1>1 DEF Moved
<1>5. \A j \in 1 .. Len(wire') :
        \/ j \in 1 .. Len(wire) /\ wire'[j] = wire[j]
        \/ /\ j \in Len(wire) + 1 .. Len(wire') /\ wire'[j].chan = h.chan /\ wire'[j].n = h.n
           /\ wire'[j].kind = IF j = Len(wire') THEN "pmessage" ELSE "message"
  BY <1>1 DEF Moved
<1>6. ASSUME Reading(h) PROVE \A i \in 2 .. Len(queue) : Alert(queue[i])
  BY <1>3, <1>6 DEF Ordered, OneQueued, Reading, Alert
<1>7. ASSUME Reading(h), NEW i \in 1 .. Len(queue'), Reading(queue'[i])
      PROVE  h.chan = "tenant" /\ i = Len(queue) /\ queue'[i].chan = "sensor" /\ queue'[i].n = h.n
  BY <1>4, <1>6, <1>7 DEF Reading, Alert
<1>8. ASSUME Alert(h), NEW i \in 1 .. Len(queue')
      PROVE  i + 1 \in 1 .. Len(queue) /\ queue'[i] = queue[i + 1]
  BY <1>3, <1>4, <1>8 DEF Alert
<1>9. ASSUME Alert(h), NEW j \in 1 .. Len(wire'), Reading(wire'[j])
      PROVE  j \in 1 .. Len(wire) /\ wire'[j] = wire[j]
  BY <1>5, <1>9 DEF Reading, Alert
<1>10. OneQueued'
  <2> SUFFICES ASSUME NEW i \in 1 .. Len(queue'), NEW j \in 1 .. Len(queue'),
                      Reading(queue'[i]), Reading(queue'[j])
               PROVE  i = j
    BY DEF OneQueued, Reading
  <2>1. CASE Reading(h)
    BY <1>7, <2>1
  <2>2. CASE Alert(h)
    <3>1. i + 1 = j + 1
      BY <1>8, <2>2 DEF Ordered, OneQueued
    <3> QED BY <3>1
  <2> QED BY <2>1, <2>2 DEF Reading, Alert
<1>11. WireOrder'
  <2>1. ASSUME NEW i \in 1 .. Len(wire), Reading(wire[i]), Reading(h) PROVE wire[i].n <= h.n
    BY <1>3, <2>1 DEF Ordered, WireOrder
  <2>2. ASSUME NEW i \in 1 .. Len(wire'), Reading(wire'[i]), NEW j \in 1 .. Len(wire'), Reading(wire'[j]), i < j
        PROVE  wire'[i].n <= wire'[j].n
    <3>1. CASE j \in 1 .. Len(wire) /\ wire'[j] = wire[j]
      <4>1. i \in 1 .. Len(wire) /\ wire'[i] = wire[i]
        BY <1>3, <1>5, <2>2, <3>1
      <4> QED BY <2>2, <3>1, <4>1 DEF Ordered, WireOrder
    <3>2. CASE wire'[j].chan = h.chan /\ wire'[j].n = h.n
      BY <1>3, <1>5, <2>1, <2>2, <3>2 DEF Reading
    <3> QED BY <1>5, <3>1, <3>2
  <2>3. ASSUME NEW i \in 1 .. Len(wire'), Reading(wire'[i]), NEW j \in 1 .. Len(queue'), Reading(queue'[j])
        PROVE  wire'[i].n <= queue'[j].n
    <3>1. CASE Reading(h)
      BY <1>3, <1>5, <1>7, <2>1, <2>3, <3>1
    <3>2. CASE Alert(h)
      BY <1>8, <1>9, <2>3, <3>2 DEF Ordered, WireOrder
    <3> QED BY <3>1, <3>2 DEF Reading, Alert
  <2> QED BY <2>2, <2>3 DEF WireOrder, Reading
<1>12. NothingOlder'
  <2>1. ASSUME NEW n \in Nat, NotNewer(n) PROVE NotNewer(n)'
    <3>1. Reading(h) => n <= h.n
      BY <1>3, <2>1 DEF NotNewer
    <3>2. ASSUME NEW i \in 1 .. Len(wire'), Reading(wire'[i]) PROVE n <= wire'[i].n
      BY <1>5, <2>1, <3>1, <3>2 DEF NotNewer, Reading
    <3>3. ASSUME NEW i \in 1 .. Len(queue'), Reading(queue'[i]) PROVE n <= queue'[i].n
      <4>1. CASE Reading(h)
        BY <1>7, <3>1, <3>3, <4>1
      <4>2. CASE Alert(h)
        BY <1>8, <2>1, <3>3, <4>2 DEF NotNewer
      <4> QED BY <4>1, <4>2 DEF Reading, Alert
    <3> QED BY <1>2, <2>1, <3>2, <3>3 DEF NotNewer, Reading
  <2>2. (\A r \in Rooms : buffer[r] \in Nat) /\ (\A c \in Clients : shown[c] \in Nat)
    BY DEF TypeOK
  <2>3. \A r \in Rooms : \A n \in Nat : n = buffer[r] => NotNewer(n)'
    BY <2>1 DEF Ordered, NothingOlder
  <2>4. \A c \in Clients : \A n \in Nat : n = shown[c] => NotNewer(n)'
    BY <2>1 DEF Ordered, NothingOlder
  <2> QED BY <1>2, <2>2, <2>3, <2>4 DEF NothingOlder, NotNewer
<1>13. BothFed'
  <2>1. ASSUME NEW n, NEW k \in 0 .. Len(wire), Fed(n, k) PROVE Fed(n, k)'
    <3>1. \A j \in 1 .. k : j \in 1 .. Len(wire) /\ wire'[j] = wire[j]
      BY <1>1, <1>3 DEF Moved
    <3> QED BY <1>2, <2>1, <3>1 DEF Fed, Reading
  <2>2. ASSUME NEW i \in 1 .. Len(wire'), wire'[i].chan = "sensor" PROVE \E n : n = wire'[i].n /\ Fed(n, i - 1)'
    <3>1. CASE i \in 1 .. Len(wire) /\ wire'[i] = wire[i]
      <4>1. Fed(wire[i].n, i - 1) /\ i - 1 \in 0 .. Len(wire)
        BY <1>3, <2>2, <3>1 DEF Ordered, BothFed
      <4>2. PICK n : n = wire[i].n
        OBVIOUS
      <4> QED BY <2>1, <3>1, <4>1, <4>2
    <3>2. CASE i \in Len(wire) + 1 .. Len(wire') /\ wire'[i].chan = h.chan /\ wire'[i].n = h.n
      <4>1. PICK n : n = h.n
        OBVIOUS
      <4>2. Fed(n, Len(wire))
        BY <1>3, <2>2, <3>2, <4>1 DEF Ordered, BothFed
      <4>3. CASE \E j \in 1 .. Len(wire) : wire[j].chan = "tenant" /\ wire[j].kind = "pmessage" /\ wire[j].n = n
        <5>1. PICK j \in 1 .. Len(wire) : wire[j].chan = "tenant" /\ wire[j].kind = "pmessage" /\ wire[j].n = n
          BY <4>3
        <5>2. j \in 1 .. i - 1 /\ wire'[j] = wire[j]
          BY <1>1, <1>3, <3>2 DEF Moved
        <5>3. Fed(n, i - 1)'
          BY <5>1, <5>2 DEF Fed
        <5> QED BY <3>2, <4>1, <5>3
      <4>4. CASE /\ \A r \in Rooms : buffer[r] \in {0, n}
                 /\ \A j \in 1 .. Len(wire) : Reading(wire[j]) => wire[j].n = n
        <5>1. ASSUME NEW j \in 1 .. i - 1, Reading(wire'[j]) PROVE wire'[j].n = n
          <6>1. j \in 1 .. Len(wire')
            BY <1>3, <3>2
          <6> QED BY <1>5, <4>1, <4>4, <5>1, <6>1
        <5>2. Fed(n, i - 1)'
          BY <1>2, <4>4, <5>1 DEF Fed, Reading
        <5> QED BY <3>2, <4>1, <5>2
      <4> QED BY <4>2, <4>3, <4>4 DEF Fed
    <3> QED BY <1>5, <3>1, <3>2
  <2>0. PICK l \in Nat : l = Len(wire')
    BY <1>1, <1>3 DEF Moved
  <2>3. ASSUME NEW i \in 1 .. Len(queue'), queue'[i].chan = "sensor"
        PROVE  \E n : n = queue'[i].n /\ Fed(n, l)'
    <3>1. CASE h.chan = "tenant"
      <4>1. queue'[i].n = h.n
        BY <1>7, <2>3, <3>1 DEF Reading
      <4>2. Len(wire') \in Len(wire) + 1 .. Len(wire') /\ Len(wire') \in 1 .. Len(wire')
        BY <1>1, <1>3 DEF Moved
      <4>3. wire'[Len(wire')].chan = "tenant" /\ wire'[Len(wire')].n = h.n /\ wire'[Len(wire')].kind = "pmessage"
        BY <1>1, <3>1, <4>2 DEF Moved
      <4>4. PICK n : n = h.n
        OBVIOUS
      <4>5. Fed(n, l)'
        BY <2>0, <4>2, <4>3, <4>4 DEF Fed
      <4> QED BY <4>1, <4>4, <4>5
    <3>2. CASE h.chan = "sensor"
      BY <1>7, <2>3, <3>2 DEF Reading
    <3>3. CASE Alert(h)
      <4>1. i + 1 \in 1 .. Len(queue) /\ queue'[i] = queue[i + 1]
        BY <1>8, <3>3
      <4>2. PICK n : n = queue[i + 1].n
        OBVIOUS
      <4>3. Fed(n, Len(wire))
        BY <2>3, <4>1, <4>2 DEF Ordered, BothFed
      <4>4. CASE \E j \in 1 .. Len(wire) : wire[j].chan = "tenant" /\ wire[j].kind = "pmessage" /\ wire[j].n = n
        <5>1. PICK j \in 1 .. Len(wire) : wire[j].chan = "tenant" /\ wire[j].kind = "pmessage" /\ wire[j].n = n
          BY <4>4
        <5>2. j \in 1 .. Len(wire') /\ wire'[j] = wire[j]
          BY <1>1, <1>3 DEF Moved
        <5>3. Fed(n, l)'
          BY <2>0, <5>1, <5>2 DEF Fed
        <5> QED BY <4>1, <4>2, <5>3
      <4>5. CASE /\ \A r \in Rooms : buffer[r] \in {0, n}
                 /\ \A j \in 1 .. Len(wire) : Reading(wire[j]) => wire[j].n = n
        <5>1. \A j \in 1 .. Len(wire') : Reading(wire'[j]) => wire'[j].n = n
          BY <1>9, <3>3, <4>5
        <5>2. Fed(n, l)'
          BY <1>2, <2>0, <4>5, <5>1 DEF Fed, Reading
        <5> QED BY <4>1, <4>2, <5>2
      <4> QED BY <4>3, <4>4, <4>5 DEF Fed
    <3> QED BY <3>1, <3>2, <3>3 DEF Alert, Cmd, Channels
  <2>4. ASSUME NEW i \in 1 .. Len(queue'), queue'[i].chan = "sensor"
        PROVE  \E n : n = queue'[i].n /\ \E k : k = Len(wire') /\ Fed(n, k)'
    BY <2>0, <2>3, <2>4
  <2> QED BY <2>2, <2>4 DEF BothFed, Fed
<1>14. BufferOrder'
  BY <1>2 DEF Ordered, BufferOrder
<1> QED BY <1>10, <1>11, <1>12, <1>13, <1>14 DEF Ordered

LEMMA NumbersNat ==
    ASSUME TypeOK
    PROVE  /\ \A i \in 1 .. Len(wire) : 0 <= wire[i].n
           /\ \A i \in 1 .. Len(queue) : 0 <= queue[i].n
           /\ 0 <= sent["reading"]
<1>1. ASSUME NEW i \in 1 .. Len(wire) PROVE 0 <= wire[i].n
  <2>1. PICK x \in Msg : x = wire[i]
    BY Elements
  <2> QED BY <2>1 DEF Msg
<1>2. ASSUME NEW i \in 1 .. Len(queue) PROVE 0 <= queue[i].n
  <2>1. PICK x \in Cmd : x = queue[i]
    BY Elements
  <2> QED BY <2>1 DEF Cmd
<1>3. 0 <= sent["reading"]
  BY DEF TypeOK
<1> QED BY <1>1, <1>2, <1>3

LEMMA OrderDeliver ==
    ASSUME Sound, OneListener, Ordered, Deliver
    PROVE  Ordered'
<1> USE DEF Sound
<1>1. PICK m \in Msg : Taken(m)
  BY DeliverTakes
<1>2. /\ queue' = queue /\ shown' = shown /\ sent' = sent
      /\ m = Head(wire) /\ 1 \in 1 .. Len(wire) /\ wire[1] = m /\ m.n \in Nat \ {0}
  BY <1>1 DEF Deliver, Taken, Msg
<1>3. \A i \in 1 .. Len(wire') : i + 1 \in 1 .. Len(wire) /\ 1 < i + 1 /\ wire'[i] = wire[i + 1]
  BY <1>1 DEF Taken
<1>4. OneQueued'
  BY <1>2 DEF Ordered, OneQueued, Reading
<1>5. WireOrder'
  <2>1. ASSUME NEW i \in 1 .. Len(wire'), Reading(wire'[i]), NEW j \in 1 .. Len(wire'), Reading(wire'[j]), i < j
        PROVE  wire'[i].n <= wire'[j].n
    <3>1. i + 1 < j + 1
      BY <2>1
    <3> QED BY <1>3, <2>1, <3>1 DEF Ordered, WireOrder
  <2>2. ASSUME NEW i \in 1 .. Len(wire'), Reading(wire'[i]), NEW j \in 1 .. Len(queue), Reading(queue[j])
        PROVE  wire'[i].n <= queue[j].n
    BY <1>3, <2>2 DEF Ordered, WireOrder
  <2> QED BY <1>2, <2>1, <2>2 DEF WireOrder, Reading
<1>6. ASSUME NEW n \in Nat, NotNewer(n) PROVE NotNewer(n)'
  BY <1>2, <1>3, <1>6 DEF NotNewer, Reading
<1>7. ASSUME Reading(m), NEW i \in 1 .. Len(wire'), Reading(wire'[i]) PROVE m.n <= wire'[i].n
  BY <1>2, <1>3, <1>7 DEF Ordered, WireOrder
<1>8. ASSUME Reading(m) PROVE NotNewer(m.n)'
  <2>1. m.n <= sent["reading"]
    BY <1>2, <1>8 DEF Published, NumberOf
  <2>2. \A i \in 1 .. Len(queue) : Reading(queue[i]) => m.n <= queue[i].n
    BY <1>2, <1>8 DEF Ordered, WireOrder
  <2> QED BY <1>2, <1>7, <1>8, <2>1, <2>2 DEF NotNewer, Reading
<1>9. (\A r \in Rooms : buffer[r] \in Nat) /\ (\A c \in Clients : shown[c] \in Nat)
  BY DEF TypeOK
<1>10. Alert(m) => buffer' = buffer
  BY <1>2 DEF Deliver, Alert
<1>11. \/ buffer' = buffer
       \/ /\ Reading(m)
          /\ \A r \in Rooms : buffer'[r] = IF r \in RoomsFed(m) THEN m.n ELSE buffer[r]
  BY <1>2 DEF Deliver, Buffer, Reading
<1>12. ASSUME m.chan = "tenant", m.kind = "pmessage" PROVE \A r \in Rooms : buffer'[r] = m.n
  <2>1. buffer' = Buffer(buffer, Rooms, m.n)
    BY <1>2, <1>12, HeardOnce DEF Deliver, RoomsFed
  <2> QED BY <2>1 DEF Buffer
<1>13. NothingOlder'
  <2>1. ASSUME NEW c \in Clients PROVE \E n \in Nat : n = shown'[c] /\ NotNewer(n)'
    BY <1>2, <1>6, <1>9 DEF Ordered, NothingOlder
  <2>2. ASSUME NEW r \in Rooms PROVE \E n \in Nat : n = buffer'[r] /\ NotNewer(n)'
    <3>1. PICK n \in Nat : n = buffer[r]
      BY <1>9
    <3>2. NotNewer(n)'
      BY <1>6, <3>1 DEF Ordered, NothingOlder
    <3> QED BY <1>2, <1>8, <1>11, <3>1, <3>2
  <2> QED BY <2>1, <2>2 DEF NothingOlder, NotNewer
<1>14. ASSUME Reading(m), buffer' # buffer
       PROVE  \A r \in Rooms : buffer'[r] \in {0, m.n}
  <2>1. CASE RoomsFed(m) = Rooms
    BY <1>11, <1>14, <2>1
  <2>2. CASE RoomsFed(m) # Rooms
    <3>1. wire[1].chan = "sensor" /\ 1 - 1 = 0
      BY <1>2, <2>2 DEF RoomsFed
    <3>2. Fed(m.n, 0)
      BY <1>2, <3>1 DEF Ordered, BothFed
    <3>3. \A r \in Rooms : buffer[r] \in {0, m.n}
      BY <3>2 DEF Fed
    <3> QED BY <1>11, <1>14, <3>3
  <2> QED BY <2>1, <2>2
<1>15. BufferOrder'
  <2>1. CASE buffer' = buffer
    BY <1>2, <2>1 DEF Ordered, BufferOrder
  <2>2. CASE buffer' # buffer
    <3>1. Reading(m)
      BY <1>11, <2>2
    <3>2. \A c \in Clients : shown[c] <= m.n
      BY <1>2, <3>1 DEF Ordered, NothingOlder, NotNewer
    <3> QED BY <1>2, <1>14, <2>2, <3>1, <3>2 DEF BufferOrder
  <2> QED BY <2>1, <2>2
<1>16. ASSUME NEW n \in Nat, NEW k \in 1 .. Len(wire), Fed(n, k),
              \A j \in 1 .. k : Reading(wire[j]) => wire[j].n <= n
       PROVE  Fed(n, k - 1)'
  <2>0. /\ \A j \in 1 .. k - 1 : j + 1 \in 1 .. k /\ j \in 1 .. Len(wire') /\ wire'[j] = wire[j + 1]
        /\ \A j \in 2 .. k : j - 1 \in 1 .. k - 1 /\ (j - 1) + 1 = j
        /\ 1 \in 1 .. k
    BY <1>1 DEF Taken
  <2>1. CASE \E j \in 2 .. k : wire[j].chan = "tenant" /\ wire[j].kind = "pmessage" /\ wire[j].n = n
    <3>1. PICK j \in 2 .. k : wire[j].chan = "tenant" /\ wire[j].kind = "pmessage" /\ wire[j].n = n
      BY <2>1
    <3>2. j - 1 \in 1 .. k - 1 /\ wire'[j - 1] = wire[j]
      BY <2>0
    <3> QED BY <3>1, <3>2 DEF Fed
  <2>2. CASE m.chan = "tenant" /\ m.kind = "pmessage" /\ m.n = n
    <3>1. \A r \in Rooms : buffer'[r] = n
      BY <1>12, <2>2
    <3>2. ASSUME NEW j \in 1 .. k - 1, Reading(wire'[j]) PROVE wire'[j].n = n
      <4>1. n <= wire'[j].n
        BY <1>7, <2>0, <2>2, <3>2 DEF Reading
      <4>2. wire'[j].n <= n
        BY <1>16, <2>0, <3>2
      <4>3. PICK x \in Msg : x = wire'[j]
        BY <2>0, Elements, <1>3
      <4> QED BY <4>1, <4>2, <4>3 DEF Msg
    <3> QED BY <3>1, <3>2 DEF Fed, Reading
  <2>3. CASE /\ \A r \in Rooms : buffer[r] \in {0, n}
             /\ \A j \in 1 .. k : Reading(wire[j]) => wire[j].n = n
    <3>1. Reading(m) => m.n = n
      BY <1>2, <2>0, <2>3
    <3>2. \A r \in Rooms : buffer'[r] \in {0, n}
      BY <1>14, <2>3, <3>1, <1>11
    <3>3. \A j \in 1 .. k - 1 : Reading(wire'[j]) => wire'[j].n = n
      BY <2>0, <2>3
    <3> QED BY <3>2, <3>3 DEF Fed, Reading
  <2>4. \/ \E j \in 2 .. k : wire[j].chan = "tenant" /\ wire[j].kind = "pmessage" /\ wire[j].n = n
        \/ m.chan = "tenant" /\ m.kind = "pmessage" /\ m.n = n
        \/ /\ \A r \in Rooms : buffer[r] \in {0, n}
           /\ \A j \in 1 .. k : Reading(wire[j]) => wire[j].n = n
    BY <1>2, <1>16 DEF Fed
  <2> QED BY <2>1, <2>2, <2>3, <2>4
<1>17. BothFed'
  <2>1. ASSUME NEW i \in 1 .. Len(wire'), wire'[i].chan = "sensor"
        PROVE  \E n : n = wire'[i].n /\ Fed(n, i - 1)'
    <3>1. i + 1 \in 1 .. Len(wire) /\ i \in 1 .. Len(wire) /\ wire'[i] = wire[i + 1] /\ (i + 1) - 1 = i
      BY <1>3
    <3>2. PICK n \in Nat : n = wire[i + 1].n
      BY <3>1, Elements DEF Msg
    <3>3. Fed(n, i)
      BY <2>1, <3>1, <3>2 DEF Ordered, BothFed
    <3>4. \A j \in 1 .. i : Reading(wire[j]) => wire[j].n <= n
      <4>1. \A j \in 1 .. i : j \in 1 .. Len(wire) /\ j < i + 1
        BY <3>1
      <4> QED BY <2>1, <3>1, <3>2, <4>1 DEF Ordered, WireOrder, Reading
    <3>5. Fed(n, i - 1)'
      BY <1>16, <3>1, <3>3, <3>4
    <3> QED BY <3>1, <3>2, <3>5
  <2>2. PICK k \in 1 .. Len(wire) : k = Len(wire) /\ k - 1 = Len(wire')
    BY <1>1 DEF Taken
  <2>3. ASSUME NEW i \in 1 .. Len(queue), queue[i].chan = "sensor"
        PROVE  \E n : n = queue[i].n /\ Fed(n, k - 1)'
    <3>1. PICK n \in Nat : n = queue[i].n
      BY Elements DEF Cmd
    <3>2. Fed(n, k)
      BY <2>2, <2>3, <3>1 DEF Ordered, BothFed
    <3>3. \A j \in 1 .. k : Reading(wire[j]) => wire[j].n <= n
      BY <2>2, <2>3, <3>1 DEF Ordered, WireOrder, Reading
    <3>4. Fed(n, k - 1)'
      BY <1>16, <3>2, <3>3
    <3> QED BY <3>1, <3>4
  <2>4. PICK l : l = Len(wire') /\ k - 1 = l
    BY <2>2
  <2>5. ASSUME NEW i \in 1 .. Len(queue), queue[i].chan = "sensor"
        PROVE  \E n : n = queue[i].n /\ Fed(n, l)'
    BY <2>3, <2>4, <2>5
  <2>6. ASSUME NEW i \in 1 .. Len(wire'), wire'[i].chan = "sensor" PROVE Fed(wire[i].n, i - 1)'
    <3>1. PICK n : n = wire'[i].n /\ Fed(n, i - 1)'
      BY <2>1, <2>6
    <3> QED BY <3>1 DEF Fed
  <2>7. ASSUME NEW i \in 1 .. Len(queue), queue[i].chan = "sensor" PROVE Fed(queue[i].n, Len(wire))'
    <3>1. PICK n : n = queue[i].n /\ Fed(n, l)'
      BY <2>5, <2>7
    <3> QED BY <1>2, <2>4, <3>1 DEF Fed
  <2> QED BY <1>2, <2>6, <2>7 DEF BothFed
<1> QED BY <1>4, <1>5, <1>13, <1>15, <1>17 DEF Ordered

LEMMA OrderFlush ==
    ASSUME Sound, Ordered, Flush
    PROVE  Ordered'
<1> USE DEF Sound
<1>1. UNCHANGED <<sent, queue, wire>> /\ \A r \in Rooms : buffer'[r] = 0
  BY DEF Flush
<1>2. ASSUME NEW c \in Clients PROVE shown'[c] = shown[c] \/ \E r \in Rooms : shown'[c] = buffer[r]
  <2> DEFINE mine == {r \in Rooms : InRoom(c, r) /\ buffer[r] > 0}
  <2>1. PICK last \in Rooms :
          shown'[c] = IF mine = {} THEN shown[c]
                      ELSE buffer[IF last \in mine THEN last ELSE CHOOSE r \in mine : TRUE]
    BY DEF Flush
  <2> QED BY <2>1
<1>3. OneQueued' /\ WireOrder'
  BY <1>1 DEF Ordered, OneQueued, WireOrder, Reading
<1>4. NothingOlder'
  <2>1. ASSUME NEW c \in Clients PROVE \E n : n = shown'[c] /\ NotNewer(n)
    BY <1>2 DEF Ordered, NothingOlder
  <2>2. ASSUME NEW n, NotNewer(n) PROVE NotNewer(n)'
    BY <1>1, <2>2 DEF NotNewer, Reading
  <2>3. ASSUME NEW c \in Clients PROVE \E n : n = shown'[c] /\ NotNewer(n)'
    BY <2>1, <2>2
  <2>4. NotNewer(0)'
    <3>1. /\ \A i \in 1 .. Len(wire) : 0 <= wire[i].n
          /\ \A i \in 1 .. Len(queue) : 0 <= queue[i].n
          /\ 0 <= sent["reading"]
      BY NumbersNat
    <3> QED BY <1>1, <3>1 DEF NotNewer
  <2>5. ASSUME NEW r \in Rooms PROVE \E n : n = buffer'[r] /\ NotNewer(n)'
    BY <1>1, <2>4
  <2> QED BY <2>3, <2>5 DEF NothingOlder, NotNewer
<1>5. BothFed'
  <2>1. ASSUME NEW n, NEW k, Fed(n, k) PROVE Fed(n, k)'
    BY <1>1, <2>1 DEF Fed, Reading
  <2>2. ASSUME NEW i \in 1 .. Len(wire), wire[i].chan = "sensor" PROVE \E n : n = wire[i].n /\ Fed(n, i - 1)'
    BY <2>1, <2>2 DEF Ordered, BothFed
  <2>3. PICK k : k = Len(wire)
    OBVIOUS
  <2>4. ASSUME NEW i \in 1 .. Len(queue), queue[i].chan = "sensor" PROVE \E n : n = queue[i].n /\ Fed(n, k)'
    BY <2>1, <2>3, <2>4 DEF Ordered, BothFed
  <2> QED BY <1>1, <2>2, <2>3, <2>4 DEF BothFed, Fed
<1>6. BufferOrder'
  BY <1>1 DEF BufferOrder
<1> QED BY <1>3, <1>4, <1>5, <1>6 DEF Ordered

(* Clients that connect, subscribe and leave.                              *)
LEMMA OrderRest ==
    ASSUME Sound, Ordered, UNCHANGED <<sent, queue, wire, buffer>>,
           \A c \in Clients : shown'[c] \in {0, shown[c]}
    PROVE  Ordered'
<1> USE DEF Sound
<1>1. (\A r \in Rooms : buffer[r] \in Nat) /\ (\A c \in Clients : shown[c] \in Nat)
  BY DEF TypeOK
<1>2. OneQueued' /\ WireOrder' /\ BothFed'
  BY DEF Ordered, OneQueued, WireOrder, BothFed, Fed, Reading
<1>3. BufferOrder'
  BY <1>1 DEF Ordered, BufferOrder
<1>4. NothingOlder'
  <2>1. ASSUME NEW n \in Nat, NotNewer(n) PROVE NotNewer(n)'
    BY <2>1 DEF NotNewer, Reading
  <2>2. NotNewer(0)
    <3>1. /\ \A i \in 1 .. Len(wire) : 0 <= wire[i].n
          /\ \A i \in 1 .. Len(queue) : 0 <= queue[i].n
          /\ 0 <= sent["reading"]
      BY NumbersNat
    <3> QED BY <3>1 DEF NotNewer
  <2>3. ASSUME NEW c \in Clients PROVE \E n \in Nat : n = shown'[c] /\ NotNewer(n)'
    BY <1>1, <2>1, <2>2 DEF Ordered, NothingOlder
  <2>4. ASSUME NEW r \in Rooms PROVE \E n \in Nat : n = buffer'[r] /\ NotNewer(n)'
    BY <1>1, <2>1 DEF Ordered, NothingOlder
  <2> QED BY <2>3, <2>4 DEF NothingOlder, NotNewer
<1> QED BY <1>2, <1>3, <1>4 DEF Ordered

LEMMA OrderNext ==
    ASSUME Sound, OneListener, OrderInv, [Next]_vars
    PROVE  OrderInv'
<1> USE DEF Sound
<1> SUFFICES ASSUME ~overlapped', faults' = 0 PROVE Ordered'
  BY DEF OrderInv
<1>1. faults \in Nat
  BY DEF TypeOK
<1>2. ~Fault
  BY <1>1 DEF Fault
<1>3. ~LosePublish /\ ~LoseWire /\ ~Restart /\ \A k \in Keys : ~LoseSubscribe(k)
  BY <1>2 DEF LosePublish, LoseWire, Restart, LoseSubscribe
<1>4. Next \/ UNCHANGED vars
  OBVIOUS
<1>5. faults' = faults /\ (overlapped => overlapped')
  <2>1. CASE UNCHANGED <<overlapped, faults>>
    BY <2>1
  <2>2. CASE PublishReading
    BY <2>2 DEF PublishReading
  <2> QED BY <1>3, <1>4, <2>1, <2>2
    DEF Next, vars, PublishAlert, Publish, Deliver, Flush, Connect, Disconnect, Subscribe, Unsubscribe, Attach
<1>6. Ordered
  BY <1>5 DEF OrderInv
<1>7. CASE PublishReading
  BY <1>6, <1>7, OrderReading
<1>8. CASE PublishAlert
  BY <1>6, <1>8, OrderAlert
<1>9. CASE Publish
  BY <1>6, <1>9, OrderPublish
<1>10. CASE Deliver
  BY <1>6, <1>10, OrderDeliver
<1>11. CASE Flush
  BY <1>6, <1>11, OrderFlush
<1>12. CASE UNCHANGED <<sent, queue, wire, buffer, shown>>
  BY <1>6, <1>12, OrderRest
<1>13. CASE \E c \in Clients : Disconnect(c)
  <2>1. UNCHANGED <<sent, queue, wire, buffer>> /\ \A c \in Clients : shown'[c] \in {0, shown[c]}
    BY <1>13 DEF Disconnect, Forget
  <2> QED BY <1>6, <2>1, OrderRest
<1> QED BY <1>3, <1>4, <1>7, <1>8, <1>9, <1>10, <1>11, <1>12, <1>13
    DEF Next, vars, Connect, Subscribe, Unsubscribe, Attach

(* While nothing is lost and no two readings overlap on their way out, no  *)
(* flush has anything for a client that is older than what it shows, or    *)
(* two readings at once: the four copies of a reading, on two channels,    *)
(* never overtake each other.                                              *)
THEOREM InOrderCorrect == Spec => []InOrder
<1> DEFINE Inv == OneListener /\ OrderInv
<1>1. Init => Inv
  <2> SUFFICES ASSUME Init PROVE Inv
    OBVIOUS
  <2>1. OneListener
    BY DEF Init, OneListener
  <2>2. Len(queue) = 0 /\ Len(wire) = 0
    BY EmptySeq DEF Init
  <2>3. OneQueued /\ WireOrder /\ NothingOlder /\ BothFed /\ BufferOrder
    BY <2>2 DEF Init, OneQueued, WireOrder, NothingOlder, NotNewer, BothFed, BufferOrder
  <2> QED BY <2>1, <2>3 DEF OrderInv, Ordered
<1>2. Sound /\ Inv /\ [Next]_vars => Inv'
  BY ListenerNext, OrderNext DEF Sound
<1>3. Sound /\ Inv => InOrder
  <2> SUFFICES ASSUME Sound, Inv, ~overlapped, faults = 0,
                      NEW c \in Clients, NEW r \in Rooms, NEW q \in Rooms, buffer[r] > 0
               PROVE  buffer[r] >= shown[c] /\ buffer[q] \in {0, buffer[r]}
    BY DEF InOrder
  <2>1. shown[c] <= buffer[r] /\ buffer[q] \in {0, buffer[r]}
    BY DEF OrderInv, Ordered, BufferOrder
  <2>2. shown[c] \in Nat /\ buffer[r] \in Nat
    BY DEF Sound, TypeOK
  <2> QED BY <2>1, <2>2
<1> QED BY <1>1, <1>2, <1>3, AlwaysSound, PTL DEF Spec

=============================================================================
